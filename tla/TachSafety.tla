----------------------------- MODULE TachSafety -----------------------------
(***************************************************************************)
(* tach_monitor.c and tach_actions.c: the sampling task raises a fault for *)
(* a fan, the action task carries out the configured response, and a CLEAR *)
(* of the command task ends the fault.  The three share the critical       *)
(* section of s_state_lock (the alarms), the one of s_tach_pending_lock    *)
(* (one pending event per fan) and s_tach_action_mutex, which serialises   *)
(* the response with CLEAR.                                                *)
(*                                                                         *)
(* A sample is what the judgement makes of pulses, grace period and motor  *)
(* snapshot: calm, low or invalid.  Debounce and timeout run from the      *)
(* first bad sample; whether they have elapsed at a later one is a free    *)
(* choice.  Percentages are on or off.  motor_control, scheduler, store    *)
(* and the stop of safety_supervisor are present by what the calls do to   *)
(* targets, inhibits, active slots and flash; each may fail.               *)
(***************************************************************************)
EXTENDS Naturals

CONSTANTS
  FanCount,    \* s_app_config->fan_count
  Actions,     \* stall actions of the configurations considered
  Nobody,      \* owner of a free mutex
  MaxFaults,   \* bound on faults
  MaxCalls,    \* bound on commands and on scheduled starts
  MaxFailures  \* bound on failing RMT calls and flash writes

ASSUME TachAssumption ==
  /\ FanCount \in Nat \ {0}
  /\ Actions \subseteq {"alarm", "fan", "all"}
  /\ Nobody \notin {"worker", "dispatcher"}
  /\ MaxFaults \in Nat /\ MaxCalls \in Nat /\ MaxFailures \in Nat

VARIABLES
  action,     \* configured_stall_action, fixed when the program is built
  alarm, latched, generation,  \* by fan: stall_alarm, stall_latched, fault_generation
  stalled, invalid,            \* by fan: stall_since_us, invalid_since_us are set
  mon,        \* sampling task: where it is, the fan, the sample, the generation raised
  pending,    \* s_pending_tach_actions: generation of the event; 0: none
  bits,       \* notification value of the action task
  mutex,      \* s_tach_action_mutex
  worker, todo, event,  \* action task: where it is, fans left to look at, event it took
  stop,       \* the supervisor's stop it waits for: the inhibit, a step has failed
  disp, clearFan,       \* command task: where it is, the fan it clears
  inhibited, global,    \* tach_inhibited by fan, the global inhibit
  manual, target, running,  \* by fan: manual target, target, output past the grace period
  slot,       \* by fan: "none", or the manual target an active schedule entry saved
  op,         \* by fan: "none", or the same for a start that holds the reservation
  schedOff,   \* the schedule is inhibited
  nvs,        \* by fan: manual target in flash
  faults, calls, failures  \* bounds

alarmVars == <<alarm, latched, generation, stalled, invalid>>
eventVars == <<pending, bits>>
workerVars == <<worker, todo, event, stop>>
motorVars == <<inhibited, global, manual, target, running>>
schedVars == <<slot, op, schedOff>>
boundVars == <<faults, calls, failures>>
vars == <<action, alarmVars, mon, eventVars, mutex, workerVars, disp, clearFan,
          motorVars, schedVars, nvs, boundVars>>

Fans == 0..(FanCount - 1)
Off == [f \in Fans |-> FALSE]
None == [f \in Fans |-> "none"]

\* Locals out of use have one value.
Reading(f) == [at |-> "read", fan |-> f, sample |-> "calm", gen |-> 0]
NoEvent == [fan |-> 0, gen |-> 0]
NoStop == [inhibit |-> "tach", failed |-> FALSE]

Init ==
  /\ action \in Actions
  /\ alarm = Off /\ latched = Off /\ generation = [f \in Fans |-> 0]
  /\ stalled = Off /\ invalid = Off
  /\ mon = Reading(0)
  /\ pending = [f \in Fans |-> 0] /\ bits = {} /\ mutex = Nobody
  /\ worker = "wait" /\ todo = {} /\ event = NoEvent
  /\ stop = NoStop
  /\ disp = "idle" /\ clearFan = 0
  /\ inhibited = Off /\ global = FALSE
  /\ manual = Off /\ target = Off /\ running = Off
  /\ slot = None /\ op = None /\ schedOff = FALSE /\ nvs = Off
  /\ faults = 0 /\ calls = 0 /\ failures = 0

-----------------------------------------------------------------------------
(* Sampling task.                                                          *)

\* Pulse count and motor snapshot, read before the lock: only an output that is
\* on and past its grace period is judged.
ReadSample ==
  /\ mon.at = "read"
  /\ \E s \in IF running[mon.fan] THEN {"calm", "low", "invalid"} ELSE {"calm"} :
       mon' = [mon EXCEPT !.at = "judge", !.sample = s]
  /\ UNCHANGED <<action, alarmVars, eventVars, mutex, workerVars, disp, clearFan,
                 motorVars, schedVars, nvs, boundVars>>

NextFan(f) == (f + 1) % FanCount
Sampled == mon' = Reading(NextFan(mon.fan))

\* Fans latched by a fault of fan f.
Latches(f) == CASE action = "all" -> Fans [] action = "fan" -> {f} [] OTHER -> {}

\* A healthy or unmonitored sample ends both timers, and an alarm that is not
\* latched.
JudgeCalm(f) ==
  /\ mon.sample = "calm"
  /\ stalled' = [stalled EXCEPT ![f] = FALSE]
  /\ invalid' = [invalid EXCEPT ![f] = FALSE]
  /\ alarm' = [alarm EXCEPT ![f] = @ /\ latched[f]]
  /\ Sampled
  /\ UNCHANGED <<latched, generation, faults>>

StartTimers(f) ==
  /\ invalid' = [invalid EXCEPT ![f] = mon.sample = "invalid"]
  /\ stalled' = [stalled EXCEPT ![f] = @ \/ mon.sample = "low"]

\* A bad sample that raises no fault: not for long enough, or the alarm is on.
JudgeSuspect(f) ==
  /\ mon.sample # "calm"
  /\ StartTimers(f) /\ Sampled
  /\ UNCHANGED <<alarm, latched, generation, faults>>

\* Time since the first bad sample, which need not have been of the same kind.
Elapsed(f) == IF mon.sample = "invalid" THEN invalid[f] ELSE stalled[f]

JudgeFault(f) ==
  /\ mon.sample # "calm" /\ ~alarm[f] /\ Elapsed(f)
  /\ faults < MaxFaults /\ faults' = faults + 1
  /\ StartTimers(f)
  /\ alarm' = [alarm EXCEPT ![f] = TRUE]
  /\ latched' = [g \in Fans |-> latched[g] \/ g \in Latches(f)]
  /\ generation' = [generation EXCEPT ![f] = @ + 1]
  /\ mon' = [mon EXCEPT !.at = "queue", !.gen = generation'[f]]

Judge ==
  /\ mon.at = "judge"
  /\ \E f \in {mon.fan} : JudgeCalm(f) \/ JudgeSuspect(f) \/ JudgeFault(f)
  /\ UNCHANGED <<action, eventVars, mutex, workerVars, disp, clearFan, motorVars,
                 schedVars, nvs, calls, failures>>

\* Faulty variant: an event that is still pending is not overwritten.
KeepOldest ==
  /\ mon.at = "queue"
  /\ pending' = [pending EXCEPT ![mon.fan] = IF @ = 0 THEN mon.gen ELSE @]
  /\ mon' = [mon EXCEPT !.at = "notify"]
  /\ UNCHANGED <<action, alarmVars, bits, mutex, workerVars, disp, clearFan,
                 motorVars, schedVars, nvs, boundVars>>

\* The callback, outside the lock: the newest event replaces a pending one.
QueueEvent ==
  /\ mon.at = "queue"
  /\ pending' = [pending EXCEPT ![mon.fan] = mon.gen]
  /\ mon' = [mon EXCEPT !.at = "notify"]
  /\ UNCHANGED <<action, alarmVars, bits, mutex, workerVars, disp, clearFan,
                 motorVars, schedVars, nvs, boundVars>>

NotifyWorker ==
  /\ mon.at = "notify"
  /\ bits' = bits \cup {mon.fan}
  /\ Sampled
  /\ UNCHANGED <<action, alarmVars, pending, mutex, workerVars, disp, clearFan,
                 motorVars, schedVars, nvs, boundVars>>

Monitor == ReadSample \/ Judge \/ QueueEvent \/ NotifyWorker

-----------------------------------------------------------------------------
(* Action task.                                                            *)

\* xTaskNotifyWait returns the notified fans and clears them.
Wake ==
  /\ worker = "wait" /\ bits # {}
  /\ todo' = bits /\ bits' = {} /\ worker' = "scan"
  /\ UNCHANGED <<pending, event, stop, mutex>>

\* Faulty variant: the notifications are cleared after the fans were looked at.
ClearBitsLate ==
  /\ worker = "scan" /\ todo = {}
  /\ bits' = {} /\ worker' = "wait"
  /\ UNCHANGED <<pending, todo, event, stop, mutex>>

ScanEnd ==
  /\ worker = "scan" /\ todo = {}
  /\ worker' = "wait"
  /\ UNCHANGED <<eventVars, todo, event, stop, mutex>>

TakeEvent ==
  /\ worker = "scan"
  /\ \E f \in todo :
       /\ \A g \in todo : f <= g
       /\ todo' = todo \ {f}
       /\ pending' = [pending EXCEPT ![f] = 0]
       /\ IF pending[f] = 0
          THEN UNCHANGED <<event, worker>>
          ELSE event' = [fan |-> f, gen |-> pending[f]] /\ worker' = "lock"
  /\ UNCHANGED <<bits, stop, mutex>>

LockWorker ==
  /\ worker = "lock" /\ mutex = Nobody
  /\ mutex' = "worker" /\ worker' = "revalidate"
  /\ UNCHANGED <<eventVars, todo, event, stop>>

\* Faulty variant: no revalidation.
TakenAsCurrent == TRUE

\* tach_event_is_current: CLEAR may have overtaken the event.
Current == alarm[event.fan] /\ generation[event.fan] = event.gen

\* Faulty variant: the mutex is not given back on this way out.
DiscardLocked ==
  /\ worker = "revalidate" /\ ~Current
  /\ worker' = "scan" /\ event' = NoEvent
  /\ UNCHANGED <<eventVars, todo, stop, mutex>>

Discard ==
  /\ worker = "revalidate" /\ ~Current
  /\ worker' = "scan" /\ event' = NoEvent /\ mutex' = Nobody
  /\ UNCHANGED <<eventVars, todo, stop>>

\* Stop one fan, stop all, or only publish the alarm.
Dispatch ==
  /\ worker = "revalidate" /\ Current
  /\ worker' = CASE action = "fan" -> "inhibit" [] action = "all" -> "stop" [] OTHER -> "give"
  /\ UNCHANGED <<eventVars, todo, event, stop, mutex>>

Give ==
  /\ worker = "give"
  /\ worker' = "scan" /\ event' = NoEvent /\ stop' = NoStop /\ mutex' = Nobody
  /\ UNCHANGED <<eventVars, todo>>

\* tach_escalate_to_global_stop begins.
Escalate ==
  /\ worker' = "stop"
  /\ stop' = [inhibit |-> "global", failed |-> FALSE]

GoOn(place) == worker' = place /\ UNCHANGED stop

Fail == failures < MaxFailures /\ failures' = failures + 1

WorkerLocal ==
  /\ Wake \/ ScanEnd \/ TakeEvent \/ Discard \/ Dispatch \/ Give
  /\ UNCHANGED <<action, alarmVars, mon, disp, clearFan, motorVars, schedVars, nvs,
                 boundVars>>

TakeMutex ==
  /\ LockWorker
  /\ UNCHANGED <<action, alarmVars, mon, disp, clearFan, motorVars, schedVars, nvs,
                 boundVars>>

-----------------------------------------------------------------------------
(* The response: its calls into motor_control, scheduler and store.        *)

\* motor_control_set_tach_inhibit(TRUE): the inhibit and the targets in one
\* critical section, then the output, which a failing RMT call leaves on.
InhibitFan ==
  /\ worker = "inhibit"
  /\ inhibited' = [inhibited EXCEPT ![event.fan] = TRUE]
  /\ manual' = [manual EXCEPT ![event.fan] = FALSE]
  /\ target' = [target EXCEPT ![event.fan] = FALSE]
  /\ \/ /\ running' = [running EXCEPT ![event.fan] = FALSE]
        /\ GoOn("cancel")
        /\ UNCHANGED failures
     \/ Fail /\ Escalate /\ UNCHANGED running
  /\ UNCHANGED <<global, schedVars, nvs>>

\* Faulty variant: without the reservation, a start in progress is not waited for.
CancelUnreserved ==
  /\ worker = "cancel"
  /\ slot' = [slot EXCEPT ![event.fan] = "none"]
  /\ GoOn("save")
  /\ UNCHANGED <<motorVars, op, schedOff, nvs, failures>>

\* scheduler_cancel_fan: times out while a start holds the reservation.
CancelFan ==
  /\ worker = "cancel"
  /\ \/ /\ op[event.fan] = "none"
        /\ slot' = [slot EXCEPT ![event.fan] = "none"]
        /\ GoOn("save")
     \/ op[event.fan] # "none" /\ Escalate /\ UNCHANGED slot
  /\ UNCHANGED <<motorVars, op, schedOff, nvs, failures>>

\* fan_state_store_save_sync.
SaveFan ==
  /\ worker = "save"
  /\ \/ nvs' = manual /\ GoOn("give") /\ UNCHANGED failures
     \/ Fail /\ Escalate /\ UNCHANGED nvs
  /\ UNCHANGED <<motorVars, schedVars>>

\* A stop of safety_supervisor, for all tachs or global: first the motors,
StopMotors ==
  /\ worker = "stop"
  /\ inhibited' = [f \in Fans |-> inhibited[f] \/ stop.inhibit = "tach"]
  /\ global' = (global \/ stop.inhibit = "global")
  /\ manual' = Off /\ target' = Off
  /\ \/ running' = Off /\ UNCHANGED <<stop, failures>>
     \/ /\ Fail /\ stop' = [stop EXCEPT !.failed = TRUE]
        /\ \E f \in Fans : running' = [Off EXCEPT ![f] = running[f]]
  /\ worker' = "automatic"
  /\ UNCHANGED <<schedVars, nvs>>

\* then the schedule, which must be at rest and is inhibited even if that cannot
\* be saved,
InhibitAutomatic ==
  /\ worker = "automatic"
  /\ \/ /\ op = None
        /\ slot' = None /\ schedOff' = TRUE
        /\ \/ UNCHANGED <<stop, failures>>
           \/ Fail /\ stop' = [stop EXCEPT !.failed = TRUE]
     \/ /\ op # None
        /\ stop' = [stop EXCEPT !.failed = TRUE]
        /\ UNCHANGED <<slot, schedOff, failures>>
  /\ worker' = "persist"
  /\ UNCHANGED <<motorVars, op, nvs>>

\* then flash.  A stop for all tachs that has failed anywhere is escalated; the
\* result of the escalation is only logged.
StopEnd(failed) ==
  IF failed /\ stop.inhibit = "tach" THEN Escalate ELSE GoOn("give")

Persist ==
  /\ worker = "persist"
  /\ \/ nvs' = manual /\ StopEnd(stop.failed) /\ UNCHANGED failures
     \/ Fail /\ StopEnd(TRUE) /\ UNCHANGED nvs
  /\ UNCHANGED <<motorVars, schedVars>>

Respond ==
  /\ InhibitFan \/ CancelFan \/ SaveFan \/ StopMotors \/ InhibitAutomatic \/ Persist
  /\ UNCHANGED <<action, alarmVars, mon, eventVars, mutex, todo, event, disp, clearFan,
                 faults, calls>>

-----------------------------------------------------------------------------
(* Command task: CLEAR and manual targets.                                 *)

\* tach_actions_clear_begin; a wait that expires does nothing.
ClearBegin(f) ==
  /\ disp = "idle" /\ calls < MaxCalls /\ mutex = Nobody
  /\ calls' = calls + 1
  /\ mutex' = "dispatcher" /\ disp' = "fence" /\ clearFan' = f
  /\ UNCHANGED <<alarmVars, motorVars, schedVars>>

\* The commit fence of the MQTT session, which may have ended.
ClearFence ==
  /\ disp = "fence"
  /\ disp' \in {"alarm", "end"}
  /\ UNCHANGED <<alarmVars, mutex, clearFan, motorVars, schedVars, calls>>

\* tach_monitor_clear_alarm,
ClearAlarm ==
  /\ disp = "alarm"
  /\ alarm' = [alarm EXCEPT ![clearFan] = FALSE]
  /\ latched' = [latched EXCEPT ![clearFan] = FALSE]
  /\ stalled' = [stalled EXCEPT ![clearFan] = FALSE]
  /\ invalid' = [invalid EXCEPT ![clearFan] = FALSE]
  /\ generation' = [generation EXCEPT ![clearFan] = @ + 1]
  /\ disp' = "release"
  /\ UNCHANGED <<mutex, clearFan, motorVars, schedVars, calls>>

\* then motor_control_set_tach_inhibit(FALSE),
ReleaseInhibit ==
  /\ disp = "release"
  /\ inhibited' = [inhibited EXCEPT ![clearFan] = FALSE]
  /\ disp' = "end"
  /\ UNCHANGED <<alarmVars, mutex, clearFan, global, manual, target, running, schedVars, calls>>

\* and tach_actions_clear_end.
ClearEnd ==
  /\ disp = "end"
  /\ mutex' = Nobody /\ disp' = "idle" /\ clearFan' = 0
  /\ UNCHANGED <<alarmVars, motorVars, schedVars, calls>>

Allowed(f) == ~inhibited[f] /\ ~global

\* A manual target that is accepted ends the active schedule entry of the fan.
ManualCommand(f, on) ==
  /\ disp = "idle" /\ calls < MaxCalls /\ op[f] = "none" /\ Allowed(f)
  /\ calls' = calls + 1
  /\ manual' = [manual EXCEPT ![f] = on]
  /\ target' = [target EXCEPT ![f] = on]
  /\ slot' = [slot EXCEPT ![f] = "none"]
  /\ UNCHANGED <<alarmVars, mutex, disp, clearFan, inhibited, global, running, op, schedOff>>

Clearing == ClearFence \/ ClearAlarm \/ ReleaseInhibit \/ ClearEnd

Command ==
  /\ \/ \E f \in Fans : ClearBegin(f) \/ \E on \in BOOLEAN : ManualCommand(f, on)
     \/ Clearing
  /\ UNCHANGED <<action, mon, eventVars, workerVars, nvs, faults, failures>>

-----------------------------------------------------------------------------
(* Scheduler, ramp and debounced saves.                                    *)

SavedTarget(f) == IF manual[f] THEN "on" ELSE "off"

\* process_schedule_start reserves the fan and has its target accepted,
StartEntry(f) ==
  /\ op[f] = "none" /\ slot[f] = "none" /\ ~schedOff /\ Allowed(f) /\ calls < MaxCalls
  /\ calls' = calls + 1
  /\ op' = [op EXCEPT ![f] = SavedTarget(f)]
  /\ target' = [target EXCEPT ![f] = TRUE]
  /\ UNCHANGED <<slot, running, manual, nvs>>

\* then makes the entry active.
CommitEntry(f) ==
  /\ op[f] # "none"
  /\ op' = [op EXCEPT ![f] = "none"]
  /\ slot' = [slot EXCEPT ![f] = IF schedOff THEN @ ELSE op[f]]
  /\ UNCHANGED <<target, running, manual, nvs, calls>>

\* The entry ends and restores the manual target it has saved, if allowed.
EndEntry(f) ==
  /\ op[f] = "none" /\ slot[f] # "none"
  /\ slot' = [slot EXCEPT ![f] = "none"]
  /\ target' = [target EXCEPT ![f] = IF Allowed(f) THEN slot[f] = "on" ELSE @]
  /\ UNCHANGED <<op, running, manual, nvs, calls>>

Ramp(f) ==
  /\ running[f] # target[f]
  /\ running' = [running EXCEPT ![f] = target[f]]
  /\ UNCHANGED <<slot, op, target, manual, nvs, calls>>

DebouncedSave ==
  /\ nvs # manual
  /\ nvs' = manual
  /\ UNCHANGED <<slot, op, target, running, manual, calls>>

Background ==
  /\ DebouncedSave \/ \E f \in Fans : StartEntry(f) \/ CommitEntry(f) \/ EndEntry(f) \/ Ramp(f)
  /\ UNCHANGED <<action, alarmVars, mon, eventVars, mutex, workerVars, disp, clearFan,
                 inhibited, global, schedOff, faults, failures>>

-----------------------------------------------------------------------------
Next == Monitor \/ WorkerLocal \/ TakeMutex \/ Respond \/ Command \/ Background

Spec == Init /\ [][Next]_vars

\* The sampling task and a task that has work run; nothing obliges anybody to
\* send a command or a call to fail.  The action task gets its mutex because a
\* CLEAR gives it back and FreeRTOS wakes the waiter of highest priority.
ClearStep == Clearing /\ UNCHANGED <<action, mon, eventVars, workerVars, nvs, faults, failures>>
Fairness ==
  /\ WF_vars(Monitor) /\ WF_vars(WorkerLocal) /\ WF_vars(Respond) /\ WF_vars(ClearStep)
  /\ SF_vars(TakeMutex)

FairSpec == Spec /\ Fairness

-----------------------------------------------------------------------------
(* Properties.                                                             *)

Places ==
  [mon    |-> {"read", "judge", "queue", "notify"},
   worker |-> {"wait", "scan", "lock", "revalidate", "inhibit", "cancel", "save", "stop",
               "automatic", "persist", "give"},
   disp   |-> {"idle", "fence", "alarm", "release", "end"}]

\* The mutex belongs to whoever is between taking and giving it.
Ownership ==
  /\ mutex = "worker" <=> worker \notin {"wait", "scan", "lock"}
  /\ mutex = "dispatcher" <=> disp # "idle"

AlarmTypes ==
  /\ alarm \in [Fans -> BOOLEAN] /\ latched \in [Fans -> BOOLEAN]
  /\ stalled \in [Fans -> BOOLEAN] /\ invalid \in [Fans -> BOOLEAN]
  /\ generation \in [Fans -> Nat]
  /\ mon \in [at : Places.mon, fan : Fans, sample : {"calm", "low", "invalid"}, gen : Nat]

EventTypes ==
  /\ pending \in [Fans -> Nat] /\ bits \subseteq Fans /\ todo \subseteq Fans
  /\ worker \in Places.worker /\ event \in [fan : Fans, gen : Nat]
  /\ stop \in [inhibit : {"tach", "global"}, failed : BOOLEAN]
  /\ disp \in Places.disp /\ clearFan \in Fans

OutputTypes ==
  /\ inhibited \in [Fans -> BOOLEAN] /\ global \in BOOLEAN
  /\ manual \in [Fans -> BOOLEAN] /\ target \in [Fans -> BOOLEAN]
  /\ running \in [Fans -> BOOLEAN] /\ nvs \in [Fans -> BOOLEAN]
  /\ slot \in [Fans -> {"none", "off", "on"}] /\ op \in [Fans -> {"none", "off", "on"}]
  /\ schedOff \in BOOLEAN

CountTypes ==
  /\ action \in Actions /\ mutex \in {"worker", "dispatcher", Nobody}
  /\ faults \in 0..MaxFaults /\ calls \in 0..MaxCalls /\ failures \in 0..MaxFailures

\* Types, and the ownership of s_tach_action_mutex on every way out of the
\* response and of CLEAR.
TypeOK == AlarmTypes /\ EventTypes /\ OutputTypes /\ CountTypes /\ Ownership

\* The fault of fan f still has a response to come: the monitor is about to hand
\* it over, it is pending and the worker will look, or the worker is at it.
Outstanding(f) ==
  \/ mon.at = "queue" /\ mon.fan = f /\ mon.gen = generation[f]
  \/ /\ pending[f] = generation[f]
     /\ f \in bits \cup todo \/ (mon.at = "notify" /\ mon.fan = f)
  \/ /\ event = [fan |-> f, gen |-> generation[f]]
     /\ worker \notin {"wait", "scan", "give"}

\* The fan is off for good: inhibited, with no schedule entry that could bring an
\* older target back and none in flash; or everything is inhibited.
Settled(f) == global \/ (inhibited[f] /\ slot[f] = "none" /\ ~nvs[f])

\* A fault that the configuration answers with a stop is being answered or has
\* been, until it is cleared: no event is lost or overwritten unanswered, and no
\* response is left half done.
FaultIsServed ==
  \A f \in Fans : alarm[f] /\ action # "alarm" => Outstanding(f) \/ Settled(f)

\* A response never outlives its fault: no fan becomes inhibited for a fault that
\* has been cleared (comment at tach_actions.c:160).
NewlyInhibited(f) == ~inhibited[f] /\ inhibited'[f]
StopsForAnAlarm ==
  \A f \in Fans :
    NewlyInhibited(f) => \E g \in Fans : alarm[g] /\ (action = "fan" => g = f)
StaleStopLatchesNothing == [][StopsForAnAlarm]_vars

\* A confirmed fault stops its fan, unless it is cleared.
FaultStops ==
  \A f \in Fans :
    alarm[f] /\ action # "alarm" ~> inhibited[f] \/ global \/ ~alarm[f]

=============================================================================
