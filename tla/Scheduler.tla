------------------------------ MODULE Scheduler ------------------------------
(***************************************************************************)
(* scheduler.c: the repeating entries of each fan and the reservation      *)
(* (operation_pending) under which every operation changes them.  s_mutex  *)
(* is held for one step at a time and never over the call that applies a   *)
(* target, so the task, the dispatcher, the tach worker and a stop         *)
(* interleave between the reservation, the target and the commit.          *)
(*                                                                         *)
(* Time is kept as the two comparisons made of it: a trigger, or an end,   *)
(* has been reached by the time the task reads its clock, once for each    *)
(* pass.  Intervals and durations are thereby arbitrary.  An enabled entry *)
(* is always armed.                                                        *)
(* The flash writes that operations ask for are SyncSave; the motor calls  *)
(* appear by what they accept and do to the two stored targets.            *)
(***************************************************************************)
EXTENDS Integers

CONSTANTS
  FanCount, SlotCount,  \* fan_count, CONFIG_SCHEDULE_SLOTS
  ManualTargets,        \* the targets that commands ask for
  EntryTargets,         \* the targets that entries are configured with
  Restored,             \* the stored targets that fan_state_store_restore may find
  Loaded,               \* the entries that load_from_nvs may find enabled
  StopKinds,            \* of "PLAIN", "GLOBAL", "COMMUNICATION"
  MaxCommands,          \* bound on commands
  MaxStops              \* bound on stops and tachometer faults

Fans == 0..(FanCount - 1)
Slots == 0..(SlotCount - 1)
NoSlot == -1

ASSUME SchedulerAssumption ==
  /\ FanCount \in Nat \ {0} /\ SlotCount \in Nat \ {0}
  /\ ManualTargets \subseteq Nat /\ EntryTargets \subseteq Nat
  /\ Restored \subseteq [Fans -> Nat]
  /\ Loaded \subseteq SUBSET (Fans \X Slots)
  /\ StopKinds \subseteq {"PLAIN", "GLOBAL", "COMMUNICATION"}
  /\ MaxCommands \in Nat /\ MaxStops \in Nat

VARIABLES
  enabled, goal, due,   \* each entry: enabled, target_pct, next_trigger_us reached
  slot, over, saved,    \* each fan: active_slot, active_end_us reached, saved_manual_target
  cursor,               \* each fan: the slot that is looked at first
  pending,              \* each fan: operation_pending
  inhibited, latched,   \* s_inhibited, s_runtime_inhibit_latched
  target, manual,       \* motor_control: the requested and the stored manual target
  source,               \* history: what the requested target comes from
  tachHeld,             \* motor_control: tach_inhibited of each fan
  commHeld, globalHeld, \* motor_control: s_communication_inhibited, s_global_inhibited
  task,                 \* scheduler task: position, fan, slot, target
  op,                   \* dispatcher: position and arguments of the operation
  fault,                \* tach worker: position and fan
  stop,                 \* the stop transaction: position, kind, clear, failed
  missed,               \* history: a communication stop gave up waiting for a fan
  commands, stops       \* bounds

entryVars == <<enabled, goal, due>>
fanVars == <<slot, over, saved, cursor>>
inhibitVars == <<inhibited, latched>>
motorVars == <<target, manual, source, tachHeld, commHeld, globalHeld>>
historyVars == <<missed>>
boundVars == <<commands, stops>>
vars == <<entryVars, fanVars, pending, inhibitVars, motorVars, task, op, fault, stop,
          historyVars, boundVars>>

Asleep == [at |-> "sleep", fan |-> 0, slot |-> 0, value |-> 0, ok |-> FALSE]
NoOp == [at |-> "idle", fan |-> 0, slot |-> 0, value |-> 0, ok |-> FALSE,
         on |-> FALSE, todo |-> {}]
NoFault == [at |-> "idle", fan |-> 0]
NoStop == [at |-> "idle", kind |-> "PLAIN", clear |-> FALSE, failed |-> FALSE]

\* scheduler_init has loaded the entries, and the inhibit, before any task runs;
\* the stored manual targets have been restored, or are zero.
Init ==
  /\ \E found \in Loaded :
       enabled = [f \in Fans |-> [s \in Slots |-> <<f, s>> \in found]]
  /\ goal \in [Fans -> {[s \in Slots |-> g] : g \in EntryTargets}]
  /\ due = [f \in Fans |-> [s \in Slots |-> FALSE]]
  /\ slot = [f \in Fans |-> NoSlot] /\ over = [f \in Fans |-> FALSE]
  /\ saved = [f \in Fans |-> 0] /\ cursor = [f \in Fans |-> 0]
  /\ pending = [f \in Fans |-> FALSE]
  /\ inhibited \in BOOLEAN /\ latched = FALSE
  /\ manual \in Restored /\ target = manual
  /\ source = [f \in Fans |-> "none"]
  /\ tachHeld = [f \in Fans |-> FALSE] /\ commHeld = FALSE /\ globalHeld = FALSE
  /\ task = Asleep /\ op = NoOp /\ fault = NoFault /\ stop = NoStop
  /\ missed = FALSE
  /\ commands = 0 /\ stops = 0

-----------------------------------------------------------------------------
(* Requests to motor_control.c, made without any lock of the scheduler.    *)
Maintained == stop.kind = "PLAIN" /\ stop.at \in {"inhibit", "finish"}

ManualAllowed(f) == ~globalHeld /\ ~Maintained /\ ~tachHeld[f]

AutomaticAllowed(f) == ManualAllowed(f) /\ ~commHeld

\* The request of fan f is granted, or refused for an inhibit.
Request(f, granted, value, kind) ==
  /\ target' = IF granted THEN [target EXCEPT ![f] = value] ELSE target
  /\ source' = IF granted THEN [source EXCEPT ![f] = kind] ELSE source

\* SCHEDULER_TARGET_RESTORE
Restore(f, value) ==
  /\ Request(f, AutomaticAllowed(f), value, "restore")
  /\ UNCHANGED <<manual, tachHeld, commHeld, globalHeld>>

-----------------------------------------------------------------------------
(* The reservation of a fan                                                *)
\* reserve_fan_operation
Reserve(f) ==
  /\ ~pending[f]
  /\ pending' = [pending EXCEPT ![f] = TRUE]

\* The wait for f is over: somebody kept it for SCHEDULER_OPERATION_WAIT_MS.
GivesUp(f) == pending[f]

\* Faulty variant: the fan that could not be had is released as well.
WalkedTo(n) == {f \in Fans : f <= n}

\* The fans that a walk has reserved before fan n.
WalkedBefore(n) == {f \in Fans : f < n}

Release(held) == pending' = [f \in Fans |-> pending[f] /\ f \notin held]

EndSlots(ended) ==
  /\ slot' = [f \in Fans |-> IF f \in ended THEN NoSlot ELSE slot[f]]
  /\ over' = [f \in Fans |-> over[f] /\ f \notin ended]
  /\ UNCHANGED <<saved, cursor>>

-----------------------------------------------------------------------------
(* Time                                                                    *)
\* A trigger is reached: it counts from the next reading of the clock on.
Trigger(f, s) ==
  /\ task.at = "sleep"
  /\ enabled[f][s] /\ ~due[f][s]
  /\ due' = [due EXCEPT ![f][s] = TRUE]
  /\ UNCHANGED <<enabled, goal, fanVars, pending, inhibitVars, motorVars, task, op, fault,
                 stop, historyVars, boundVars>>

\* The end of an active entry is reached.
Expire(f) ==
  /\ slot[f] # NoSlot /\ ~over[f]
  /\ over' = [over EXCEPT ![f] = TRUE]
  /\ UNCHANGED <<entryVars, slot, saved, cursor, pending, inhibitVars, motorVars, task, op,
                 fault, stop, historyVars, boundVars>>

-----------------------------------------------------------------------------
(* scheduler_task_main                                                     *)
\* The delay is over, and the clock is read.
Wake ==
  /\ task.at = "sleep"
  /\ task' = [Asleep EXCEPT !.at = "end"]
  /\ UNCHANGED <<entryVars, fanVars, pending, inhibitVars, motorVars, op, fault, stop,
                 historyVars, boundVars>>

\* The next fan, or the heartbeat and the delay of a second.
AfterFan ==
  IF task.fan + 1 = FanCount THEN Asleep
  ELSE [Asleep EXCEPT !.at = "end", !.fan = task.fan + 1]

ToStart == [Asleep EXCEPT !.at = "start", !.fan = task.fan]

Ends(f) == slot[f] # NoSlot /\ (inhibited \/ over[f])

TakeEnd ==
  /\ task.at = "end"
  /\ \/ /\ Ends(task.fan)
        /\ Reserve(task.fan)
        /\ task' = [task EXCEPT !.at = "restore", !.value = saved[task.fan]]
     \/ /\ pending[task.fan] \/ ~Ends(task.fan)
        /\ task' = ToStart
        /\ UNCHANGED pending
  /\ UNCHANGED <<entryVars, fanVars, inhibitVars, motorVars, op, fault, stop, historyVars,
                 boundVars>>

RestoreEnded ==
  /\ task.at = "restore"
  /\ Restore(task.fan, task.value)
  /\ task' = [task EXCEPT !.at = "ended"]
  /\ UNCHANGED <<entryVars, fanVars, pending, inhibitVars, op, fault, stop, historyVars,
                 boundVars>>

CommitEnd ==
  /\ task.at = "ended"
  /\ EndSlots({task.fan})
  /\ Release({task.fan})
  /\ task' = ToStart
  /\ UNCHANGED <<entryVars, inhibitVars, motorVars, op, fault, stop, historyVars, boundVars>>

Due(f, s) == enabled[f][s] /\ due[f][s]

\* Faulty variant: the search always begins with slot zero.
FromFirst(f, s) == s

\* How late the search from the cursor of fan f comes to slot s.
Turn(f, s) == (s - cursor[f] + SlotCount) % SlotCount

Chosen(f, s) == Due(f, s) /\ \A r \in Slots : Due(f, r) => Turn(f, s) <= Turn(f, r)

Starts(f) == ~inhibited /\ slot[f] = NoSlot /\ \E s \in Slots : Due(f, s)

TakeStart ==
  /\ task.at = "start"
  /\ \/ /\ Starts(task.fan)
        /\ Reserve(task.fan)
        /\ \E s \in Slots :
             /\ Chosen(task.fan, s)
             /\ task' = [task EXCEPT !.at = "apply", !.slot = s,
                                     !.value = goal[task.fan][s]]
     \/ /\ pending[task.fan] \/ ~Starts(task.fan)
        /\ task' = AfterFan
        /\ UNCHANGED pending
  /\ UNCHANGED <<entryVars, fanVars, inhibitVars, motorVars, op, fault, stop, historyVars,
                 boundVars>>

\* SCHEDULER_TARGET_START: the manual target comes back with the answer.
ApplyStart ==
  /\ task.at = "apply"
  /\ Request(task.fan, AutomaticAllowed(task.fan), task.value, "start")
  /\ task' = [task EXCEPT !.at = "started", !.value = manual[task.fan],
                          !.ok = AutomaticAllowed(task.fan)]
  /\ UNCHANGED <<entryVars, fanVars, pending, inhibitVars, manual, tachHeld, commHeld,
                 globalHeld, op, fault, stop, historyVars, boundVars>>

BeginsNow ==
  /\ task.ok /\ enabled[task.fan][task.slot] /\ ~inhibited /\ slot[task.fan] = NoSlot

CommitStart ==
  /\ task.at = "started"
  /\ \/ /\ BeginsNow
        /\ saved' = [saved EXCEPT ![task.fan] = task.value]
        /\ slot' = [slot EXCEPT ![task.fan] = task.slot]
        /\ cursor' = [cursor EXCEPT ![task.fan] = (task.slot + 1) % SlotCount]
        /\ over' = [over EXCEPT ![task.fan] = FALSE]
        /\ due' = [due EXCEPT ![task.fan][task.slot] = FALSE]
     \/ /\ ~BeginsNow
        /\ UNCHANGED <<fanVars, due>>
  /\ Release({task.fan})
  /\ task' = AfterFan
  /\ UNCHANGED <<enabled, goal, inhibitVars, motorVars, op, fault, stop, historyVars,
                 boundVars>>

-----------------------------------------------------------------------------
(* The dispatcher: one command at a time                                   *)
Command(new) ==
  /\ op.at = "idle"
  /\ commands < MaxCommands
  /\ commands' = commands + 1
  /\ op' = new
  /\ UNCHANGED <<entryVars, fanVars, pending, inhibitVars, motorVars, task, fault, stop,
                 historyVars, stops>>

\* safety_supervisor_output_command_begin refuses while a stop is claimed;
\* until the command ends, a stop waits for the mutex.
AskManual(f, v) ==
  /\ stop.at = "idle"
  /\ Command([NoOp EXCEPT !.at = "manual", !.fan = f, !.value = v])

AskEntry(f, s, v) ==
  Command([NoOp EXCEPT !.at = "set", !.fan = f, !.slot = s, !.value = v])

AskDisable(f, s) == Command([NoOp EXCEPT !.at = "disable", !.fan = f, !.slot = s])

\* The first look at the latch refuses an override OFF before any waiting.
AskOverride(on) ==
  /\ on \/ ~latched
  /\ Command([NoOp EXCEPT !.at = "walk", !.on = on])

Commanding == op.at \in {"manual", "request", "manualDone"}

\* The operations on one fan, and their position once they have reserved it.
Reserved1 == [manual |-> "request", set |-> "store", disable |-> "look"]

ReserveFan ==
  /\ op.at \in DOMAIN Reserved1
  /\ Reserve(op.fan)
  /\ op' = [op EXCEPT !.at = Reserved1[op.at]]
  /\ UNCHANGED <<entryVars, fanVars, inhibitVars, motorVars, task, fault, stop, historyVars,
                 boundVars>>

ReserveTimeout ==
  /\ op.at \in DOMAIN Reserved1
  /\ GivesUp(op.fan)
  /\ op' = NoOp
  /\ UNCHANGED <<entryVars, fanVars, pending, inhibitVars, motorVars, task, fault, stop,
                 historyVars, boundVars>>

\* SCHEDULER_TARGET_MANUAL: a command for any fan ends the communication inhibit.
RequestManual ==
  /\ op.at = "request"
  /\ LET granted == ManualAllowed(op.fan) IN
       /\ Request(op.fan, granted, op.value, "manual")
       /\ manual' = IF granted THEN [manual EXCEPT ![op.fan] = op.value] ELSE manual
       /\ commHeld' = (commHeld /\ ~granted)
       /\ op' = [op EXCEPT !.at = "manualDone", !.ok = granted]
  /\ UNCHANGED <<entryVars, fanVars, pending, inhibitVars, tachHeld, globalHeld, task, fault,
                 stop, historyVars, boundVars>>

\* Faulty variant: the active entry goes on and restores what it has saved.
EndedByNothing == {}

EndedByManual == IF op.ok THEN {op.fan} ELSE {}

CommitManual ==
  /\ op.at = "manualDone"
  /\ EndSlots(EndedByManual)
  /\ Release({op.fan})
  /\ op' = NoOp
  /\ UNCHANGED <<entryVars, inhibitVars, motorVars, task, fault, stop, historyVars,
                 boundVars>>

\* scheduler_set_entry; an active entry keeps its end.
SetEntry ==
  /\ op.at = "store"
  /\ enabled' = [enabled EXCEPT ![op.fan][op.slot] = TRUE]
  /\ goal' = [goal EXCEPT ![op.fan][op.slot] = op.value]
  /\ due' = [due EXCEPT ![op.fan][op.slot] = FALSE]
  /\ Release({op.fan})
  /\ op' = NoOp
  /\ UNCHANGED <<fanVars, inhibitVars, motorVars, task, fault, stop, historyVars, boundVars>>

\* scheduler_disable_entry: was_active, and the restore it asks for.
LookForDisable ==
  /\ op.at = "look"
  /\ op' = IF slot[op.fan] = op.slot
           THEN [op EXCEPT !.at = "putBack", !.value = saved[op.fan], !.ok = TRUE]
           ELSE [op EXCEPT !.at = "disabled"]
  /\ UNCHANGED <<entryVars, fanVars, pending, inhibitVars, motorVars, task, fault, stop,
                 historyVars, boundVars>>

RestoreDisabled ==
  /\ op.at = "putBack"
  /\ Restore(op.fan, op.value)
  /\ op' = [op EXCEPT !.at = "disabled"]
  /\ UNCHANGED <<entryVars, fanVars, pending, inhibitVars, task, fault, stop, historyVars,
                 boundVars>>

CommitDisable ==
  /\ op.at = "disabled"
  /\ EndSlots(IF op.ok THEN {op.fan} ELSE {})
  /\ enabled' = [enabled EXCEPT ![op.fan][op.slot] = FALSE]
  /\ due' = [due EXCEPT ![op.fan][op.slot] = FALSE]
  /\ Release({op.fan})
  /\ op' = NoOp
  /\ UNCHANGED <<goal, inhibitVars, motorVars, task, fault, stop, historyVars, boundVars>>

-----------------------------------------------------------------------------
(* scheduler_set_override                                                  *)
\* reserve_all_fans: op.fan is the next fan of the walk.
ReserveNext ==
  /\ op.at = "walk"
  /\ Reserve(op.fan)
  /\ op' = IF op.fan + 1 = FanCount THEN [op EXCEPT !.at = "switch"]
           ELSE [op EXCEPT !.fan = op.fan + 1]
  /\ UNCHANGED <<entryVars, fanVars, inhibitVars, motorVars, task, fault, stop, historyVars,
                 boundVars>>

WalkTimeout ==
  /\ op.at = "walk"
  /\ GivesUp(op.fan)
  /\ Release(WalkedBefore(op.fan))
  /\ op' = NoOp
  /\ UNCHANGED <<entryVars, fanVars, inhibitVars, motorVars, task, fault, stop, historyVars,
                 boundVars>>

\* Faulty variant: only the look before the reservations counts.
LookedEarlier == FALSE

\* The second look, under the mutex that changes s_inhibited.
RefusedByLatch == ~op.on /\ latched

Active == {f \in Fans : slot[f] # NoSlot}

SwitchOverride ==
  /\ op.at = "switch"
  /\ \/ /\ RefusedByLatch
        /\ Release(Fans)
        /\ op' = NoOp
        /\ UNCHANGED <<inhibited, due>>
     \/ /\ ~RefusedByLatch
        /\ inhibited' = op.on
        /\ due' = IF op.on THEN due
                  ELSE [f \in Fans |-> [s \in Slots |-> due[f][s] /\ ~enabled[f][s]]]
        /\ op' = [op EXCEPT !.at = "restoring", !.todo = IF op.on THEN Active ELSE {}]
        /\ UNCHANGED pending
  /\ UNCHANGED <<enabled, goal, fanVars, latched, motorVars, task, fault, stop, historyVars,
                 boundVars>>

\* One restore callback after the other, with every fan still reserved.
RestoreNext ==
  /\ op.at = "restoring"
  /\ \E f \in op.todo :
       /\ \A g \in op.todo : f <= g
       /\ Restore(f, saved[f])
       /\ op' = [op EXCEPT !.todo = @ \ {f}]
  /\ UNCHANGED <<entryVars, fanVars, pending, inhibitVars, task, fault, stop, historyVars,
                 boundVars>>

CommitOverride ==
  /\ op.at = "restoring"
  /\ op.todo = {}
  /\ EndSlots(IF op.on THEN Active ELSE {})
  /\ Release(Fans)
  /\ op' = NoOp
  /\ UNCHANGED <<entryVars, inhibitVars, motorVars, task, fault, stop, historyVars,
                 boundVars>>

-----------------------------------------------------------------------------
(* tach_actions.c: the stop of one fan                                     *)
TachInhibit(f) ==
  /\ fault.at = "idle"
  /\ stops < MaxStops
  /\ stops' = stops + 1
  /\ tachHeld' = [tachHeld EXCEPT ![f] = TRUE]
  /\ target' = [target EXCEPT ![f] = 0]
  /\ manual' = [manual EXCEPT ![f] = 0]
  /\ source' = [source EXCEPT ![f] = "none"]
  /\ fault' = [at |-> "cancel", fan |-> f]
  /\ UNCHANGED <<entryVars, fanVars, pending, inhibitVars, commHeld, globalHeld, task, op,
                 stop, historyVars, commands>>

\* scheduler_cancel_fan
ReserveCancel ==
  /\ fault.at = "cancel"
  /\ Reserve(fault.fan)
  /\ fault' = [fault EXCEPT !.at = "cancelled"]
  /\ UNCHANGED <<entryVars, fanVars, inhibitVars, motorVars, task, op, stop, historyVars,
                 boundVars>>

CommitCancel ==
  /\ fault.at = "cancelled"
  /\ EndSlots({fault.fan})
  /\ Release({fault.fan})
  /\ fault' = NoFault
  /\ UNCHANGED <<entryVars, inhibitVars, motorVars, task, op, stop, historyVars, boundVars>>

\* tach_escalate_to_global_stop
CancelTimeout ==
  /\ fault.at = "cancel"
  /\ GivesUp(fault.fan)
  /\ fault' = [fault EXCEPT !.at = "escalate"]
  /\ UNCHANGED <<entryVars, fanVars, pending, inhibitVars, motorVars, task, op, stop,
                 historyVars, boundVars>>

\* A CLEAR, which the mutex of the tach actions keeps out of a response.
ClearFault(f) ==
  /\ op.at = "idle" /\ fault.at = "idle"
  /\ tachHeld[f]
  /\ tachHeld' = [tachHeld EXCEPT ![f] = FALSE]
  /\ UNCHANGED <<entryVars, fanVars, pending, inhibitVars, target, manual, source, commHeld,
                 globalHeld, task, op, fault, stop, historyVars, boundVars>>

-----------------------------------------------------------------------------
(* stop_all_internal of safety_supervisor.c                                *)
ClaimStop(kind, clear) ==
  /\ stop.at = "idle"
  /\ stop' = [at |-> "halt", kind |-> kind, clear |-> clear, failed |-> FALSE]
  /\ UNCHANGED <<entryVars, fanVars, pending, inhibitVars, motorVars, task, op, historyVars>>

\* Every stop that latches an inhibit clears the stored targets.
BeginStop(kind, clear) ==
  /\ clear \/ kind = "PLAIN"
  /\ fault.at # "escalate"
  /\ stops < MaxStops
  /\ stops' = stops + 1
  /\ ClaimStop(kind, clear)
  /\ UNCHANGED <<fault, commands>>

Escalate ==
  /\ fault.at = "escalate"
  /\ ClaimStop("GLOBAL", TRUE)
  /\ fault' = [fault EXCEPT !.at = "stopping"]
  /\ UNCHANGED boundVars

\* The motors are stopped, and held, under the mutex of the supervisor.
Halt ==
  /\ stop.at = "halt"
  /\ ~Commanding
  /\ target' = [f \in Fans |-> 0]
  /\ source' = [f \in Fans |-> "none"]
  /\ manual' = IF stop.clear THEN target' ELSE manual
  /\ globalHeld' = (globalHeld \/ stop.kind = "GLOBAL")
  /\ commHeld' = (commHeld \/ stop.kind = "COMMUNICATION")
  /\ stop' = [stop EXCEPT !.at = "inhibit"]
  /\ UNCHANGED <<entryVars, fanVars, pending, inhibitVars, tachHeld, task, op, fault,
                 historyVars, boundVars>>

\* Faulty variant: the inhibit does not wait for the operations under way.
NobodyAsked == TRUE

NoOperation == \A f \in Fans : ~pending[f]

\* scheduler_try_inhibit_all
TryInhibit ==
  /\ stop.at = "inhibit"
  /\ NoOperation
  /\ inhibited' = TRUE
  /\ latched' = TRUE
  /\ EndSlots(Fans)
  /\ stop' = [stop EXCEPT !.at = "finish"]
  /\ UNCHANGED <<entryVars, pending, motorVars, task, op, fault, historyVars, boundVars>>

InhibitTimeout ==
  /\ stop.at = "inhibit"
  /\ \E f \in Fans : GivesUp(f)
  /\ stop' = [stop EXCEPT !.at = "finish", !.failed = TRUE]
  /\ missed' = (missed \/ stop.kind = "COMMUNICATION")
  /\ UNCHANGED <<entryVars, fanVars, pending, inhibitVars, motorVars, task, op, fault,
                 boundVars>>

\* A temporary stop that failed anywhere, or could not be saved, latches the
\* global inhibit instead of releasing its own.
FinishStop(saveFails) ==
  /\ stop.at = "finish"
  /\ globalHeld' = (globalHeld \/ (stop.kind = "PLAIN" /\ (stop.failed \/ saveFails)))
  /\ stop' = NoStop
  /\ fault' = IF fault.at = "stopping" THEN NoFault ELSE fault
  /\ UNCHANGED <<entryVars, fanVars, pending, inhibitVars, target, manual, source, tachHeld,
                 commHeld, task, op, historyVars, boundVars>>

-----------------------------------------------------------------------------
Task ==
  \/ Wake \/ TakeEnd \/ RestoreEnded \/ CommitEnd
  \/ TakeStart \/ ApplyStart \/ CommitStart

Dispatch ==
  \/ ReserveFan \/ ReserveTimeout \/ RequestManual \/ CommitManual \/ SetEntry
  \/ LookForDisable \/ RestoreDisabled \/ CommitDisable
  \/ ReserveNext \/ WalkTimeout \/ SwitchOverride \/ RestoreNext \/ CommitOverride

Ask ==
  \/ \E f \in Fans, v \in ManualTargets : AskManual(f, v)
  \/ \E f \in Fans, s \in Slots :
       AskDisable(f, s) \/ \E v \in EntryTargets : AskEntry(f, s, v)
  \/ \E on \in BOOLEAN : AskOverride(on)

Respond ==
  \/ ReserveCancel \/ CommitCancel \/ CancelTimeout \/ Escalate

Stop ==
  \/ Halt \/ TryInhibit \/ InhibitTimeout
  \/ \E saveFails \in BOOLEAN : FinishStop(saveFails)

Next ==
  \/ Task \/ Dispatch \/ Ask \/ Respond \/ Stop
  \/ \E f \in Fans : TachInhibit(f) \/ ClearFault(f) \/ Expire(f)
  \/ \E f \in Fans, s \in Slots : Trigger(f, s)
  \/ \E kind \in StopKinds, clear \in BOOLEAN : BeginStop(kind, clear)

Spec == Init /\ [][Next]_vars

\* Active entries reach their end, and every task that can take a step takes one.
Fairness ==
  /\ WF_vars(Task) /\ WF_vars(Dispatch) /\ WF_vars(Respond) /\ WF_vars(Stop)
  /\ \A f \in Fans : WF_vars(Expire(f))

FairSpec == Spec /\ Fairness

-----------------------------------------------------------------------------
Sources == {"none", "manual", "start", "restore"}

TypeOK ==
  /\ enabled \in [Fans -> [Slots -> BOOLEAN]]
  /\ goal \in [Fans -> [Slots -> Nat]]
  /\ due \in [Fans -> [Slots -> BOOLEAN]]
  /\ slot \in [Fans -> Slots \cup {NoSlot}] /\ over \in [Fans -> BOOLEAN]
  /\ saved \in [Fans -> Nat] /\ cursor \in [Fans -> Slots]
  /\ pending \in [Fans -> BOOLEAN]
  /\ inhibited \in BOOLEAN /\ latched \in BOOLEAN
  /\ target \in [Fans -> Nat] /\ manual \in [Fans -> Nat]
  /\ source \in [Fans -> Sources]
  /\ tachHeld \in [Fans -> BOOLEAN] /\ commHeld \in BOOLEAN /\ globalHeld \in BOOLEAN
  /\ task \in [at : {"sleep", "end", "restore", "ended", "start", "apply", "started"},
               fan : Fans, slot : Slots, value : Nat, ok : BOOLEAN]
  /\ op \in [at : {"idle", "manual", "request", "manualDone", "set", "store", "disable",
                   "look", "putBack", "disabled", "walk", "switch", "restoring"},
             fan : Fans, slot : Slots, value : Nat, ok : BOOLEAN, on : BOOLEAN,
             todo : SUBSET Fans]
  /\ fault \in [at : {"idle", "cancel", "cancelled", "escalate", "stopping"}, fan : Fans]
  /\ stop \in [at : {"idle", "halt", "inhibit", "finish"},
               kind : {"PLAIN", "GLOBAL", "COMMUNICATION"}, clear : BOOLEAN,
               failed : BOOLEAN]
  /\ missed \in BOOLEAN
  /\ commands \in Nat /\ stops \in Nat

\* The fans that each actor has reserved, by its position.
ByTask == IF task.at \in {"restore", "ended", "apply", "started"} THEN {task.fan} ELSE {}
ByFault == IF fault.at = "cancelled" THEN {fault.fan} ELSE {}
ByOp ==
  CASE op.at \in {"request", "manualDone", "store", "look", "putBack", "disabled"} -> {op.fan}
    [] op.at = "walk" -> {f \in Fans : f < op.fan}
    [] op.at \in {"switch", "restoring"} -> Fans
    [] OTHER -> {}

\* Every reservation has one owner, and an operation that fails part-way has
\* given back its own and no other.
ReservationsOwned ==
  /\ \A f \in Fans : pending[f] <=> f \in ByTask \cup ByOp \cup ByFault
  /\ ByTask \cap ByOp = {} /\ ByTask \cap ByFault = {} /\ ByOp \cap ByFault = {}

\* A fan that runs the target of an entry has that entry active, or an
\* operation under way that will end it: the target is never left without an end.
ScheduledTargetHasOwner ==
  \A f \in Fans : source[f] = "start" => slot[f] # NoSlot \/ pending[f]

\* What an entry puts back when it ends is the manual target of that moment,
\* never one that a command or a stop has replaced since the entry started.
\* The exception is a communication stop that gave up waiting for a fan.
RestoreReturnsManual ==
  \A f \in Fans : source[f] = "restore" => target[f] = manual[f] \/ missed

\* Once a stop has latched the inhibit no override takes it back, and once an
\* inhibit is complete no entry is active.
InhibitIsABarrier ==
  /\ latched => inhibited
  /\ inhibited => \A f \in Fans : slot[f] = NoSlot \/ f \in ByOp

\* Every entry of a fan has its turn: it starts, or something forbids it.
DueSlotRuns ==
  \A f \in Fans, s \in Slots :
    Due(f, s) ~> (slot[f] = s \/ ~Due(f, s) \/ inhibited \/ ~AutomaticAllowed(f))

=============================================================================
