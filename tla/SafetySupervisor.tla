--------------------------- MODULE SafetySupervisor ---------------------------
(***************************************************************************)
(* safety_supervisor.c: the stop transaction, the transaction that enables *)
(* the motor interlock, the manual commands between them, OTA preparation  *)
(* (app_main.c) and the supervision loop that reboots.  A stop claims      *)
(* s_stop_depth and the safety generation first and takes the recursive    *)
(* s_stop_mutex for each piece of hardware work; everything that enables   *)
(* output holds that mutex and checks the claim.                           *)
(*                                                                         *)
(* motor_control.c appears by what its calls do to the inhibits, to the    *)
(* stored manual target and to the requested motion of the fans; the calls *)
(* themselves are MotorControl.  The two stores appear as DurableSave      *)
(* promises: an acknowledged save has written the current value, an        *)
(* asynchronous one may come at any moment.  A watchdog panic and a power  *)
(* cut are left out.                                                       *)
(***************************************************************************)
EXTENDS Naturals

CONSTANTS
  Dispatcher,    \* the MQTT command task: manual commands and OTA starts
  Supervisor,    \* supervisor_task
  OtaTask,       \* ota_manager_task
  Stoppers,      \* the other tasks that stop the motors
  Stops,         \* the stops they make: <<action, clear_manual_targets>>
  NoTask,        \* owner of a free s_stop_mutex
  Troubles,      \* what may go wrong for good, one set for each kind of behaviour:
                 \* "stream", no RMT stream can be stopped; "heart", a task stops beating
  MaxCalls,      \* bound on commands, OTA starts and stops
  MaxFaults      \* bound on failing GPIO writes, RMT calls and saves

Tasks == {Dispatcher, Supervisor, OtaTask} \cup Stoppers

Durable == {"GLOBAL", "COMMUNICATION", "RMT", "TACH_ALL"}
Actions == Durable \cup {"PLAIN", "VERIFIED"}

ASSUME SupervisorAssumption ==
  /\ NoTask \notin Tasks
  /\ Stops \subseteq Actions \X BOOLEAN
  /\ Troubles \subseteq SUBSET {"stream", "heart"}
  /\ MaxCalls \in Nat /\ MaxFaults \in Nat

VARIABLES
  interlock,    \* the output line enables the motors
  depth,        \* s_stop_depth
  current,      \* tasks that have read the latest s_safety_generation
  owner,        \* s_stop_mutex
  at, job,      \* each task: where it is, and the stop it makes
  inhibits,     \* motor_control: s_global_inhibited ..., and "fault": rmt_fault_latched
  maintenance,  \* motor_control: s_maintenance_depth
  manual,       \* motor_control: the stored manual target is not zero
  moving,       \* motor_control: the requested target is not zero
  autoInhibit,  \* scheduler: s_inhibited
  latched,      \* scheduler: s_runtime_inhibit_latched
  autoNvs,      \* the schedule blob in flash is inhibited
  manualNvs,    \* the fan-state blob in flash holds a target that is not zero
  ota,          \* the OTA claim
  pass, due,    \* supervisor_task: next check of the pass; a restart may be tried
  heartLost,    \* a supervised heartbeat has expired
  rmtEdge,      \* s_rmt_fault_pending of motor_control
  rmtReboot,    \* s_rmt_reboot_pending
  overflow,     \* commands were dropped since the last pass
  restarted,    \* esp_restart was called, and why
  trouble,      \* what goes wrong for good in this behaviour
  calls, faults \* bounds

lineVars == <<interlock, depth, current, owner>>
motorVars == <<inhibits, maintenance, manual, moving>>
autoVars == <<autoInhibit, latched>>
nvsVars == <<autoNvs, manualNvs>>
loopVars == <<pass, due, heartLost, rmtEdge, rmtReboot, overflow>>
boundVars == <<calls, faults>>
vars == <<lineVars, at, job, motorVars, autoVars, nvsVars, ota, loopVars, restarted,
          trouble, boundVars>>

\* A stop: what was asked, and stop_outcome_t as far as it is known.
NoJob == [action |-> "PLAIN", clear |-> FALSE, purpose |-> "stop", stage |-> "first",
          driven |-> FALSE, halted |-> FALSE, automatic |-> FALSE, saved |-> FALSE,
          fellBack |-> TRUE, failed |-> FALSE]

Init ==
  /\ interlock \in BOOLEAN /\ depth = 0 /\ current = {} /\ owner = NoTask
  /\ at = [t \in Tasks |-> "idle"] /\ job = [t \in Tasks |-> NoJob]
  /\ inhibits = {} /\ maintenance = 0 /\ manual \in BOOLEAN /\ moving = manual
  /\ autoInhibit \in BOOLEAN /\ latched = FALSE
  /\ autoNvs = autoInhibit /\ manualNvs = manual
  /\ ota = "idle"
  /\ pass = "heartbeats" /\ due = TRUE /\ heartLost = FALSE
  /\ rmtEdge = FALSE /\ rmtReboot = FALSE /\ overflow = FALSE
  /\ restarted = "no"
  /\ trouble \in Troubles
  /\ calls = 0 /\ faults = 0

-----------------------------------------------------------------------------
(* motor_control.c                                                         *)
\* A motor stop is under way: s_stop_depth of motor_control.c.
Halting == \E t \in Tasks : at[t] = "settle"

\* motor_control_request_manual, motor_control_request_automatic and
\* motor_control_output_allowed admit the request.
ManualAllowed ==
  ~Halting /\ maintenance = 0 /\ inhibits \cap {"GLOBAL", "RMT", "fault", "TACH_ALL"} = {}

AutomaticAllowed == ManualAllowed /\ "COMMUNICATION" \notin inhibits

\* Faulty variant: the latches are not looked at.
OutputWithoutLatches == ~Halting /\ maintenance = 0

OutputAllowed == ~Halting /\ maintenance = 0 /\ inhibits \subseteq {"TACH_ALL"}

Temporary(t) == job[t].action \notin Durable

\* The inhibit that a motor stop of the job publishes: maintenance for a
\* temporary stop, none to verify it, the global one to fall back on.
HaltInhibits(t) ==
  IF job[t].stage \in {"fallback", "refallback"} THEN {"GLOBAL"}
  ELSE IF job[t].stage = "first" /\ ~Temporary(t) THEN {job[t].action}
  ELSE {}

HaltMaintains(t) == job[t].stage = "first" /\ Temporary(t)

\* Faulty variant: a release ends the maintenance of every stop.
ReleasedAtOnce == 0

\* motor_control_clear_maintenance_inhibit
Released == IF maintenance > 0 THEN maintenance - 1 ELSE 0

-----------------------------------------------------------------------------
(* stop_all_internal                                                       *)
\* A hardware call or a save succeeds, or fails.
Outcome(good) ==
  \/ good /\ UNCHANGED faults
  \/ ~good /\ faults < MaxFaults /\ faults' = faults + 1

\* The claim that comes before any work: an enable that has read the old
\* generation is refused.
ClaimStop(t, action, clear, purpose) ==
  /\ at[t] = "idle"
  /\ depth' = depth + 1
  /\ current' = {}
  /\ job' = [job EXCEPT ![t] = [NoJob EXCEPT !.action = action, !.clear = clear,
                                             !.purpose = purpose]]
  /\ at' = [at EXCEPT ![t] = "drive"]
  /\ UNCHANGED <<interlock, owner, motorVars, autoVars, nvsVars, restarted>>

\* Faulty variant: the line is driven beside whoever holds the mutex.
NoNeedToWait(t) == TRUE

\* The mutex is free for t, which may hold it already.
MutexFree(t) == owner \in {NoTask, t}

Drive(t) ==
  /\ at[t] = "drive"
  /\ MutexFree(t)
  /\ \E good \in BOOLEAN :
       /\ Outcome(good)
       /\ interlock' = (interlock /\ ~good)
       /\ job' = [job EXCEPT ![t].driven = good, ![t].failed = ~good]
  /\ at' = [at EXCEPT ![t] = "halt"]
  /\ UNCHANGED <<depth, current, owner, motorVars, autoVars, nvsVars, ota, loopVars,
                 restarted, calls>>

\* A motor stop: the inhibit and the zero targets, then the RMT calls.
Halt(t) ==
  /\ at[t] = "halt"
  /\ owner = NoTask
  /\ owner' = t
  /\ inhibits' = inhibits \cup HaltInhibits(t)
  /\ maintenance' = IF HaltMaintains(t) THEN maintenance + 1 ELSE maintenance
  /\ manual' = (manual /\ ~job[t].clear)
  /\ moving' = FALSE
  /\ at' = [at EXCEPT ![t] = "settle"]
  /\ UNCHANGED <<interlock, depth, current, job, autoVars, nvsVars, ota, loopVars,
                 restarted, boundVars>>

\* The owner of the mutex after a motor stop.
GivenBy(t) == NoTask

AfterHalt(t) ==
  CASE job[t].stage = "first" -> "automatic"
    [] job[t].stage = "verify" -> "judge"
    [] job[t].stage = "fallback" -> "persist"
    [] job[t].stage = "refallback" -> "end"

Settle(t) ==
  /\ at[t] = "settle"
  /\ owner' = GivenBy(t)
  /\ \E good \in BOOLEAN :
       /\ IF "stream" \in trouble THEN ~good /\ UNCHANGED faults ELSE Outcome(good)
       /\ job' = [job EXCEPT ![t].failed = @ \/ ~good,
                              ![t].halted = IF job[t].stage = "first" THEN good ELSE @,
                              ![t].fellBack = IF job[t].stage = "fallback" THEN good ELSE @]
  /\ at' = [at EXCEPT ![t] = AfterHalt(t)]
  /\ UNCHANGED <<interlock, depth, current, motorVars, autoVars, nvsVars, ota, loopVars,
                 restarted, calls>>

\* Faulty variant: the schedule inhibit of a durable stop may fail.
OnlyTemporaryFails(t) == job[t].failed \/ Temporary(t)

\* The result once the automatic sources could not be inhibited.
AutomaticFailed(t) == TRUE

\* inhibit_automatic: the latch may time out, and so may its durable save.
Automatic(t) ==
  /\ at[t] = "automatic"
  /\ \E good \in BOOLEAN :
       /\ Outcome(good)
       /\ autoInhibit' = (autoInhibit \/ good)
       /\ latched' = (latched \/ good)
       /\ at' = [at EXCEPT ![t] = IF good THEN "commit" ELSE "verify"]
       /\ job' = IF good THEN job ELSE [job EXCEPT ![t].failed = AutomaticFailed(t)]
  /\ UNCHANGED <<lineVars, motorVars, nvsVars, ota, loopVars, restarted, calls>>

CommitInhibit(t) ==
  /\ at[t] = "commit"
  /\ \E good \in BOOLEAN :
       /\ Outcome(good)
       /\ autoNvs' = IF good THEN autoInhibit ELSE autoNvs
       /\ job' = IF good THEN [job EXCEPT ![t].automatic = TRUE]
                 ELSE [job EXCEPT ![t].failed = AutomaticFailed(t)]
  /\ at' = [at EXCEPT ![t] = "verify"]
  /\ UNCHANGED <<lineVars, motorVars, autoVars, manualNvs, ota, loopVars, restarted, calls>>

\* OTA asks RMT once more to prove the zero stream.
Verify(t) ==
  /\ at[t] = "verify"
  /\ IF job[t].action = "VERIFIED" /\ job[t].halted /\ job[t].automatic
     THEN /\ job' = [job EXCEPT ![t].stage = "verify"]
          /\ at' = [at EXCEPT ![t] = "halt"]
     ELSE at' = [at EXCEPT ![t] = "judge"] /\ UNCHANGED job
  /\ UNCHANGED <<lineVars, motorVars, autoVars, nvsVars, ota, loopVars, restarted,
                 boundVars>>

\* A temporary stop with a failed step escalates to the global latch.
Judge(t) ==
  /\ at[t] = "judge"
  /\ IF Temporary(t) /\ job[t].failed
     THEN /\ job' = [job EXCEPT ![t].stage = "fallback"]
          /\ at' = [at EXCEPT ![t] = "halt"]
     ELSE at' = [at EXCEPT ![t] = "persist"] /\ UNCHANGED job
  /\ UNCHANGED <<lineVars, motorVars, autoVars, nvsVars, ota, loopVars, restarted,
                 boundVars>>

\* Faulty variant: a target that was not saved does not escalate.
NeverFallsBack(t) == FALSE

\* A temporary stop whose save failed escalates unless an escalation failed.
FallsBack(t) == Temporary(t) /\ job[t].fellBack

\* A stop that clears the manual targets waits for their durable save.
Persist(t) ==
  /\ at[t] = "persist"
  /\ \/ /\ ~job[t].clear
        /\ at' = [at EXCEPT ![t] = "end"]
        /\ UNCHANGED <<job, manualNvs, faults>>
     \/ /\ job[t].clear
        /\ Outcome(TRUE)
        /\ manualNvs' = manual
        /\ job' = [job EXCEPT ![t].saved = TRUE]
        /\ at' = [at EXCEPT ![t] = "end"]
     \/ /\ job[t].clear
        /\ Outcome(FALSE)
        /\ job' = [job EXCEPT ![t].failed = TRUE,
                              ![t].stage = IF FallsBack(t) THEN "refallback" ELSE @]
        /\ at' = [at EXCEPT ![t] = IF FallsBack(t) THEN "halt" ELSE "end"]
        /\ UNCHANGED manualNvs
  /\ UNCHANGED <<lineVars, motorVars, autoVars, autoNvs, ota, loopVars, restarted, calls>>

\* A plain stop releases the motors once every step has succeeded.
Releases(t) == job[t].action = "PLAIN" /\ ~job[t].failed

\* Faulty variant: a reboot that replaces a stuck stream waits for a clean stop.
RebootsIfStopped(t) == job[t].purpose \in {"restart", "reboot"} /\ ~job[t].failed

\* restart_after_fail_safe_stop wants a clean stop; the reboot after RMT faults
\* wants both durable commits and may leave the stream to the reset.
Reboots(t) ==
  \/ job[t].purpose = "restart" /\ ~job[t].failed
  \/ job[t].purpose = "reboot" /\ job[t].automatic /\ job[t].saved

\* Where the caller of the stop goes on.
AfterStop(t) ==
  IF Reboots(t) THEN "restart"
  ELSE IF job[t].purpose = "ota" /\ ~job[t].failed THEN "otasave"
  ELSE "idle"

EndStop(t) ==
  /\ at[t] = "end"
  /\ maintenance' = IF Releases(t) THEN Released ELSE maintenance
  /\ depth' = depth - 1
  /\ at' = [at EXCEPT ![t] = AfterStop(t)]
  /\ ota' = IF job[t].purpose = "ota" /\ job[t].failed THEN "idle" ELSE ota
  /\ job' = IF AfterStop(t) = "idle" THEN [job EXCEPT ![t] = NoJob] ELSE job
  /\ UNCHANGED <<interlock, current, owner, inhibits, manual, moving, autoVars, nvsVars,
                 loopVars, restarted, boundVars>>

Restart(t) ==
  /\ at[t] = "restart"
  /\ restarted' = job[t].purpose
  /\ UNCHANGED <<lineVars, at, job, motorVars, autoVars, nvsVars, ota, loopVars, boundVars>>

\* Every stop that stop_all and stop_for_tach_all are called for.
StopAll(t) ==
  /\ calls < MaxCalls
  /\ calls' = calls + 1
  /\ \E stop \in Stops : ClaimStop(t, stop[1], stop[2], "stop")
  /\ UNCHANGED <<ota, loopVars, faults>>

-----------------------------------------------------------------------------
(* enable_output_if_safe, and the manual command around it                 *)
\* Faulty variant: a command only waits for the mutex.
CommandAfterMutex == TRUE

\* No stop has its claim.
CommandAllowed == depth = 0

\* output_command_begin: rejected while a stop has its claim.
CommandBegin(t) ==
  /\ at[t] = "idle"
  /\ ota = "idle"
  /\ calls < MaxCalls
  /\ calls' = calls + 1
  /\ owner = NoTask
  /\ CommandAllowed
  /\ owner' = t
  /\ at' = [at EXCEPT ![t] = "command"]
  /\ UNCHANGED <<interlock, depth, current, job, motorVars, autoVars, nvsVars, ota,
                 loopVars, restarted, faults>>

\* An accepted manual target lifts the communication inhibit.
ApplyManual(t) ==
  /\ at[t] = "command"
  /\ \/ /\ ManualAllowed
        /\ manual' \in BOOLEAN
        /\ moving' = manual'
        /\ inhibits' = inhibits \ {"COMMUNICATION"}
        /\ at' = [at EXCEPT ![t] = "enable"]
     \/ /\ ~ManualAllowed
        /\ at' = [at EXCEPT ![t] = "leave"]
        /\ UNCHANGED <<manual, moving, inhibits>>
  /\ UNCHANGED <<lineVars, job, maintenance, autoVars, nvsVars, ota, loopVars, restarted,
                 boundVars>>

EnableBegin(t) ==
  /\ at[t] = "enable"
  /\ MutexFree(t)
  /\ owner' = t
  /\ \/ /\ depth = 0 /\ OutputAllowed
        /\ current' = current \cup {t}
        /\ at' = [at EXCEPT ![t] = "recheck"]
     \/ /\ ~(depth = 0 /\ OutputAllowed)
        /\ at' = [at EXCEPT ![t] = "leave"]
        /\ UNCHANGED current
  /\ UNCHANGED <<interlock, depth, job, motorVars, autoVars, nvsVars, ota, loopVars,
                 restarted, boundVars>>

\* No stop was claimed since the generation was read.
Recheck(t) ==
  /\ at[t] = "recheck"
  /\ at' = [at EXCEPT ![t] = IF depth = 0 /\ t \in current THEN "turnon" ELSE "leave"]
  /\ UNCHANGED <<lineVars, job, motorVars, autoVars, nvsVars, ota, loopVars, restarted,
                 boundVars>>

TurnOn(t) ==
  /\ at[t] = "turnon"
  /\ \E good \in BOOLEAN :
       /\ Outcome(good)
       /\ interlock' = (interlock \/ good)
       /\ at' = [at EXCEPT ![t] = IF good THEN "confirm" ELSE "leave"]
  /\ UNCHANGED <<depth, current, owner, job, motorVars, autoVars, nvsVars, ota, loopVars,
                 restarted, calls>>

\* A motor-side inhibit raised in between turns the line off again.
Confirm(t) ==
  /\ at[t] = "confirm"
  /\ \/ /\ OutputAllowed
        /\ UNCHANGED <<interlock, faults>>
     \/ /\ ~OutputAllowed
        /\ \E good \in BOOLEAN : Outcome(good) /\ interlock' = (interlock /\ ~good)
  /\ at' = [at EXCEPT ![t] = "leave"]
  /\ UNCHANGED <<depth, current, owner, job, motorVars, autoVars, nvsVars, ota, loopVars,
                 restarted, calls>>

\* The mutex is given, by output_command_end too; the OTA claim of an aborted
\* update is released.
LeaveEnable(t) ==
  /\ at[t] = "leave"
  /\ owner' = NoTask
  /\ current' = current \ {t}
  /\ at' = [at EXCEPT ![t] = "idle"]
  /\ ota' = IF t = OtaTask \/ job[t].purpose = "ota" THEN "idle" ELSE ota
  /\ job' = [job EXCEPT ![t] = NoJob]
  /\ UNCHANGED <<interlock, depth, motorVars, autoVars, nvsVars, loopVars, restarted,
                 boundVars>>

-----------------------------------------------------------------------------
(* OTA: ota_prepare_callback, ota_abort_callback, and the final reboot     *)
OtaStart(t) ==
  /\ ota = "idle"
  /\ calls < MaxCalls
  /\ calls' = calls + 1
  /\ ota' = "claimed"
  /\ ClaimStop(t, "VERIFIED", FALSE, "ota")
  /\ UNCHANGED <<loopVars, faults>>

\* The targets are saved; without that the preparation is undone.
OtaSave(t) ==
  /\ at[t] = "otasave"
  /\ \/ /\ Outcome(TRUE)
        /\ manualNvs' = manual
        /\ ota' = "held"
        /\ at' = [at EXCEPT ![t] = "idle"]
        /\ job' = [job EXCEPT ![t] = NoJob]
        /\ UNCHANGED maintenance
     \/ /\ Outcome(FALSE)
        /\ maintenance' = Released
        /\ at' = [at EXCEPT ![t] = "enable"]
        /\ UNCHANGED <<manualNvs, ota, job>>
  /\ UNCHANGED <<lineVars, inhibits, manual, moving, autoVars, autoNvs, loopVars,
                 restarted, calls>>

OtaAbort(t) ==
  /\ at[t] = "idle"
  /\ ota = "held"
  /\ maintenance' = Released
  /\ ota' = "aborting"
  /\ at' = [at EXCEPT ![t] = "enable"]
  /\ UNCHANGED <<lineVars, job, inhibits, manual, moving, autoVars, nvsVars, loopVars,
                 restarted, boundVars>>

OtaReboot(t) ==
  /\ at[t] = "idle"
  /\ ota = "held"
  /\ restarted' = "ota"
  /\ UNCHANGED <<lineVars, at, job, motorVars, autoVars, nvsVars, ota, loopVars, boundVars>>

-----------------------------------------------------------------------------
(* supervisor_task: one pass looks at the heartbeats, at the RMT faults    *)
(* and at the MQTT queue, and makes the stop of each before it goes on.    *)
(* Passes in which restart_attempt_due refuses are left out.               *)
Heartbeats ==
  /\ pass = "heartbeats"
  /\ at[Supervisor] = "idle"
  /\ pass' = "rmt"
  /\ \/ /\ heartLost /\ due
        /\ due' = FALSE
        /\ ClaimStop(Supervisor, "GLOBAL", TRUE, "restart")
     \/ /\ ~(heartLost /\ due)
        /\ UNCHANGED <<due, lineVars, at, job, motorVars, autoVars, nvsVars, restarted>>
  /\ UNCHANGED <<heartLost, rmtEdge, rmtReboot, overflow, ota, boundVars>>

RmtFaults ==
  /\ pass = "rmt"
  /\ at[Supervisor] = "idle"
  /\ pass' = "mqtt"
  /\ rmtEdge' = FALSE
  /\ rmtReboot' = (rmtReboot \/ rmtEdge)
  /\ \/ /\ rmtReboot' /\ due
        /\ due' = FALSE
        /\ ClaimStop(Supervisor, "RMT", TRUE, "reboot")
     \/ /\ ~(rmtReboot' /\ due)
        /\ UNCHANGED <<due, lineVars, at, job, motorVars, autoVars, nvsVars, restarted>>
  /\ UNCHANGED <<heartLost, overflow, ota, boundVars>>

\* Faulty variant: a restart is tried once.
TriedOnce == due

\* The next pass may try a restart again.
DueAgain == TRUE

MqttQueue ==
  /\ pass = "mqtt"
  /\ at[Supervisor] = "idle"
  /\ pass' = "heartbeats"
  /\ due' = DueAgain
  /\ overflow' = FALSE
  /\ \/ /\ overflow
        /\ ClaimStop(Supervisor, "COMMUNICATION", TRUE, "stop")
     \/ /\ ~overflow
        /\ UNCHANGED <<lineVars, at, job, motorVars, autoVars, nvsVars, restarted>>
  /\ UNCHANGED <<heartLost, rmtEdge, rmtReboot, ota, boundVars>>

-----------------------------------------------------------------------------
(* The rest of the firmware                                                *)
\* The scheduler requests motion, and the override command moves its inhibit.
Schedule ==
  /\ ~autoInhibit
  /\ AutomaticAllowed
  /\ moving' \in BOOLEAN
  /\ UNCHANGED <<lineVars, at, job, inhibits, maintenance, manual, autoVars, nvsVars, ota,
                 loopVars, restarted, boundVars>>

Override ==
  /\ autoInhibit' \in BOOLEAN
  /\ latched => autoInhibit'
  /\ UNCHANGED <<lineVars, at, job, motorVars, latched, nvsVars, ota, loopVars, restarted,
                 boundVars>>

\* The debounced saves of both stores.
AsyncSave ==
  /\ \/ autoNvs' = autoInhibit /\ UNCHANGED manualNvs
     \/ manualNvs' = manual /\ UNCHANGED autoNvs
  /\ UNCHANGED <<lineVars, at, job, motorVars, autoVars, ota, loopVars, restarted, boundVars>>

\* Repeated RMT errors latch the fault and raise its edge.
RmtFault ==
  /\ "fault" \notin inhibits
  /\ faults < MaxFaults
  /\ faults' = faults + 1
  /\ inhibits' = inhibits \cup {"fault"}
  /\ rmtEdge' = TRUE
  /\ UNCHANGED <<lineVars, at, job, maintenance, manual, moving, autoVars, nvsVars, ota,
                 pass, due, heartLost, rmtReboot, overflow, restarted, calls>>

HeartStops ==
  /\ "heart" \in trouble
  /\ ~heartLost
  /\ heartLost' = TRUE
  /\ UNCHANGED <<lineVars, at, job, motorVars, autoVars, nvsVars, ota, pass, due, rmtEdge,
                 rmtReboot, overflow, restarted, boundVars>>

Overflow ==
  /\ ~overflow
  /\ calls < MaxCalls
  /\ calls' = calls + 1
  /\ overflow' = TRUE
  /\ UNCHANGED <<lineVars, at, job, motorVars, autoVars, nvsVars, ota, pass, due,
                 heartLost, rmtEdge, rmtReboot, restarted, faults>>

StopStep(t) ==
  \/ Drive(t) \/ Halt(t) \/ Settle(t) \/ Automatic(t) \/ CommitInhibit(t) \/ Verify(t)
  \/ Judge(t) \/ Persist(t) \/ EndStop(t) \/ Restart(t)

EnableStep(t) ==
  \/ ApplyManual(t) \/ EnableBegin(t) \/ Recheck(t) \/ TurnOn(t) \/ Confirm(t)
  \/ LeaveEnable(t)

Pass == Heartbeats \/ RmtFaults \/ MqttQueue

\* esp_restart ends every task.
Running == restarted = "no" /\ UNCHANGED trouble

Next ==
  /\ Running
  /\ \/ \E t \in Tasks : StopStep(t) \/ EnableStep(t) \/ OtaSave(t)
     \/ \E t \in Stoppers : StopAll(t)
     \/ CommandBegin(Dispatcher) \/ OtaStart(Dispatcher)
     \/ OtaAbort(OtaTask) \/ OtaReboot(OtaTask)
     \/ Pass
     \/ Schedule \/ Override \/ AsyncSave \/ RmtFault \/ HeartStops \/ Overflow

Spec == Init /\ [][Next]_vars

\* A task that can run runs, and one that waits for the mutex gets it when it is
\* given again and again.
Fairness ==
  /\ WF_vars(Running /\ Pass)
  /\ \A t \in Tasks : SF_vars(Running /\ (StopStep(t) \/ EnableStep(t) \/ OtaSave(t)))

FairSpec == Spec /\ Fairness

-----------------------------------------------------------------------------
Places == {"idle", "drive", "halt", "settle", "automatic", "commit", "verify", "judge",
           "persist", "end", "restart", "otasave", "command", "enable", "recheck",
           "turnon", "confirm", "leave"}
StopPlaces == {"drive", "halt", "settle", "automatic", "commit", "verify", "judge",
               "persist", "end"}
Stages == {"first", "verify", "fallback", "refallback"}
Purposes == {"stop", "restart", "reboot", "ota"}
Jobs == [action : Actions, clear : BOOLEAN, purpose : Purposes, stage : Stages,
         driven : BOOLEAN, halted : BOOLEAN, automatic : BOOLEAN, saved : BOOLEAN,
         fellBack : BOOLEAN, failed : BOOLEAN]

TypeOK ==
  /\ interlock \in BOOLEAN /\ depth \in Nat /\ current \subseteq Tasks
  /\ owner \in Tasks \cup {NoTask}
  /\ at \in [Tasks -> Places] /\ job \in [Tasks -> Jobs]
  /\ inhibits \subseteq Durable \cup {"fault"} /\ maintenance \in Nat
  /\ manual \in BOOLEAN /\ moving \in BOOLEAN
  /\ autoInhibit \in BOOLEAN /\ latched \in BOOLEAN
  /\ autoNvs \in BOOLEAN /\ manualNvs \in BOOLEAN
  /\ ota \in {"idle", "claimed", "held", "aborting"}
  /\ pass \in {"heartbeats", "rmt", "mqtt"} /\ due \in BOOLEAN /\ heartLost \in BOOLEAN
  /\ rmtEdge \in BOOLEAN /\ rmtReboot \in BOOLEAN /\ overflow \in BOOLEAN
  /\ restarted \in {"no"} \cup Purposes
  /\ trouble \in Troubles
  /\ calls \in Nat /\ faults \in Nat

\* Once a stop has driven the line off, it stays off until the stop ends:
\* no command or OTA abort that was let in before the claim turns it on again.
InterlockOffDuringStop ==
  \A t \in Tasks :
    at[t] \in StopPlaces \ {"drive"} /\ job[t].driven => ~interlock

\* A manual target that a stop has cleared is not set again while the stop
\* saves it, although a fresh command may lift the communication inhibit.
ClearedTargetsStayCleared ==
  \A t \in Tasks :
    at[t] \in StopPlaces \ {"drive", "halt"} /\ job[t].clear => ~manual

\* The line is never turned on over an inhibit that a stop has published.
TurnedOnOnlyWhenClear ==
  [][~interlock /\ interlock' =>
       maintenance = 0 /\ inhibits \cap {"GLOBAL", "COMMUNICATION", "RMT"} = {}]_vars

\* A temporary stop that reports an error has latched the global inhibit.
FailedStopLatches ==
  [][\A t \in Tasks :
       at[t] = "end" /\ at'[t] # "end" /\ Temporary(t) /\ job[t].failed =>
         "GLOBAL" \in inhibits']_vars

\* An update downloads with the motors held: nobody moves them, and the stops
\* made meanwhile do not release the maintenance that the update took.
OtaHoldsMotors == ota = "held" => maintenance > 0 /\ ~moving

\* A fail-safe reboot finds both sources of motion off in flash: the targets
\* are zero and the schedules inhibited, whatever commands, overrides and
\* debounced saves were under way.
RestartIsSafe == restarted \in {"restart", "reboot"} => autoNvs /\ ~manualNvs

\* A lost heartbeat restarts the node once stops and saves succeed.
LostHeartRestarts == heartLost ~> restarted # "no"

\* RMT faults reboot the node although its streams cannot be stopped.
RmtFaultReboots == rmtReboot ~> restarted # "no"

=============================================================================
