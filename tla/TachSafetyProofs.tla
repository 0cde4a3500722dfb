-------------------------- MODULE TachSafetyProofs --------------------------
(***************************************************************************)
(* Theorems about TachSafety: its types and the ownership of the mutex, no *)
(* stop for a fault that has been cleared, and an answer for every fault   *)
(* that has not.                                                           *)
(***************************************************************************)
EXTENDS TachSafety, TLAPS

LEMMA FanFacts ==
  /\ 0 \in Fans
  /\ \A f \in Fans : NextFan(f) \in Fans
<1>1. FanCount \in Nat /\ FanCount > 0
  BY TachAssumption
<1>2. 0 \in Fans
  BY <1>1 DEF Fans
<1>3. ASSUME NEW f \in Fans PROVE NextFan(f) \in Fans
  BY <1>1, <1>3 DEF Fans, NextFan
<1> QED
  BY <1>2, <1>3

-----------------------------------------------------------------------------
(* Types.                                                                  *)

LEMMA AlarmStep == TypeOK /\ Next => AlarmTypes'
<1> SUFFICES ASSUME TypeOK, Next PROVE AlarmTypes'
  OBVIOUS
<1> USE DEF TypeOK, AlarmTypes, alarmVars
<1>1. CASE ReadSample
  <2>1. PICK s \in {"calm", "low", "invalid"} :
          mon' = [mon EXCEPT !.at = "judge", !.sample = s]
    BY <1>1 DEF ReadSample
  <2> QED
    BY <1>1, <2>1 DEF ReadSample, Places
<1>2. CASE Judge
  <2>1. CASE JudgeCalm(mon.fan)
    BY <2>1, <1>2, FanFacts DEF Judge, JudgeCalm, Sampled, Reading, Places
  <2>2. CASE JudgeSuspect(mon.fan)
    BY <2>2, <1>2, FanFacts DEF Judge, JudgeSuspect, StartTimers, Sampled, Reading, Places
  <2>3. CASE JudgeFault(mon.fan)
    <3> mon.fan \in Fans
      OBVIOUS
    <3>1. alarm' \in [Fans -> BOOLEAN] /\ latched' \in [Fans -> BOOLEAN]
      BY <2>3 DEF JudgeFault
    <3>2. generation' \in [Fans -> Nat] /\ generation'[mon.fan] \in Nat
      BY <2>3 DEF JudgeFault
    <3>3. mon' \in [at : Places.mon, fan : Fans, sample : {"calm", "low", "invalid"}, gen : Nat]
      BY <2>3, <3>2 DEF JudgeFault, Places
    <3>4. stalled' \in [Fans -> BOOLEAN] /\ invalid' \in [Fans -> BOOLEAN]
      BY <2>3 DEF JudgeFault, StartTimers
    <3> QED
      BY <3>1, <3>2, <3>3, <3>4
  <2> QED
    BY <2>1, <2>2, <2>3, <1>2 DEF Judge
<1>3. CASE QueueEvent
  BY <1>3 DEF QueueEvent, Places
<1>4. CASE NotifyWorker
  BY <1>4, FanFacts DEF NotifyWorker, Sampled, Reading, Places
<1>5. CASE WorkerLocal \/ TakeMutex \/ Respond \/ Background
  BY <1>5 DEF WorkerLocal, TakeMutex, Respond, Background
<1>6. CASE Command
  <2>1. CASE ClearAlarm
    BY <2>1, <1>6 DEF Command, ClearAlarm, EventTypes
  <2>2. CASE UNCHANGED alarmVars
    BY <2>2, <1>6 DEF Command
  <2> QED
    BY <2>1, <2>2, <1>6 DEF Command, ClearBegin, ManualCommand, Clearing, ClearFence,
       ReleaseInhibit, ClearEnd
<1> QED
  BY <1>1, <1>2, <1>3, <1>4, <1>5, <1>6 DEF Next, Monitor

LEMMA EventStep == TypeOK /\ Next => EventTypes'
<1> SUFFICES ASSUME TypeOK, Next PROVE EventTypes'
  OBVIOUS
<1> USE DEF TypeOK, EventTypes, eventVars, workerVars
<1>1. CASE Monitor
  BY <1>1 DEF Monitor, ReadSample, Judge, QueueEvent, NotifyWorker, AlarmTypes
<1>2. CASE WorkerLocal
  <2>1. CASE Wake
    BY <2>1, <1>2 DEF WorkerLocal, Wake, Places
  <2>2. CASE ScanEnd
    BY <2>2, <1>2 DEF WorkerLocal, ScanEnd, Places
  <2>3. CASE TakeEvent
    BY <2>3, <1>2 DEF WorkerLocal, TakeEvent, Places
  <2>4. CASE Discard \/ Give
    <3>1. NoEvent \in [fan : Fans, gen : Nat]
      BY FanFacts DEF NoEvent
    <3>2. NoStop \in [inhibit : {"tach", "global"}, failed : BOOLEAN]
      BY DEF NoStop
    <3> QED
      BY <2>4, <1>2, <3>1, <3>2 DEF WorkerLocal, Discard, Give, Places
  <2>5. CASE Dispatch
    BY <2>5, <1>2 DEF WorkerLocal, Dispatch, Places
  <2> QED
    BY <2>1, <2>2, <2>3, <2>4, <2>5, <1>2 DEF WorkerLocal
<1>3. CASE TakeMutex
  BY <1>3 DEF TakeMutex, LockWorker, Places
<1>4. CASE Respond
  <2>1. UNCHANGED <<pending, bits, todo, event, disp, clearFan>>
    BY <1>4 DEF Respond
  <2>2. ASSUME Escalate \/ \E place \in Places.worker : GoOn(place)
        PROVE  EventTypes'
    <3>1. [inhibit |-> "global", failed |-> FALSE] \in
            [inhibit : {"tach", "global"}, failed : BOOLEAN]
      OBVIOUS
    <3>2. CASE Escalate
      BY <3>1, <3>2, <2>1 DEF Escalate, Places
    <3>3. ASSUME NEW place \in Places.worker, GoOn(place) PROVE EventTypes'
      BY <3>3, <2>1 DEF GoOn
    <3> QED
      BY <2>2, <3>2, <3>3
  <2>3. CASE InhibitFan \/ CancelFan \/ SaveFan
    BY <2>2, <2>3 DEF InhibitFan, CancelFan, SaveFan, Places
  <2>4. CASE StopMotors
    BY <2>1, <2>4 DEF StopMotors, Places
  <2>5. CASE InhibitAutomatic
    BY <2>1, <2>5 DEF InhibitAutomatic, Places
  <2>6. CASE Persist
    BY <2>2, <2>6 DEF Persist, StopEnd, Places
  <2> QED
    BY <2>3, <2>4, <2>5, <2>6, <1>4 DEF Respond
<1>5. CASE Command
  BY <1>5, FanFacts DEF Command, ClearBegin, ManualCommand, Clearing, ClearFence, ClearAlarm,
     ReleaseInhibit, ClearEnd, Places
<1>6. CASE Background
  BY <1>6 DEF Background
<1> QED
  BY <1>1, <1>2, <1>3, <1>4, <1>5, <1>6 DEF Next

LEMMA OutputStep == TypeOK /\ Next => OutputTypes'
<1> SUFFICES ASSUME TypeOK, Next PROVE OutputTypes'
  OBVIOUS
<1> USE DEF TypeOK, OutputTypes, motorVars, schedVars, Off, None
<1>1. CASE Monitor \/ WorkerLocal \/ TakeMutex
  BY <1>1 DEF Monitor, ReadSample, Judge, QueueEvent, NotifyWorker, WorkerLocal, TakeMutex
<1>2. CASE Respond
  <2>1. CASE InhibitFan
    BY <2>1, <1>2 DEF Respond, InhibitFan
  <2>2. CASE CancelFan \/ SaveFan \/ Persist
    BY <2>2, <1>2 DEF Respond, CancelFan, SaveFan, Persist
  <2>3. CASE StopMotors
    BY <2>3, <1>2 DEF Respond, StopMotors
  <2>4. CASE InhibitAutomatic
    BY <2>4, <1>2 DEF Respond, InhibitAutomatic
  <2> QED
    BY <2>1, <2>2, <2>3, <2>4, <1>2 DEF Respond
<1>3. CASE Command
  BY <1>3 DEF Command, ClearBegin, ManualCommand, Clearing, ClearFence, ClearAlarm,
     ReleaseInhibit, ClearEnd
<1>4. CASE Background
  <2>1. CASE DebouncedSave
    BY <2>1, <1>4 DEF Background, DebouncedSave
  <2>2. ASSUME NEW f \in Fans, StartEntry(f) PROVE OutputTypes'
    BY <2>2, <1>4 DEF Background, StartEntry, SavedTarget
  <2>3. ASSUME NEW f \in Fans, CommitEntry(f) PROVE OutputTypes'
    BY <2>3, <1>4 DEF Background, CommitEntry
  <2>4. ASSUME NEW f \in Fans, EndEntry(f) PROVE OutputTypes'
    BY <2>4, <1>4 DEF Background, EndEntry
  <2>5. ASSUME NEW f \in Fans, Ramp(f) PROVE OutputTypes'
    BY <2>5, <1>4 DEF Background, Ramp
  <2> QED
    BY <2>1, <2>2, <2>3, <2>4, <2>5, <1>4 DEF Background
<1> QED
  BY <1>1, <1>2, <1>3, <1>4 DEF Next

LEMMA CountStep == TypeOK /\ Next => CountTypes'
<1> SUFFICES ASSUME TypeOK, Next PROVE CountTypes'
  OBVIOUS
<1> USE TachAssumption DEF TypeOK, CountTypes, boundVars
<1>1. CASE Monitor
  <2>1. CASE Judge
    <3>1. faults' = faults \/ (faults < MaxFaults /\ faults' = faults + 1)
      BY <2>1 DEF Judge, JudgeCalm, JudgeSuspect, JudgeFault
    <3>2. UNCHANGED <<action, mutex, calls, failures>>
      BY <2>1 DEF Judge
    <3> QED
      BY <3>1, <3>2
  <2> QED
    BY <2>1, <1>1 DEF Monitor, ReadSample, QueueEvent, NotifyWorker
<1>2. CASE WorkerLocal \/ TakeMutex
  BY <1>2 DEF WorkerLocal, Wake, ScanEnd, TakeEvent, Discard, Dispatch, Give, TakeMutex,
     LockWorker
<1>3. CASE Respond
  <2>1. failures' = failures \/ (failures < MaxFailures /\ failures' = failures + 1)
    BY <1>3 DEF Respond, InhibitFan, CancelFan, SaveFan, StopMotors, InhibitAutomatic, Persist,
       Fail
  <2>2. UNCHANGED <<action, mutex, faults, calls>>
    BY <1>3 DEF Respond
  <2> QED
    BY <2>1, <2>2
<1>4. CASE Command
  BY <1>4 DEF Command, ClearBegin, ManualCommand, Clearing, ClearFence, ClearAlarm,
     ReleaseInhibit, ClearEnd
<1>5. CASE Background
  BY <1>5 DEF Background, DebouncedSave, StartEntry, CommitEntry, EndEntry, Ramp
<1> QED
  BY <1>1, <1>2, <1>3, <1>4, <1>5 DEF Next

\* The mutex is taken and given where the places of its two users say.
LEMMA OwnershipStep == TypeOK /\ Next => Ownership'
<1> SUFFICES ASSUME TypeOK, Next PROVE Ownership'
  OBVIOUS
<1> USE TachAssumption DEF TypeOK, Ownership
<1>1. CASE Monitor \/ Background
  BY <1>1 DEF Monitor, ReadSample, Judge, QueueEvent, NotifyWorker, Background, workerVars
<1>2. CASE WorkerLocal \/ TakeMutex
  BY <1>2 DEF WorkerLocal, Wake, ScanEnd, TakeEvent, Discard, Dispatch, Give, TakeMutex,
     LockWorker
<1>3. CASE Respond
  BY <1>3 DEF Respond, InhibitFan, CancelFan, SaveFan, StopMotors, InhibitAutomatic, Persist,
     StopEnd, Escalate, GoOn
<1>4. CASE Command
  BY <1>4 DEF Command, ClearBegin, ManualCommand, Clearing, ClearFence, ClearAlarm,
     ReleaseInhibit, ClearEnd, workerVars
<1> QED
  BY <1>1, <1>2, <1>3, <1>4 DEF Next

LEMMA TypeStep == TypeOK /\ [Next]_vars => TypeOK'
<1> SUFFICES ASSUME TypeOK, [Next]_vars PROVE TypeOK'
  OBVIOUS
<1>1. CASE Next
  BY <1>1, AlarmStep, EventStep, OutputStep, CountStep, OwnershipStep DEF TypeOK
<1>2. CASE UNCHANGED vars
  BY <1>2 DEF vars, alarmVars, eventVars, workerVars, motorVars, schedVars, boundVars, TypeOK,
     AlarmTypes, EventTypes, OutputTypes, CountTypes, Ownership
<1> QED
  BY <1>1, <1>2

LEMMA TypeInit == Init => TypeOK
<1> SUFFICES ASSUME Init PROVE TypeOK
  OBVIOUS
<1>1. AlarmTypes /\ EventTypes
  BY FanFacts DEF Init, AlarmTypes, EventTypes, Off, Reading, NoEvent, NoStop, Places
<1>2. OutputTypes
  BY DEF Init, OutputTypes, Off, None
<1>3. CountTypes
  BY TachAssumption DEF Init, CountTypes
<1>4. Ownership
  BY TachAssumption DEF Init, Ownership
<1> QED
  BY <1>1, <1>2, <1>3, <1>4 DEF TypeOK

\* Every variable has its type, no bit or pending slot is that of a fan that does
\* not exist, and s_tach_action_mutex belongs to whoever is between take and give.
THEOREM TypeCorrectness == Spec => []TypeOK
<1>1. Init => TypeOK
  BY TypeInit
<1>2. TypeOK /\ [Next]_vars => TypeOK'
  BY TypeStep
<1> QED
  BY <1>1, <1>2, PTL DEF Spec

-----------------------------------------------------------------------------
(* The invariant.                                                          *)

\* Alarms of a stopping configuration are latched; every alarm has a generation;
\* the event about to be queued is the latest one, or its fault has been cleared.
AlarmInv ==
  /\ \A f \in Fans : alarm[f] /\ action # "alarm" => latched[f]
  /\ \A f \in Fans : alarm[f] => generation[f] # 0
  /\ mon.at = "queue" /\ alarm[mon.fan] => mon.gen = generation[mon.fan]

\* Off, with nothing of the schedule that could turn the fan on again.
Idle(f) == inhibited[f] /\ slot[f] = "none" /\ op[f] = "none"

\* Places of the action task inside the response.
Responding == worker \in {"inhibit", "cancel", "save", "stop", "automatic", "persist"}
FanStop == worker \in {"inhibit", "cancel", "save"}
Stopping == worker \in {"stop", "automatic", "persist"}

\* The event the task responds to stays current, and the steps of the response
\* that have been made are still in force.
ResponseInv ==
  /\ worker = "wait" => todo = {}
  /\ Responding => action # "alarm" /\ Current
  /\ FanStop => action = "fan"
  /\ Stopping /\ stop.inhibit = "tach" => action = "all"
  /\ worker = "cancel" => inhibited[event.fan]
  /\ worker = "save" => Idle(event.fan)
  /\ worker \in {"automatic", "persist"} => inhibited[event.fan] \/ stop.inhibit = "global"
  /\ worker \in {"automatic", "persist"} /\ stop.inhibit = "global" => global
  /\ worker = "persist" /\ ~stop.failed => Idle(event.fan) \/ stop.inhibit = "global"

\* The sampling task ends no alarm of a stopping configuration.
LEMMA LatchedAlarmsStay ==
  ASSUME TypeOK, AlarmInv, Monitor, NEW f \in Fans, alarm[f], action # "alarm"
  PROVE  alarm'[f] /\ generation'[f] = generation[f]
<1> USE DEF TypeOK, AlarmTypes, alarmVars
<1>1. CASE ReadSample \/ QueueEvent \/ NotifyWorker
  BY <1>1 DEF ReadSample, QueueEvent, NotifyWorker
<1>2. CASE Judge
  <2>1. CASE JudgeCalm(mon.fan)
    BY <2>1 DEF JudgeCalm, AlarmInv
  <2>2. CASE JudgeSuspect(mon.fan)
    BY <2>2 DEF JudgeSuspect
  <2>3. CASE JudgeFault(mon.fan)
    BY <2>3 DEF JudgeFault
  <2> QED
    BY <1>2, <2>1, <2>2, <2>3 DEF Judge
<1> QED
  BY <1>1, <1>2 DEF Monitor

LEMMA AlarmInvStep == TypeOK /\ AlarmInv /\ Next => AlarmInv'
<1> SUFFICES ASSUME TypeOK, AlarmInv, Next PROVE AlarmInv'
  OBVIOUS
<1> USE DEF TypeOK, AlarmTypes, alarmVars, AlarmInv
<1>1. CASE ReadSample
  BY <1>1 DEF ReadSample
<1>2. CASE Judge
  <2> mon.fan \in Fans
    OBVIOUS
  <2>1. CASE JudgeCalm(mon.fan)
    BY <2>1, <1>2 DEF Judge, JudgeCalm, Sampled, Reading
  <2>2. CASE JudgeSuspect(mon.fan)
    BY <2>2, <1>2 DEF Judge, JudgeSuspect, Sampled, Reading
  <2>3. CASE JudgeFault(mon.fan)
    <3>1. action' = action /\ action \in {"alarm", "fan", "all"}
      BY <1>2, TachAssumption DEF Judge, CountTypes
    <3>2. action # "alarm" => mon.fan \in Latches(mon.fan)
      BY <3>1 DEF Latches
    <3>3. \A f \in Fans : alarm'[f] /\ action # "alarm" => latched'[f]
      BY <2>3, <3>2 DEF JudgeFault
    <3>4. \A f \in Fans : alarm'[f] => generation'[f] # 0
      BY <2>3 DEF JudgeFault
    <3>5. mon'.gen = generation'[mon'.fan]
      BY <2>3 DEF JudgeFault
    <3> QED
      BY <3>1, <3>3, <3>4, <3>5
  <2> QED
    BY <1>2, <2>1, <2>2, <2>3 DEF Judge
<1>3. CASE QueueEvent \/ NotifyWorker
  BY <1>3 DEF QueueEvent, NotifyWorker, Sampled, Reading
<1>4. CASE WorkerLocal \/ TakeMutex \/ Respond \/ Background
  BY <1>4 DEF WorkerLocal, TakeMutex, Respond, Background
<1>5. CASE Command
  <2>1. CASE ClearAlarm
    BY <2>1, <1>5 DEF Command, ClearAlarm, EventTypes
  <2>2. CASE UNCHANGED alarmVars
    BY <2>2, <1>5 DEF Command
  <2> QED
    BY <2>1, <2>2, <1>5 DEF Command, ClearBegin, ManualCommand, Clearing, ClearFence,
       ReleaseInhibit, ClearEnd
<1> QED
  BY <1>1, <1>2, <1>3, <1>4, <1>5 DEF Next, Monitor

LEMMA ResponseInvStep == TypeOK /\ AlarmInv /\ ResponseInv /\ Next => ResponseInv'
<1> SUFFICES ASSUME TypeOK, AlarmInv, ResponseInv, Next PROVE ResponseInv'
  OBVIOUS
<1> event.fan \in Fans
  BY DEF TypeOK, EventTypes
<1>1. CASE Monitor
  <2>1. UNCHANGED <<action, workerVars, motorVars, schedVars>>
    BY <1>1 DEF Monitor, ReadSample, Judge, QueueEvent, NotifyWorker
  <2>2. Responding => Current'
    BY <1>1, <2>1, LatchedAlarmsStay DEF ResponseInv, Current, workerVars
  <2> QED
    BY <2>1, <2>2 DEF ResponseInv, Responding, FanStop, Stopping, Idle, workerVars, motorVars,
       schedVars
<1>2. CASE WorkerLocal
  BY <1>2, TachAssumption DEF WorkerLocal, Wake, ScanEnd, TakeEvent, Discard, Dispatch, Give,
     ResponseInv, Responding, FanStop, Stopping, Idle, Current, alarmVars
<1>3. CASE TakeMutex
  BY <1>3 DEF TakeMutex, LockWorker, ResponseInv, Responding, FanStop, Stopping
<1>4. CASE Respond
  <2> USE DEF ResponseInv, Responding, FanStop, Stopping, Idle
  <2>1. UNCHANGED <<action, alarmVars, todo, event>>
    BY <1>4 DEF Respond
  <2>2. Responding => Current'
    BY <2>1 DEF Current, alarmVars
  <2>3. CASE InhibitFan
    BY <2>1, <2>2, <2>3 DEF InhibitFan, Escalate, GoOn, TypeOK, OutputTypes
  <2>4. CASE CancelFan
    BY <2>1, <2>2, <2>4 DEF CancelFan, Escalate, GoOn, TypeOK, OutputTypes, motorVars
  <2>5. CASE SaveFan
    BY <2>1, <2>2, <2>5 DEF SaveFan, Escalate, GoOn
  <2>6. CASE StopMotors
    BY <2>1, <2>2, <2>6 DEF StopMotors, TypeOK, EventTypes
  <2>7. CASE InhibitAutomatic
    BY <2>1, <2>2, <2>7 DEF InhibitAutomatic, TypeOK, EventTypes, None, motorVars
  <2>8. CASE Persist
    BY <2>1, <2>2, <2>8 DEF Persist, StopEnd, Escalate, GoOn
  <2> QED
    BY <1>4, <2>3, <2>4, <2>5, <2>6, <2>7, <2>8 DEF Respond
<1>5. CASE Command
  <2> USE DEF ResponseInv, Responding, FanStop, Stopping, Idle
  <2>1. UNCHANGED <<action, workerVars>>
    BY <1>5 DEF Command
  <2>2. Responding => disp = "idle" /\ mutex # Nobody
    BY TachAssumption DEF TypeOK, Ownership
  <2>3. CASE ~Responding
    BY <2>1, <2>3 DEF workerVars
  <2>4. ASSUME Responding, NEW f \in Fans, NEW on \in BOOLEAN, ManualCommand(f, on)
        PROVE  ResponseInv'
    BY <2>1, <2>4 DEF ManualCommand, Allowed, Current, workerVars, alarmVars, TypeOK, OutputTypes
  <2> QED
    BY <1>5, <2>2, <2>3, <2>4 DEF Command, ClearBegin, Clearing, ClearFence, ClearAlarm,
       ReleaseInhibit, ClearEnd
<1>6. CASE Background
  <2> USE DEF ResponseInv, Responding, FanStop, Stopping, Idle
  <2>1. UNCHANGED <<action, alarmVars, workerVars, inhibited, global>>
    BY <1>6 DEF Background
  <2>2. Current' = Current
    BY <2>1 DEF Current, alarmVars, workerVars
  <2>3. ASSUME NEW f \in Fans, Idle(f) PROVE Idle(f)'
    <3>1. CASE DebouncedSave
      BY <3>1, <2>1, <2>3 DEF DebouncedSave
    <3>2. ASSUME NEW g \in Fans, StartEntry(g) \/ CommitEntry(g) \/ EndEntry(g) \/ Ramp(g)
          PROVE  Idle(f)'
      BY <3>2, <2>1, <2>3 DEF StartEntry, CommitEntry, EndEntry, Ramp, Allowed, TypeOK,
         OutputTypes
    <3> QED
      BY <3>1, <3>2, <1>6 DEF Background
  <2> QED
    BY <2>1, <2>2, <2>3 DEF workerVars
<1> QED
  BY <1>1, <1>2, <1>3, <1>4, <1>5, <1>6 DEF Next

Inv == TypeOK /\ AlarmInv /\ ResponseInv

LEMMA InvInit == Init => Inv
BY TypeInit, FanFacts DEF Init, Inv, AlarmInv, ResponseInv, Responding, FanStop, Stopping,
   Off, Reading

LEMMA InvStep == Inv /\ [Next]_vars => Inv'
<1> SUFFICES ASSUME Inv, [Next]_vars PROVE Inv'
  OBVIOUS
<1>1. CASE Next
  BY <1>1, TypeStep, AlarmInvStep, ResponseInvStep DEF Inv
<1>2. CASE UNCHANGED vars
  <2>1. TypeOK'
    BY <1>2, TypeStep DEF Inv
  <2> QED
    BY <1>2, <2>1 DEF Inv, AlarmInv, ResponseInv, Responding, FanStop, Stopping, Idle, Current,
       vars, alarmVars, eventVars, workerVars, motorVars, schedVars
<1> QED
  BY <1>1, <1>2

THEOREM Invariance == Spec => []Inv
BY InvInit, InvStep, PTL DEF Spec

\* No fan becomes inhibited for a fault that has been cleared: the generation is
\* checked under the mutex of CLEAR, and stays what it was.
THEOREM NoStaleStop == Spec => StaleStopLatchesNothing
<1>1. Inv /\ Next => StopsForAnAlarm
  <2> SUFFICES ASSUME Inv, Next, NEW f \in Fans, NewlyInhibited(f)
               PROVE  \E g \in Fans : alarm[g] /\ (action = "fan" => g = f)
    BY DEF StopsForAnAlarm
  <2> USE DEF Inv, NewlyInhibited
  <2> event.fan \in Fans
    BY DEF TypeOK, EventTypes
  <2>1. CASE InhibitFan
    BY <2>1 DEF InhibitFan, ResponseInv, Responding, Current, TypeOK, OutputTypes
  <2>2. CASE StopMotors
    BY <2>2 DEF StopMotors, ResponseInv, Responding, Stopping, Current, TypeOK, OutputTypes
  <2>3. CASE ReleaseInhibit
    BY <2>3 DEF ReleaseInhibit, TypeOK, OutputTypes
  <2>4. CASE UNCHANGED inhibited
    BY <2>4
  <2> QED
    BY <2>1, <2>2, <2>3, <2>4 DEF Next, Monitor, ReadSample, Judge, QueueEvent, NotifyWorker,
       WorkerLocal, TakeMutex, Respond, CancelFan, SaveFan, InhibitAutomatic, Persist, Command,
       ClearBegin, ManualCommand, Clearing, ClearFence, ClearAlarm, ClearEnd, Background, motorVars
<1> QED
  BY <1>1, Invariance, PTL DEF Spec, StaleStopLatchesNothing

-----------------------------------------------------------------------------
(* Every fault is served.                                                  *)

\* An inhibited fan has no manual target; a fan about to be released after a CLEAR
\* has raised any alarm since then; every fault is served.
Served(f) == Outstanding(f) \/ global \/ (Idle(f) /\ ~nvs[f])
ServeInv ==
  /\ \A f \in Fans : inhibited[f] => ~manual[f]
  /\ \A f \in Fans : alarm[f] /\ action # "alarm" /\ disp = "release" /\ clearFan = f =>
                    Outstanding(f)
  /\ \A f \in Fans : alarm[f] /\ action # "alarm" => Served(f)

\* The sampling task hands over what it raises.
LEMMA MonitorOutstanding ==
  ASSUME Inv, Monitor, NEW f \in Fans, alarm'[f], Outstanding(f) \/ ~alarm[f]
  PROVE  Outstanding(f)'
<1> USE DEF Inv, TypeOK, AlarmTypes, EventTypes, Outstanding
<1>1. CASE ReadSample
  BY <1>1 DEF ReadSample, eventVars, workerVars, alarmVars, AlarmInv
<1>2. CASE Judge
  <2>1. UNCHANGED <<eventVars, workerVars>> /\ mon.at = "judge" /\ mon.fan \in Fans
    BY <1>2 DEF Judge
  <2>2. CASE JudgeCalm(mon.fan)
    BY <2>1, <2>2 DEF JudgeCalm, eventVars, workerVars
  <2>3. CASE JudgeSuspect(mon.fan)
    BY <2>1, <2>3 DEF JudgeSuspect, eventVars, workerVars
  <2>4. CASE JudgeFault(mon.fan)
    <3>1. CASE f = mon.fan
      BY <2>4, <3>1 DEF JudgeFault
    <3>2. CASE f # mon.fan
      BY <2>1, <2>4, <3>2 DEF JudgeFault, eventVars, workerVars
    <3> QED
      BY <3>1, <3>2
  <2> QED
    BY <1>2, <2>2, <2>3, <2>4 DEF Judge
<1>3. CASE QueueEvent
  BY <1>3 DEF QueueEvent, AlarmInv, alarmVars, workerVars
<1>4. CASE NotifyWorker
  BY <1>4 DEF NotifyWorker, alarmVars, workerVars
<1> QED
  BY <1>1, <1>2, <1>3, <1>4 DEF Monitor

\* The action task loses no event on its way to the response.
LEMMA WorkerOutstanding ==
  ASSUME Inv, WorkerLocal \/ TakeMutex, NEW f \in Fans, alarm[f], action # "alarm",
         Outstanding(f)
  PROVE  Outstanding(f)'
<1> USE DEF Inv, TypeOK, AlarmTypes, EventTypes, Outstanding
<1>1. UNCHANGED <<action, alarmVars, mon>>
  BY DEF WorkerLocal, TakeMutex
<1>2. CASE Wake
  BY <1>1, <1>2 DEF Wake, ResponseInv, alarmVars
<1>3. CASE ScanEnd
  BY <1>1, <1>3 DEF ScanEnd, eventVars, alarmVars
<1>4. CASE TakeEvent
  <2>1. PICK g \in todo :
          /\ todo' = todo \ {g}
          /\ pending' = [pending EXCEPT ![g] = 0]
          /\ IF pending[g] = 0
             THEN UNCHANGED <<event, worker>>
             ELSE event' = [fan |-> g, gen |-> pending[g]] /\ worker' = "lock"
    BY <1>4 DEF TakeEvent
  <2>2. worker = "scan" /\ bits' = bits /\ generation[f] # 0
    BY <1>4 DEF TakeEvent, AlarmInv
  <2>3. CASE g # f
    BY <1>1, <2>1, <2>2, <2>3 DEF alarmVars
  <2>4. CASE g = f
    <3>1. CASE pending[f] = generation[f]
      BY <1>1, <2>1, <2>2, <2>4, <3>1 DEF alarmVars
    <3>2. CASE pending[f] # generation[f]
      BY <1>1, <2>2, <3>2 DEF alarmVars
    <3> QED
      BY <3>1, <3>2
  <2> QED
    BY <2>3, <2>4
<1>5. CASE Discard
  BY <1>1, <1>5 DEF Discard, Current, eventVars, alarmVars
<1>6. CASE Dispatch
  BY <1>1, <1>6, TachAssumption DEF Dispatch, CountTypes, eventVars, alarmVars
<1>7. CASE Give
  BY <1>1, <1>7 DEF Give, eventVars, alarmVars
<1>8. CASE TakeMutex
  BY <1>1, <1>8 DEF TakeMutex, LockWorker, eventVars, alarmVars
<1> QED
  BY <1>2, <1>3, <1>4, <1>5, <1>6, <1>7, <1>8 DEF WorkerLocal

\* The response to an event ends with its fan served.
LEMMA RespondServed ==
  ASSUME Inv, ServeInv, Respond, NEW f \in Fans, Outstanding(f)
  PROVE  Served(f)'
<1> USE DEF Inv, TypeOK, EventTypes, Outstanding, Served
<1>1. UNCHANGED <<alarmVars, mon, eventVars, todo, event>>
  BY DEF Respond
<1>2. CASE worker' # "give"
  BY <1>1, <1>2 DEF Respond, InhibitFan, CancelFan, SaveFan, StopMotors, InhibitAutomatic,
     Persist, StopEnd, Escalate, GoOn, alarmVars, eventVars
<1>3. CASE worker' = "give" /\ event.fan # f
  BY <1>1, <1>3 DEF alarmVars, eventVars
<1>4. CASE worker' = "give" /\ event.fan = f
  <2>1. SaveFan \/ Persist
    BY <1>4 DEF Respond, InhibitFan, CancelFan, StopMotors, InhibitAutomatic, Escalate, GoOn
  <2>2. CASE SaveFan
    BY <1>4, <2>2 DEF SaveFan, Escalate, GoOn, ResponseInv, Idle, ServeInv, motorVars, schedVars
  <2>3. CASE Persist
    <3>1. stop.inhibit = "global" \/ (~stop.failed /\ nvs' = manual)
      BY <1>4, <2>3 DEF Persist, StopEnd, Escalate, GoOn
    <3>2. UNCHANGED <<motorVars, schedVars>> /\ worker = "persist"
      BY <2>3 DEF Persist
    <3> QED
      BY <1>4, <3>1, <3>2 DEF ResponseInv, Responding, Stopping, Idle, ServeInv, motorVars,
         schedVars
  <2> QED
    BY <2>1, <2>2, <2>3
<1> QED
  BY <1>2, <1>3, <1>4

\* An inhibited fan has no manual target: an inhibit and the targets it ends are
\* set together, and no target is accepted for an inhibited fan.
LEMMA InhibitedIsOff ==
  ASSUME TypeOK, \A f \in Fans : inhibited[f] => ~manual[f], Next, NEW g \in Fans, inhibited'[g]
  PROVE  ~manual'[g]
<1> USE DEF TypeOK, OutputTypes, EventTypes, motorVars
<1>1. CASE Respond
  BY <1>1 DEF Respond, InhibitFan, CancelFan, SaveFan, StopMotors, InhibitAutomatic, Persist, Off
<1>2. CASE Command
  BY <1>2 DEF Command, ClearBegin, ManualCommand, Allowed, Clearing, ClearFence, ClearAlarm,
     ReleaseInhibit, ClearEnd
<1>3. CASE Background
  BY <1>3 DEF Background, StartEntry, CommitEntry, EndEntry, Ramp, DebouncedSave
<1>4. CASE Monitor \/ WorkerLocal \/ TakeMutex
  BY <1>4 DEF Monitor, ReadSample, Judge, QueueEvent, NotifyWorker, WorkerLocal, TakeMutex
<1> QED
  BY <1>1, <1>2, <1>3, <1>4 DEF Next

\* A fan that is off for good stays so until CLEAR releases its inhibit.
LEMMA SettledStays ==
  ASSUME TypeOK, \A g \in Fans : inhibited[g] => ~manual[g], Next, ~ReleaseInhibit,
         NEW f \in Fans, Idle(f), ~nvs[f]
  PROVE  Idle(f)' /\ ~nvs'[f]
<1> USE DEF TypeOK, OutputTypes, EventTypes, motorVars, schedVars, Idle
<1>1. CASE Respond
  <2>1. CASE InhibitFan
    BY <2>1 DEF InhibitFan
  <2>2. CASE CancelFan
    BY <2>2 DEF CancelFan
  <2>3. CASE SaveFan \/ Persist
    BY <2>3 DEF SaveFan, Persist
  <2>4. CASE StopMotors
    BY <2>4 DEF StopMotors
  <2>5. CASE InhibitAutomatic
    BY <2>5 DEF InhibitAutomatic, None
  <2> QED
    BY <1>1, <2>1, <2>2, <2>3, <2>4, <2>5 DEF Respond
<1>2. CASE Command
  <2>1. CASE \E g \in Fans, on \in BOOLEAN : ManualCommand(g, on)
    BY <1>2, <2>1 DEF Command, ManualCommand, Allowed
  <2>2. CASE ~\E g \in Fans, on \in BOOLEAN : ManualCommand(g, on)
    BY <1>2, <2>2 DEF Command, ClearBegin, Clearing, ClearFence, ClearAlarm, ClearEnd
  <2> QED
    BY <2>1, <2>2
<1>3. CASE Background
  <2>1. CASE DebouncedSave
    BY <1>3, <2>1 DEF Background, DebouncedSave
  <2>2. ASSUME NEW g \in Fans, StartEntry(g) \/ CommitEntry(g) \/ EndEntry(g) \/ Ramp(g)
        PROVE  Idle(f)' /\ ~nvs'[f]
    BY <1>3, <2>2 DEF Background, StartEntry, CommitEntry, EndEntry, Ramp, Allowed
  <2> QED
    BY <1>3, <2>1, <2>2 DEF Background
<1>4. CASE Monitor \/ WorkerLocal \/ TakeMutex
  BY <1>4 DEF Monitor, ReadSample, Judge, QueueEvent, NotifyWorker, WorkerLocal, TakeMutex
<1> QED
  BY <1>1, <1>2, <1>3, <1>4 DEF Next

LEMMA GlobalStays == Next /\ global => global'
BY DEF Next, Monitor, ReadSample, Judge, QueueEvent, NotifyWorker, WorkerLocal, TakeMutex,
   Respond, InhibitFan, CancelFan, SaveFan, StopMotors, InhibitAutomatic, Persist, Command,
   ClearBegin, ManualCommand, Clearing, ClearFence, ClearAlarm, ReleaseInhibit, ClearEnd,
   Background, motorVars

LEMMA ServeStep == Inv /\ ServeInv /\ Next => ServeInv'
<1> SUFFICES ASSUME Inv, ServeInv, Next PROVE ServeInv'
  OBVIOUS
<1> USE DEF Inv
<1>1. \A f \in Fans : inhibited'[f] => ~manual'[f]
  BY InhibitedIsOff DEF ServeInv
<1>2. action' = action
  BY DEF Next, Monitor, ReadSample, Judge, QueueEvent, NotifyWorker, WorkerLocal, TakeMutex,
     Respond, Command, Background
\* What is outstanding stays so, or is served, or is cleared.
<1>3. ASSUME NEW f \in Fans, alarm'[f], action # "alarm", Outstanding(f) \/ ~alarm[f]
      PROVE  Served(f)'
  <2>1. CASE Monitor
    BY <1>3, <2>1, MonitorOutstanding DEF Served
  <2>2. CASE WorkerLocal \/ TakeMutex
    BY <1>3, <2>2, WorkerOutstanding DEF Served, WorkerLocal, TakeMutex, alarmVars
  <2>3. CASE Respond
    BY <1>3, <2>3, RespondServed DEF Respond, alarmVars
  <2>4. CASE Command
    BY <1>3, <2>4 DEF Served, Outstanding, Command, ClearBegin, ManualCommand, Clearing,
       ClearFence, ClearAlarm, ReleaseInhibit, ClearEnd, alarmVars, eventVars, workerVars,
       TypeOK, AlarmTypes, EventTypes
  <2>5. CASE Background
    BY <1>3, <2>5 DEF Served, Outstanding, Background, alarmVars, eventVars, workerVars
  <2> QED
    BY <2>1, <2>2, <2>3, <2>4, <2>5 DEF Next
<1>4. \A f \in Fans : alarm'[f] /\ action' # "alarm" => Served(f)'
  <2> SUFFICES ASSUME NEW f \in Fans, alarm'[f], action # "alarm" PROVE Served(f)'
    BY <1>2
  <2>1. CASE Outstanding(f) \/ ~alarm[f]
    BY <2>1, <1>3
  <2>2. CASE ~Outstanding(f) /\ alarm[f] /\ global
    BY <2>2, GlobalStays DEF Served
  <2>3. CASE ~Outstanding(f) /\ alarm[f] /\ Idle(f) /\ ~nvs[f]
    <3>1. CASE ReleaseInhibit
      <4>1. f # clearFan
        BY <2>3, <3>1 DEF ServeInv, ReleaseInhibit
      <4>2. UNCHANGED <<schedVars, nvs>> /\ inhibited'[f] = inhibited[f]
        BY <3>1, <4>1 DEF Next, Monitor, ReadSample, Judge, QueueEvent, NotifyWorker,
           WorkerLocal, TakeMutex, Respond, Background, Command, ReleaseInhibit, ClearBegin,
           ManualCommand, Clearing, ClearFence, ClearAlarm, ClearEnd, TypeOK, OutputTypes
      <4> QED
        BY <2>3, <4>2 DEF Served, Idle, schedVars
    <3>2. CASE ~ReleaseInhibit
      BY <2>3, <3>2, SettledStays DEF ServeInv, Served
    <3> QED
      BY <3>1, <3>2
  <2> QED
    BY <2>1, <2>2, <2>3 DEF ServeInv, Served
<1>5. \A f \in Fans : alarm'[f] /\ action' # "alarm" /\ disp' = "release" /\ clearFan' = f =>
                      Outstanding(f)'
  <2> SUFFICES ASSUME NEW f \in Fans, alarm'[f], action # "alarm", disp' = "release", clearFan' = f
               PROVE  Outstanding(f)'
    BY <1>2
  <2>1. CASE disp = "release" /\ clearFan = f
    <3>1. Outstanding(f) \/ ~alarm[f]
      BY <2>1 DEF ServeInv
    <3>2. CASE Monitor
      BY <2>1, <3>1, <3>2, MonitorOutstanding
    <3>3. CASE WorkerLocal \/ TakeMutex
      BY <2>1, <3>1, <3>3, WorkerOutstanding DEF WorkerLocal, TakeMutex, alarmVars
    <3>4. CASE Respond
      BY <2>1, <3>4, TachAssumption DEF Respond, InhibitFan, CancelFan, SaveFan, StopMotors,
         InhibitAutomatic, Persist, TypeOK, Ownership
    <3>5. CASE Command
      BY <2>1, <3>1, <3>5 DEF Outstanding, Command, ClearBegin, ManualCommand, Clearing,
         ClearFence, ClearAlarm, ReleaseInhibit, ClearEnd, alarmVars, eventVars, workerVars
    <3>6. CASE Background
      BY <2>1, <3>1, <3>6 DEF Outstanding, Background, alarmVars, eventVars, workerVars
    <3> QED
      BY <3>2, <3>3, <3>4, <3>5, <3>6 DEF Next
  <2>2. CASE ClearAlarm
    BY <2>2 DEF ClearAlarm, TypeOK, AlarmTypes, EventTypes
  <2>3. CASE ~ClearAlarm
    <3>1. disp = "release" /\ clearFan = f
      BY <2>3 DEF Next, Monitor, ReadSample, Judge, QueueEvent, NotifyWorker, WorkerLocal,
         TakeMutex, Respond, Background, Command, ReleaseInhibit, ClearBegin, ManualCommand,
         Clearing, ClearFence, ClearEnd
    <3> QED
      BY <2>1, <3>1
  <2> QED
    BY <2>2, <2>3
<1> QED
  BY <1>1, <1>4, <1>5 DEF ServeInv

\* No fault is lost or left half answered: until a CLEAR, its response is still to
\* come or the fan is off for good, in flash as well.
THEOREM ResponseSafety == Spec => []FaultIsServed
<1>1. Init => ServeInv
  BY FanFacts DEF Init, ServeInv, Off
<1>2. ServeInv /\ UNCHANGED vars => ServeInv'
  BY DEF ServeInv, Served, Outstanding, Idle, vars, alarmVars, eventVars, workerVars, motorVars,
     schedVars
<1>3. ServeInv => FaultIsServed
  BY DEF ServeInv, Served, FaultIsServed, Settled, Idle
<1> QED
  BY <1>1, <1>2, <1>3, ServeStep, Invariance, PTL DEF Spec

=============================================================================
