--------------------------- MODULE SchedulerProofs ---------------------------
(***************************************************************************)
(* The safety of Scheduler for every number of fans and entries, every     *)
(* target and any number of commands, faults and stops: its types, the     *)
(* ownership of reservations, the inhibit as a barrier, the end of every   *)
(* scheduled target and what is put back then.                             *)
(*                                                                         *)
(* The argument has three layers, each inductive over the ones before it.  *)
(* Reserving is the position of the actors; Barrier is the inhibit and the *)
(* override that completes it; Motion is what the motors were asked for,   *)
(* under which an actor that gives back a fan leaves no target behind.     *)
(***************************************************************************)
EXTENDS Scheduler, TLAPS

-----------------------------------------------------------------------------
(* The inductive invariant                                                 *)
\* The override changes the inhibit when it has every fan, and then restores.
SwitchedByOp == op.at = "restoring" => inhibited = op.on

Barrier ==
  /\ latched => inhibited
  /\ SwitchedByOp
  /\ inhibited => \A f \in Fans : slot[f] = NoSlot \/ (op.at = "restoring" /\ op.on)

\* A fan that automatic requests are refused for has been stopped.
RefusedIsStopped == \A f \in Fans : AutomaticAllowed(f) \/ source[f] = "none"

\* A start under way still finds what it was chosen for.
StartStands ==
  \A f \in Fans, s \in Slots :
    task.at \in {"apply", "started"} /\ task.fan = f /\ task.slot = s =>
      enabled[f][s] /\ ~inhibited /\ slot[f] = NoSlot

\* The stop holds the motors while it waits for the operations, and no command is
\* under way that could take its inhibit back.
StopHolds ==
  /\ stop.at \in {"inhibit", "finish"} =>
       /\ ~Commanding
       /\ stop.kind = "GLOBAL" => globalHeld
       /\ stop.kind = "COMMUNICATION" => commHeld
  /\ stop.at \in {"halt", "inhibit"} => ~stop.failed
  /\ stop.at = "finish" /\ stop.failed /\ stop.kind = "COMMUNICATION" => missed

\* The tachometer inhibit stays until the response has ended, or has become a stop.
FaultHolds ==
  /\ \A f \in Fans : fault.at # "idle" /\ fault.fan = f => tachHeld[f]
  /\ fault.at = "stopping" => stop.at # "idle" /\ stop.kind = "GLOBAL"

\* An actor about to end an entry has replaced the target that it started.
TaskReplaced ==
  \A f \in Fans : task.fan = f /\ (task.at = "ended" \/ (task.at = "started" /\ ~task.ok))
                    => source[f] # "start"
OpReplaced ==
  /\ op.at \in {"disable", "look"} => ~op.ok
  /\ \A f \in Fans : op.fan = f /\ op.at \in {"manualDone", "disabled"} /\ op.ok
                       => source[f] # "start"
  /\ op.at = "restoring" => \A f \in op.todo : slot[f] # NoSlot
  /\ op.at = "restoring" /\ op.on =>
       \A f \in Fans : slot[f] # NoSlot => f \in op.todo \/ source[f] # "start"

\* A target of an entry is active, or its start is under way.
Owner == \A f \in Fans : source[f] = "start" => slot[f] # NoSlot \/ f \in ByTask

Motion ==
  /\ RefusedIsStopped /\ StartStands /\ StopHolds /\ FaultHolds
  /\ TaskReplaced /\ OpReplaced /\ Owner

\* Why the target that an entry has saved for fan f may differ from the manual
\* target: nobody can put it back any more.
Pardoned(f) ==
  \/ missed \/ globalHeld
  \/ stop.at = "inhibit" \/ (stop.at = "finish" /\ stop.failed)
  \/ fault.at # "idle" /\ fault.fan = f
  \/ op.at = "manualDone" /\ op.ok /\ op.fan = f

Kept ==
  /\ \A f \in Fans : slot[f] # NoSlot => saved[f] = manual[f] \/ Pardoned(f)
  /\ \A f \in Fans :
       task.fan = f /\ (task.at = "restore" \/ (task.at = "started" /\ task.ok)) =>
         task.value = manual[f] \/ Pardoned(f)
  /\ \A f \in Fans : op.at = "putBack" /\ op.fan = f => op.value = manual[f] \/ Pardoned(f)
  /\ RestoreReturnsManual

-----------------------------------------------------------------------------
(* Constants                                                               *)
LEMMA ConstantFacts ==
  /\ 0 \in Fans /\ 0 \in Slots /\ NoSlot \notin Slots
  /\ \A f \in Fans : f + 1 # FanCount => f + 1 \in Fans
  /\ \A f \in Fans : f \in Int /\ f >= 0 /\ f < FanCount
  /\ \A s \in Slots : (s + 1) % SlotCount \in Slots
<1>1. FanCount \in Nat /\ FanCount > 0 /\ SlotCount \in Nat /\ SlotCount > 0
  BY SchedulerAssumption
<1>2. ASSUME NEW s \in Slots PROVE (s + 1) % SlotCount \in Slots
  <2>1. s + 1 \in Nat
    BY <1>1 DEF Slots
  <2>2. (s + 1) % SlotCount \in 0..(SlotCount - 1)
    BY <1>1, <2>1
  <2> QED
    BY <2>2 DEF Slots
<1> QED
  BY <1>1, <1>2 DEF Fans, Slots, NoSlot

LEMMA TargetFacts == ManualTargets \subseteq Nat /\ EntryTargets \subseteq Nat
BY SchedulerAssumption

-----------------------------------------------------------------------------
(* Types                                                                   *)
TaskRecords == [at : {"sleep", "end", "restore", "ended", "start", "apply", "started"},
                fan : Fans, slot : Slots, value : Nat, ok : BOOLEAN]
OpRecords == [at : {"idle", "manual", "request", "manualDone", "set", "store", "disable",
                    "look", "putBack", "disabled", "walk", "switch", "restoring"},
              fan : Fans, slot : Slots, value : Nat, ok : BOOLEAN, on : BOOLEAN,
              todo : SUBSET Fans]
FaultRecords == [at : {"idle", "cancel", "cancelled", "escalate", "stopping"}, fan : Fans]
StopRecords == [at : {"idle", "halt", "inhibit", "finish"},
                kind : {"PLAIN", "GLOBAL", "COMMUNICATION"}, clear : BOOLEAN,
                failed : BOOLEAN]

EntryTypes ==
  /\ enabled \in [Fans -> [Slots -> BOOLEAN]]
  /\ goal \in [Fans -> [Slots -> Nat]]
  /\ due \in [Fans -> [Slots -> BOOLEAN]]
FanTypes ==
  /\ slot \in [Fans -> Slots \cup {NoSlot}] /\ over \in [Fans -> BOOLEAN]
  /\ saved \in [Fans -> Nat] /\ cursor \in [Fans -> Slots]
FlagTypes ==
  /\ pending \in [Fans -> BOOLEAN]
  /\ inhibited \in BOOLEAN /\ latched \in BOOLEAN
  /\ missed \in BOOLEAN
  /\ commands \in Nat /\ stops \in Nat
MotorTypes ==
  /\ target \in [Fans -> Nat] /\ manual \in [Fans -> Nat]
  /\ source \in [Fans -> Sources]
  /\ tachHeld \in [Fans -> BOOLEAN] /\ commHeld \in BOOLEAN /\ globalHeld \in BOOLEAN
ActorTypes ==
  /\ task \in TaskRecords /\ op \in OpRecords
  /\ fault \in FaultRecords /\ stop \in StopRecords

LEMMA TypeGroups ==
  TypeOK <=> EntryTypes /\ FanTypes /\ FlagTypes /\ MotorTypes /\ ActorTypes
BY DEF TypeOK, EntryTypes, FanTypes, FlagTypes, MotorTypes, ActorTypes, TaskRecords,
   OpRecords, FaultRecords, StopRecords

\* What an actor that is at rest looks like.
LEMMA RestTypes ==
  /\ Asleep \in TaskRecords /\ NoOp \in OpRecords
  /\ NoFault \in FaultRecords /\ NoStop \in StopRecords
<1>1. Asleep \in TaskRecords
  BY ConstantFacts DEF Asleep, TaskRecords
<1>2. NoOp \in OpRecords
  BY ConstantFacts DEF NoOp, OpRecords
<1>3. NoFault \in FaultRecords
  BY ConstantFacts DEF NoFault, FaultRecords
<1>4. NoStop \in StopRecords
  BY DEF NoStop, StopRecords
<1> QED
  BY <1>1, <1>2, <1>3, <1>4

LEMMA TypesInit == Init => TypeOK
<1> SUFFICES ASSUME Init PROVE TypeOK
  OBVIOUS
<1>1. EntryTypes
  <2>1. PICK found \in Loaded :
          enabled = [f \in Fans |-> [s \in Slots |-> <<f, s>> \in found]]
    BY DEF Init
  <2>2. enabled \in [Fans -> [Slots -> BOOLEAN]]
    BY <2>1
  <2>3. goal \in [Fans -> [Slots -> Nat]]
    BY TargetFacts DEF Init
  <2>4. due \in [Fans -> [Slots -> BOOLEAN]]
    BY DEF Init
  <2> QED
    BY <2>2, <2>3, <2>4 DEF EntryTypes
<1>2. FanTypes
  BY ConstantFacts DEF Init, FanTypes
<1>3. FlagTypes
  BY DEF Init, FlagTypes
<1>4. MotorTypes
  BY SchedulerAssumption DEF Init, MotorTypes, Sources
<1>5. ActorTypes
  BY RestTypes DEF Init, ActorTypes
<1> QED
  BY <1>1, <1>2, <1>3, <1>4, <1>5, TypeGroups

\* One flag of one entry is changed.
LEMMA OneFlag ==
  ASSUME NEW flags \in [Fans -> [Slots -> BOOLEAN]], NEW f \in Fans, NEW s \in Slots,
         NEW b \in BOOLEAN
  PROVE  [flags EXCEPT ![f][s] = b] \in [Fans -> [Slots -> BOOLEAN]]
OBVIOUS

LEMMA PassTypes == task \in TaskRecords => AfterFan \in TaskRecords /\ ToStart \in TaskRecords
<1> SUFFICES ASSUME task \in TaskRecords PROVE AfterFan \in TaskRecords /\ ToStart \in TaskRecords
  OBVIOUS
<1>1. task.fan \in Fans
  BY DEF TaskRecords
<1>2. ToStart \in TaskRecords
  BY <1>1, ConstantFacts DEF ToStart, Asleep, TaskRecords
<1>3. CASE task.fan + 1 = FanCount
  BY <1>2, <1>3, RestTypes DEF AfterFan
<1>4. CASE task.fan + 1 # FanCount
  <2>1. task.fan + 1 \in Fans
    BY <1>1, <1>4, ConstantFacts
  <2>2. AfterFan = [Asleep EXCEPT !.at = "end", !.fan = task.fan + 1]
    BY <1>4 DEF AfterFan
  <2> QED
    BY <1>2, <2>1, <2>2, ConstantFacts DEF Asleep, TaskRecords
<1> QED
  BY <1>3, <1>4

\* The task changes its own position, the active entry of one fan and its target.
LEMMA TypesTask == TypeOK /\ Task => TypeOK'
<1> SUFFICES ASSUME TypeOK, Task
             PROVE  EntryTypes' /\ FanTypes' /\ FlagTypes' /\ MotorTypes' /\ ActorTypes'
  BY TypeGroups DEF TypeOK, EntryTypes, FanTypes, FlagTypes, MotorTypes, ActorTypes,
     TaskRecords, OpRecords, FaultRecords, StopRecords
<1> USE TypeGroups, RestTypes, ConstantFacts DEF EntryTypes, FanTypes, FlagTypes, MotorTypes,
        ActorTypes, entryVars, fanVars, inhibitVars, motorVars, historyVars, boundVars
<1>1. CASE Wake
  BY <1>1 DEF Wake, Asleep, TaskRecords
<1>2. CASE TakeEnd
  BY <1>2 DEF TakeEnd, Reserve, ToStart, Asleep, TaskRecords
<1>3. CASE RestoreEnded
  BY <1>3 DEF RestoreEnded, Restore, Request, Sources, TaskRecords
<1>4. CASE CommitEnd
  BY <1>4 DEF CommitEnd, EndSlots, Release, ToStart, Asleep, TaskRecords
<1>5. CASE TakeStart
  <2>1. CASE task' = AfterFan
    <3>1. task' \in TaskRecords
      BY <2>1, PassTypes
    <3>2. pending' \in [Fans -> BOOLEAN]
      BY <1>5 DEF TakeStart, Reserve
    <3> QED
      BY <1>5, <3>1, <3>2 DEF TakeStart
  <2>2. CASE task' # AfterFan
    <3>1. PICK s \in Slots :
            task' = [task EXCEPT !.at = "apply", !.slot = s, !.value = goal[task.fan][s]]
      BY <1>5, <2>2 DEF TakeStart
    <3>2. task.fan \in Fans /\ goal[task.fan][s] \in Nat
      BY DEF TaskRecords
    <3> QED
      BY <1>5, <3>1, <3>2 DEF TakeStart, Reserve, TaskRecords
  <2> QED
    BY <2>1, <2>2
<1>6. CASE ApplyStart
  BY <1>6 DEF ApplyStart, Request, Sources, TaskRecords, AutomaticAllowed, ManualAllowed, Maintained
<1>7. CASE CommitStart
  <2>1. task.fan \in Fans /\ task.slot \in Slots /\ task.value \in Nat
    BY DEF TaskRecords
  <2>2. EntryTypes' /\ FanTypes'
    <3>1. CASE UNCHANGED <<fanVars, due>>
      BY <1>7, <3>1 DEF CommitStart
    <3>2. CASE ~UNCHANGED <<fanVars, due>>
      <4>1. due' = [due EXCEPT ![task.fan][task.slot] = FALSE]
        BY <1>7, <3>2 DEF CommitStart
      <4>2. due' \in [Fans -> [Slots -> BOOLEAN]]
        BY <2>1, <4>1, OneFlag
      <4>3. cursor' = [cursor EXCEPT ![task.fan] = (task.slot + 1) % SlotCount]
        BY <1>7, <3>2 DEF CommitStart
      <4>4. cursor' \in [Fans -> Slots]
        BY <2>1, <4>3
      <4>5. slot' \in [Fans -> Slots \cup {NoSlot}] /\ over' \in [Fans -> BOOLEAN]
        BY <1>7, <2>1, <3>2 DEF CommitStart
      <4>6. saved' \in [Fans -> Nat]
        BY <1>7, <2>1, <3>2 DEF CommitStart
      <4> QED
        BY <1>7, <4>2, <4>4, <4>5, <4>6 DEF CommitStart
    <3> QED
      BY <3>1, <3>2
  <2>3. task' \in TaskRecords
    BY <1>7, PassTypes DEF CommitStart
  <2> QED
    BY <1>7, <2>2, <2>3 DEF CommitStart, Release
<1> QED
  BY <1>1, <1>2, <1>3, <1>4, <1>5, <1>6, <1>7 DEF Task

\* The dispatcher works on one fan, or on all of them.
LEMMA TypesDispatch == TypeOK /\ Dispatch => TypeOK'
<1> SUFFICES ASSUME TypeOK, Dispatch
             PROVE  EntryTypes' /\ FanTypes' /\ FlagTypes' /\ MotorTypes' /\ ActorTypes'
  BY TypeGroups DEF TypeOK, EntryTypes, FanTypes, FlagTypes, MotorTypes, ActorTypes,
     TaskRecords, OpRecords, FaultRecords, StopRecords
<1> USE TypeGroups, RestTypes, ConstantFacts DEF EntryTypes, FanTypes, FlagTypes, MotorTypes,
        ActorTypes, entryVars, fanVars, inhibitVars, motorVars, historyVars, boundVars
<1>0. op.fan \in Fans /\ op.slot \in Slots /\ op.value \in Nat /\ op.todo \subseteq Fans
  BY DEF OpRecords
<1>1. CASE ReserveFan
  <2>1. op' \in OpRecords
    <3>1. op.at \in {"manual", "set", "disable"}
      BY <1>1 DEF ReserveFan, Reserved1
    <3>2. Reserved1[op.at] \in {"request", "store", "look"}
      BY <3>1 DEF Reserved1
    <3>3. op' = [op EXCEPT !.at = Reserved1[op.at]]
      BY <1>1 DEF ReserveFan
    <3> QED
      BY <3>2, <3>3 DEF OpRecords
  <2> QED
    BY <1>1, <2>1 DEF ReserveFan, Reserve
<1>2. CASE ReserveTimeout
  BY <1>2 DEF ReserveTimeout
<1>3. CASE RequestManual
  <2>1. ManualAllowed(op.fan) \in BOOLEAN
    BY DEF ManualAllowed, Maintained
  <2>2. op' \in OpRecords
    BY <1>3, <2>1 DEF RequestManual, OpRecords
  <2>3. MotorTypes'
    BY <1>0, <1>3, <2>1 DEF RequestManual, Request, Sources
  <2> QED
    BY <1>3, <2>2, <2>3 DEF RequestManual
<1>4. CASE CommitManual
  BY <1>4 DEF CommitManual, EndSlots, Release
<1>5. CASE SetEntry
  <2>1. enabled' \in [Fans -> [Slots -> BOOLEAN]]
    BY <1>0, <1>5, OneFlag DEF SetEntry
  <2>2. due' \in [Fans -> [Slots -> BOOLEAN]]
    BY <1>0, <1>5, OneFlag DEF SetEntry
  <2>3. goal' \in [Fans -> [Slots -> Nat]]
    BY <1>0, <1>5 DEF SetEntry
  <2> QED
    BY <1>5, <2>1, <2>2, <2>3 DEF SetEntry, Release
<1>6. CASE LookForDisable
  <2>1. saved[op.fan] \in Nat
    BY <1>0
  <2>2. op' \in OpRecords
    BY <1>6, <2>1 DEF LookForDisable, OpRecords
  <2> QED
    BY <1>6, <2>2 DEF LookForDisable
<1>7. CASE RestoreDisabled
  <2>1. op' \in OpRecords
    BY <1>7 DEF RestoreDisabled, OpRecords
  <2> QED
    BY <1>0, <1>7, <2>1 DEF RestoreDisabled, Restore, Request, Sources
<1>8. CASE CommitDisable
  <2>1. enabled' \in [Fans -> [Slots -> BOOLEAN]]
    BY <1>0, <1>8, OneFlag DEF CommitDisable
  <2>2. due' \in [Fans -> [Slots -> BOOLEAN]]
    BY <1>0, <1>8, OneFlag DEF CommitDisable
  <2> QED
    BY <1>8, <2>1, <2>2 DEF CommitDisable, EndSlots, Release
<1>9. CASE ReserveNext
  <2>1. op' \in OpRecords
    <3>1. CASE op.fan + 1 = FanCount
      BY <1>9, <3>1 DEF ReserveNext, OpRecords
    <3>2. CASE op.fan + 1 # FanCount
      <4>1. op.fan + 1 \in Fans
        BY <1>0, <3>2
      <4>2. op' = [op EXCEPT !.fan = op.fan + 1]
        BY <1>9, <3>2 DEF ReserveNext
      <4> QED
        BY <4>1, <4>2 DEF OpRecords
    <3> QED
      BY <3>1, <3>2
  <2> QED
    BY <1>9, <2>1 DEF ReserveNext, Reserve
<1>10. CASE WalkTimeout
  BY <1>10 DEF WalkTimeout, Release
<1>11. CASE SwitchOverride
  <2>1. op.on \in BOOLEAN
    BY DEF OpRecords
  <2>2. Active \subseteq Fans
    BY DEF Active
  <2>3. op' \in OpRecords
    BY <1>11, <2>2 DEF SwitchOverride, OpRecords
  <2>4. due' \in [Fans -> [Slots -> BOOLEAN]]
    <3> DEFINE left == [f \in Fans |-> [s \in Slots |-> due[f][s] /\ ~enabled[f][s]]]
    <3>1. left \in [Fans -> [Slots -> BOOLEAN]]
      OBVIOUS
    <3>2. due' = due \/ due' = left
      BY <1>11 DEF SwitchOverride
    <3> QED
      BY <3>1, <3>2
  <2> QED
    BY <1>11, <2>1, <2>3, <2>4 DEF SwitchOverride, Release
<1>12. CASE RestoreNext
  <2>1. PICK f \in op.todo : Restore(f, saved[f]) /\ op' = [op EXCEPT !.todo = @ \ {f}]
    BY <1>12 DEF RestoreNext
  <2>2. op' \in OpRecords
    BY <2>1 DEF OpRecords
  <2>3. f \in Fans /\ saved[f] \in Nat
    BY <1>0
  <2> QED
    BY <1>12, <2>1, <2>2, <2>3 DEF RestoreNext, Restore, Request, Sources
<1>13. CASE CommitOverride
  BY <1>13 DEF CommitOverride, EndSlots, Release
<1> QED
  BY <1>1, <1>2, <1>3, <1>4, <1>5, <1>6, <1>7, <1>8, <1>9, <1>10, <1>11, <1>12, <1>13
  DEF Dispatch


LEMMA TypesAsk == TypeOK /\ Ask => TypeOK'
<1> SUFFICES ASSUME TypeOK, Ask PROVE TypeOK'
  OBVIOUS
<1> USE ConstantFacts DEF entryVars, fanVars, inhibitVars, motorVars, historyVars
<1>1. ASSUME NEW new \in OpRecords, Command(new) PROVE TypeOK'
  BY <1>1 DEF Command, TypeOK, OpRecords
<1>2. ASSUME NEW f \in Fans, NEW v \in ManualTargets, AskManual(f, v) PROVE TypeOK'
  <2>1. [NoOp EXCEPT !.at = "manual", !.fan = f, !.value = v] \in OpRecords
    BY TargetFacts DEF NoOp, OpRecords
  <2> QED
    BY <1>1, <1>2, <2>1 DEF AskManual
<1>3. ASSUME NEW f \in Fans, NEW s \in Slots, NEW v \in EntryTargets, AskEntry(f, s, v)
      PROVE  TypeOK'
  <2>1. [NoOp EXCEPT !.at = "set", !.fan = f, !.slot = s, !.value = v] \in OpRecords
    BY TargetFacts DEF NoOp, OpRecords
  <2> QED
    BY <1>1, <1>3, <2>1 DEF AskEntry
<1>4. ASSUME NEW f \in Fans, NEW s \in Slots, AskDisable(f, s) PROVE TypeOK'
  <2>1. [NoOp EXCEPT !.at = "disable", !.fan = f, !.slot = s] \in OpRecords
    BY DEF NoOp, OpRecords
  <2> QED
    BY <1>1, <1>4, <2>1 DEF AskDisable
<1>5. ASSUME NEW on \in BOOLEAN, AskOverride(on) PROVE TypeOK'
  <2>1. [NoOp EXCEPT !.at = "walk", !.on = on] \in OpRecords
    BY DEF NoOp, OpRecords
  <2> QED
    BY <1>1, <1>5, <2>1 DEF AskOverride
<1> QED
  BY <1>2, <1>3, <1>4, <1>5 DEF Ask


LEMMA TypesStop == TypeOK /\ (Respond \/ Stop) => TypeOK'
<1> SUFFICES ASSUME TypeOK, (Respond \/ Stop)
             PROVE  EntryTypes' /\ FanTypes' /\ FlagTypes' /\ MotorTypes' /\ ActorTypes'
  BY TypeGroups DEF TypeOK, EntryTypes, FanTypes, FlagTypes, MotorTypes, ActorTypes,
     TaskRecords, OpRecords, FaultRecords, StopRecords
<1> USE TypeGroups, RestTypes, ConstantFacts DEF EntryTypes, FanTypes, FlagTypes, MotorTypes,
        ActorTypes, entryVars, fanVars, inhibitVars, motorVars, historyVars, boundVars
<1>1. CASE ReserveCancel
  BY <1>1 DEF ReserveCancel, Reserve, FaultRecords
<1>2. CASE CommitCancel
  BY <1>2 DEF CommitCancel, EndSlots, Release
<1>3. CASE CancelTimeout
  BY <1>3 DEF CancelTimeout, FaultRecords
<1>4. CASE Escalate
  <2>1. stop' \in StopRecords
    BY <1>4 DEF Escalate, ClaimStop, StopRecords
  <2>2. fault' \in FaultRecords
    BY <1>4 DEF Escalate, FaultRecords
  <2> QED
    BY <1>4, <2>1, <2>2 DEF Escalate, ClaimStop
<1>5. CASE Halt
  <2>1. stop' \in StopRecords
    BY <1>5 DEF Halt, StopRecords
  <2>2. MotorTypes'
    BY <1>5 DEF Halt, Sources
  <2> QED
    BY <1>5, <2>1, <2>2 DEF Halt
<1>6. CASE TryInhibit
  BY <1>6 DEF TryInhibit, EndSlots, StopRecords
<1>7. CASE InhibitTimeout
  BY <1>7 DEF InhibitTimeout, StopRecords
<1>8. ASSUME NEW saveFails \in BOOLEAN, FinishStop(saveFails)
      PROVE  EntryTypes' /\ FanTypes' /\ FlagTypes' /\ MotorTypes' /\ ActorTypes'
  BY <1>8 DEF FinishStop
<1> QED
  BY <1>1, <1>2, <1>3, <1>4, <1>5, <1>6, <1>7, <1>8 DEF Respond, Stop


LEMMA TypesStep == TypeOK /\ [Next]_vars => TypeOK'
<1> SUFFICES ASSUME TypeOK, [Next]_vars
             PROVE  TypeOK'
  OBVIOUS
<1> USE ConstantFacts
<1>1. CASE UNCHANGED vars
  BY <1>1 DEF TypeOK, vars, entryVars, fanVars, inhibitVars, motorVars, historyVars,
     boundVars
<1>2. CASE Task \/ Dispatch \/ Ask \/ Respond \/ Stop
  BY <1>2, TypesTask, TypesDispatch, TypesAsk, TypesStop
<1>3. ASSUME NEW f \in Fans, TachInhibit(f) PROVE TypeOK'
  BY <1>3 DEF TachInhibit, TypeOK, Sources, entryVars, fanVars, inhibitVars, historyVars
<1>4. ASSUME NEW f \in Fans, ClearFault(f) \/ Expire(f) PROVE TypeOK'
  BY <1>4 DEF ClearFault, Expire, TypeOK, entryVars, fanVars, inhibitVars, motorVars,
     historyVars, boundVars
<1>5. ASSUME NEW f \in Fans, NEW s \in Slots, Trigger(f, s) PROVE TypeOK'
  <2>1. due' \in [Fans -> [Slots -> BOOLEAN]]
    BY <1>5, OneFlag DEF Trigger, TypeOK
  <2> QED
    BY <1>5, <2>1 DEF Trigger, TypeOK, fanVars, inhibitVars, motorVars, historyVars, boundVars
<1>6. ASSUME NEW kind \in StopKinds, NEW clear \in BOOLEAN, BeginStop(kind, clear)
      PROVE  TypeOK'
  <2>1. stop' \in StopRecords
    BY <1>6, SchedulerAssumption DEF BeginStop, ClaimStop, StopRecords
  <2> QED
    BY <1>6, <2>1 DEF BeginStop, ClaimStop, TypeOK, StopRecords, entryVars, fanVars,
       inhibitVars, motorVars, historyVars
<1> QED
  BY <1>1, <1>2, <1>3, <1>4, <1>5, <1>6 DEF Next

\* The variables of scheduler.c, and what the model keeps of its callers, have
\* their types in every state, for every number of fans and entries.
THEOREM TypeCorrectness == Spec => []TypeOK
<1>1. Init => TypeOK
  BY TypesInit
<1>2. TypeOK /\ [Next]_vars => TypeOK'
  BY TypesStep
<1> QED
  BY <1>1, <1>2, PTL DEF Spec

-----------------------------------------------------------------------------
(* Reservations                                                            *)
LEMMA ActorFans ==
  TypeOK => /\ task.fan \in Fans /\ op.fan \in Fans /\ fault.fan \in Fans
            /\ task.slot \in Slots /\ op.slot \in Slots /\ op.todo \subseteq Fans
            /\ task.ok \in BOOLEAN /\ op.ok \in BOOLEAN /\ op.on \in BOOLEAN
            /\ pending \in [Fans -> BOOLEAN]
            /\ DOMAIN pending = Fans
BY DEF TypeOK

LEMMA OwnedTask == TypeOK /\ ReservationsOwned /\ Task => ReservationsOwned'
<1> SUFFICES ASSUME TypeOK, ReservationsOwned, Task PROVE ReservationsOwned'
  OBVIOUS
<1> USE ActorFans
<1>1. ByOp' = ByOp /\ ByFault' = ByFault
  BY DEF Task, Wake, TakeEnd, RestoreEnded, CommitEnd, TakeStart, ApplyStart, CommitStart,
     ByOp, ByFault
<1>2. CASE pending' = pending /\ ByTask' = ByTask
  BY <1>1, <1>2 DEF ReservationsOwned
<1>3. CASE Reserve(task.fan) /\ ByTask = {} /\ ByTask' = {task.fan}
  BY <1>1, <1>3 DEF ReservationsOwned, Reserve
<1>4. CASE Release({task.fan}) /\ ByTask = {task.fan} /\ ByTask' = {}
  BY <1>1, <1>4 DEF ReservationsOwned, Release
<1>5. CASE Wake \/ RestoreEnded \/ ApplyStart
  BY <1>2, <1>5 DEF Wake, RestoreEnded, ApplyStart, ByTask, Asleep, TypeOK
<1>6. CASE TakeEnd
  BY <1>2, <1>3, <1>6 DEF TakeEnd, ByTask, ToStart, Asleep, TypeOK
<1>7. CASE TakeStart
  <2>1. CASE task' = AfterFan /\ pending' = pending
    <3>1. AfterFan.at \in {"sleep", "end"}
      BY DEF AfterFan, Asleep
    <3>2. ByTask = {} /\ ByTask' = {}
      BY <1>7, <2>1, <3>1 DEF TakeStart, ByTask
    <3> QED
      BY <1>2, <2>1, <3>2
  <2>2. CASE Reserve(task.fan) /\ task'.at = "apply" /\ task'.fan = task.fan
    BY <1>3, <1>7, <2>2 DEF TakeStart, ByTask
  <2> QED
    BY <1>7, <2>1, <2>2 DEF TakeStart, TypeOK
<1>8. CASE CommitEnd
  BY <1>4, <1>8 DEF CommitEnd, ByTask, ToStart, Asleep, TypeOK
<1>9. CASE CommitStart
  BY <1>4, <1>9 DEF CommitStart, ByTask, AfterFan, Asleep, TypeOK
<1> QED
  BY <1>5, <1>6, <1>7, <1>8, <1>9 DEF Task

LEMMA OwnedDispatch == TypeOK /\ ReservationsOwned /\ Dispatch => ReservationsOwned'
<1> SUFFICES ASSUME TypeOK, ReservationsOwned, Dispatch PROVE ReservationsOwned'
  OBVIOUS
<1> USE ActorFans
<1>1. ByTask' = ByTask /\ ByFault' = ByFault
  BY DEF Dispatch, ReserveFan, ReserveTimeout, RequestManual, CommitManual, SetEntry,
     LookForDisable, RestoreDisabled, CommitDisable, ReserveNext, WalkTimeout,
     SwitchOverride, RestoreNext, CommitOverride, ByTask, ByFault
<1>2. CASE pending' = pending /\ ByOp' = ByOp
  BY <1>1, <1>2 DEF ReservationsOwned
<1>3. CASE Reserve(op.fan) /\ ByOp' = ByOp \cup {op.fan}
  BY <1>1, <1>3 DEF ReservationsOwned, Reserve
<1>4. CASE Release(ByOp) /\ ByOp' = {}
  BY <1>1, <1>4 DEF ReservationsOwned, Release
<1>5. CASE ReserveFan
  <2>1. op.at \in {"manual", "set", "disable"}
    BY <1>5 DEF ReserveFan, Reserved1
  <2>2. op' = [op EXCEPT !.at = Reserved1[op.at]]
    BY <1>5 DEF ReserveFan
  <2>3. op'.at \in {"request", "store", "look"} /\ op'.fan = op.fan
    BY <2>1, <2>2 DEF Reserved1, TypeOK
  <2>4. ByOp = {} /\ ByOp' = {op.fan}
    BY <2>1, <2>3 DEF ByOp
  <2> QED
    BY <1>3, <1>5, <2>4 DEF ReserveFan
<1>6. CASE ReserveTimeout
  <2>1. op.at \in {"manual", "set", "disable"}
    BY <1>6 DEF ReserveTimeout, Reserved1
  <2>2. ByOp = {} /\ ByOp' = {}
    BY <1>6, <2>1 DEF ReserveTimeout, ByOp, NoOp
  <2> QED
    BY <1>2, <1>6, <2>2 DEF ReserveTimeout
<1>7. CASE RequestManual \/ LookForDisable \/ RestoreDisabled
  <2>1. ByOp = {op.fan} /\ ByOp' = {op.fan}
    BY <1>7 DEF RequestManual, LookForDisable, RestoreDisabled, ByOp, TypeOK
  <2> QED
    BY <1>2, <1>7, <2>1 DEF RequestManual, LookForDisable, RestoreDisabled
<1>8. CASE CommitManual \/ SetEntry \/ CommitDisable
  <2>1. ByOp = {op.fan} /\ ByOp' = {}
    BY <1>8 DEF CommitManual, SetEntry, CommitDisable, ByOp, NoOp
  <2> QED
    BY <1>4, <1>8, <2>1 DEF CommitManual, SetEntry, CommitDisable
<1>9. CASE ReserveNext
  <2>1. ByOp = {f \in Fans : f < op.fan}
    BY <1>9 DEF ReserveNext, ByOp
  <2>2. CASE op.fan + 1 = FanCount
    <3>1. op'.at = "switch"
      BY <1>9, <2>2 DEF ReserveNext, TypeOK
    <3>2. ByOp' = Fans
      BY <3>1 DEF ByOp
    <3>3. Fans = {f \in Fans : f < op.fan} \cup {op.fan}
      BY <2>2, ConstantFacts
    <3> QED
      BY <1>3, <1>9, <2>1, <3>2, <3>3 DEF ReserveNext
  <2>3. CASE op.fan + 1 # FanCount
    <3>1. op'.at = "walk" /\ op'.fan = op.fan + 1
      BY <1>9, <2>3 DEF ReserveNext, TypeOK
    <3>2. ByOp' = {f \in Fans : f < op.fan + 1}
      BY <3>1 DEF ByOp
    <3>3. {f \in Fans : f < op.fan + 1} = {f \in Fans : f < op.fan} \cup {op.fan}
      BY ConstantFacts
    <3> QED
      BY <1>3, <1>9, <2>1, <3>2, <3>3 DEF ReserveNext
  <2> QED
    BY <2>2, <2>3
<1>10. CASE WalkTimeout
  <2>1. ByOp = WalkedBefore(op.fan) /\ ByOp' = {}
    BY <1>10 DEF WalkTimeout, ByOp, NoOp, WalkedBefore
  <2> QED
    BY <1>4, <1>10, <2>1 DEF WalkTimeout
<1>11. CASE SwitchOverride
  <2>1. ByOp = Fans
    BY <1>11 DEF SwitchOverride, ByOp
  <2>2. CASE RefusedByLatch
    <3>1. ByOp' = {}
      BY <1>11, <2>2 DEF SwitchOverride, ByOp, NoOp
    <3> QED
      BY <1>4, <1>11, <2>1, <2>2, <3>1 DEF SwitchOverride
  <2>3. CASE ~RefusedByLatch
    <3>1. op'.at = "restoring"
      BY <1>11, <2>3 DEF SwitchOverride, TypeOK
    <3>2. ByOp' = Fans
      BY <3>1 DEF ByOp
    <3> QED
      BY <1>2, <1>11, <2>1, <2>3, <3>2 DEF SwitchOverride
  <2> QED
    BY <2>2, <2>3
<1>12. CASE RestoreNext
  <2>1. ByOp = Fans /\ ByOp' = Fans
    BY <1>12 DEF RestoreNext, ByOp, TypeOK
  <2> QED
    BY <1>2, <1>12, <2>1 DEF RestoreNext
<1>13. CASE CommitOverride
  <2>1. ByOp = Fans /\ ByOp' = {}
    BY <1>13 DEF CommitOverride, ByOp, NoOp
  <2> QED
    BY <1>4, <1>13, <2>1 DEF CommitOverride
<1> QED
  BY <1>5, <1>6, <1>7, <1>8, <1>9, <1>10, <1>11, <1>12, <1>13 DEF Dispatch

LEMMA OwnedStep == TypeOK /\ ReservationsOwned /\ [Next]_vars => ReservationsOwned'
<1> SUFFICES ASSUME TypeOK, ReservationsOwned, [Next]_vars PROVE ReservationsOwned'
  OBVIOUS
<1> USE ActorFans
<1>1. CASE Task \/ Dispatch
  BY <1>1, OwnedTask, OwnedDispatch
<1>2. CASE UNCHANGED <<pending, task, op, fault>>
  BY <1>2 DEF ReservationsOwned, ByTask, ByOp, ByFault
<1>3. CASE Ask
  <2>1. op.at = "idle"
    BY <1>3 DEF Ask, AskManual, AskEntry, AskDisable, AskOverride, Command
  <2>2. op'.at \in {"manual", "set", "disable"} \/ (op'.at = "walk" /\ op'.fan = 0)
    <3>1. ASSUME NEW on \in BOOLEAN, AskOverride(on) PROVE op'.at = "walk" /\ op'.fan = 0
      BY <3>1 DEF AskOverride, Command, NoOp
    <3>2. ASSUME NEW f \in Fans, NEW s \in Slots,
                 AskDisable(f, s) \/ \E v \in EntryTargets : AskEntry(f, s, v)
          PROVE  op'.at \in {"set", "disable"}
      BY <3>2 DEF AskDisable, AskEntry, Command, NoOp
    <3>3. ASSUME NEW f \in Fans, NEW v \in ManualTargets, AskManual(f, v)
          PROVE  op'.at = "manual"
      BY <3>3 DEF AskManual, Command, NoOp
    <3> QED
      BY <1>3, <3>1, <3>2, <3>3 DEF Ask
  <2>3. {f \in Fans : f < 0} = {}
    BY ConstantFacts
  <2>4. ByOp = {} /\ ByOp' = {}
    BY <2>1, <2>2, <2>3 DEF ByOp
  <2>5. UNCHANGED <<pending, task, fault>>
    BY <1>3 DEF Ask, AskManual, AskEntry, AskDisable, AskOverride, Command
  <2> QED
    BY <2>4, <2>5 DEF ReservationsOwned, ByTask, ByFault
<1>4. CASE ReserveCancel
  BY <1>4 DEF ReserveCancel, Reserve, ReservationsOwned, ByTask, ByOp, ByFault, TypeOK
<1>5. CASE CommitCancel
  BY <1>5 DEF CommitCancel, Release, NoFault, ReservationsOwned, ByTask, ByOp, ByFault
<1>6. ASSUME UNCHANGED <<pending, task, op>>, fault.at # "cancelled", fault'.at # "cancelled"
      PROVE  ReservationsOwned'
  BY <1>6 DEF ReservationsOwned, ByTask, ByOp, ByFault
<1>7. CASE CancelTimeout \/ Escalate
  BY <1>6, <1>7 DEF CancelTimeout, Escalate, ClaimStop, TypeOK
<1>8. CASE Stop
  BY <1>2, <1>6, <1>8 DEF Stop, Halt, TryInhibit, InhibitTimeout, FinishStop, NoFault
<1>9. ASSUME NEW f \in Fans, TachInhibit(f) \/ ClearFault(f) \/ Expire(f)
      PROVE  ReservationsOwned'
  BY <1>2, <1>6, <1>9 DEF TachInhibit, ClearFault, Expire
<1>10. ASSUME NEW f \in Fans, NEW s \in Slots, Trigger(f, s) PROVE ReservationsOwned'
  BY <1>2, <1>10 DEF Trigger
<1>11. ASSUME NEW kind \in StopKinds, NEW clear \in BOOLEAN, BeginStop(kind, clear)
       PROVE  ReservationsOwned'
  BY <1>2, <1>11 DEF BeginStop, ClaimStop
<1>12. CASE UNCHANGED vars
  BY <1>2, <1>12 DEF vars
<1> QED
  BY <1>1, <1>3, <1>4, <1>5, <1>7, <1>8, <1>9, <1>10, <1>11, <1>12 DEF Next, Respond

LEMMA OwnedInit == Init => ReservationsOwned
BY DEF Init, ReservationsOwned, ByTask, ByOp, ByFault, Asleep, NoOp, NoFault

\* operation_pending of a fan has exactly one owner, and an operation that gives up
\* part-way through reserve_all_fans has given back its own fans and no other.
THEOREM ReservationSafety == Spec => []ReservationsOwned
<1>1. Init => TypeOK /\ ReservationsOwned
  BY TypesInit, OwnedInit
<1>2. TypeOK /\ ReservationsOwned /\ [Next]_vars => (TypeOK /\ ReservationsOwned)'
  BY TypesStep, OwnedStep
<1> QED
  BY <1>1, <1>2, PTL DEF Spec

-----------------------------------------------------------------------------
(* The inhibit                                                             *)
\* No step makes an entry active and touches the inhibit, or its override, as well.
LEMMA BarrierKept ==
  ASSUME Barrier, UNCHANGED inhibitVars,
         op' = op \/ (op.at # "restoring" /\ op'.at # "restoring"),
         \A f \in Fans : slot'[f] \in {slot[f], NoSlot}
  PROVE  Barrier'
BY DEF Barrier, SwitchedByOp, inhibitVars

LEMMA SlotsEnded ==
  ASSUME NEW ended, EndSlots(ended)
  PROVE  \A f \in Fans : slot'[f] \in {slot[f], NoSlot}
BY DEF EndSlots

LEMMA BarrierTask == TypeOK /\ Barrier /\ Task => Barrier'
<1> SUFFICES ASSUME TypeOK, Barrier, Task PROVE Barrier'
  OBVIOUS
<1>1. UNCHANGED inhibitVars /\ op' = op
  BY DEF Task, Wake, TakeEnd, RestoreEnded, CommitEnd, TakeStart, ApplyStart, CommitStart
<1>2. CASE UNCHANGED slot
  BY <1>1, <1>2, BarrierKept
<1>3. CASE CommitEnd
  BY <1>1, <1>3, SlotsEnded, BarrierKept DEF CommitEnd
<1>4. CASE CommitStart
  <2>1. CASE BeginsNow
    <3>1. ~inhibited /\ ~inhibited'
      BY <1>1, <2>1 DEF BeginsNow, inhibitVars
    <3> QED
      BY <1>1, <3>1 DEF Barrier, SwitchedByOp, inhibitVars
  <2>2. CASE ~BeginsNow
    BY <1>2, <1>4, <2>2 DEF CommitStart, fanVars
  <2> QED
    BY <2>1, <2>2
<1> QED
  BY <1>2, <1>3, <1>4 DEF Task, Wake, TakeEnd, RestoreEnded, TakeStart, ApplyStart, fanVars

LEMMA BarrierDispatch == TypeOK /\ Barrier /\ Dispatch => Barrier'
<1> SUFFICES ASSUME TypeOK, Barrier, Dispatch PROVE Barrier'
  OBVIOUS
<1>1. CASE op.at # "restoring" /\ op'.at # "restoring" /\ UNCHANGED inhibitVars
    /\ \A f \in Fans : slot'[f] \in {slot[f], NoSlot}
  BY <1>1, BarrierKept
<1>2. CASE ReserveFan
  <2>1. op.at \in {"manual", "set", "disable"}
    BY <1>2 DEF ReserveFan, Reserved1
  <2>2. op'.at \in {"request", "store", "look"}
    BY <1>2, <2>1 DEF ReserveFan, Reserved1, TypeOK
  <2> QED
    BY <1>1, <1>2, <2>1, <2>2 DEF ReserveFan, fanVars
<1>3. CASE ReserveTimeout
  <2>1. op.at \in {"manual", "set", "disable"}
    BY <1>3 DEF ReserveTimeout, Reserved1
  <2> QED
    BY <1>1, <1>3, <2>1 DEF ReserveTimeout, NoOp, fanVars
<1>4. CASE RequestManual \/ LookForDisable \/ RestoreDisabled
  BY <1>1, <1>4 DEF RequestManual, LookForDisable, RestoreDisabled, TypeOK, fanVars
<1>5. CASE CommitManual \/ CommitDisable
  BY <1>1, <1>5, SlotsEnded DEF CommitManual, CommitDisable, NoOp
<1>6. CASE SetEntry \/ ReserveNext \/ WalkTimeout
  BY <1>1, <1>6 DEF SetEntry, ReserveNext, WalkTimeout, NoOp, TypeOK, fanVars
<1>7. CASE SwitchOverride
  <2>1. CASE RefusedByLatch
    BY <1>1, <1>7, <2>1 DEF SwitchOverride, NoOp, fanVars, inhibitVars
  <2>2. CASE ~RefusedByLatch
    <3>1. op'.at = "restoring" /\ op'.on = op.on
      BY <1>7, <2>2 DEF SwitchOverride, TypeOK
    <3>2. inhibited' = op.on /\ latched' = latched
      BY <1>7, <2>2 DEF SwitchOverride
    <3>3. latched => op.on
      BY <2>2 DEF RefusedByLatch
    <3> QED
      BY <3>1, <3>2, <3>3 DEF Barrier, SwitchedByOp
  <2> QED
    BY <2>1, <2>2
<1>8. CASE RestoreNext
  <2>1. op'.at = op.at /\ op'.on = op.on
    BY <1>8 DEF RestoreNext, TypeOK
  <2> QED
    BY <1>8, <2>1 DEF RestoreNext, Barrier, SwitchedByOp, inhibitVars, fanVars
<1>9. CASE CommitOverride
  <2>1. op'.at # "restoring"
    BY <1>9 DEF CommitOverride, NoOp
  <2>2. CASE op.on
    <3>1. \A f \in Fans : slot'[f] = NoSlot
      BY <1>9, <2>2 DEF CommitOverride, EndSlots, Active
    <3> QED
      BY <1>9, <2>1, <3>1 DEF CommitOverride, Barrier, SwitchedByOp, inhibitVars
  <2>3. CASE ~op.on
    <3>1. ~inhibited /\ ~latched
      BY <1>9, <2>3 DEF CommitOverride, Barrier, SwitchedByOp
    <3> QED
      BY <1>9, <2>1, <3>1 DEF CommitOverride, Barrier, SwitchedByOp, inhibitVars
  <2> QED
    BY <2>2, <2>3
<1> QED
  BY <1>2, <1>3, <1>4, <1>5, <1>6, <1>7, <1>8, <1>9 DEF Dispatch

LEMMA BarrierStep ==
  TypeOK /\ ReservationsOwned /\ Barrier /\ [Next]_vars => Barrier'
<1> SUFFICES ASSUME TypeOK, ReservationsOwned, Barrier, [Next]_vars PROVE Barrier'
  OBVIOUS
<1>1. CASE Task \/ Dispatch
  BY <1>1, BarrierTask, BarrierDispatch
<1>2. CASE UNCHANGED <<inhibitVars, op, slot>>
  BY <1>2, BarrierKept
<1>3. CASE Ask
  <2>1. op.at = "idle" /\ UNCHANGED <<inhibitVars, slot>>
    BY <1>3 DEF Ask, AskManual, AskEntry, AskDisable, AskOverride, Command, fanVars
  <2>2. op'.at # "restoring"
    <3>1. ASSUME NEW on \in BOOLEAN, AskOverride(on) PROVE op'.at # "restoring"
      BY <3>1 DEF AskOverride, Command, NoOp
    <3>2. ASSUME NEW f \in Fans, NEW s \in Slots,
                 AskDisable(f, s) \/ \E v \in EntryTargets : AskEntry(f, s, v)
          PROVE  op'.at # "restoring"
      BY <3>2 DEF AskDisable, AskEntry, Command, NoOp
    <3>3. ASSUME NEW f \in Fans, NEW v \in ManualTargets, AskManual(f, v)
          PROVE  op'.at # "restoring"
      BY <3>3 DEF AskManual, Command, NoOp
    <3> QED
      BY <1>3, <3>1, <3>2, <3>3 DEF Ask
  <2> QED
    BY <2>1, <2>2, BarrierKept
<1>4. CASE CommitCancel
  BY <1>4, SlotsEnded, BarrierKept DEF CommitCancel
<1>5. CASE TryInhibit
  <2>1. op.at # "restoring"
    <3>1. \A f \in Fans : f \notin ByOp
      BY <1>5 DEF TryInhibit, NoOperation, ReservationsOwned
    <3> QED
      BY <3>1, ConstantFacts DEF ByOp
  <2>2. \A f \in Fans : slot'[f] = NoSlot
    BY <1>5 DEF TryInhibit, EndSlots
  <2> QED
    BY <1>5, <2>1, <2>2 DEF TryInhibit, Barrier, SwitchedByOp
<1>6. CASE Halt \/ InhibitTimeout \/ (\E saveFails \in BOOLEAN : FinishStop(saveFails))
  BY <1>2, <1>6 DEF Halt, InhibitTimeout, FinishStop, fanVars
<1>7. CASE ReserveCancel \/ CancelTimeout \/ Escalate
  BY <1>2, <1>7 DEF ReserveCancel, CancelTimeout, Escalate, ClaimStop, fanVars
<1>8. ASSUME NEW f \in Fans, TachInhibit(f) \/ ClearFault(f) PROVE Barrier'
  BY <1>2, <1>8 DEF TachInhibit, ClearFault, fanVars
<1>9. ASSUME NEW f \in Fans, Expire(f) PROVE Barrier'
  BY <1>2, <1>9 DEF Expire
<1>10. ASSUME NEW f \in Fans, NEW s \in Slots, Trigger(f, s) PROVE Barrier'
  BY <1>2, <1>10 DEF Trigger, fanVars
<1>11. ASSUME NEW kind \in StopKinds, NEW clear \in BOOLEAN, BeginStop(kind, clear)
       PROVE  Barrier'
  BY <1>2, <1>11 DEF BeginStop, ClaimStop, fanVars
<1>12. CASE UNCHANGED vars
  BY <1>2, <1>12 DEF vars, fanVars
<1> QED
  BY <1>1, <1>3, <1>4, <1>5, <1>6, <1>7, <1>8, <1>9, <1>10, <1>11, <1>12
  DEF Next, Respond, Stop

LEMMA BarrierInit == Init => Barrier
BY DEF Init, Barrier, SwitchedByOp, NoOp

LEMMA BarrierEnough == Barrier => InhibitIsABarrier
BY DEF Barrier, InhibitIsABarrier, ByOp

\* Once scheduler_try_inhibit_all has latched the inhibit no override takes it back,
\* and an inhibit that is complete leaves no entry active.
THEOREM BarrierSafety == Spec => []InhibitIsABarrier
<1>1. Init => TypeOK /\ ReservationsOwned /\ Barrier
  BY TypesInit, OwnedInit, BarrierInit
<1>2. TypeOK /\ ReservationsOwned /\ Barrier /\ [Next]_vars
        => (TypeOK /\ ReservationsOwned /\ Barrier)'
  BY TypesStep, OwnedStep, BarrierStep
<1> QED
  BY <1>1, <1>2, BarrierEnough, PTL DEF Spec

-----------------------------------------------------------------------------
(* What an actor leaves alone                                              *)
LEMMA TaskFrame ==
  Task => UNCHANGED <<enabled, goal, inhibitVars, manual, tachHeld, commHeld, globalHeld,
                      op, fault, stop, missed>>
BY DEF Task, Wake, TakeEnd, RestoreEnded, CommitEnd, TakeStart, ApplyStart, CommitStart,
   Restore, entryVars, motorVars, historyVars

LEMMA DispatchFrame ==
  Dispatch => UNCHANGED <<task, fault, stop, latched, tachHeld, globalHeld, missed>>
BY DEF Dispatch, ReserveFan, ReserveTimeout, RequestManual, CommitManual, SetEntry,
   LookForDisable, RestoreDisabled, CommitDisable, ReserveNext, WalkTimeout,
   SwitchOverride, RestoreNext, CommitOverride, Restore, inhibitVars, motorVars, historyVars

\* A command begins without the result of an operation.
LEMMA AskFrame ==
  Ask => /\ op.at = "idle" /\ op'.at \in {"manual", "set", "disable", "walk"} /\ ~op'.ok
         /\ op'.at = "manual" => stop.at = "idle"
         /\ UNCHANGED <<entryVars, fanVars, pending, inhibitVars, motorVars, task, fault,
                        stop, missed>>
<1> SUFFICES ASSUME Ask
             PROVE  /\ op.at = "idle" /\ op'.at \in {"manual", "set", "disable", "walk"}
                    /\ ~op'.ok
                    /\ op'.at = "manual" => stop.at = "idle"
                    /\ UNCHANGED <<entryVars, fanVars, pending, inhibitVars, motorVars, task,
                                   fault, stop, missed>>
  OBVIOUS
<1>1. op.at = "idle"
      /\ UNCHANGED <<entryVars, fanVars, pending, inhibitVars, motorVars, task, fault, stop,
                     missed>>
  BY DEF Ask, AskManual, AskEntry, AskDisable, AskOverride, Command, historyVars
<1>2. ASSUME NEW on \in BOOLEAN, AskOverride(on) PROVE op'.at = "walk" /\ ~op'.ok
  BY <1>2 DEF AskOverride, Command, NoOp
<1>3. ASSUME NEW f \in Fans, NEW s \in Slots,
             AskDisable(f, s) \/ \E v \in EntryTargets : AskEntry(f, s, v)
      PROVE  op'.at \in {"set", "disable"} /\ ~op'.ok
  BY <1>3 DEF AskDisable, AskEntry, Command, NoOp
<1>4. ASSUME NEW f \in Fans, NEW v \in ManualTargets, AskManual(f, v)
      PROVE  op'.at = "manual" /\ ~op'.ok /\ stop.at = "idle"
  BY <1>4 DEF AskManual, Command, NoOp
<1> QED
  BY <1>1, <1>2, <1>3, <1>4 DEF Ask

-----------------------------------------------------------------------------
(* The motors                                                              *)
\* What the requests read of the inhibits.
HeldVars == <<tachHeld, commHeld, globalHeld, stop>>

LEMMA SameAnswer ==
  ASSUME UNCHANGED HeldVars
  PROVE  \A f \in Fans : (AutomaticAllowed(f) <=> AutomaticAllowed(f)')
BY DEF HeldVars, AutomaticAllowed, ManualAllowed, Maintained

LEMMA Granted ==
  ASSUME TypeOK, RefusedIsStopped, NEW f \in Fans, NEW value, NEW kind, UNCHANGED HeldVars,
         Request(f, AutomaticAllowed(f), value, kind)
  PROVE  /\ RefusedIsStopped'
         /\ source'[f] = IF AutomaticAllowed(f) THEN kind ELSE "none"
         /\ \A g \in Fans : g # f => source'[g] = source[g]
BY SameAnswer DEF Request, RefusedIsStopped, TypeOK

LEMMA RefusedStep == TypeOK /\ RefusedIsStopped /\ [Next]_vars => RefusedIsStopped'
<1> SUFFICES ASSUME TypeOK, RefusedIsStopped, [Next]_vars PROVE RefusedIsStopped'
  OBVIOUS
<1>1. CASE UNCHANGED <<source, HeldVars>>
  BY <1>1, SameAnswer DEF RefusedIsStopped
<1>2. CASE RestoreEnded \/ ApplyStart
  <2>1. UNCHANGED HeldVars
    BY <1>2, TaskFrame DEF Task, HeldVars
  <2> QED
    BY <1>2, <2>1, Granted, ActorFans DEF RestoreEnded, Restore, ApplyStart
<1>3. CASE Task /\ ~RestoreEnded /\ ~ApplyStart
  BY <1>1, <1>3, TaskFrame DEF Task, Wake, TakeEnd, CommitEnd, TakeStart, CommitStart,
     motorVars, HeldVars
<1>4. CASE RestoreDisabled \/ RestoreNext
  <2>1. UNCHANGED HeldVars
    BY <1>4 DEF RestoreDisabled, RestoreNext, Restore, HeldVars
  <2> QED
    BY <1>4, <2>1, Granted, ActorFans DEF RestoreDisabled, RestoreNext, Restore
<1>5. CASE RequestManual
  <2>1. \A f \in Fans : AutomaticAllowed(f) => AutomaticAllowed(f)'
    BY <1>5 DEF RequestManual, AutomaticAllowed, ManualAllowed, Maintained
  <2>2. \A f \in Fans : source'[f] = source[f] \/ (f = op.fan /\ ManualAllowed(f) /\ ~commHeld')
    BY <1>5 DEF RequestManual, Request, TypeOK
  <2>3. \A f \in Fans : ManualAllowed(f) /\ ~commHeld' => AutomaticAllowed(f)'
    BY <1>5 DEF RequestManual, AutomaticAllowed, ManualAllowed, Maintained
  <2> QED
    BY <2>1, <2>2, <2>3 DEF RefusedIsStopped
<1>6. CASE Dispatch /\ ~RestoreDisabled /\ ~RestoreNext /\ ~RequestManual
  BY <1>1, <1>6 DEF Dispatch, ReserveFan, ReserveTimeout, CommitManual, SetEntry,
     LookForDisable, CommitDisable, ReserveNext, WalkTimeout, SwitchOverride,
     CommitOverride, motorVars, HeldVars
<1>7. CASE Ask
  BY <1>1, <1>7, AskFrame DEF motorVars, HeldVars
<1>8. CASE ReserveCancel \/ CommitCancel \/ CancelTimeout
  BY <1>1, <1>8 DEF ReserveCancel, CommitCancel, CancelTimeout, motorVars, HeldVars
<1>9. ASSUME UNCHANGED motorVars, Maintained' = Maintained
      PROVE  RefusedIsStopped'
  BY <1>9 DEF motorVars, RefusedIsStopped, AutomaticAllowed, ManualAllowed
<1>10. CASE Escalate
  BY <1>9, <1>10 DEF Escalate, ClaimStop, Maintained
<1>11. ASSUME NEW kind \in StopKinds, NEW clear \in BOOLEAN, BeginStop(kind, clear)
       PROVE  RefusedIsStopped'
  BY <1>9, <1>11 DEF BeginStop, ClaimStop, Maintained
<1>12. CASE Halt
  BY <1>12 DEF Halt, RefusedIsStopped
<1>13. CASE TryInhibit \/ InhibitTimeout
  BY <1>9, <1>13 DEF TryInhibit, InhibitTimeout, Maintained, TypeOK
<1>14. ASSUME NEW saveFails \in BOOLEAN, FinishStop(saveFails) PROVE RefusedIsStopped'
  <2>1. ~Maintained'
    BY <1>14 DEF FinishStop, Maintained, NoStop
  <2>2. UNCHANGED <<source, tachHeld, commHeld>>
    BY <1>14 DEF FinishStop
  <2>3. globalHeld' => globalHeld \/ Maintained
    BY <1>14 DEF FinishStop, Maintained
  <2> QED
    BY <2>1, <2>2, <2>3 DEF RefusedIsStopped, AutomaticAllowed, ManualAllowed
<1>15. ASSUME NEW f \in Fans, TachInhibit(f) PROVE RefusedIsStopped'
  BY <1>15 DEF TachInhibit, RefusedIsStopped, AutomaticAllowed, ManualAllowed, Maintained,
     TypeOK
<1>16. ASSUME NEW f \in Fans, ClearFault(f) PROVE RefusedIsStopped'
  BY <1>16 DEF ClearFault, RefusedIsStopped, AutomaticAllowed, ManualAllowed, Maintained,
     TypeOK
<1>17. ASSUME NEW f \in Fans, Expire(f) \/ \E s \in Slots : Trigger(f, s)
       PROVE  RefusedIsStopped'
  BY <1>1, <1>17 DEF Expire, Trigger, motorVars, HeldVars
<1>18. CASE UNCHANGED vars
  BY <1>1, <1>18 DEF vars, motorVars, HeldVars
<1> QED
  BY <1>2, <1>3, <1>4, <1>5, <1>6, <1>7, <1>8, <1>10, <1>11, <1>12, <1>13, <1>14, <1>15,
     <1>16, <1>17, <1>18 DEF Next, Respond, Stop

LEMMA StopHoldsStep == TypeOK /\ StopHolds /\ [Next]_vars => StopHolds'
<1> SUFFICES ASSUME TypeOK, StopHolds, [Next]_vars PROVE StopHolds'
  OBVIOUS
<1>1. ASSUME UNCHANGED <<stop, globalHeld, missed>>,
             Commanding' => Commanding,
             commHeld' = commHeld \/ Commanding
      PROVE  StopHolds'
  BY <1>1 DEF StopHolds
<1>2. CASE Task
  BY <1>1, <1>2, TaskFrame DEF Commanding
<1>3. CASE Dispatch
  <2>1. CASE ReserveFan
    <3>1. op.at \in {"manual", "set", "disable"} /\ op' = [op EXCEPT !.at = Reserved1[op.at]]
      BY <2>1 DEF ReserveFan, Reserved1
    <3>2. op'.at = "request" => op.at = "manual"
      BY <3>1 DEF Reserved1, TypeOK
    <3>3. op'.at \notin {"manual", "manualDone"}
      BY <3>1 DEF Reserved1, TypeOK
    <3>4. commHeld' = commHeld
      BY <2>1 DEF ReserveFan, motorVars
    <3> QED
      BY <1>1, <1>3, <3>2, <3>3, <3>4, DispatchFrame DEF Commanding
  <2>2. CASE RequestManual
    BY <1>1, <1>3, <2>2, DispatchFrame DEF RequestManual, Commanding
  <2>3. CASE ~ReserveFan /\ ~RequestManual
    <3>1. commHeld' = commHeld
      BY <1>3, <2>3 DEF Dispatch, ReserveTimeout, CommitManual, SetEntry, LookForDisable,
         RestoreDisabled, Restore, CommitDisable, ReserveNext, WalkTimeout, SwitchOverride,
         RestoreNext, CommitOverride, motorVars
    <3>2. ~Commanding'
      <4>1. CASE ReserveTimeout \/ CommitManual \/ SetEntry \/ CommitDisable \/ WalkTimeout
                 \/ CommitOverride
        BY <4>1 DEF ReserveTimeout, CommitManual, SetEntry, CommitDisable, WalkTimeout,
           CommitOverride, NoOp, Commanding
      <4>2. CASE LookForDisable \/ RestoreDisabled
        BY <4>2 DEF LookForDisable, RestoreDisabled, Commanding, TypeOK
      <4>3. CASE ReserveNext \/ RestoreNext
        BY <4>3 DEF ReserveNext, RestoreNext, Commanding, TypeOK
      <4>4. CASE SwitchOverride
        <5>1. CASE RefusedByLatch
          BY <4>4, <5>1 DEF SwitchOverride, NoOp, Commanding
        <5>2. CASE ~RefusedByLatch
          <6>1. op'.at = "restoring"
            BY <4>4, <5>2 DEF SwitchOverride, TypeOK
          <6> QED
            BY <6>1 DEF Commanding
        <5> QED
          BY <5>1, <5>2
      <4> QED
        BY <1>3, <2>3, <4>1, <4>2, <4>3, <4>4 DEF Dispatch
    <3> QED
      BY <1>1, <1>3, <3>1, <3>2, DispatchFrame
  <2> QED
    BY <2>1, <2>2, <2>3
<1>4. CASE Ask
  BY <1>4, AskFrame DEF StopHolds, Commanding, motorVars
<1>5. CASE ReserveCancel \/ CommitCancel \/ CancelTimeout
  BY <1>1, <1>5 DEF ReserveCancel, CommitCancel, CancelTimeout, motorVars, historyVars, Commanding
<1>6. CASE Escalate
  BY <1>6 DEF Escalate, ClaimStop, StopHolds
<1>7. ASSUME NEW kind \in StopKinds, NEW clear \in BOOLEAN, BeginStop(kind, clear)
      PROVE  StopHolds'
  BY <1>7 DEF BeginStop, ClaimStop, StopHolds
<1>8. CASE Halt
  BY <1>8 DEF Halt, StopHolds, Commanding, TypeOK
<1>9. CASE TryInhibit \/ InhibitTimeout
  <2>1. stop.at = "inhibit" /\ stop'.at = "finish" /\ stop'.kind = stop.kind
    BY <1>9 DEF TryInhibit, InhibitTimeout, TypeOK
  <2>2. UNCHANGED <<op, motorVars>> /\ (missed => missed')
    BY <1>9 DEF TryInhibit, InhibitTimeout, historyVars, TypeOK
  <2>3. stop'.failed /\ stop.kind = "COMMUNICATION" => missed'
    <3>1. CASE TryInhibit
      BY <3>1 DEF TryInhibit, StopHolds, TypeOK
    <3>2. CASE InhibitTimeout
      BY <3>2 DEF InhibitTimeout
    <3> QED
      BY <1>9, <3>1, <3>2
  <2> QED
    BY <2>1, <2>2, <2>3 DEF StopHolds, Commanding, motorVars
<1>10. ASSUME NEW saveFails \in BOOLEAN, FinishStop(saveFails) PROVE StopHolds'
  BY <1>10 DEF FinishStop, NoStop, StopHolds
<1>11. ASSUME NEW f \in Fans, TachInhibit(f) \/ ClearFault(f) \/ Expire(f)
              \/ \E s \in Slots : Trigger(f, s)
       PROVE  StopHolds'
  BY <1>1, <1>11 DEF TachInhibit, ClearFault, Expire, Trigger, motorVars, historyVars,
     Commanding
<1>12. CASE UNCHANGED vars
  BY <1>1, <1>12 DEF vars, motorVars, historyVars, Commanding
<1> QED
  BY <1>2, <1>3, <1>4, <1>5, <1>6, <1>7, <1>8, <1>9, <1>10, <1>11, <1>12
  DEF Next, Respond, Stop

LEMMA FaultHoldsStep == TypeOK /\ FaultHolds /\ [Next]_vars => FaultHolds'
<1> SUFFICES ASSUME TypeOK, FaultHolds, [Next]_vars PROVE FaultHolds'
  OBVIOUS
<1>1. CASE UNCHANGED <<tachHeld, fault, stop>>
  BY <1>1 DEF FaultHolds
<1>2. CASE Task \/ Dispatch \/ Ask
  BY <1>1, <1>2, TaskFrame, DispatchFrame, AskFrame DEF motorVars
<1>3. CASE ReserveCancel \/ CommitCancel \/ CancelTimeout
  <2>1. UNCHANGED tachHeld /\ fault.at # "idle"
    BY <1>3 DEF ReserveCancel, CommitCancel, CancelTimeout, motorVars
  <2>2. fault'.at = "idle" \/ (fault'.fan = fault.fan /\ fault'.at \in {"cancelled", "escalate"})
    BY <1>3 DEF ReserveCancel, CommitCancel, CancelTimeout, NoFault, TypeOK
  <2> QED
    BY <2>1, <2>2 DEF FaultHolds
<1>4. CASE Escalate
  BY <1>4 DEF Escalate, ClaimStop, motorVars, FaultHolds, TypeOK
<1>5. ASSUME NEW kind \in StopKinds, NEW clear \in BOOLEAN, BeginStop(kind, clear)
      PROVE  FaultHolds'
  BY <1>5 DEF BeginStop, ClaimStop, motorVars, FaultHolds
<1>6. CASE Halt \/ TryInhibit \/ InhibitTimeout
  BY <1>6 DEF Halt, TryInhibit, InhibitTimeout, motorVars, FaultHolds, TypeOK
<1>7. ASSUME NEW saveFails \in BOOLEAN, FinishStop(saveFails) PROVE FaultHolds'
  BY <1>7 DEF FinishStop, NoFault, FaultHolds
<1>8. ASSUME NEW f \in Fans, TachInhibit(f) PROVE FaultHolds'
  BY <1>8 DEF TachInhibit, FaultHolds, TypeOK
<1>9. ASSUME NEW f \in Fans, ClearFault(f) PROVE FaultHolds'
  BY <1>9 DEF ClearFault, FaultHolds
<1>10. ASSUME NEW f \in Fans, Expire(f) \/ \E s \in Slots : Trigger(f, s)
       PROVE  FaultHolds'
  BY <1>1, <1>10 DEF Expire, Trigger, motorVars
<1>11. CASE UNCHANGED vars
  BY <1>1, <1>11 DEF vars, motorVars
<1> QED
  BY <1>2, <1>3, <1>4, <1>5, <1>6, <1>7, <1>8, <1>9, <1>10, <1>11 DEF Next, Respond, Stop

\* An actor without a fan's reservation changes neither its entries nor, while it is
\* reserved, the inhibit.
LEMMA NobodyElse ==
  ASSUME TypeOK, ReservationsOwned, [Next]_vars, ~Task, NEW f \in ByTask, NEW s \in Slots
  PROVE  /\ enabled[f][s] => enabled'[f][s]
         /\ inhibited' = inhibited
         /\ slot'[f] = slot[f]
<1> USE ActorFans
<1>0. f \in Fans /\ f \notin ByOp /\ f \notin ByFault /\ pending[f]
  BY DEF ReservationsOwned, ByTask
<1>1. CASE UNCHANGED <<enabled, inhibited, slot>>
  BY <1>1
<1>2. CASE Dispatch
  <2>1. CASE CommitManual
    BY <1>0, <2>1 DEF CommitManual, EndSlots, EndedByManual, ByOp, entryVars, inhibitVars
  <2>2. CASE SetEntry
    BY <1>0, <2>2 DEF SetEntry, fanVars, inhibitVars, TypeOK
  <2>3. CASE CommitDisable
    <3>1. f # op.fan
      BY <1>0, <2>3 DEF CommitDisable, ByOp
    <3> QED
      BY <1>0, <2>3, <3>1 DEF CommitDisable, EndSlots, inhibitVars, TypeOK
  <2>4. CASE SwitchOverride \/ CommitOverride
    BY <1>0, <2>4 DEF SwitchOverride, CommitOverride, ByOp
  <2> QED
    BY <1>1, <1>2, <2>1, <2>2, <2>3, <2>4 DEF Dispatch, ReserveFan, ReserveTimeout,
       RequestManual, LookForDisable, RestoreDisabled, ReserveNext, WalkTimeout,
       RestoreNext, entryVars, fanVars, inhibitVars
<1>3. CASE Ask
  BY <1>1, <1>3, AskFrame DEF entryVars, fanVars, inhibitVars
<1>4. CASE CommitCancel
  BY <1>0, <1>4 DEF CommitCancel, EndSlots, ByFault, entryVars, inhibitVars
<1>5. CASE TryInhibit
  BY <1>0, <1>5 DEF TryInhibit, NoOperation
<1>6. CASE Halt \/ InhibitTimeout \/ (\E saveFails \in BOOLEAN : FinishStop(saveFails))
  BY <1>1, <1>6 DEF Halt, InhibitTimeout, FinishStop, entryVars, fanVars, inhibitVars
<1>7. CASE ReserveCancel \/ CancelTimeout \/ Escalate
  BY <1>1, <1>7 DEF ReserveCancel, CancelTimeout, Escalate, ClaimStop, entryVars, fanVars,
     inhibitVars
<1>8. ASSUME NEW g \in Fans, TachInhibit(g) \/ ClearFault(g) \/ Expire(g)
             \/ \E r \in Slots : Trigger(g, r)
      PROVE  UNCHANGED <<enabled, inhibited, slot>>
  BY <1>8 DEF TachInhibit, ClearFault, Expire, Trigger, entryVars, fanVars, inhibitVars
<1>9. ASSUME NEW kind \in StopKinds, NEW clear \in BOOLEAN, BeginStop(kind, clear)
      PROVE  UNCHANGED <<enabled, inhibited, slot>>
  BY <1>9 DEF BeginStop, ClaimStop, entryVars, fanVars, inhibitVars
<1>10. CASE UNCHANGED vars
  BY <1>1, <1>10 DEF vars, entryVars, fanVars, inhibitVars
<1> QED
  BY <1>1, <1>2, <1>3, <1>4, <1>5, <1>6, <1>7, <1>8, <1>9, <1>10 DEF Next, Respond, Stop

LEMMA AfterFanRests == AfterFan.at \in {"sleep", "end"} /\ ToStart.at = "start"
BY DEF AfterFan, ToStart, Asleep

LEMMA OthersLeaveTask == [Next]_vars /\ ~Task => UNCHANGED task
<1> SUFFICES ASSUME [Next]_vars, ~Task PROVE UNCHANGED task
  OBVIOUS
<1>1. CASE Respond \/ Stop
  BY <1>1 DEF Respond, Stop, ReserveCancel, CommitCancel, CancelTimeout, Escalate,
     ClaimStop, Halt, TryInhibit, InhibitTimeout, FinishStop
<1>2. ASSUME NEW f \in Fans, TachInhibit(f) \/ ClearFault(f) \/ Expire(f)
             \/ \E s \in Slots : Trigger(f, s)
      PROVE  UNCHANGED task
  BY <1>2 DEF TachInhibit, ClearFault, Expire, Trigger
<1>3. ASSUME NEW kind \in StopKinds, NEW clear \in BOOLEAN, BeginStop(kind, clear)
      PROVE  UNCHANGED task
  BY <1>3 DEF BeginStop, ClaimStop
<1> QED
  BY <1>1, <1>2, <1>3, DispatchFrame, AskFrame DEF Next, vars

LEMMA StartStandsStep ==
  TypeOK /\ ReservationsOwned /\ StartStands /\ [Next]_vars => StartStands'
<1> SUFFICES ASSUME TypeOK, ReservationsOwned, StartStands, [Next]_vars PROVE StartStands'
  OBVIOUS
<1>1. CASE Task
  <2>1. CASE Wake \/ TakeEnd \/ RestoreEnded \/ CommitEnd \/ CommitStart
    <3>1. task'.at \notin {"apply", "started"}
      BY <2>1, AfterFanRests DEF Wake, TakeEnd, RestoreEnded, CommitEnd, CommitStart, Asleep,
         TypeOK
    <3> QED
      BY <3>1 DEF StartStands
  <2>2. CASE ApplyStart
    <3>1. task.at = "apply" /\ task'.fan = task.fan /\ task'.slot = task.slot
      BY <2>2 DEF ApplyStart, TypeOK
    <3>2. UNCHANGED <<enabled, inhibited, slot>>
      BY <2>2 DEF ApplyStart, entryVars, fanVars, inhibitVars
    <3> QED
      BY <3>1, <3>2 DEF StartStands
  <2>3. CASE TakeStart /\ task' = AfterFan
    <3>1. task'.at \notin {"apply", "started"}
      BY <2>3, AfterFanRests
    <3> QED
      BY <3>1 DEF StartStands
  <2>4. CASE TakeStart /\ task' # AfterFan
    <3>1. UNCHANGED <<enabled, inhibited, slot>>
      BY <2>4 DEF TakeStart, entryVars, fanVars, inhibitVars
    <3>2. ~inhibited /\ slot[task.fan] = NoSlot
      BY <2>4 DEF TakeStart, Starts
    <3>3. task'.fan = task.fan /\ task'.slot \in Slots /\ enabled[task.fan][task'.slot]
      BY <2>4 DEF TakeStart, Chosen, Due, TypeOK
    <3> QED
      BY <3>1, <3>2, <3>3 DEF StartStands
  <2> QED
    BY <1>1, <2>1, <2>2, <2>3, <2>4 DEF Task
<1>2. CASE ~Task
  <2>1. UNCHANGED task
    BY <1>2, OthersLeaveTask
  <2>2. ASSUME NEW f \in Fans, NEW s \in Slots, task.at \in {"apply", "started"}, task.fan = f,
               task.slot = s
        PROVE  enabled'[f][s] /\ ~inhibited' /\ slot'[f] = NoSlot
    <3>1. f \in ByTask
      BY <2>2 DEF ByTask
    <3>2. enabled[f][s] /\ ~inhibited /\ slot[f] = NoSlot
      BY <2>2 DEF StartStands
    <3> QED
      BY <1>2, <2>2, <3>1, <3>2, NobodyElse
  <2> QED
    BY <2>1, <2>2 DEF StartStands
<1> QED
  BY <1>1, <1>2

\* A target of an entry comes from the start of that entry.
LEMMA StartedByTask ==
  ASSUME TypeOK, [Next]_vars, NEW f \in Fans, source'[f] = "start", source[f] # "start"
  PROVE  ApplyStart /\ f = task.fan
<1> USE ActorFans
<1>1. source' # source
  OBVIOUS
<1>2. CASE Task
  BY <1>1, <1>2 DEF Task, Wake, TakeEnd, RestoreEnded, CommitEnd, TakeStart, ApplyStart,
     CommitStart, Restore, Request, motorVars, TypeOK
<1>3. CASE Dispatch
  <2>1. CASE RestoreDisabled \/ RestoreNext \/ RequestManual
    BY <2>1 DEF RestoreDisabled, RestoreNext, RequestManual, Restore, Request, TypeOK
  <2>2. CASE ~RestoreDisabled /\ ~RestoreNext /\ ~RequestManual
    BY <1>1, <1>3, <2>2 DEF Dispatch, ReserveFan, ReserveTimeout, CommitManual, SetEntry,
       LookForDisable, CommitDisable, ReserveNext, WalkTimeout, SwitchOverride,
       CommitOverride, motorVars
  <2> QED
    BY <2>1, <2>2
<1>4. CASE Ask
  BY <1>1, <1>4, AskFrame DEF motorVars
<1>5. CASE Respond \/ Stop
  BY <1>1, <1>5 DEF Respond, Stop, ReserveCancel, CommitCancel, CancelTimeout, Escalate,
     ClaimStop, Halt, TryInhibit, InhibitTimeout, FinishStop, motorVars
<1>6. ASSUME NEW g \in Fans, TachInhibit(g) PROVE source'[f] = source[f] \/ source'[f] = "none"
  BY <1>6 DEF TachInhibit, TypeOK
<1>7. ASSUME NEW g \in Fans,
             ClearFault(g) \/ Expire(g) \/ \E s \in Slots : Trigger(g, s)
      PROVE  UNCHANGED source
  BY <1>7 DEF ClearFault, Expire, Trigger, motorVars
<1>8. ASSUME NEW kind \in StopKinds, NEW clear \in BOOLEAN, BeginStop(kind, clear)
      PROVE  UNCHANGED source
  BY <1>8 DEF BeginStop, ClaimStop, motorVars
<1>9. CASE UNCHANGED vars
  BY <1>1, <1>9 DEF vars, motorVars
<1> QED
  BY <1>1, <1>2, <1>3, <1>4, <1>5, <1>6, <1>7, <1>8, <1>9 DEF Next

LEMMA OthersLeaveOp == [Next]_vars /\ ~Dispatch /\ ~Ask => UNCHANGED op
<1> SUFFICES ASSUME [Next]_vars, ~Dispatch, ~Ask PROVE UNCHANGED op
  OBVIOUS
<1>1. CASE Respond \/ Stop
  BY <1>1 DEF Respond, Stop, ReserveCancel, CommitCancel, CancelTimeout, Escalate,
     ClaimStop, Halt, TryInhibit, InhibitTimeout, FinishStop
<1>2. ASSUME NEW f \in Fans, TachInhibit(f) \/ ClearFault(f) \/ Expire(f)
             \/ \E s \in Slots : Trigger(f, s)
      PROVE  UNCHANGED op
  BY <1>2 DEF TachInhibit, ClearFault, Expire, Trigger
<1>3. ASSUME NEW kind \in StopKinds, NEW clear \in BOOLEAN, BeginStop(kind, clear)
      PROVE  UNCHANGED op
  BY <1>3 DEF BeginStop, ClaimStop
<1> QED
  BY <1>1, <1>2, <1>3, TaskFrame DEF Next, vars

LEMMA TaskReplacedStep ==
  TypeOK /\ RefusedIsStopped /\ TaskReplaced /\ [Next]_vars => TaskReplaced'
<1> SUFFICES ASSUME TypeOK, RefusedIsStopped, TaskReplaced, [Next]_vars PROVE TaskReplaced'
  OBVIOUS
<1> USE ActorFans
<1>1. CASE ~Task
  <2>1. UNCHANGED task /\ ~ApplyStart
    BY <1>1, OthersLeaveTask DEF Task
  <2> QED
    BY <2>1, StartedByTask DEF TaskReplaced
<1>2. CASE RestoreEnded
  <2>1. task'.at = "ended" /\ task'.fan = task.fan
    BY <1>2 DEF RestoreEnded, TypeOK
  <2>2. UNCHANGED HeldVars
    BY <1>2, TaskFrame DEF Task, HeldVars
  <2>3. source'[task.fan] \in {"restore", "none"}
    BY <1>2, <2>2, Granted DEF RestoreEnded, Restore
  <2> QED
    BY <2>1, <2>3 DEF TaskReplaced
<1>3. CASE ApplyStart
  <2>1. task'.at = "started" /\ task'.fan = task.fan /\ task'.ok = AutomaticAllowed(task.fan)
    BY <1>3 DEF ApplyStart, TypeOK
  <2>2. UNCHANGED HeldVars
    BY <1>3, TaskFrame DEF Task, HeldVars
  <2>3. ~AutomaticAllowed(task.fan) => source'[task.fan] = "none"
    BY <1>3, <2>2, Granted DEF ApplyStart
  <2> QED
    BY <2>1, <2>3 DEF TaskReplaced
<1>4. CASE Wake \/ TakeEnd \/ CommitEnd \/ TakeStart \/ CommitStart
  <2>1. task'.at \notin {"ended", "started"}
    <3>1. CASE TakeStart /\ task' # AfterFan
      BY <3>1 DEF TakeStart, TypeOK
    <3> QED
      BY <1>4, <3>1, AfterFanRests DEF Wake, TakeEnd, CommitEnd, TakeStart, CommitStart,
         Asleep, TypeOK
  <2> QED
    BY <2>1 DEF TaskReplaced
<1> QED
  BY <1>1, <1>2, <1>3, <1>4 DEF Task

\* While an override restores, every fan is its own.
LEMMA RestoringAlone ==
  ASSUME TypeOK, ReservationsOwned, [Next]_vars, ~Dispatch, op.at = "restoring"
  PROVE  UNCHANGED slot /\ ~ApplyStart
<1> USE ActorFans
<1>1. /\ \A f \in Fans : pending[f] /\ f \notin ByTask /\ f \notin ByFault
      /\ 0 \in Fans
  BY ConstantFacts DEF ReservationsOwned, ByOp
<1>2. ~CommitEnd /\ ~CommitStart /\ ~ApplyStart
  BY <1>1 DEF CommitEnd, CommitStart, ApplyStart, ByTask
<1>3. ~CommitCancel
  BY <1>1 DEF CommitCancel, ByFault
<1>4. ~TryInhibit
  BY <1>1 DEF TryInhibit, NoOperation
<1>5. ~Ask
  BY AskFrame
<1>6. CASE Task
  BY <1>2, <1>6 DEF Task, Wake, TakeEnd, RestoreEnded, TakeStart, fanVars
<1>7. CASE Respond \/ Stop
  BY <1>2, <1>3, <1>4, <1>7 DEF Respond, Stop, ReserveCancel, CancelTimeout, Escalate,
     ClaimStop, Halt, InhibitTimeout, FinishStop, fanVars
<1>8. ASSUME NEW f \in Fans, TachInhibit(f) \/ ClearFault(f) \/ Expire(f)
             \/ \E s \in Slots : Trigger(f, s)
      PROVE  UNCHANGED slot
  BY <1>8 DEF TachInhibit, ClearFault, Expire, Trigger, fanVars
<1>9. ASSUME NEW kind \in StopKinds, NEW clear \in BOOLEAN, BeginStop(kind, clear)
      PROVE  UNCHANGED slot
  BY <1>9 DEF BeginStop, ClaimStop, fanVars
<1> QED
  BY <1>2, <1>5, <1>6, <1>7, <1>8, <1>9 DEF Next, vars, fanVars

LEMMA OpReplacedStep ==
  TypeOK /\ ReservationsOwned /\ RefusedIsStopped /\ OpReplaced /\ [Next]_vars => OpReplaced'
<1> SUFFICES ASSUME TypeOK, ReservationsOwned, RefusedIsStopped, OpReplaced, [Next]_vars
             PROVE  OpReplaced'
  OBVIOUS
<1> USE ActorFans
<1>1. CASE op'.at \notin {"disable", "look", "manualDone", "disabled", "restoring"}
  BY <1>1 DEF OpReplaced
<1>2. CASE Ask
  <2>1. op'.at \in {"manual", "set", "disable", "walk"} /\ ~op'.ok
    BY <1>2, AskFrame
  <2> QED
    BY <2>1 DEF OpReplaced
<1>3. CASE ~Dispatch /\ ~Ask
  <2>1. UNCHANGED op
    BY <1>3, OthersLeaveOp
  <2>2. CASE op.at = "restoring"
    <3>1. UNCHANGED slot /\ ~ApplyStart
      BY <1>3, <2>2, RestoringAlone
    <3>2. \A f \in Fans : source'[f] = "start" => source[f] = "start"
      BY <3>1, StartedByTask
    <3> QED
      BY <2>1, <2>2, <3>1, <3>2 DEF OpReplaced
  <2>3. CASE op.at \in {"manualDone", "disabled"}
    <3>1. op.fan \in ByOp
      BY <2>3 DEF ByOp
    <3>2. op.fan \notin ByTask
      BY <3>1 DEF ReservationsOwned
    <3>3. ~(ApplyStart /\ op.fan = task.fan)
      BY <3>2 DEF ApplyStart, ByTask
    <3>4. source'[op.fan] = "start" => source[op.fan] = "start"
      BY <3>3, StartedByTask
    <3> QED
      BY <2>1, <2>3, <3>4 DEF OpReplaced
  <2>4. CASE op.at \notin {"restoring", "manualDone", "disabled"}
    BY <2>1, <2>4 DEF OpReplaced
  <2> QED
    BY <2>2, <2>3, <2>4
<1>4. CASE ReserveTimeout \/ CommitManual \/ SetEntry \/ CommitDisable \/ WalkTimeout
           \/ CommitOverride
  BY <1>1, <1>4 DEF ReserveTimeout, CommitManual, SetEntry, CommitDisable, WalkTimeout,
     CommitOverride, NoOp
<1>5. CASE ReserveFan
  <2>1. op.at \in {"manual", "set", "disable"} /\ op' = [op EXCEPT !.at = Reserved1[op.at]]
    BY <1>5 DEF ReserveFan, Reserved1
  <2>2. op'.at \in {"request", "store", "look"} /\ (op'.at = "look" => op.at = "disable")
        /\ op'.ok = op.ok
    BY <2>1 DEF Reserved1, TypeOK
  <2> QED
    BY <2>2 DEF OpReplaced
<1>6. CASE RequestManual
  <2>1. op'.at = "manualDone" /\ op'.fan = op.fan /\ op'.ok = ManualAllowed(op.fan)
    BY <1>6 DEF RequestManual, TypeOK
  <2>2. ManualAllowed(op.fan) => source'[op.fan] = "manual"
    BY <1>6 DEF RequestManual, Request, TypeOK
  <2> QED
    BY <2>1, <2>2 DEF OpReplaced
<1>7. CASE LookForDisable
  <2>1. CASE slot[op.fan] = op.slot
    <3>1. op'.at = "putBack"
      BY <1>7, <2>1 DEF LookForDisable, TypeOK
    <3> QED
      BY <1>1, <3>1
  <2>2. CASE slot[op.fan] # op.slot
    <3>1. op'.at = "disabled" /\ op'.ok = op.ok /\ ~op.ok
      BY <1>7, <2>2 DEF LookForDisable, OpReplaced, TypeOK
    <3> QED
      BY <3>1 DEF OpReplaced
  <2> QED
    BY <2>1, <2>2
<1>8. CASE RestoreDisabled
  <2>1. op'.at = "disabled" /\ op'.fan = op.fan
    BY <1>8 DEF RestoreDisabled, TypeOK
  <2>2. UNCHANGED HeldVars
    BY <1>8 DEF RestoreDisabled, Restore, HeldVars
  <2>3. source'[op.fan] \in {"restore", "none"}
    BY <1>8, <2>2, Granted DEF RestoreDisabled, Restore
  <2> QED
    BY <2>1, <2>3 DEF OpReplaced
<1>9. CASE ReserveNext
  <2>1. op'.at \in {"switch", "walk"}
    BY <1>9 DEF ReserveNext, TypeOK
  <2> QED
    BY <1>1, <2>1
<1>10. CASE SwitchOverride
  <2>1. CASE RefusedByLatch
    BY <1>1, <1>10, <2>1 DEF SwitchOverride, NoOp
  <2>2. CASE ~RefusedByLatch
    <3>1. op'.at = "restoring" /\ op'.on = op.on /\ op'.todo = IF op.on THEN Active ELSE {}
      BY <1>10, <2>2 DEF SwitchOverride, TypeOK
    <3>2. UNCHANGED <<slot, source>>
      BY <1>10 DEF SwitchOverride, fanVars, motorVars
    <3> QED
      BY <3>1, <3>2 DEF OpReplaced, Active
  <2> QED
    BY <2>1, <2>2
<1>11. CASE RestoreNext
  <2>1. PICK f \in op.todo : Restore(f, saved[f]) /\ op' = [op EXCEPT !.todo = @ \ {f}]
    BY <1>11 DEF RestoreNext
  <2>2. op'.at = "restoring" /\ op'.on = op.on /\ op'.todo = op.todo \ {f}
    BY <1>11, <2>1 DEF RestoreNext, TypeOK
  <2>3. UNCHANGED <<slot, HeldVars>>
    BY <1>11, <2>1 DEF RestoreNext, Restore, HeldVars, fanVars
  <2>4. source'[f] # "start" /\ \A g \in Fans : g # f => source'[g] = source[g]
    BY <2>1, <2>3, Granted DEF Restore
  <2>5. op.at = "restoring"
    BY <1>11 DEF RestoreNext
  <2> QED
    BY <2>2, <2>3, <2>4, <2>5 DEF OpReplaced
<1> QED
  BY <1>2, <1>3, <1>4, <1>5, <1>6, <1>7, <1>8, <1>9, <1>10, <1>11 DEF Dispatch

LEMMA OwnerStep ==
  TypeOK /\ ReservationsOwned /\ Motion /\ [Next]_vars => Owner'
<1> SUFFICES ASSUME TypeOK, ReservationsOwned, Motion, [Next]_vars,
                    NEW f \in Fans, source'[f] = "start"
             PROVE  slot'[f] # NoSlot \/ f \in ByTask'
  BY DEF Owner
<1> USE ActorFans DEF Motion
<1>1. CASE ApplyStart /\ f = task.fan
  BY <1>1 DEF ApplyStart, ByTask, TypeOK
<1>2. CASE ~(ApplyStart /\ f = task.fan)
  <2>1. source[f] = "start" /\ (slot[f] # NoSlot \/ f \in ByTask)
    BY <1>2, StartedByTask DEF Owner
  <2>2. AutomaticAllowed(f)
    BY <2>1 DEF RefusedIsStopped
  <2>3. CASE UNCHANGED <<slot, task>>
    BY <2>1, <2>3 DEF ByTask
  <2>4. CASE Task
    <3>1. CASE Wake
      BY <2>1, <3>1 DEF Wake, ByTask, fanVars
    <3>2. CASE TakeEnd
      BY <2>1, <3>2 DEF TakeEnd, ByTask, fanVars
    <3>3. CASE RestoreEnded
      BY <2>1, <3>3 DEF RestoreEnded, ByTask, fanVars, TypeOK
    <3>4. CASE CommitEnd
      <4>1. f # task.fan
        BY <2>1, <3>4 DEF CommitEnd, TaskReplaced
      <4> QED
        BY <2>1, <3>4, <4>1 DEF CommitEnd, EndSlots, ByTask
    <3>5. CASE TakeStart
      BY <2>1, <3>5 DEF TakeStart, ByTask, fanVars
    <3>6. CASE ApplyStart
      BY <2>1, <3>6 DEF ApplyStart, ByTask, fanVars, TypeOK
    <3>7. CASE CommitStart
      <4>1. CASE f # task.fan
        BY <2>1, <3>7, <4>1 DEF CommitStart, fanVars, ByTask, TypeOK
      <4>2. CASE f = task.fan
        <5>1. task.ok
          BY <2>1, <3>7, <4>2 DEF CommitStart, TaskReplaced
        <5>2. BeginsNow
          BY <3>7, <5>1 DEF CommitStart, StartStands, BeginsNow
        <5>3. slot'[f] = task.slot
          BY <3>7, <4>2, <5>2 DEF CommitStart, TypeOK
        <5> QED
          BY <5>3, ConstantFacts
      <4> QED
        BY <4>1, <4>2
    <3> QED
      BY <2>4, <3>1, <3>2, <3>3, <3>4, <3>5, <3>6, <3>7 DEF Task
  <2>5. CASE Dispatch
    <3>1. UNCHANGED task
      BY <2>5, DispatchFrame
    <3>2. CASE CommitManual
      BY <2>1, <3>1, <3>2 DEF CommitManual, EndSlots, EndedByManual, OpReplaced, ByTask
    <3>3. CASE CommitDisable
      BY <2>1, <3>1, <3>3 DEF CommitDisable, EndSlots, OpReplaced, ByTask
    <3>4. CASE CommitOverride
      <4>1. ~op.on \/ slot[f] = NoSlot
        BY <2>1, <3>4 DEF CommitOverride, OpReplaced
      <4> QED
        BY <2>1, <3>1, <3>4, <4>1 DEF CommitOverride, EndSlots, Active, ByTask
    <3>5. CASE ~CommitManual /\ ~CommitDisable /\ ~CommitOverride
      <4>1. UNCHANGED slot
        BY <2>5, <3>5 DEF Dispatch, ReserveFan, ReserveTimeout, RequestManual, SetEntry,
           LookForDisable, RestoreDisabled, ReserveNext, WalkTimeout, SwitchOverride,
           RestoreNext, fanVars
      <4> QED
        BY <2>3, <3>1, <4>1
    <3> QED
      BY <3>2, <3>3, <3>4, <3>5
  <2>6. CASE Ask
    BY <2>3, <2>6, AskFrame DEF fanVars
  <2>7. CASE CommitCancel
    <3>1. f # fault.fan
      BY <2>2, <2>7 DEF CommitCancel, FaultHolds, AutomaticAllowed, ManualAllowed
    <3> QED
      BY <2>1, <2>7, <3>1 DEF CommitCancel, EndSlots, ByTask
  <2>8. CASE TryInhibit
    <3>1. ~AutomaticAllowed(f)
      BY <2>8 DEF TryInhibit, StopHolds, AutomaticAllowed, ManualAllowed, Maintained, TypeOK
    <3> QED
      BY <2>2, <3>1
  <2>9. CASE Halt \/ InhibitTimeout \/ (\E saveFails \in BOOLEAN : FinishStop(saveFails))
    BY <2>3, <2>9 DEF Halt, InhibitTimeout, FinishStop, fanVars
  <2>10. CASE ReserveCancel \/ CancelTimeout \/ Escalate
    BY <2>3, <2>10 DEF ReserveCancel, CancelTimeout, Escalate, ClaimStop, fanVars
  <2>11. ASSUME NEW g \in Fans, TachInhibit(g) \/ ClearFault(g) \/ Expire(g)
                \/ \E s \in Slots : Trigger(g, s)
         PROVE  UNCHANGED <<slot, task>>
    BY <2>11 DEF TachInhibit, ClearFault, Expire, Trigger, fanVars
  <2>12. ASSUME NEW kind \in StopKinds, NEW clear \in BOOLEAN, BeginStop(kind, clear)
         PROVE  UNCHANGED <<slot, task>>
    BY <2>12 DEF BeginStop, ClaimStop, fanVars
  <2>13. CASE UNCHANGED vars
    BY <2>3, <2>13 DEF vars, fanVars
  <2> QED
    BY <2>3, <2>4, <2>5, <2>6, <2>7, <2>8, <2>9, <2>10, <2>11, <2>12, <2>13
    DEF Next, Respond, Stop
<1> QED
  BY <1>1, <1>2

LEMMA MotionStep ==
  TypeOK /\ ReservationsOwned /\ Motion /\ [Next]_vars => Motion'
BY RefusedStep, StartStandsStep, StopHoldsStep, FaultHoldsStep, TaskReplacedStep,
   OpReplacedStep, OwnerStep DEF Motion

LEMMA MotionInit == Init => Motion
BY DEF Init, Motion, RefusedIsStopped, StartStands, StopHolds, FaultHolds, TaskReplaced,
   OpReplaced, Owner, Asleep, NoOp, NoFault, NoStop, Commanding

LEMMA MotionEnough == ReservationsOwned /\ Motion => ScheduledTargetHasOwner
BY DEF Motion, Owner, ReservationsOwned, ScheduledTargetHasOwner

\* A fan that runs the target of an entry has that entry active, or an operation under
\* way that ends it: no commit, cancellation or stop leaves such a target behind.
THEOREM OwnerSafety == Spec => []ScheduledTargetHasOwner
<1>1. Init => TypeOK /\ ReservationsOwned /\ Motion
  BY TypesInit, OwnedInit, MotionInit
<1>2. TypeOK /\ ReservationsOwned /\ Motion /\ [Next]_vars
        => (TypeOK /\ ReservationsOwned /\ Motion)'
  BY TypesStep, OwnedStep, MotionStep
<1> QED
  BY <1>1, <1>2, MotionEnough, PTL DEF Spec

-----------------------------------------------------------------------------
(* What an entry puts back                                                 *)
\* Nobody who may still restore the fan is left when a pardon is withdrawn.
Withdrawn(f) ==
  \/ TryInhibit
  \/ CommitCancel /\ f = fault.fan
  \/ CommitManual /\ f = op.fan /\ op.ok

\* A value that may be put back on a fan goes on being the manual target of the fan, or
\* stays pardoned, until then.
LEMMA ManualKept ==
  ASSUME TypeOK, ReservationsOwned, Motion, [Next]_vars, NEW f \in Fans, NEW v,
         v = manual[f] \/ Pardoned(f)
  PROVE  v = manual'[f] \/ Pardoned(f)' \/ Withdrawn(f)
<1> USE ActorFans
<1>1. CASE UNCHANGED <<manual, globalHeld, stop, fault, op, missed>>
  BY <1>1 DEF Pardoned
<1>2. CASE Task
  BY <1>1, <1>2, TaskFrame
<1>3. ASSUME UNCHANGED <<manual, globalHeld, stop, fault, missed>>,
             op.at # "manualDone" \/ ~op.ok
      PROVE  v = manual'[f] \/ Pardoned(f)'
  BY <1>3 DEF Pardoned
<1>4. CASE Dispatch
  <2>1. UNCHANGED <<globalHeld, stop, fault, missed>>
    BY <1>4, DispatchFrame
  <2>2. CASE RequestManual
    <3>1. CASE f = op.fan /\ ManualAllowed(op.fan)
      BY <2>2, <3>1 DEF RequestManual, Pardoned, TypeOK
    <3>2. CASE ~(f = op.fan /\ ManualAllowed(op.fan))
      <4>1. manual'[f] = manual[f]
        BY <2>2, <3>2 DEF RequestManual, TypeOK
      <4>2. op.at # "manualDone"
        BY <2>2 DEF RequestManual
      <4> QED
        BY <2>1, <4>1, <4>2 DEF Pardoned
    <3> QED
      BY <3>1, <3>2
  <2>3. CASE CommitManual
    <3>1. UNCHANGED manual
      BY <2>3 DEF CommitManual, motorVars
    <3> QED
      BY <2>1, <2>3, <3>1 DEF Withdrawn, Pardoned
  <2>4. CASE ReserveFan
    <3>1. op.at # "manualDone" /\ UNCHANGED manual
      BY <2>4 DEF ReserveFan, Reserved1, motorVars
    <3> QED
      BY <1>3, <2>1, <3>1
  <2>5. CASE ReserveTimeout
    <3>1. op.at # "manualDone" /\ UNCHANGED manual
      BY <2>5 DEF ReserveTimeout, Reserved1, motorVars
    <3> QED
      BY <1>3, <2>1, <3>1
  <2>6. CASE ~RequestManual /\ ~CommitManual /\ ~ReserveFan /\ ~ReserveTimeout
    <3>1. op.at # "manualDone" /\ UNCHANGED manual
      BY <1>4, <2>6 DEF Dispatch, SetEntry, LookForDisable, RestoreDisabled, Restore,
         CommitDisable, ReserveNext, WalkTimeout, SwitchOverride, RestoreNext,
         CommitOverride, motorVars
    <3> QED
      BY <1>3, <2>1, <3>1
  <2> QED
    BY <2>2, <2>3, <2>4, <2>5, <2>6
<1>5. CASE Ask
  BY <1>3, <1>5, AskFrame DEF motorVars
<1>6. CASE ReserveCancel \/ CancelTimeout
  BY <1>6 DEF ReserveCancel, CancelTimeout, Pardoned, motorVars, historyVars, TypeOK
<1>7. CASE CommitCancel
  BY <1>7 DEF CommitCancel, Withdrawn, Pardoned, motorVars, historyVars
<1>8. CASE Escalate
  BY <1>8 DEF Escalate, ClaimStop, Pardoned, motorVars, historyVars, TypeOK
<1>9. CASE Halt
  BY <1>9 DEF Halt, Pardoned, TypeOK
<1>10. CASE TryInhibit
  BY <1>10 DEF Withdrawn
<1>11. CASE InhibitTimeout
  BY <1>11 DEF InhibitTimeout, Pardoned, TypeOK
<1>12. ASSUME NEW saveFails \in BOOLEAN, FinishStop(saveFails)
       PROVE  v = manual'[f] \/ Pardoned(f)'
  <2>1. UNCHANGED <<manual, op, missed>> /\ (globalHeld => globalHeld')
    BY <1>12 DEF FinishStop, historyVars
  <2>2. stop.failed => globalHeld' \/ missed
    BY <1>12 DEF FinishStop, Motion, StopHolds, TypeOK
  <2>3. fault.at = "stopping" => globalHeld
    BY <1>12 DEF FinishStop, Motion, FaultHolds, StopHolds
  <2>4. fault.at # "stopping" => fault' = fault
    BY <1>12 DEF FinishStop
  <2>5. stop.at = "finish"
    BY <1>12 DEF FinishStop
  <2> QED
    BY <2>1, <2>2, <2>3, <2>4, <2>5 DEF Pardoned
<1>13. ASSUME NEW g \in Fans, TachInhibit(g) PROVE v = manual'[f] \/ Pardoned(f)'
  BY <1>13 DEF TachInhibit, Pardoned, historyVars, TypeOK
<1>14. ASSUME NEW g \in Fans,
              ClearFault(g) \/ Expire(g) \/ \E s \in Slots : Trigger(g, s)
       PROVE  v = manual'[f] \/ Pardoned(f)'
  <2>1. UNCHANGED <<manual, globalHeld, stop, fault, op, missed>>
    BY <1>14 DEF ClearFault, Expire, Trigger, motorVars, historyVars
  <2> QED
    BY <2>1 DEF Pardoned
<1>15. ASSUME NEW kind \in StopKinds, NEW clear \in BOOLEAN, BeginStop(kind, clear)
       PROVE  v = manual'[f] \/ Pardoned(f)'
  BY <1>15 DEF BeginStop, ClaimStop, Pardoned, motorVars, historyVars
<1>16. CASE UNCHANGED vars
  BY <1>1, <1>16 DEF vars, motorVars, historyVars
<1> QED
  BY <1>2, <1>4, <1>5, <1>6, <1>7, <1>8, <1>9, <1>10, <1>11, <1>12, <1>13, <1>14, <1>15,
     <1>16 DEF Next, Respond, Stop

\* A pardon is withdrawn with every entry of the fan ended, and no restore under way.
LEMMA WithdrawnAtRest ==
  ASSUME TypeOK, ReservationsOwned, NEW f \in Fans, Withdrawn(f)
  PROVE  /\ slot'[f] = NoSlot
         /\ task.fan = f => task.at \notin {"restore", "started"}
         /\ op.fan = f => op.at # "putBack"
<1> USE ActorFans
<1>1. CASE TryInhibit
  <2>1. f \notin ByTask /\ f \notin ByOp
    BY <1>1 DEF TryInhibit, NoOperation, ReservationsOwned
  <2> QED
    BY <1>1, <2>1 DEF TryInhibit, EndSlots, ByTask, ByOp
<1>2. CASE CommitCancel /\ f = fault.fan
  <2>1. f \in ByFault
    BY <1>2 DEF CommitCancel, ByFault
  <2>2. f \notin ByTask /\ f \notin ByOp
    BY <2>1 DEF ReservationsOwned
  <2> QED
    BY <1>2, <2>2 DEF CommitCancel, EndSlots, ByTask, ByOp
<1>3. CASE CommitManual /\ f = op.fan /\ op.ok
  <2>1. f \in ByOp
    BY <1>3 DEF CommitManual, ByOp
  <2>2. f \notin ByTask
    BY <2>1 DEF ReservationsOwned
  <2> QED
    BY <1>3, <2>2 DEF CommitManual, EndSlots, EndedByManual, ByTask
<1> QED
  BY <1>1, <1>2, <1>3 DEF Withdrawn

\* The manual target is saved when an entry begins, and stays saved.
LEMMA SavedStep ==
  ASSUME TypeOK, [Next]_vars, NEW f \in Fans, slot'[f] # NoSlot
  PROVE  \/ slot[f] # NoSlot /\ saved'[f] = saved[f]
         \/ CommitStart /\ f = task.fan /\ task.ok /\ saved'[f] = task.value
<1> USE ActorFans
<1>1. CASE UNCHANGED <<slot, saved>>
  BY <1>1
<1>2. CASE CommitStart
  <2>1. CASE UNCHANGED fanVars
    BY <1>1, <2>1 DEF fanVars
  <2>2. CASE ~UNCHANGED fanVars
    <3>1. BeginsNow /\ saved' = [saved EXCEPT ![task.fan] = task.value]
          /\ slot' = [slot EXCEPT ![task.fan] = task.slot]
      BY <1>2, <2>2 DEF CommitStart
    <3> QED
      BY <1>2, <3>1 DEF BeginsNow, TypeOK
  <2> QED
    BY <2>1, <2>2
<1>3. ASSUME NEW ended, EndSlots(ended)
      PROVE  slot[f] # NoSlot /\ saved'[f] = saved[f]
  BY <1>3 DEF EndSlots
<1>4. CASE CommitEnd \/ CommitManual \/ CommitDisable \/ CommitOverride \/ CommitCancel
           \/ TryInhibit
  BY <1>3, <1>4 DEF CommitEnd, CommitManual, CommitDisable, CommitOverride, CommitCancel,
     TryInhibit
<1>5. CASE Task /\ ~CommitEnd /\ ~CommitStart
  BY <1>1, <1>5 DEF Task, Wake, TakeEnd, RestoreEnded, TakeStart, ApplyStart, fanVars
<1>6. CASE Dispatch /\ ~CommitManual /\ ~CommitDisable /\ ~CommitOverride
  BY <1>1, <1>6 DEF Dispatch, ReserveFan, ReserveTimeout, RequestManual, SetEntry,
     LookForDisable, RestoreDisabled, ReserveNext, WalkTimeout, SwitchOverride, RestoreNext,
     fanVars
<1>7. CASE Ask
  BY <1>1, <1>7, AskFrame DEF fanVars
<1>8. CASE (Respond \/ Stop) /\ ~CommitCancel /\ ~TryInhibit
  BY <1>1, <1>8 DEF Respond, Stop, ReserveCancel, CancelTimeout, Escalate, ClaimStop, Halt,
     InhibitTimeout, FinishStop, fanVars
<1>9. ASSUME NEW g \in Fans, TachInhibit(g) \/ ClearFault(g) \/ Expire(g)
             \/ \E s \in Slots : Trigger(g, s)
      PROVE  UNCHANGED <<slot, saved>>
  BY <1>9 DEF TachInhibit, ClearFault, Expire, Trigger, fanVars
<1>10. ASSUME NEW kind \in StopKinds, NEW clear \in BOOLEAN, BeginStop(kind, clear)
       PROVE  UNCHANGED <<slot, saved>>
  BY <1>10 DEF BeginStop, ClaimStop, fanVars
<1>11. CASE UNCHANGED vars
  BY <1>1, <1>11 DEF vars, fanVars
<1> QED
  BY <1>1, <1>2, <1>4, <1>5, <1>6, <1>7, <1>8, <1>9, <1>10, <1>11 DEF Next

\* The value that a restore puts back is the manual target when automatic requests are
\* granted: each pardon but the last resort withholds the grant, or the reservation.
LEMMA PardonWithholds ==
  ASSUME TypeOK, Motion, NEW f \in Fans, AutomaticAllowed(f), Pardoned(f), ~missed
  PROVE  op.at = "manualDone" /\ op.fan = f
<1> USE DEF Motion, AutomaticAllowed, ManualAllowed
<1>1. ~globalHeld
  OBVIOUS
<1>2. stop.at \notin {"inhibit", "finish"} \/ (stop.at = "finish" /\ ~stop.failed)
  BY DEF StopHolds, Maintained, TypeOK
<1>3. ~(fault.at # "idle" /\ fault.fan = f)
  BY DEF FaultHolds
<1> QED
  BY <1>1, <1>2, <1>3 DEF Pardoned

\* The requested target of a fan, the manual one and where it comes from change together.
LEMMA RestoredStep ==
  ASSUME TypeOK, [Next]_vars, NEW f \in Fans, source'[f] = "restore"
  PROVE  \/ source[f] = "restore" /\ target'[f] = target[f] /\ manual'[f] = manual[f]
         \/ /\ AutomaticAllowed(f) /\ manual'[f] = manual[f]
            /\ \/ RestoreEnded /\ f = task.fan /\ target'[f] = task.value
               \/ RestoreDisabled /\ f = op.fan /\ target'[f] = op.value
               \/ RestoreNext /\ f \in op.todo /\ target'[f] = saved[f]
<1> USE ActorFans
<1>1. CASE UNCHANGED <<target, manual, source>>
  BY <1>1
<1>2. ASSUME NEW g \in Fans, NEW v, Restore(g, v)
      PROVE  /\ manual'[f] = manual[f]
             /\ \/ source[f] = "restore" /\ target'[f] = target[f]
                \/ AutomaticAllowed(f) /\ f = g /\ target'[f] = v
  BY <1>2 DEF Restore, Request, TypeOK
<1>3. CASE RestoreEnded
  BY <1>2, <1>3 DEF RestoreEnded
<1>4. CASE RestoreDisabled
  BY <1>2, <1>4 DEF RestoreDisabled
<1>5. CASE RestoreNext
  <2>1. PICK g \in op.todo : Restore(g, saved[g])
    BY <1>5 DEF RestoreNext
  <2> QED
    BY <1>2, <1>5, <2>1
<1>6. CASE ApplyStart
  BY <1>6 DEF ApplyStart, Request, TypeOK
<1>7. CASE RequestManual
  BY <1>7 DEF RequestManual, Request, TypeOK
<1>8. CASE Halt
  BY <1>8 DEF Halt
<1>9. ASSUME NEW g \in Fans, TachInhibit(g)
      PROVE  source[f] = "restore" /\ target'[f] = target[f] /\ manual'[f] = manual[f]
  BY <1>9 DEF TachInhibit, TypeOK
<1>10. CASE Task /\ ~RestoreEnded /\ ~ApplyStart
  BY <1>1, <1>10 DEF Task, Wake, TakeEnd, CommitEnd, TakeStart, CommitStart, motorVars
<1>11. CASE Dispatch /\ ~RestoreDisabled /\ ~RestoreNext /\ ~RequestManual
  BY <1>1, <1>11 DEF Dispatch, ReserveFan, ReserveTimeout, CommitManual, SetEntry,
     LookForDisable, CommitDisable, ReserveNext, WalkTimeout, SwitchOverride,
     CommitOverride, motorVars
<1>12. CASE Ask
  BY <1>1, <1>12, AskFrame DEF motorVars
<1>13. CASE (Respond \/ Stop) /\ ~Halt
  BY <1>1, <1>13 DEF Respond, Stop, ReserveCancel, CommitCancel, CancelTimeout, Escalate,
     ClaimStop, TryInhibit, InhibitTimeout, FinishStop, motorVars
<1>14. ASSUME NEW g \in Fans,
              ClearFault(g) \/ Expire(g) \/ \E s \in Slots : Trigger(g, s)
       PROVE  UNCHANGED <<target, manual, source>>
  BY <1>14 DEF ClearFault, Expire, Trigger, motorVars
<1>15. ASSUME NEW kind \in StopKinds, NEW clear \in BOOLEAN, BeginStop(kind, clear)
       PROVE  UNCHANGED <<target, manual, source>>
  BY <1>15 DEF BeginStop, ClaimStop, motorVars
<1>16. CASE UNCHANGED vars
  BY <1>1, <1>16 DEF vars, motorVars
<1> QED
  BY <1>1, <1>3, <1>4, <1>5, <1>6, <1>7, <1>8, <1>9, <1>10, <1>11, <1>12, <1>13, <1>14,
     <1>15, <1>16 DEF Next

\* What the task, and an entry that is disabled, will put back.
LEMMA TaskValue ==
  ASSUME TypeOK, [Next]_vars, NEW f \in Fans, task'.fan = f,
         task'.at = "restore" \/ (task'.at = "started" /\ task'.ok)
  PROVE  \/ UNCHANGED task
         \/ TakeEnd /\ slot[f] # NoSlot /\ task'.value = saved[f]
         \/ ApplyStart /\ task'.value = manual[f] /\ manual' = manual
<1>1. CASE ~Task
  BY <1>1, OthersLeaveTask
<1>2. CASE TakeEnd
  <2>1. task' # ToStart
    BY AfterFanRests
  <2> QED
    BY <1>2, <2>1 DEF TakeEnd, Ends, TypeOK
<1>3. CASE ApplyStart
  BY <1>3 DEF ApplyStart, TypeOK
<1>4. CASE TakeStart
  <2>1. task' # AfterFan
    BY AfterFanRests
  <2>2. task'.at = "apply"
    BY <1>4, <2>1 DEF TakeStart, TypeOK
  <2> QED
    BY <2>2
<1>5. CASE Wake \/ RestoreEnded \/ CommitEnd \/ CommitStart
  <2>1. task'.at \notin {"restore", "started"}
    BY <1>5, AfterFanRests DEF Wake, RestoreEnded, CommitEnd, CommitStart, Asleep, TypeOK
  <2> QED
    BY <2>1
<1> QED
  BY <1>1, <1>2, <1>3, <1>4, <1>5 DEF Task

LEMMA OpValue ==
  ASSUME TypeOK, [Next]_vars, op'.at = "putBack"
  PROVE  \/ UNCHANGED op
         \/ /\ LookForDisable /\ slot[op.fan] # NoSlot
            /\ op'.fan = op.fan /\ op'.value = saved[op.fan]
<1> USE ActorFans
<1>1. CASE ~Dispatch /\ ~Ask
  BY <1>1, OthersLeaveOp
<1>2. CASE Ask
  BY <1>2, AskFrame
<1>3. CASE LookForDisable
  <2>1. slot[op.fan] = op.slot
    BY <1>3 DEF LookForDisable, TypeOK
  <2> QED
    BY <1>3, <2>1, ConstantFacts DEF LookForDisable, TypeOK
<1>4. CASE ReserveFan
  <2>1. op.at \in {"manual", "set", "disable"} /\ op' = [op EXCEPT !.at = Reserved1[op.at]]
    BY <1>4 DEF ReserveFan, Reserved1
  <2>2. op'.at \in {"request", "store", "look"}
    BY <2>1 DEF Reserved1, TypeOK
  <2> QED
    BY <2>2
<1>5. CASE ReserveTimeout \/ CommitManual \/ SetEntry \/ CommitDisable \/ WalkTimeout
           \/ CommitOverride
  BY <1>5 DEF ReserveTimeout, CommitManual, SetEntry, CommitDisable, WalkTimeout,
     CommitOverride, NoOp
<1>6. CASE RequestManual \/ RestoreDisabled
  BY <1>6 DEF RequestManual, RestoreDisabled, TypeOK
<1>7. CASE ReserveNext \/ RestoreNext
  BY <1>7 DEF ReserveNext, RestoreNext, TypeOK
<1>8. CASE SwitchOverride
  <2>1. CASE RefusedByLatch
    BY <1>8, <2>1 DEF SwitchOverride, NoOp
  <2>2. CASE ~RefusedByLatch
    BY <1>8, <2>2 DEF SwitchOverride, TypeOK
  <2> QED
    BY <2>1, <2>2
<1> QED
  BY <1>1, <1>2, <1>3, <1>4, <1>5, <1>6, <1>7, <1>8 DEF Dispatch

LEMMA KeptStep ==
  TypeOK /\ ReservationsOwned /\ Motion /\ Kept /\ [Next]_vars => Kept'
<1> SUFFICES ASSUME TypeOK, ReservationsOwned, Motion, Kept, [Next]_vars
             PROVE  Kept'
  OBVIOUS
<1> USE ActorFans
<1>1. ASSUME NEW f \in Fans, slot'[f] # NoSlot
      PROVE  saved'[f] = manual'[f] \/ Pardoned(f)'
  <2>1. ~Withdrawn(f)
    BY <1>1, WithdrawnAtRest
  <2>2. CASE slot[f] # NoSlot /\ saved'[f] = saved[f]
    <3>1. saved[f] = manual[f] \/ Pardoned(f)
      BY <2>2 DEF Kept
    <3> QED
      BY <2>1, <2>2, <3>1, ManualKept
  <2>3. CASE CommitStart /\ f = task.fan /\ task.ok /\ saved'[f] = task.value
    <3>1. task.value = manual[f] \/ Pardoned(f)
      BY <2>3 DEF Kept, CommitStart
    <3> QED
      BY <2>1, <2>3, <3>1, ManualKept
  <2> QED
    BY <1>1, <2>2, <2>3, SavedStep
<1>2. ASSUME NEW f \in Fans, task'.fan = f,
             task'.at = "restore" \/ (task'.at = "started" /\ task'.ok)
      PROVE  task'.value = manual'[f] \/ Pardoned(f)'
  <2>1. CASE UNCHANGED task
    <3>1. task.value = manual[f] \/ Pardoned(f)
      BY <1>2, <2>1 DEF Kept
    <3>2. ~Withdrawn(f)
      BY <1>2, <2>1, WithdrawnAtRest
    <3> QED
      BY <2>1, <3>1, <3>2, ManualKept
  <2>2. CASE TakeEnd /\ slot[f] # NoSlot /\ task'.value = saved[f]
    <3>1. saved[f] = manual[f] \/ Pardoned(f)
      BY <2>2 DEF Kept
    <3>2. UNCHANGED <<manual, op, fault, stop, globalHeld, missed>>
      BY <2>2, TaskFrame DEF Task
    <3> QED
      BY <2>2, <3>1, <3>2 DEF Pardoned
  <2>3. CASE ApplyStart /\ task'.value = manual[f] /\ manual' = manual
    BY <2>3
  <2> QED
    BY <1>2, <2>1, <2>2, <2>3, TaskValue
<1>3. ASSUME NEW f \in Fans, op'.at = "putBack", op'.fan = f
      PROVE  op'.value = manual'[f] \/ Pardoned(f)'
  <2>1. CASE UNCHANGED op
    <3>1. op.value = manual[f] \/ Pardoned(f)
      BY <1>3, <2>1 DEF Kept
    <3>2. ~Withdrawn(f)
      BY <1>3, <2>1, WithdrawnAtRest
    <3> QED
      BY <2>1, <3>1, <3>2, ManualKept
  <2>2. CASE LookForDisable /\ slot[op.fan] # NoSlot /\ op'.fan = op.fan
             /\ op'.value = saved[op.fan]
    <3>1. saved[f] = manual[f] \/ Pardoned(f)
      BY <1>3, <2>2 DEF Kept
    <3>2. UNCHANGED <<manual, fault, stop, globalHeld, missed>> /\ op.at = "look"
      BY <2>2 DEF LookForDisable, motorVars, historyVars
    <3> QED
      BY <1>3, <2>2, <3>1, <3>2 DEF Pardoned
  <2> QED
    BY <1>3, <2>1, <2>2, OpValue
<1>4. ASSUME NEW f \in Fans, source'[f] = "restore"
      PROVE  target'[f] = manual'[f] \/ missed'
  <2>0. missed => missed'
    <3>1. CASE Respond \/ Stop
      BY <3>1 DEF Respond, Stop, ReserveCancel, CommitCancel, CancelTimeout, Escalate,
         ClaimStop, Halt, TryInhibit, InhibitTimeout, FinishStop, historyVars
    <3>2. ASSUME NEW g \in Fans, TachInhibit(g) \/ ClearFault(g) \/ Expire(g)
                 \/ \E s \in Slots : Trigger(g, s)
          PROVE  UNCHANGED missed
      BY <3>2 DEF TachInhibit, ClearFault, Expire, Trigger, historyVars
    <3>3. ASSUME NEW kind \in StopKinds, NEW clear \in BOOLEAN, BeginStop(kind, clear)
          PROVE  UNCHANGED missed
      BY <3>3 DEF BeginStop, ClaimStop, historyVars
    <3> QED
      BY <3>1, <3>2, <3>3, TaskFrame, DispatchFrame, AskFrame DEF Next, vars, historyVars
  <2>1. CASE source[f] = "restore" /\ target'[f] = target[f] /\ manual'[f] = manual[f]
    BY <2>0, <2>1 DEF Kept, RestoreReturnsManual
  <2>2. ASSUME AutomaticAllowed(f), manual'[f] = manual[f],
               target'[f] = manual[f] \/ Pardoned(f),
               ~(op.at = "manualDone" /\ op.fan = f)
        PROVE  target'[f] = manual'[f] \/ missed'
    BY <2>0, <2>2, PardonWithholds
  <2>3. CASE AutomaticAllowed(f) /\ manual'[f] = manual[f]
             /\ RestoreEnded /\ f = task.fan /\ target'[f] = task.value
    <3>1. task.value = manual[f] \/ Pardoned(f)
      BY <2>3 DEF RestoreEnded, Kept
    <3>2. f \in ByTask
      BY <2>3 DEF RestoreEnded, ByTask
    <3>3. f \notin ByOp
      BY <3>2 DEF ReservationsOwned
    <3> QED
      BY <2>2, <2>3, <3>1, <3>3 DEF ByOp
  <2>4. CASE AutomaticAllowed(f) /\ manual'[f] = manual[f]
             /\ RestoreDisabled /\ f = op.fan /\ target'[f] = op.value
    BY <2>2, <2>4 DEF RestoreDisabled, Kept
  <2>5. CASE AutomaticAllowed(f) /\ manual'[f] = manual[f]
             /\ RestoreNext /\ f \in op.todo /\ target'[f] = saved[f]
    <3>1. slot[f] # NoSlot
      BY <2>5 DEF RestoreNext, Motion, OpReplaced
    <3> QED
      BY <2>2, <2>5, <3>1 DEF RestoreNext, Kept
  <2> QED
    BY <1>4, <2>1, <2>3, <2>4, <2>5, RestoredStep
<1> QED
  BY <1>1, <1>2, <1>3, <1>4 DEF Kept, RestoreReturnsManual

LEMMA KeptInit == Init => Kept
BY DEF Init, Kept, RestoreReturnsManual, Asleep, NoOp

\* What the end of an entry puts back is the manual target of that moment, never one
\* that a command, a tachometer fault or a stop has replaced since the entry began.
THEOREM RestoreSafety == Spec => []RestoreReturnsManual
<1>1. Init => TypeOK /\ ReservationsOwned /\ Motion /\ Kept
  BY TypesInit, OwnedInit, MotionInit, KeptInit
<1>2. TypeOK /\ ReservationsOwned /\ Motion /\ Kept /\ [Next]_vars
        => (TypeOK /\ ReservationsOwned /\ Motion /\ Kept)'
  BY TypesStep, OwnedStep, MotionStep, KeptStep
<1>3. Kept => RestoreReturnsManual
  BY DEF Kept
<1> QED
  BY <1>1, <1>2, <1>3, PTL DEF Spec

=============================================================================
