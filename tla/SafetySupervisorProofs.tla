------------------------ MODULE SafetySupervisorProofs ------------------------
(***************************************************************************)
(* Theorems about SafetySupervisor: its types, with the count of the stops *)
(* that are under way; the line and the targets during a stop; the motors  *)
(* that an update holds; what is in flash at a reboot; and the escalation  *)
(* of a stop that fails.  StopInv is the inductive invariant; it is a      *)
(* conjunction of parts, and each part has one lemma for Next.             *)
(***************************************************************************)
EXTENDS SafetySupervisor, FiniteSetTheorems, TLAPS

-----------------------------------------------------------------------------
(* Types.                                                                  *)

LineTypes ==
  /\ interlock \in BOOLEAN /\ current \subseteq Tasks
  /\ owner \in Tasks \cup {NoTask}

TaskTypes == at \in [Tasks -> Places] /\ job \in [Tasks -> Jobs]

MotorTypes ==
  /\ inhibits \subseteq Durable \cup {"fault"} /\ maintenance \in Nat
  /\ manual \in BOOLEAN /\ moving \in BOOLEAN

StoreTypes ==
  /\ autoInhibit \in BOOLEAN /\ latched \in BOOLEAN
  /\ autoNvs \in BOOLEAN /\ manualNvs \in BOOLEAN
  /\ ota \in {"idle", "claimed", "held", "aborting"}

LoopTypes ==
  /\ pass \in {"heartbeats", "rmt", "mqtt"} /\ due \in BOOLEAN /\ heartLost \in BOOLEAN
  /\ rmtEdge \in BOOLEAN /\ rmtReboot \in BOOLEAN /\ overflow \in BOOLEAN

RestTypes ==
  /\ restarted \in {"no"} \cup Purposes
  /\ trouble \in Troubles
  /\ calls \in Nat /\ faults \in Nat

\* The stops that are under way; s_stop_depth is their number.
Stopping == {t \in Tasks : at[t] \in StopPlaces}

Counted == IsFiniteSet(Stopping) /\ depth = Cardinality(Stopping)

TypeParts ==
  LineTypes /\ TaskTypes /\ MotorTypes /\ StoreTypes /\ LoopTypes /\ RestTypes

TypeInv == TypeParts /\ Counted

LEMMA TypesFollow == TypeInv => TypeOK
BY FS_CardinalityType
   DEF TypeInv, TypeParts, Counted, TypeOK, LineTypes, TaskTypes, MotorTypes, StoreTypes,
       LoopTypes, RestTypes

\* A stop is counted from its claim to its end.
LEMMA CountAdd ==
  ASSUME Counted, NEW t \in Tasks, TaskTypes, at[t] \notin StopPlaces,
         NEW p \in StopPlaces, at' = [at EXCEPT ![t] = p], depth' = depth + 1
  PROVE  Counted'
<1>1. Stopping' = Stopping \cup {t}
  BY DEF Stopping, TaskTypes
<1>2. t \notin Stopping
  BY DEF Stopping
<1> QED
  BY <1>1, <1>2, FS_AddElement DEF Counted

LEMMA CountRemove ==
  ASSUME Counted, NEW t \in Tasks, TaskTypes, at[t] \in StopPlaces,
         NEW p, p \notin StopPlaces, at' = [at EXCEPT ![t] = p], depth' = depth - 1
  PROVE  Counted'
<1>1. Stopping' = Stopping \ {t}
  BY DEF Stopping, TaskTypes
<1>2. t \in Stopping
  BY DEF Stopping
<1> QED
  BY <1>1, <1>2, FS_RemoveElement DEF Counted

LEMMA CountSame ==
  ASSUME Counted, NEW t \in Tasks, TaskTypes, NEW p, at' = [at EXCEPT ![t] = p],
         at[t] \in StopPlaces <=> p \in StopPlaces, UNCHANGED depth
  PROVE  Counted'
<1>1. Stopping' = Stopping
  BY DEF Stopping, TaskTypes
<1> QED
  BY <1>1 DEF Counted

LEMMA CountQuiet ==
  ASSUME Counted, UNCHANGED <<at, depth>>
  PROVE  Counted'
BY DEF Counted, Stopping

LEMMA DriveTypes ==
  ASSUME TypeInv, NEW t \in Tasks, Drive(t), UNCHANGED trouble
  PROVE  TypeInv'
<1> USE DEF TypeInv, TypeParts
<1>1. LineTypes'
  BY DEF LineTypes, Drive, Outcome, MutexFree
<1>2. TaskTypes'
  <2>1. PICK good \in BOOLEAN, bad \in BOOLEAN :
          job' = [job EXCEPT ![t].driven = good, ![t].failed = bad]
    BY DEF Drive
  <2>2. [job EXCEPT ![t].driven = good, ![t].failed = bad] \in [Tasks -> Jobs]
    BY DEF TaskTypes, Jobs
  <2>3. job' \in [Tasks -> Jobs]
    BY <2>1, <2>2
  <2> QED
    BY <2>3 DEF TaskTypes, Drive, Places
<1>3. MotorTypes'
  BY DEF MotorTypes, Drive, motorVars, Outcome, Durable
<1>4. StoreTypes'
  BY DEF StoreTypes, Drive, autoVars, nvsVars, Outcome
<1>5. LoopTypes'
  BY DEF LoopTypes, Drive, loopVars, Outcome
<1>6. RestTypes'
  BY DEF RestTypes, Drive, Outcome, Running
<1>7. Counted'
  BY CountSame DEF Drive, StopPlaces
<1> QED
  BY <1>1, <1>2, <1>3, <1>4, <1>5, <1>6, <1>7

LEMMA HaltTypes ==
  ASSUME TypeInv, NEW t \in Tasks, Halt(t), UNCHANGED trouble
  PROVE  TypeInv'
<1> USE DEF TypeInv, TypeParts
<1>1. LineTypes'
  BY DEF LineTypes, Halt, HaltInhibits, HaltMaintains, MutexFree
<1>2. TaskTypes'
  BY DEF TaskTypes, Halt, HaltInhibits, HaltMaintains, Places, Jobs, NoJob, Stages,
     Purposes, Actions, Durable
<1>3. MotorTypes'
  <2>1. job[t].action \in Actions
    BY DEF TaskTypes, Jobs
  <2>2. HaltInhibits(t) \subseteq Durable
    BY <2>1 DEF HaltInhibits, Temporary, Durable, Actions
  <2>3. inhibits' \subseteq Durable \cup {"fault"}
    BY <2>2 DEF MotorTypes, Halt
  <2>4. maintenance' \in {maintenance, maintenance + 1} /\ moving' = FALSE
    BY DEF Halt
  <2>5. manual' \in BOOLEAN
    BY DEF MotorTypes, Halt
  <2>6. maintenance \in Nat
    BY DEF MotorTypes
  <2>7. maintenance' \in Nat
    BY <2>4, <2>6
  <2>8. moving' \in BOOLEAN
    BY <2>4
  <2> QED
    BY <2>3, <2>5, <2>7, <2>8 DEF MotorTypes
<1>4. StoreTypes'
  BY DEF StoreTypes, Halt, autoVars, nvsVars, HaltInhibits, HaltMaintains
<1>5. LoopTypes'
  BY DEF LoopTypes, Halt, loopVars, HaltInhibits, HaltMaintains
<1>6. RestTypes'
  BY DEF RestTypes, Halt, boundVars, HaltInhibits, HaltMaintains, Running
<1>7. Counted'
  BY CountSame DEF Halt, StopPlaces
<1> QED
  BY <1>1, <1>2, <1>3, <1>4, <1>5, <1>6, <1>7

LEMMA SettleTypes ==
  ASSUME TypeInv, NEW t \in Tasks, Settle(t), UNCHANGED trouble
  PROVE  TypeInv'
<1> USE DEF TypeInv, TypeParts
<1>1. LineTypes'
  BY DEF LineTypes, Settle, Outcome, GivenBy, AfterHalt, MutexFree
<1>2. TaskTypes'
  <2>1. job[t].failed \in BOOLEAN /\ job[t].halted \in BOOLEAN /\ job[t].fellBack \in BOOLEAN
        /\ job[t].stage \in Stages
    BY DEF TaskTypes, Jobs
  <2>2. PICK a \in BOOLEAN, b \in BOOLEAN, c \in BOOLEAN :
          job' = [job EXCEPT ![t].failed = a, ![t].halted = b, ![t].fellBack = c]
    BY <2>1 DEF Settle
  <2> DEFINE some == [job EXCEPT ![t].failed = a, ![t].halted = b]
  <2>3. some \in [Tasks -> Jobs]
    BY DEF TaskTypes, Jobs
  <2>4. job' \in [Tasks -> Jobs]
    <3>1. job' = [some EXCEPT ![t].fellBack = c]
      BY <2>2
    <3> HIDE DEF some
    <3> QED
      BY <2>3, <3>1 DEF Jobs
  <2> QED
    BY <2>1, <2>4 DEF TaskTypes, Settle, AfterHalt, Places, Stages
<1>3. MotorTypes'
  BY DEF MotorTypes, Settle, motorVars, Outcome, GivenBy, AfterHalt, Durable
<1>4. StoreTypes'
  BY DEF StoreTypes, Settle, autoVars, nvsVars, Outcome, GivenBy, AfterHalt
<1>5. LoopTypes'
  BY DEF LoopTypes, Settle, loopVars, Outcome, GivenBy, AfterHalt
<1>6. RestTypes'
  BY DEF RestTypes, Settle, Outcome, GivenBy, AfterHalt, Running
<1>7. Counted'
  BY CountSame DEF Settle, AfterHalt, StopPlaces, TaskTypes, Jobs, Stages
<1> QED
  BY <1>1, <1>2, <1>3, <1>4, <1>5, <1>6, <1>7

LEMMA AutomaticTypes ==
  ASSUME TypeInv, NEW t \in Tasks, Automatic(t), UNCHANGED trouble
  PROVE  TypeInv'
<1> USE DEF TypeInv, TypeParts
<1>1. LineTypes'
  BY DEF LineTypes, Automatic, lineVars, Outcome, AutomaticFailed, MutexFree
<1>2. TaskTypes'
  <2>1. [job EXCEPT ![t].failed = TRUE] \in [Tasks -> Jobs]
    BY DEF TaskTypes, Jobs
  <2>2. job' = job \/ job' = [job EXCEPT ![t].failed = TRUE]
    BY DEF Automatic, AutomaticFailed
  <2>3. job' \in [Tasks -> Jobs]
    BY <2>1, <2>2 DEF TaskTypes
  <2> QED
    BY <2>3 DEF TaskTypes, Automatic, Places
<1>3. MotorTypes'
  BY DEF MotorTypes, Automatic, motorVars, Outcome, AutomaticFailed, Durable
<1>4. StoreTypes'
  BY DEF StoreTypes, Automatic, nvsVars, Outcome, AutomaticFailed
<1>5. LoopTypes'
  BY DEF LoopTypes, Automatic, loopVars, Outcome, AutomaticFailed
<1>6. RestTypes'
  BY DEF RestTypes, Automatic, Outcome, AutomaticFailed, Running
<1>7. Counted'
  BY CountSame DEF Automatic, lineVars, StopPlaces
<1> QED
  BY <1>1, <1>2, <1>3, <1>4, <1>5, <1>6, <1>7

LEMMA CommitInhibitTypes ==
  ASSUME TypeInv, NEW t \in Tasks, CommitInhibit(t), UNCHANGED trouble
  PROVE  TypeInv'
<1> USE DEF TypeInv, TypeParts
<1>1. LineTypes'
  BY DEF LineTypes, CommitInhibit, lineVars, Outcome, AutomaticFailed, MutexFree
<1>2. TaskTypes'
  <2>1. /\ [job EXCEPT ![t].failed = TRUE] \in [Tasks -> Jobs]
        /\ [job EXCEPT ![t].automatic = TRUE] \in [Tasks -> Jobs]
    BY DEF TaskTypes, Jobs
  <2>2. \/ job' = [job EXCEPT ![t].automatic = TRUE]
        \/ job' = [job EXCEPT ![t].failed = TRUE]
    BY DEF CommitInhibit, AutomaticFailed
  <2>3. job' \in [Tasks -> Jobs]
    BY <2>1, <2>2
  <2> QED
    BY <2>3 DEF TaskTypes, CommitInhibit, Places
<1>3. MotorTypes'
  BY DEF MotorTypes, CommitInhibit, motorVars, Outcome, AutomaticFailed, Durable
<1>4. StoreTypes'
  BY DEF StoreTypes, CommitInhibit, autoVars, Outcome, AutomaticFailed
<1>5. LoopTypes'
  BY DEF LoopTypes, CommitInhibit, loopVars, Outcome, AutomaticFailed
<1>6. RestTypes'
  BY DEF RestTypes, CommitInhibit, Outcome, AutomaticFailed, Running
<1>7. Counted'
  BY CountSame DEF CommitInhibit, lineVars, StopPlaces
<1> QED
  BY <1>1, <1>2, <1>3, <1>4, <1>5, <1>6, <1>7

LEMMA VerifyTypes ==
  ASSUME TypeInv, NEW t \in Tasks, Verify(t), UNCHANGED trouble
  PROVE  TypeInv'
<1> USE DEF TypeInv, TypeParts
<1>1. LineTypes'
  BY DEF LineTypes, Verify, lineVars, MutexFree
<1>2. TaskTypes'
  BY DEF TaskTypes, Verify, Places, Jobs, NoJob, Stages, Purposes, Actions, Durable
<1>3. MotorTypes'
  BY DEF MotorTypes, Verify, motorVars, Durable
<1>4. StoreTypes'
  BY DEF StoreTypes, Verify, autoVars, nvsVars
<1>5. LoopTypes'
  BY DEF LoopTypes, Verify, loopVars
<1>6. RestTypes'
  BY DEF RestTypes, Verify, boundVars, Running
<1>7. Counted'
  BY CountSame DEF Verify, lineVars, StopPlaces
<1> QED
  BY <1>1, <1>2, <1>3, <1>4, <1>5, <1>6, <1>7

LEMMA JudgeTypes ==
  ASSUME TypeInv, NEW t \in Tasks, Judge(t), UNCHANGED trouble
  PROVE  TypeInv'
<1> USE DEF TypeInv, TypeParts
<1>1. LineTypes'
  BY DEF LineTypes, Judge, lineVars, MutexFree
<1>2. TaskTypes'
  BY DEF TaskTypes, Judge, Places, Jobs, NoJob, Stages, Purposes, Actions, Durable
<1>3. MotorTypes'
  BY DEF MotorTypes, Judge, motorVars, Durable
<1>4. StoreTypes'
  BY DEF StoreTypes, Judge, autoVars, nvsVars
<1>5. LoopTypes'
  BY DEF LoopTypes, Judge, loopVars
<1>6. RestTypes'
  BY DEF RestTypes, Judge, boundVars, Running
<1>7. Counted'
  BY CountSame DEF Judge, lineVars, StopPlaces
<1> QED
  BY <1>1, <1>2, <1>3, <1>4, <1>5, <1>6, <1>7

LEMMA PersistTypes ==
  ASSUME TypeInv, NEW t \in Tasks, Persist(t), UNCHANGED trouble
  PROVE  TypeInv'
<1> USE DEF TypeInv, TypeParts
<1>1. LineTypes'
  BY DEF LineTypes, Persist, lineVars, Outcome, MutexFree
<1>2. TaskTypes'
  <2>1. CASE job' = job
    BY <2>1 DEF TaskTypes, Persist, Places
  <2>2. CASE job' = [job EXCEPT ![t].saved = TRUE]
    <3>1. [job EXCEPT ![t].saved = TRUE] \in [Tasks -> Jobs]
      BY DEF TaskTypes, Jobs
    <3> QED
      BY <2>2, <3>1 DEF TaskTypes, Persist, Places
  <2>3. CASE job' = [job EXCEPT ![t].failed = TRUE,
                                ![t].stage = IF FallsBack(t) THEN "refallback" ELSE @]
    <3>1. PICK s \in Stages : job' = [job EXCEPT ![t].failed = TRUE, ![t].stage = s]
      BY <2>3 DEF TaskTypes, Jobs, Stages
    <3>2. [job EXCEPT ![t].failed = TRUE, ![t].stage = s] \in [Tasks -> Jobs]
      BY DEF TaskTypes, Jobs
    <3>3. job' \in [Tasks -> Jobs]
      BY <3>1, <3>2
    <3> QED
      BY <2>3, <3>3 DEF TaskTypes, Persist, Places
  <2> QED
    BY <2>1, <2>2, <2>3 DEF Persist
<1>3. MotorTypes'
  BY DEF MotorTypes, Persist, motorVars, Outcome, Durable
<1>4. StoreTypes'
  BY DEF StoreTypes, Persist, autoVars, Outcome, MotorTypes
<1>5. LoopTypes'
  BY DEF LoopTypes, Persist, loopVars, Outcome
<1>6. RestTypes'
  BY DEF RestTypes, Persist, Outcome, Running
<1>7. Counted'
  BY CountSame DEF Persist, lineVars, StopPlaces
<1> QED
  BY <1>1, <1>2, <1>3, <1>4, <1>5, <1>6, <1>7

LEMMA EndStopTypes ==
  ASSUME TypeInv, NEW t \in Tasks, EndStop(t), UNCHANGED trouble
  PROVE  TypeInv'
<1> USE DEF TypeInv, TypeParts
<1>1. LineTypes'
  BY DEF LineTypes, EndStop, Released, AfterStop, Reboots, MutexFree
<1>2. TaskTypes'
  BY DEF TaskTypes, EndStop, Released, AfterStop, Reboots, Places, Jobs, NoJob, Stages,
     Purposes, Actions, Durable
<1>3. MotorTypes'
  BY DEF MotorTypes, EndStop, Released, AfterStop, Reboots, Durable
<1>4. StoreTypes'
  BY DEF StoreTypes, EndStop, autoVars, nvsVars, Released, AfterStop, Reboots
<1>5. LoopTypes'
  BY DEF LoopTypes, EndStop, loopVars, Released, AfterStop, Reboots
<1>6. RestTypes'
  BY DEF RestTypes, EndStop, boundVars, Released, AfterStop, Reboots, Running
<1>7. Counted'
  <2>1. PICK p \in {"restart", "otasave", "idle"} : at' = [at EXCEPT ![t] = p]
    BY DEF EndStop, AfterStop
  <2>2. at[t] \in StopPlaces /\ p \notin StopPlaces
    BY DEF EndStop, StopPlaces
  <2> QED
    BY <2>1, <2>2, CountRemove DEF EndStop
<1> QED
  BY <1>1, <1>2, <1>3, <1>4, <1>5, <1>6, <1>7

LEMMA RestartTypes ==
  ASSUME TypeInv, NEW t \in Tasks, Restart(t), UNCHANGED trouble
  PROVE  TypeInv'
<1> USE DEF TypeInv, TypeParts
<1>1. LineTypes'
  BY DEF LineTypes, Restart, lineVars, MutexFree
<1>2. TaskTypes'
  BY DEF TaskTypes, Restart, Places, Jobs, NoJob, Stages, Purposes, Actions, Durable
<1>3. MotorTypes'
  BY DEF MotorTypes, Restart, motorVars, Durable
<1>4. StoreTypes'
  BY DEF StoreTypes, Restart, autoVars, nvsVars
<1>5. LoopTypes'
  BY DEF LoopTypes, Restart, loopVars
<1>6. RestTypes'
  BY DEF RestTypes, Restart, boundVars, TaskTypes, Jobs, Purposes
<1>7. Counted'
  BY CountQuiet DEF Restart, lineVars
<1> QED
  BY <1>1, <1>2, <1>3, <1>4, <1>5, <1>6, <1>7

LEMMA ApplyManualTypes ==
  ASSUME TypeInv, NEW t \in Tasks, ApplyManual(t), UNCHANGED trouble
  PROVE  TypeInv'
<1> USE DEF TypeInv, TypeParts
<1>1. LineTypes'
  BY DEF LineTypes, ApplyManual, lineVars, MutexFree
<1>2. TaskTypes'
  BY DEF TaskTypes, ApplyManual, Places, Jobs, NoJob, Stages, Purposes, Actions, Durable
<1>3. MotorTypes'
  BY DEF MotorTypes, ApplyManual, Durable
<1>4. StoreTypes'
  BY DEF StoreTypes, ApplyManual, autoVars, nvsVars
<1>5. LoopTypes'
  BY DEF LoopTypes, ApplyManual, loopVars
<1>6. RestTypes'
  BY DEF RestTypes, ApplyManual, boundVars, Running
<1>7. Counted'
  BY CountSame DEF ApplyManual, lineVars, StopPlaces
<1> QED
  BY <1>1, <1>2, <1>3, <1>4, <1>5, <1>6, <1>7

LEMMA EnableBeginTypes ==
  ASSUME TypeInv, NEW t \in Tasks, EnableBegin(t), UNCHANGED trouble
  PROVE  TypeInv'
<1> USE DEF TypeInv, TypeParts
<1>1. LineTypes'
  BY DEF LineTypes, EnableBegin, MutexFree
<1>2. TaskTypes'
  BY DEF TaskTypes, EnableBegin, Places, Jobs, NoJob, Stages, Purposes, Actions, Durable
<1>3. MotorTypes'
  BY DEF MotorTypes, EnableBegin, motorVars, Durable
<1>4. StoreTypes'
  BY DEF StoreTypes, EnableBegin, autoVars, nvsVars
<1>5. LoopTypes'
  BY DEF LoopTypes, EnableBegin, loopVars
<1>6. RestTypes'
  BY DEF RestTypes, EnableBegin, boundVars, Running
<1>7. Counted'
  BY CountSame DEF EnableBegin, StopPlaces
<1> QED
  BY <1>1, <1>2, <1>3, <1>4, <1>5, <1>6, <1>7

LEMMA RecheckTypes ==
  ASSUME TypeInv, NEW t \in Tasks, Recheck(t), UNCHANGED trouble
  PROVE  TypeInv'
<1> USE DEF TypeInv, TypeParts
<1>1. LineTypes'
  BY DEF LineTypes, Recheck, lineVars, MutexFree
<1>2. TaskTypes'
  BY DEF TaskTypes, Recheck, Places, Jobs, NoJob, Stages, Purposes, Actions, Durable
<1>3. MotorTypes'
  BY DEF MotorTypes, Recheck, motorVars, Durable
<1>4. StoreTypes'
  BY DEF StoreTypes, Recheck, autoVars, nvsVars
<1>5. LoopTypes'
  BY DEF LoopTypes, Recheck, loopVars
<1>6. RestTypes'
  BY DEF RestTypes, Recheck, boundVars, Running
<1>7. Counted'
  BY CountSame DEF Recheck, lineVars, StopPlaces
<1> QED
  BY <1>1, <1>2, <1>3, <1>4, <1>5, <1>6, <1>7

LEMMA TurnOnTypes ==
  ASSUME TypeInv, NEW t \in Tasks, TurnOn(t), UNCHANGED trouble
  PROVE  TypeInv'
<1> USE DEF TypeInv, TypeParts
<1>1. LineTypes'
  BY DEF LineTypes, TurnOn, Outcome, MutexFree
<1>2. TaskTypes'
  BY DEF TaskTypes, TurnOn, Outcome, Places, Jobs, NoJob, Stages, Purposes, Actions,
     Durable
<1>3. MotorTypes'
  BY DEF MotorTypes, TurnOn, motorVars, Outcome, Durable
<1>4. StoreTypes'
  BY DEF StoreTypes, TurnOn, autoVars, nvsVars, Outcome
<1>5. LoopTypes'
  BY DEF LoopTypes, TurnOn, loopVars, Outcome
<1>6. RestTypes'
  BY DEF RestTypes, TurnOn, Outcome, Running
<1>7. Counted'
  BY CountSame DEF TurnOn, StopPlaces
<1> QED
  BY <1>1, <1>2, <1>3, <1>4, <1>5, <1>6, <1>7

LEMMA ConfirmTypes ==
  ASSUME TypeInv, NEW t \in Tasks, Confirm(t), UNCHANGED trouble
  PROVE  TypeInv'
<1> USE DEF TypeInv, TypeParts
<1>1. LineTypes'
  BY DEF LineTypes, Confirm, Outcome, MutexFree
<1>2. TaskTypes'
  BY DEF TaskTypes, Confirm, Outcome, Places, Jobs, NoJob, Stages, Purposes, Actions,
     Durable
<1>3. MotorTypes'
  BY DEF MotorTypes, Confirm, motorVars, Outcome, Durable
<1>4. StoreTypes'
  BY DEF StoreTypes, Confirm, autoVars, nvsVars, Outcome
<1>5. LoopTypes'
  BY DEF LoopTypes, Confirm, loopVars, Outcome
<1>6. RestTypes'
  BY DEF RestTypes, Confirm, Outcome, Running
<1>7. Counted'
  BY CountSame DEF Confirm, StopPlaces
<1> QED
  BY <1>1, <1>2, <1>3, <1>4, <1>5, <1>6, <1>7

LEMMA LeaveEnableTypes ==
  ASSUME TypeInv, NEW t \in Tasks, LeaveEnable(t), UNCHANGED trouble
  PROVE  TypeInv'
<1> USE DEF TypeInv, TypeParts
<1>1. LineTypes'
  BY DEF LineTypes, LeaveEnable, MutexFree
<1>2. TaskTypes'
  BY DEF TaskTypes, LeaveEnable, Places, Jobs, NoJob, Stages, Purposes, Actions, Durable
<1>3. MotorTypes'
  BY DEF MotorTypes, LeaveEnable, motorVars, Durable
<1>4. StoreTypes'
  BY DEF StoreTypes, LeaveEnable, autoVars, nvsVars
<1>5. LoopTypes'
  BY DEF LoopTypes, LeaveEnable, loopVars
<1>6. RestTypes'
  BY DEF RestTypes, LeaveEnable, boundVars, Running
<1>7. Counted'
  BY CountSame DEF LeaveEnable, StopPlaces
<1> QED
  BY <1>1, <1>2, <1>3, <1>4, <1>5, <1>6, <1>7

LEMMA OtaSaveTypes ==
  ASSUME TypeInv, NEW t \in Tasks, OtaSave(t), UNCHANGED trouble
  PROVE  TypeInv'
<1> USE DEF TypeInv, TypeParts
<1>1. LineTypes'
  BY DEF LineTypes, OtaSave, lineVars, Outcome, Released, MutexFree
<1>2. TaskTypes'
  <2>1. NoJob \in Jobs
    BY DEF NoJob, Jobs, Actions, Purposes, Stages
  <2> QED
    BY <2>1 DEF TaskTypes, OtaSave, Places
<1>3. MotorTypes'
  BY DEF MotorTypes, OtaSave, Outcome, Released, Durable
<1>4. StoreTypes'
  BY DEF StoreTypes, OtaSave, autoVars, Outcome, Released, MotorTypes
<1>5. LoopTypes'
  BY DEF LoopTypes, OtaSave, loopVars, Outcome, Released
<1>6. RestTypes'
  BY DEF RestTypes, OtaSave, Outcome, Released, Running
<1>7. Counted'
  BY CountSame DEF OtaSave, lineVars, StopPlaces
<1> QED
  BY <1>1, <1>2, <1>3, <1>4, <1>5, <1>6, <1>7

LEMMA CommandBeginTypes ==
  ASSUME TypeInv, NEW t \in Tasks, CommandBegin(t), UNCHANGED trouble
  PROVE  TypeInv'
<1> USE DEF TypeInv, TypeParts
<1>1. LineTypes'
  BY DEF LineTypes, CommandBegin, MutexFree
<1>2. TaskTypes'
  BY DEF TaskTypes, CommandBegin, Places, Jobs, NoJob, Stages, Purposes, Actions, Durable
<1>3. MotorTypes'
  BY DEF MotorTypes, CommandBegin, motorVars, Durable
<1>4. StoreTypes'
  BY DEF StoreTypes, CommandBegin, autoVars, nvsVars
<1>5. LoopTypes'
  BY DEF LoopTypes, CommandBegin, loopVars
<1>6. RestTypes'
  BY DEF RestTypes, CommandBegin, Running
<1>7. Counted'
  BY CountSame DEF CommandBegin, StopPlaces
<1> QED
  BY <1>1, <1>2, <1>3, <1>4, <1>5, <1>6, <1>7

LEMMA OtaAbortTypes ==
  ASSUME TypeInv, NEW t \in Tasks, OtaAbort(t), UNCHANGED trouble
  PROVE  TypeInv'
<1> USE DEF TypeInv, TypeParts
<1>1. LineTypes'
  BY DEF LineTypes, OtaAbort, lineVars, Released, MutexFree
<1>2. TaskTypes'
  BY DEF TaskTypes, OtaAbort, Released, Places, Jobs, NoJob, Stages, Purposes, Actions,
     Durable
<1>3. MotorTypes'
  BY DEF MotorTypes, OtaAbort, Released, Durable
<1>4. StoreTypes'
  BY DEF StoreTypes, OtaAbort, autoVars, nvsVars, Released
<1>5. LoopTypes'
  BY DEF LoopTypes, OtaAbort, loopVars, Released
<1>6. RestTypes'
  BY DEF RestTypes, OtaAbort, boundVars, Released, Running
<1>7. Counted'
  BY CountSame DEF OtaAbort, lineVars, StopPlaces
<1> QED
  BY <1>1, <1>2, <1>3, <1>4, <1>5, <1>6, <1>7

-----------------------------------------------------------------------------
(* A stop is claimed in one way by every caller; the rest of a supervision *)
(* pass, of a heartbeat or of an overflow touches nothing but the loop.    *)

Claim(t) ==
  \E action \in Actions, clear \in BOOLEAN, purpose \in Purposes :
    /\ ClaimStop(t, action, clear, purpose)
    /\ purpose \in {"restart", "reboot"} => clear /\ action \in {"GLOBAL", "RMT"}
    /\ purpose = "ota" => action = "VERIFIED"
    /\ ota' = "held" => ota = "held"

Still == UNCHANGED <<lineVars, at, job, motorVars, autoVars, nvsVars, ota, restarted>>

LEMMA TaskNames ==
  Supervisor \in Tasks /\ Dispatcher \in Tasks /\ OtaTask \in Tasks /\ Stoppers \subseteq Tasks
BY DEF Tasks

LEMMA ClaimOrStill ==
  /\ \A t \in Tasks : StopAll(t) => Claim(t)
  /\ \A t \in Tasks : OtaStart(t) => Claim(t)
  /\ Pass => Claim(Supervisor) \/ Still
  /\ HeartStops \/ Overflow => Still
<1>1. ASSUME NEW t \in Tasks, StopAll(t) PROVE Claim(t)
  <2>1. PICK stop \in Stops : ClaimStop(t, stop[1], stop[2], "stop")
    BY <1>1 DEF StopAll
  <2>2. stop[1] \in Actions /\ stop[2] \in BOOLEAN
    BY SupervisorAssumption
  <2> QED
    BY <1>1, <2>1, <2>2 DEF StopAll, Claim, Purposes
<1>2. ASSUME NEW t \in Tasks, OtaStart(t) PROVE Claim(t)
  BY <1>2 DEF OtaStart, Claim, Purposes, Actions
<1>3. Pass => Claim(Supervisor) \/ Still
  <2>1. CASE Heartbeats
    BY <2>1 DEF Heartbeats, Claim, Still, Purposes, Actions, Durable
  <2>2. CASE RmtFaults
    BY <2>2 DEF RmtFaults, Claim, Still, Purposes, Actions, Durable
  <2>3. CASE MqttQueue
    BY <2>3 DEF MqttQueue, Claim, Still, Purposes, Actions, Durable
  <2> QED
    BY <2>1, <2>2, <2>3 DEF Pass
<1>4. HeartStops \/ Overflow => Still
  BY DEF HeartStops, Overflow, Still
<1> QED
  BY <1>1, <1>2, <1>3, <1>4

\* What a claim does to the types.
LEMMA ClaimTypes ==
  ASSUME TypeInv, NEW t \in Tasks, Claim(t)
  PROVE  LineTypes' /\ TaskTypes' /\ MotorTypes' /\ Counted' /\ restarted' = restarted
         /\ UNCHANGED <<autoVars, nvsVars>>
<1> USE DEF TypeInv, TypeParts
<1>1. PICK action \in Actions, clear \in BOOLEAN, purpose \in Purposes :
        ClaimStop(t, action, clear, purpose)
  BY DEF Claim
<1> DEFINE new == [NoJob EXCEPT !.action = action, !.clear = clear, !.purpose = purpose]
<1>2. new \in Jobs
  BY DEF NoJob, Jobs, Stages
<1>3. at' = [at EXCEPT ![t] = "drive"] /\ job' = [job EXCEPT ![t] = new]
  BY <1>1 DEF ClaimStop
<1>4. TaskTypes'
  BY <1>2, <1>3 DEF TaskTypes, Places
<1>5. Counted'
  BY <1>1, CountAdd DEF ClaimStop, StopPlaces
<1>6. LineTypes'
  BY <1>1 DEF ClaimStop, LineTypes
<1>7. MotorTypes'
  BY <1>1 DEF ClaimStop, MotorTypes, motorVars
<1> QED
  BY <1>1, <1>4, <1>5, <1>6, <1>7 DEF ClaimStop

\* Nothing a task or the scheduler shares has changed.
LEMMA StillTypes ==
  ASSUME TypeInv, Still
  PROVE  LineTypes' /\ TaskTypes' /\ MotorTypes' /\ Counted' /\ restarted' = restarted
         /\ UNCHANGED <<autoVars, nvsVars, ota>>
<1> USE DEF TypeInv, TypeParts
<1>1. LineTypes'
  BY DEF LineTypes, Still, lineVars
<1>2. TaskTypes'
  BY DEF TaskTypes, Still
<1>3. MotorTypes'
  BY DEF MotorTypes, Still, motorVars
<1>4. Counted'
  BY CountQuiet DEF Still, lineVars
<1> QED
  BY <1>1, <1>2, <1>3, <1>4 DEF Still

LEMMA StopAllTypes ==
  ASSUME TypeInv, NEW t \in Tasks, StopAll(t), UNCHANGED trouble
  PROVE  TypeInv'
<1> USE DEF TypeInv, TypeParts
<1>1. LineTypes' /\ TaskTypes' /\ MotorTypes' /\ Counted' /\ restarted' = restarted
      /\ UNCHANGED <<autoVars, nvsVars>>
  BY ClaimOrStill, ClaimTypes
<1>2. StoreTypes'
  BY <1>1 DEF StoreTypes, StopAll, autoVars, nvsVars
<1>3. LoopTypes'
  BY DEF LoopTypes, StopAll, loopVars
<1>4. RestTypes'
  BY <1>1 DEF RestTypes, StopAll, boundVars
<1> QED
  BY <1>1, <1>2, <1>3, <1>4

LEMMA OtaStartTypes ==
  ASSUME TypeInv, NEW t \in Tasks, OtaStart(t), UNCHANGED trouble
  PROVE  TypeInv'
<1> USE DEF TypeInv, TypeParts
<1>1. LineTypes' /\ TaskTypes' /\ MotorTypes' /\ Counted' /\ restarted' = restarted
      /\ UNCHANGED <<autoVars, nvsVars>>
  BY ClaimOrStill, ClaimTypes
<1>2. StoreTypes'
  BY <1>1 DEF StoreTypes, OtaStart, autoVars, nvsVars
<1>3. LoopTypes'
  BY DEF LoopTypes, OtaStart, loopVars
<1>4. RestTypes'
  BY <1>1 DEF RestTypes, OtaStart, boundVars
<1> QED
  BY <1>1, <1>2, <1>3, <1>4

LEMMA HeartbeatsTypes ==
  ASSUME TypeInv, Heartbeats, UNCHANGED trouble
  PROVE  TypeInv'
<1> USE DEF TypeInv, TypeParts
<1>1. LineTypes' /\ TaskTypes' /\ MotorTypes' /\ Counted' /\ restarted' = restarted
      /\ UNCHANGED <<autoVars, nvsVars>>
  BY ClaimOrStill, ClaimTypes, StillTypes, TaskNames DEF Pass
<1>2. StoreTypes'
  BY <1>1 DEF StoreTypes, Heartbeats, autoVars, nvsVars
<1>3. LoopTypes'
  BY DEF LoopTypes, Heartbeats, loopVars
<1>4. RestTypes'
  BY <1>1 DEF RestTypes, Heartbeats, boundVars
<1> QED
  BY <1>1, <1>2, <1>3, <1>4

LEMMA RmtFaultsTypes ==
  ASSUME TypeInv, RmtFaults, UNCHANGED trouble
  PROVE  TypeInv'
<1> USE DEF TypeInv, TypeParts
<1>1. LineTypes' /\ TaskTypes' /\ MotorTypes' /\ Counted' /\ restarted' = restarted
      /\ UNCHANGED <<autoVars, nvsVars>>
  BY ClaimOrStill, ClaimTypes, StillTypes, TaskNames DEF Pass
<1>2. StoreTypes'
  BY <1>1 DEF StoreTypes, RmtFaults, autoVars, nvsVars
<1>3. LoopTypes'
  BY DEF LoopTypes, RmtFaults, loopVars
<1>4. RestTypes'
  BY <1>1 DEF RestTypes, RmtFaults, boundVars
<1> QED
  BY <1>1, <1>2, <1>3, <1>4

LEMMA MqttQueueTypes ==
  ASSUME TypeInv, MqttQueue, UNCHANGED trouble
  PROVE  TypeInv'
<1> USE DEF TypeInv, TypeParts
<1>1. LineTypes' /\ TaskTypes' /\ MotorTypes' /\ Counted' /\ restarted' = restarted
      /\ UNCHANGED <<autoVars, nvsVars>>
  BY ClaimOrStill, ClaimTypes, StillTypes, TaskNames DEF Pass
<1>2. StoreTypes'
  BY <1>1 DEF StoreTypes, MqttQueue, autoVars, nvsVars
<1>3. LoopTypes'
  BY DEF LoopTypes, MqttQueue, loopVars, DueAgain
<1>4. RestTypes'
  BY <1>1 DEF RestTypes, MqttQueue, boundVars
<1> QED
  BY <1>1, <1>2, <1>3, <1>4

LEMMA HeartStopsTypes ==
  ASSUME TypeInv, HeartStops, UNCHANGED trouble
  PROVE  TypeInv'
<1> USE DEF TypeInv, TypeParts
<1>1. LineTypes' /\ TaskTypes' /\ MotorTypes' /\ Counted' /\ restarted' = restarted
      /\ UNCHANGED <<autoVars, nvsVars>>
  BY ClaimOrStill, StillTypes
<1>2. StoreTypes'
  BY <1>1 DEF StoreTypes, HeartStops, autoVars, nvsVars
<1>3. LoopTypes'
  BY DEF LoopTypes, HeartStops, loopVars
<1>4. RestTypes'
  BY <1>1 DEF RestTypes, HeartStops, boundVars
<1> QED
  BY <1>1, <1>2, <1>3, <1>4

LEMMA OverflowTypes ==
  ASSUME TypeInv, Overflow, UNCHANGED trouble
  PROVE  TypeInv'
<1> USE DEF TypeInv, TypeParts
<1>1. LineTypes' /\ TaskTypes' /\ MotorTypes' /\ Counted' /\ restarted' = restarted
      /\ UNCHANGED <<autoVars, nvsVars>>
  BY ClaimOrStill, StillTypes
<1>2. StoreTypes'
  BY <1>1 DEF StoreTypes, Overflow, autoVars, nvsVars
<1>3. LoopTypes'
  BY DEF LoopTypes, Overflow, loopVars
<1>4. RestTypes'
  BY <1>1 DEF RestTypes, Overflow, boundVars
<1> QED
  BY <1>1, <1>2, <1>3, <1>4

LEMMA OtaRebootTypes ==
  ASSUME TypeInv, NEW t \in Tasks, OtaReboot(t), UNCHANGED trouble
  PROVE  TypeInv'
<1> USE DEF TypeInv, TypeParts
<1>1. LineTypes'
  BY DEF LineTypes, OtaReboot, lineVars, MutexFree
<1>2. TaskTypes'
  BY DEF TaskTypes, OtaReboot, Places, Jobs, NoJob, Stages, Purposes, Actions, Durable
<1>3. MotorTypes'
  BY DEF MotorTypes, OtaReboot, motorVars, Durable
<1>4. StoreTypes'
  BY DEF StoreTypes, OtaReboot, autoVars, nvsVars
<1>5. LoopTypes'
  BY DEF LoopTypes, OtaReboot, loopVars
<1>6. RestTypes'
  BY DEF RestTypes, OtaReboot, boundVars, Purposes
<1>7. Counted'
  BY CountQuiet DEF OtaReboot, lineVars
<1> QED
  BY <1>1, <1>2, <1>3, <1>4, <1>5, <1>6, <1>7

LEMMA ScheduleTypes ==
  ASSUME TypeInv, Schedule, UNCHANGED trouble
  PROVE  TypeInv'
<1> USE DEF TypeInv, TypeParts
<1>1. LineTypes'
  BY DEF LineTypes, Schedule, lineVars, MutexFree
<1>2. TaskTypes'
  BY DEF TaskTypes, Schedule, Places, Jobs, NoJob, Stages, Purposes, Actions, Durable
<1>3. MotorTypes'
  BY DEF MotorTypes, Schedule, Durable
<1>4. StoreTypes'
  BY DEF StoreTypes, Schedule, autoVars, nvsVars
<1>5. LoopTypes'
  BY DEF LoopTypes, Schedule, loopVars
<1>6. RestTypes'
  BY DEF RestTypes, Schedule, boundVars, Running
<1>7. Counted'
  BY CountQuiet DEF Schedule, lineVars
<1> QED
  BY <1>1, <1>2, <1>3, <1>4, <1>5, <1>6, <1>7

LEMMA OverrideTypes ==
  ASSUME TypeInv, Override, UNCHANGED trouble
  PROVE  TypeInv'
<1> USE DEF TypeInv, TypeParts
<1>1. LineTypes'
  BY DEF LineTypes, Override, lineVars, MutexFree
<1>2. TaskTypes'
  BY DEF TaskTypes, Override, Places, Jobs, NoJob, Stages, Purposes, Actions, Durable
<1>3. MotorTypes'
  BY DEF MotorTypes, Override, motorVars, Durable
<1>4. StoreTypes'
  BY DEF StoreTypes, Override, nvsVars
<1>5. LoopTypes'
  BY DEF LoopTypes, Override, loopVars
<1>6. RestTypes'
  BY DEF RestTypes, Override, boundVars, Running
<1>7. Counted'
  BY CountQuiet DEF Override, lineVars
<1> QED
  BY <1>1, <1>2, <1>3, <1>4, <1>5, <1>6, <1>7

LEMMA AsyncSaveTypes ==
  ASSUME TypeInv, AsyncSave, UNCHANGED trouble
  PROVE  TypeInv'
<1> USE DEF TypeInv, TypeParts
<1>1. LineTypes'
  BY DEF LineTypes, AsyncSave, lineVars, MutexFree
<1>2. TaskTypes'
  BY DEF TaskTypes, AsyncSave, Places, Jobs, NoJob, Stages, Purposes, Actions, Durable
<1>3. MotorTypes'
  BY DEF MotorTypes, AsyncSave, motorVars, Durable
<1>4. StoreTypes'
  BY DEF StoreTypes, AsyncSave, autoVars, MotorTypes
<1>5. LoopTypes'
  BY DEF LoopTypes, AsyncSave, loopVars
<1>6. RestTypes'
  BY DEF RestTypes, AsyncSave, boundVars, Running
<1>7. Counted'
  BY CountQuiet DEF AsyncSave, lineVars
<1> QED
  BY <1>1, <1>2, <1>3, <1>4, <1>5, <1>6, <1>7

LEMMA RmtFaultTypes ==
  ASSUME TypeInv, RmtFault, UNCHANGED trouble
  PROVE  TypeInv'
<1> USE DEF TypeInv, TypeParts
<1>1. LineTypes'
  BY DEF LineTypes, RmtFault, lineVars, MutexFree
<1>2. TaskTypes'
  BY DEF TaskTypes, RmtFault, Places, Jobs, NoJob, Stages, Purposes, Actions, Durable
<1>3. MotorTypes'
  BY DEF MotorTypes, RmtFault, Durable
<1>4. StoreTypes'
  BY DEF StoreTypes, RmtFault, autoVars, nvsVars
<1>5. LoopTypes'
  BY DEF LoopTypes, RmtFault
<1>6. RestTypes'
  BY DEF RestTypes, RmtFault, Running
<1>7. Counted'
  BY CountQuiet DEF RmtFault, lineVars
<1> QED
  BY <1>1, <1>2, <1>3, <1>4, <1>5, <1>6, <1>7

\* Every step keeps the types.
LEMMA TypeStep == TypeInv /\ Next => TypeInv'
<1> SUFFICES ASSUME TypeInv, Next PROVE TypeInv'
  OBVIOUS
<1>1. UNCHANGED trouble
  BY DEF Next, Running
<1>2. ASSUME NEW t \in Tasks, StopStep(t) \/ EnableStep(t) \/ OtaSave(t)
      PROVE  TypeInv'
  BY <1>1, <1>2, DriveTypes, HaltTypes, SettleTypes, AutomaticTypes, CommitInhibitTypes,
     VerifyTypes, JudgeTypes, PersistTypes, EndStopTypes, RestartTypes, ApplyManualTypes,
     EnableBeginTypes, RecheckTypes, TurnOnTypes, ConfirmTypes, LeaveEnableTypes,
     OtaSaveTypes DEF StopStep, EnableStep
<1>3. ASSUME NEW t \in Stoppers, StopAll(t)
      PROVE  TypeInv'
  BY <1>1, <1>3, TaskNames, StopAllTypes
<1>4. CASE CommandBegin(Dispatcher) \/ OtaStart(Dispatcher)
  BY <1>1, <1>4, TaskNames, CommandBeginTypes, OtaStartTypes
<1>5. CASE OtaAbort(OtaTask) \/ OtaReboot(OtaTask)
  BY <1>1, <1>5, TaskNames, OtaAbortTypes, OtaRebootTypes
<1>6. CASE Pass
  BY <1>1, <1>6, HeartbeatsTypes, RmtFaultsTypes, MqttQueueTypes DEF Pass
<1>7. CASE Schedule \/ Override \/ AsyncSave \/ RmtFault \/ HeartStops \/ Overflow
  BY <1>1, <1>7, ScheduleTypes, OverrideTypes, AsyncSaveTypes, RmtFaultTypes,
     HeartStopsTypes, OverflowTypes
<1> QED
  BY <1>2, <1>3, <1>4, <1>5, <1>6, <1>7 DEF Next

LEMMA TypeInit == Init => TypeInv
<1> SUFFICES ASSUME Init PROVE TypeInv
  OBVIOUS
<1>1. LineTypes /\ MotorTypes /\ StoreTypes /\ LoopTypes /\ RestTypes
  BY SupervisorAssumption
     DEF Init, LineTypes, MotorTypes, StoreTypes, LoopTypes, RestTypes, Durable, Purposes
<1>2. NoJob \in Jobs /\ "idle" \in Places
  BY DEF NoJob, Jobs, Actions, Purposes, Stages, Places
<1>3. TaskTypes
  BY <1>2 DEF Init, TaskTypes
<1>4. Counted
  <2>1. Stopping = {}
    BY DEF Init, Stopping, StopPlaces
  <2> QED
    BY <2>1, FS_EmptySet DEF Init, Counted
<1> QED
  BY <1>1, <1>3, <1>4 DEF TypeInv, TypeParts

LEMMA TypeFrame == TypeInv /\ UNCHANGED vars => TypeInv'
<1> SUFFICES ASSUME TypeInv, UNCHANGED vars PROVE TypeInv'
  OBVIOUS
<1>1. Still /\ UNCHANGED <<loopVars, trouble, boundVars>>
  BY DEF Still, vars
<1>2. LoopTypes' /\ RestTypes' /\ StoreTypes'
  BY <1>1, StillTypes
     DEF Still, TypeInv, TypeParts, LoopTypes, RestTypes, StoreTypes, loopVars, boundVars,
         autoVars, nvsVars
<1> QED
  BY <1>1, <1>2, StillTypes DEF TypeInv, TypeParts

\* The variables of SafetySupervisor have their types, and s_stop_depth counts
\* the stops that are under way, so that it never wraps below zero
\* (stop_all_internal).
THEOREM TypeCorrectness == Spec => [](TypeOK /\ Counted)
<1>1. Spec => []TypeInv
  BY TypeInit, TypeStep, TypeFrame, PTL DEF Spec
<1>2. TypeInv => TypeOK /\ Counted
  BY TypesFollow DEF TypeInv
<1> QED
  BY <1>1, <1>2, PTL

-----------------------------------------------------------------------------
(* The line.  s_stop_mutex has the owner that the places say; a command    *)
(* that was let in, and an enable that has compared the generation, hold   *)
(* it over every stop that has not driven the line yet.                    *)

Owned ==
  \A t \in Tasks :
    at[t] \in {"settle", "command", "recheck", "turnon", "confirm", "leave"} => owner = t

Fenced ==
  \A u, t \in Tasks :
    at[u] \in {"command", "turnon"} /\ at[t] \in StopPlaces => at[t] = "drive"

Clear ==
  \A t \in Tasks : at[t] \in {"recheck", "turnon"} =>
    maintenance = 0 /\ inhibits \cap {"GLOBAL", "COMMUNICATION", "RMT"} = {}

LineInv ==
  Owned /\ Fenced /\ Clear /\ InterlockOffDuringStop /\ ClearedTargetsStayCleared

\* Without a claim there is no stop.
LEMMA NoStop == TypeInv /\ depth = 0 => \A t \in Tasks : at[t] \notin StopPlaces
<1> SUFFICES ASSUME TypeInv, depth = 0 PROVE Stopping = {}
  BY DEF Stopping
<1> QED
  BY FS_EmptySet DEF TypeInv, Counted

\* The mutex and the claim keep stops and enables apart.
LEMMA LineStep ==
  ASSUME TypeInv, LineInv, Next
  PROVE  LineInv'
<1> USE DEF LineInv
<1>0. at \in [Tasks -> Places] /\ job \in [Tasks -> Jobs]
  BY DEF TypeInv, TypeParts, TaskTypes
<1>1. ASSUME NEW t \in Tasks, Drive(t)
      PROVE  LineInv'
  <2>1. Owned'
    BY <1>1, <1>0, SupervisorAssumption DEF Owned, MutexFree, Drive, Outcome
  <2>2. Fenced'
    BY <1>1, <1>0, SupervisorAssumption DEF Fenced, Owned, StopPlaces, MutexFree, Drive,
       Outcome
  <2>3. Clear'
    BY <1>1, <1>0, SupervisorAssumption DEF Clear, Owned, MutexFree, Drive, motorVars,
       Outcome
  <2>4. InterlockOffDuringStop'
    BY <1>1, <1>0, SupervisorAssumption DEF InterlockOffDuringStop, Owned, Fenced,
       StopPlaces, MutexFree, Jobs, Drive, Outcome
  <2>5. ClearedTargetsStayCleared'
    BY <1>1, <1>0, SupervisorAssumption DEF ClearedTargetsStayCleared, Owned, Fenced,
       StopPlaces, MutexFree, Jobs, Drive, motorVars, Outcome
  <2> QED
    BY <2>1, <2>2, <2>3, <2>4, <2>5
<1>2. ASSUME NEW t \in Tasks, Halt(t)
      PROVE  LineInv'
  <2>1. Owned'
    BY <1>2, <1>0, SupervisorAssumption DEF Owned, Halt, HaltInhibits, HaltMaintains
  <2>2. Fenced'
    BY <1>2, <1>0, SupervisorAssumption DEF Fenced, Owned, StopPlaces, Halt,
       HaltInhibits, HaltMaintains
  <2>3. Clear'
    BY <1>2, <1>0, SupervisorAssumption DEF Clear, Owned, Halt, HaltInhibits,
       HaltMaintains
  <2>4. InterlockOffDuringStop'
    BY <1>2, <1>0, SupervisorAssumption DEF InterlockOffDuringStop, Owned, Fenced,
       StopPlaces, Jobs, Halt, HaltInhibits, HaltMaintains
  <2>5. ClearedTargetsStayCleared'
    BY <1>2, <1>0, SupervisorAssumption DEF ClearedTargetsStayCleared, Owned, Fenced,
       StopPlaces, Jobs, Halt, HaltInhibits, HaltMaintains
  <2> QED
    BY <2>1, <2>2, <2>3, <2>4, <2>5
<1>3. ASSUME NEW t \in Tasks, Settle(t)
      PROVE  LineInv'
  <2>1. Owned'
    BY <1>3, <1>0, SupervisorAssumption DEF Owned, Stages, Jobs, Settle, Outcome,
       GivenBy, AfterHalt
  <2>2. Fenced'
    BY <1>3, <1>0, SupervisorAssumption DEF Fenced, Owned, StopPlaces, Stages, Jobs,
       Settle, Outcome, GivenBy, AfterHalt
  <2>3. Clear'
    BY <1>3, <1>0, SupervisorAssumption DEF Clear, Owned, Stages, Jobs, Settle,
       motorVars, Outcome, GivenBy, AfterHalt
  <2>4. InterlockOffDuringStop'
    BY <1>3, <1>0, SupervisorAssumption DEF InterlockOffDuringStop, Owned, Fenced,
       StopPlaces, Jobs, Stages, Settle, Outcome, GivenBy, AfterHalt
  <2>5. ClearedTargetsStayCleared'
    BY <1>3, <1>0, SupervisorAssumption DEF ClearedTargetsStayCleared, Owned, Fenced,
       StopPlaces, Jobs, Stages, Settle, motorVars, Outcome, GivenBy, AfterHalt
  <2> QED
    BY <2>1, <2>2, <2>3, <2>4, <2>5
<1>4. ASSUME NEW t \in Tasks, Automatic(t)
      PROVE  LineInv'
  <2>1. Owned'
    BY <1>4, <1>0, SupervisorAssumption DEF Owned, Automatic, lineVars, Outcome,
       AutomaticFailed
  <2>2. Fenced'
    BY <1>4, <1>0, SupervisorAssumption DEF Fenced, Owned, StopPlaces, Automatic,
       lineVars, Outcome, AutomaticFailed
  <2>3. Clear'
    BY <1>4, <1>0, SupervisorAssumption DEF Clear, Owned, Automatic, lineVars, motorVars,
       Outcome, AutomaticFailed
  <2>4. InterlockOffDuringStop'
    BY <1>4, <1>0, SupervisorAssumption DEF InterlockOffDuringStop, Owned, Fenced,
       StopPlaces, Jobs, Automatic, lineVars, Outcome, AutomaticFailed
  <2>5. ClearedTargetsStayCleared'
    BY <1>4, <1>0, SupervisorAssumption DEF ClearedTargetsStayCleared, Owned, Fenced,
       StopPlaces, Jobs, Automatic, lineVars, motorVars, Outcome, AutomaticFailed
  <2> QED
    BY <2>1, <2>2, <2>3, <2>4, <2>5
<1>5. ASSUME NEW t \in Tasks, CommitInhibit(t)
      PROVE  LineInv'
  <2>1. Owned'
    BY <1>5, <1>0, SupervisorAssumption DEF Owned, CommitInhibit, lineVars, Outcome,
       AutomaticFailed
  <2>2. Fenced'
    BY <1>5, <1>0, SupervisorAssumption DEF Fenced, Owned, StopPlaces, CommitInhibit,
       lineVars, Outcome, AutomaticFailed
  <2>3. Clear'
    BY <1>5, <1>0, SupervisorAssumption DEF Clear, Owned, CommitInhibit, lineVars,
       motorVars, Outcome, AutomaticFailed
  <2>4. InterlockOffDuringStop'
    BY <1>5, <1>0, SupervisorAssumption DEF InterlockOffDuringStop, Owned, Fenced,
       StopPlaces, Jobs, CommitInhibit, lineVars, Outcome, AutomaticFailed
  <2>5. ClearedTargetsStayCleared'
    BY <1>5, <1>0, SupervisorAssumption DEF ClearedTargetsStayCleared, Owned, Fenced,
       StopPlaces, Jobs, CommitInhibit, lineVars, motorVars, Outcome, AutomaticFailed
  <2> QED
    BY <2>1, <2>2, <2>3, <2>4, <2>5
<1>6. ASSUME NEW t \in Tasks, Verify(t)
      PROVE  LineInv'
  <2>1. Owned'
    BY <1>6, <1>0, SupervisorAssumption DEF Owned, Verify, lineVars
  <2>2. Fenced'
    BY <1>6, <1>0, SupervisorAssumption DEF Fenced, Owned, StopPlaces, Verify, lineVars
  <2>3. Clear'
    BY <1>6, <1>0, SupervisorAssumption DEF Clear, Owned, Verify, lineVars, motorVars
  <2>4. InterlockOffDuringStop'
    BY <1>6, <1>0, SupervisorAssumption DEF InterlockOffDuringStop, Owned, Fenced,
       StopPlaces, Jobs, Verify, lineVars
  <2>5. ClearedTargetsStayCleared'
    BY <1>6, <1>0, SupervisorAssumption DEF ClearedTargetsStayCleared, Owned, Fenced,
       StopPlaces, Jobs, Verify, lineVars, motorVars
  <2> QED
    BY <2>1, <2>2, <2>3, <2>4, <2>5
<1>7. ASSUME NEW t \in Tasks, Judge(t)
      PROVE  LineInv'
  <2>1. Owned'
    BY <1>7, <1>0, SupervisorAssumption DEF Owned, Judge, lineVars
  <2>2. Fenced'
    BY <1>7, <1>0, SupervisorAssumption DEF Fenced, Owned, StopPlaces, Judge, lineVars
  <2>3. Clear'
    BY <1>7, <1>0, SupervisorAssumption DEF Clear, Owned, Judge, lineVars, motorVars
  <2>4. InterlockOffDuringStop'
    BY <1>7, <1>0, SupervisorAssumption DEF InterlockOffDuringStop, Owned, Fenced,
       StopPlaces, Jobs, Judge, lineVars
  <2>5. ClearedTargetsStayCleared'
    BY <1>7, <1>0, SupervisorAssumption DEF ClearedTargetsStayCleared, Owned, Fenced,
       StopPlaces, Jobs, Judge, lineVars, motorVars
  <2> QED
    BY <2>1, <2>2, <2>3, <2>4, <2>5
<1>8. ASSUME NEW t \in Tasks, Persist(t)
      PROVE  LineInv'
  <2>1. Owned'
    BY <1>8, <1>0, SupervisorAssumption DEF Owned, Persist, lineVars, Outcome
  <2>2. Fenced'
    BY <1>8, <1>0, SupervisorAssumption DEF Fenced, Owned, StopPlaces, Persist, lineVars,
       Outcome
  <2>3. Clear'
    BY <1>8, <1>0, SupervisorAssumption DEF Clear, Owned, Persist, lineVars, motorVars,
       Outcome
  <2>4. InterlockOffDuringStop'
    BY <1>8, <1>0, SupervisorAssumption DEF InterlockOffDuringStop, Owned, Fenced,
       StopPlaces, Jobs, Persist, lineVars, Outcome
  <2>5. ClearedTargetsStayCleared'
    BY <1>8, <1>0, SupervisorAssumption DEF ClearedTargetsStayCleared, Owned, Fenced,
       StopPlaces, Jobs, Persist, lineVars, motorVars, Outcome
  <2> QED
    BY <2>1, <2>2, <2>3, <2>4, <2>5
<1>9. ASSUME NEW t \in Tasks, EndStop(t)
      PROVE  LineInv'
  <2>1. Owned'
    BY <1>9, <1>0, SupervisorAssumption DEF Owned, EndStop, Released, AfterStop, Reboots
  <2>2. Fenced'
    BY <1>9, <1>0, SupervisorAssumption DEF Fenced, Owned, StopPlaces, EndStop, Released,
       AfterStop, Reboots
  <2>3. Clear'
    BY <1>9, <1>0, SupervisorAssumption DEF Clear, Owned, EndStop, Released, AfterStop,
       Reboots
  <2>4. InterlockOffDuringStop'
    BY <1>9, <1>0, SupervisorAssumption DEF InterlockOffDuringStop, Owned, Fenced,
       StopPlaces, NoJob, Jobs, EndStop, Released, AfterStop, Reboots
  <2>5. ClearedTargetsStayCleared'
    BY <1>9, <1>0, SupervisorAssumption DEF ClearedTargetsStayCleared, Owned, Fenced,
       StopPlaces, NoJob, Jobs, EndStop, Released, AfterStop, Reboots
  <2> QED
    BY <2>1, <2>2, <2>3, <2>4, <2>5
<1>10. ASSUME NEW t \in Tasks, Restart(t)
      PROVE  LineInv'
  <2>1. Owned'
    BY <1>10, <1>0, SupervisorAssumption DEF Owned, Restart, lineVars
  <2>2. Fenced'
    BY <1>10, <1>0, SupervisorAssumption DEF Fenced, Owned, StopPlaces, Restart, lineVars
  <2>3. Clear'
    BY <1>10, <1>0, SupervisorAssumption DEF Clear, Owned, Restart, lineVars, motorVars
  <2>4. InterlockOffDuringStop'
    BY <1>10, <1>0, SupervisorAssumption DEF InterlockOffDuringStop, Owned, Fenced,
       StopPlaces, Jobs, Restart, lineVars
  <2>5. ClearedTargetsStayCleared'
    BY <1>10, <1>0, SupervisorAssumption DEF ClearedTargetsStayCleared, Owned, Fenced,
       StopPlaces, Jobs, Restart, lineVars, motorVars
  <2> QED
    BY <2>1, <2>2, <2>3, <2>4, <2>5
<1>11. ASSUME NEW t \in Tasks, ApplyManual(t)
      PROVE  LineInv'
  <2>1. Owned'
    BY <1>11, <1>0, SupervisorAssumption DEF Owned, ApplyManual, lineVars
  <2>2. Fenced'
    BY <1>11, <1>0, SupervisorAssumption DEF Fenced, Owned, StopPlaces, ApplyManual,
       lineVars
  <2>3. Clear'
    BY <1>11, <1>0, SupervisorAssumption DEF Clear, Owned, ApplyManual, lineVars
  <2>4. InterlockOffDuringStop'
    BY <1>11, <1>0, SupervisorAssumption DEF InterlockOffDuringStop, Owned, Fenced,
       StopPlaces, Jobs, ApplyManual, lineVars
  <2>5. ClearedTargetsStayCleared'
    BY <1>11, <1>0, SupervisorAssumption DEF ClearedTargetsStayCleared, Owned, Fenced,
       StopPlaces, Jobs, ApplyManual, lineVars
  <2> QED
    BY <2>1, <2>2, <2>3, <2>4, <2>5
<1>12. ASSUME NEW t \in Tasks, EnableBegin(t)
      PROVE  LineInv'
  <2>1. Owned'
    BY <1>12, <1>0, SupervisorAssumption DEF Owned, MutexFree, EnableBegin
  <2>2. Fenced'
    BY <1>12, <1>0, SupervisorAssumption DEF Fenced, Owned, StopPlaces, MutexFree,
       EnableBegin
  <2>3. Clear'
    BY <1>12, <1>0, SupervisorAssumption DEF Clear, Owned, MutexFree, OutputAllowed,
       EnableBegin, motorVars
  <2>4. InterlockOffDuringStop'
    BY <1>12, <1>0, SupervisorAssumption DEF InterlockOffDuringStop, Owned, Fenced,
       StopPlaces, MutexFree, Jobs, EnableBegin
  <2>5. ClearedTargetsStayCleared'
    BY <1>12, <1>0, SupervisorAssumption DEF ClearedTargetsStayCleared, Owned, Fenced,
       StopPlaces, MutexFree, Jobs, EnableBegin, motorVars
  <2> QED
    BY <2>1, <2>2, <2>3, <2>4, <2>5
<1>13. ASSUME NEW t \in Tasks, Recheck(t)
      PROVE  LineInv'
  <2>1. Owned'
    BY <1>13, <1>0, SupervisorAssumption DEF Owned, Recheck, lineVars
  <2>2. Fenced'
    BY <1>13, <1>0, SupervisorAssumption, NoStop DEF Fenced, Owned, StopPlaces,
       CommandAllowed, Recheck, lineVars
  <2>3. Clear'
    BY <1>13, <1>0, SupervisorAssumption DEF Clear, Owned, Recheck, lineVars, motorVars
  <2>4. InterlockOffDuringStop'
    BY <1>13, <1>0, SupervisorAssumption DEF InterlockOffDuringStop, Owned, Fenced,
       StopPlaces, Jobs, Recheck, lineVars
  <2>5. ClearedTargetsStayCleared'
    BY <1>13, <1>0, SupervisorAssumption DEF ClearedTargetsStayCleared, Owned, Fenced,
       StopPlaces, Jobs, Recheck, lineVars, motorVars
  <2> QED
    BY <2>1, <2>2, <2>3, <2>4, <2>5
<1>14. ASSUME NEW t \in Tasks, TurnOn(t)
      PROVE  LineInv'
  <2>1. Owned'
    BY <1>14, <1>0, SupervisorAssumption DEF Owned, TurnOn, Outcome
  <2>2. Fenced'
    BY <1>14, <1>0, SupervisorAssumption DEF Fenced, Owned, StopPlaces, TurnOn, Outcome
  <2>3. Clear'
    BY <1>14, <1>0, SupervisorAssumption DEF Clear, Owned, TurnOn, motorVars, Outcome
  <2>4. InterlockOffDuringStop'
    BY <1>14, <1>0, SupervisorAssumption DEF InterlockOffDuringStop, Owned, Fenced,
       StopPlaces, Jobs, TurnOn, Outcome
  <2>5. ClearedTargetsStayCleared'
    BY <1>14, <1>0, SupervisorAssumption DEF ClearedTargetsStayCleared, Owned, Fenced,
       StopPlaces, Jobs, TurnOn, motorVars, Outcome
  <2> QED
    BY <2>1, <2>2, <2>3, <2>4, <2>5
<1>15. ASSUME NEW t \in Tasks, Confirm(t)
      PROVE  LineInv'
  <2>1. Owned'
    BY <1>15, <1>0, SupervisorAssumption DEF Owned, Confirm, Outcome
  <2>2. Fenced'
    BY <1>15, <1>0, SupervisorAssumption DEF Fenced, Owned, StopPlaces, Confirm, Outcome
  <2>3. Clear'
    BY <1>15, <1>0, SupervisorAssumption DEF Clear, Owned, Confirm, motorVars, Outcome
  <2>4. InterlockOffDuringStop'
    BY <1>15, <1>0, SupervisorAssumption DEF InterlockOffDuringStop, Owned, Fenced,
       StopPlaces, Jobs, Confirm, Outcome
  <2>5. ClearedTargetsStayCleared'
    BY <1>15, <1>0, SupervisorAssumption DEF ClearedTargetsStayCleared, Owned, Fenced,
       StopPlaces, Jobs, Confirm, motorVars, Outcome
  <2> QED
    BY <2>1, <2>2, <2>3, <2>4, <2>5
<1>16. ASSUME NEW t \in Tasks, LeaveEnable(t)
      PROVE  LineInv'
  <2>1. Owned'
    BY <1>16, <1>0, SupervisorAssumption DEF Owned, LeaveEnable
  <2>2. Fenced'
    BY <1>16, <1>0, SupervisorAssumption DEF Fenced, Owned, StopPlaces, LeaveEnable
  <2>3. Clear'
    BY <1>16, <1>0, SupervisorAssumption DEF Clear, Owned, LeaveEnable, motorVars
  <2>4. InterlockOffDuringStop'
    BY <1>16, <1>0, SupervisorAssumption DEF InterlockOffDuringStop, Owned, Fenced,
       StopPlaces, NoJob, Jobs, LeaveEnable
  <2>5. ClearedTargetsStayCleared'
    BY <1>16, <1>0, SupervisorAssumption DEF ClearedTargetsStayCleared, Owned, Fenced,
       StopPlaces, NoJob, Jobs, LeaveEnable, motorVars
  <2> QED
    BY <2>1, <2>2, <2>3, <2>4, <2>5
<1>17. ASSUME NEW t \in Tasks, OtaSave(t)
      PROVE  LineInv'
  <2>1. Owned'
    BY <1>17, <1>0, SupervisorAssumption DEF Owned, OtaSave, lineVars, Outcome, Released
  <2>2. Fenced'
    BY <1>17, <1>0, SupervisorAssumption DEF Fenced, Owned, StopPlaces, OtaSave,
       lineVars, Outcome, Released
  <2>3. Clear'
    BY <1>17, <1>0, SupervisorAssumption DEF Clear, Owned, OtaSave, lineVars, Outcome,
       Released
  <2>4. InterlockOffDuringStop'
    BY <1>17, <1>0, SupervisorAssumption DEF InterlockOffDuringStop, Owned, Fenced,
       StopPlaces, NoJob, Jobs, OtaSave, lineVars, Outcome, Released
  <2>5. ClearedTargetsStayCleared'
    BY <1>17, <1>0, SupervisorAssumption DEF ClearedTargetsStayCleared, Owned, Fenced,
       StopPlaces, NoJob, Jobs, OtaSave, lineVars, Outcome, Released
  <2> QED
    BY <2>1, <2>2, <2>3, <2>4, <2>5
<1>18. ASSUME NEW t \in Tasks, CommandBegin(t)
      PROVE  LineInv'
  <2>1. Owned'
    BY <1>18, <1>0, SupervisorAssumption DEF Owned, CommandBegin
  <2>2. Fenced'
    BY <1>18, <1>0, SupervisorAssumption, NoStop DEF Fenced, Owned, StopPlaces,
       CommandAllowed, CommandBegin
  <2>3. Clear'
    BY <1>18, <1>0, SupervisorAssumption DEF Clear, Owned, CommandBegin, motorVars
  <2>4. InterlockOffDuringStop'
    BY <1>18, <1>0, SupervisorAssumption DEF InterlockOffDuringStop, Owned, Fenced,
       StopPlaces, Jobs, CommandBegin
  <2>5. ClearedTargetsStayCleared'
    BY <1>18, <1>0, SupervisorAssumption DEF ClearedTargetsStayCleared, Owned, Fenced,
       StopPlaces, Jobs, CommandBegin, motorVars
  <2> QED
    BY <2>1, <2>2, <2>3, <2>4, <2>5
<1>19. ASSUME NEW t \in Tasks, OtaAbort(t)
      PROVE  LineInv'
  <2>1. Owned'
    BY <1>19, <1>0, SupervisorAssumption DEF Owned, OtaAbort, lineVars, Released
  <2>2. Fenced'
    BY <1>19, <1>0, SupervisorAssumption DEF Fenced, Owned, StopPlaces, OtaAbort,
       lineVars, Released
  <2>3. Clear'
    BY <1>19, <1>0, SupervisorAssumption DEF Clear, Owned, OtaAbort, lineVars, Released
  <2>4. InterlockOffDuringStop'
    BY <1>19, <1>0, SupervisorAssumption DEF InterlockOffDuringStop, Owned, Fenced,
       StopPlaces, Jobs, OtaAbort, lineVars, Released
  <2>5. ClearedTargetsStayCleared'
    BY <1>19, <1>0, SupervisorAssumption DEF ClearedTargetsStayCleared, Owned, Fenced,
       StopPlaces, Jobs, OtaAbort, lineVars, Released
  <2> QED
    BY <2>1, <2>2, <2>3, <2>4, <2>5
<1>20. ASSUME NEW t \in Tasks, Claim(t)
      PROVE  LineInv'
  <2>1. Owned'
    BY <1>20, <1>0, SupervisorAssumption DEF Owned, Claim, ClaimStop, motorVars,
       autoVars, nvsVars
  <2>2. Fenced'
    BY <1>20, <1>0, SupervisorAssumption DEF Fenced, Owned, StopPlaces, Claim, ClaimStop,
       motorVars, autoVars, nvsVars
  <2>3. Clear'
    BY <1>20, <1>0, SupervisorAssumption DEF Clear, Owned, Claim, ClaimStop, motorVars,
       autoVars, nvsVars
  <2>4. InterlockOffDuringStop'
    BY <1>20, <1>0, SupervisorAssumption DEF InterlockOffDuringStop, Owned, Fenced,
       StopPlaces, NoJob, Jobs, Claim, ClaimStop, motorVars, autoVars, nvsVars
  <2>5. ClearedTargetsStayCleared'
    BY <1>20, <1>0, SupervisorAssumption DEF ClearedTargetsStayCleared, Owned, Fenced,
       StopPlaces, NoJob, Jobs, Claim, ClaimStop, motorVars, autoVars, nvsVars
  <2> QED
    BY <2>1, <2>2, <2>3, <2>4, <2>5
<1>21. ASSUME NEW t \in Tasks, OtaReboot(t)
      PROVE  LineInv'
  <2>1. Owned'
    BY <1>21, <1>0, SupervisorAssumption DEF Owned, OtaReboot, lineVars
  <2>2. Fenced'
    BY <1>21, <1>0, SupervisorAssumption DEF Fenced, Owned, StopPlaces, OtaReboot,
       lineVars
  <2>3. Clear'
    BY <1>21, <1>0, SupervisorAssumption DEF Clear, Owned, OtaReboot, lineVars, motorVars
  <2>4. InterlockOffDuringStop'
    BY <1>21, <1>0, SupervisorAssumption DEF InterlockOffDuringStop, Owned, Fenced,
       StopPlaces, Jobs, OtaReboot, lineVars
  <2>5. ClearedTargetsStayCleared'
    BY <1>21, <1>0, SupervisorAssumption DEF ClearedTargetsStayCleared, Owned, Fenced,
       StopPlaces, Jobs, OtaReboot, lineVars, motorVars
  <2> QED
    BY <2>1, <2>2, <2>3, <2>4, <2>5
<1>22. CASE Still
  <2>1. Owned'
    BY <1>22, <1>0, SupervisorAssumption DEF Owned, Still, lineVars, motorVars, autoVars,
       nvsVars
  <2>2. Fenced'
    BY <1>22, <1>0, SupervisorAssumption DEF Fenced, Owned, StopPlaces, Still, lineVars,
       motorVars, autoVars, nvsVars
  <2>3. Clear'
    BY <1>22, <1>0, SupervisorAssumption DEF Clear, Owned, Still, lineVars, motorVars,
       autoVars, nvsVars
  <2>4. InterlockOffDuringStop'
    BY <1>22, <1>0, SupervisorAssumption DEF InterlockOffDuringStop, Owned, Fenced,
       StopPlaces, Jobs, Still, lineVars, motorVars, autoVars, nvsVars
  <2>5. ClearedTargetsStayCleared'
    BY <1>22, <1>0, SupervisorAssumption DEF ClearedTargetsStayCleared, Owned, Fenced,
       StopPlaces, Jobs, Still, lineVars, motorVars, autoVars, nvsVars
  <2> QED
    BY <2>1, <2>2, <2>3, <2>4, <2>5
<1>23. CASE Schedule
  <2>1. Owned'
    BY <1>23, <1>0, SupervisorAssumption DEF Owned, Schedule, lineVars
  <2>2. Fenced'
    BY <1>23, <1>0, SupervisorAssumption DEF Fenced, Owned, StopPlaces, Schedule,
       lineVars
  <2>3. Clear'
    BY <1>23, <1>0, SupervisorAssumption DEF Clear, Owned, Schedule, lineVars
  <2>4. InterlockOffDuringStop'
    BY <1>23, <1>0, SupervisorAssumption DEF InterlockOffDuringStop, Owned, Fenced,
       StopPlaces, Jobs, Schedule, lineVars
  <2>5. ClearedTargetsStayCleared'
    BY <1>23, <1>0, SupervisorAssumption DEF ClearedTargetsStayCleared, Owned, Fenced,
       StopPlaces, Jobs, Schedule, lineVars
  <2> QED
    BY <2>1, <2>2, <2>3, <2>4, <2>5
<1>24. CASE Override
  <2>1. Owned'
    BY <1>24, <1>0, SupervisorAssumption DEF Owned, Override, lineVars
  <2>2. Fenced'
    BY <1>24, <1>0, SupervisorAssumption DEF Fenced, Owned, StopPlaces, Override,
       lineVars
  <2>3. Clear'
    BY <1>24, <1>0, SupervisorAssumption DEF Clear, Owned, Override, lineVars, motorVars
  <2>4. InterlockOffDuringStop'
    BY <1>24, <1>0, SupervisorAssumption DEF InterlockOffDuringStop, Owned, Fenced,
       StopPlaces, Jobs, Override, lineVars
  <2>5. ClearedTargetsStayCleared'
    BY <1>24, <1>0, SupervisorAssumption DEF ClearedTargetsStayCleared, Owned, Fenced,
       StopPlaces, Jobs, Override, lineVars, motorVars
  <2> QED
    BY <2>1, <2>2, <2>3, <2>4, <2>5
<1>25. CASE AsyncSave
  <2>1. Owned'
    BY <1>25, <1>0, SupervisorAssumption DEF Owned, AsyncSave, lineVars
  <2>2. Fenced'
    BY <1>25, <1>0, SupervisorAssumption DEF Fenced, Owned, StopPlaces, AsyncSave,
       lineVars
  <2>3. Clear'
    BY <1>25, <1>0, SupervisorAssumption DEF Clear, Owned, AsyncSave, lineVars, motorVars
  <2>4. InterlockOffDuringStop'
    BY <1>25, <1>0, SupervisorAssumption DEF InterlockOffDuringStop, Owned, Fenced,
       StopPlaces, Jobs, AsyncSave, lineVars
  <2>5. ClearedTargetsStayCleared'
    BY <1>25, <1>0, SupervisorAssumption DEF ClearedTargetsStayCleared, Owned, Fenced,
       StopPlaces, Jobs, AsyncSave, lineVars, motorVars
  <2> QED
    BY <2>1, <2>2, <2>3, <2>4, <2>5
<1>26. CASE RmtFault
  <2>1. Owned'
    BY <1>26, <1>0, SupervisorAssumption DEF Owned, RmtFault, lineVars
  <2>2. Fenced'
    BY <1>26, <1>0, SupervisorAssumption DEF Fenced, Owned, StopPlaces, RmtFault,
       lineVars
  <2>3. Clear'
    BY <1>26, <1>0, SupervisorAssumption DEF Clear, Owned, RmtFault, lineVars
  <2>4. InterlockOffDuringStop'
    BY <1>26, <1>0, SupervisorAssumption DEF InterlockOffDuringStop, Owned, Fenced,
       StopPlaces, Jobs, RmtFault, lineVars
  <2>5. ClearedTargetsStayCleared'
    BY <1>26, <1>0, SupervisorAssumption DEF ClearedTargetsStayCleared, Owned, Fenced,
       StopPlaces, Jobs, RmtFault, lineVars
  <2> QED
    BY <2>1, <2>2, <2>3, <2>4, <2>5
<1> QED
  BY <1>1, <1>2, <1>3, <1>4, <1>5, <1>6, <1>7, <1>8, <1>9, <1>10, <1>11, <1>12, <1>13,
     <1>14, <1>15, <1>16, <1>17, <1>18, <1>19, <1>20, <1>21, <1>22, <1>23, <1>24, <1>25,
     <1>26, ClaimOrStill, TaskNames DEF Next, StopStep, EnableStep

-----------------------------------------------------------------------------
(* The maintenance inhibit.  Every temporary stop that has zeroed the fans *)
(* and every update that holds them has its own count.                     *)

Rebooting(t) == job[t].purpose \in {"restart", "reboot"}

JobShape(t) ==
  /\ Rebooting(t) => job[t].clear /\ job[t].action \in {"GLOBAL", "RMT"}
  /\ job[t].purpose = "ota" => job[t].action = "VERIFIED"
  /\ job[t].stage # "first" => Temporary(t)
  /\ at[t] = "otasave" => job[t].purpose = "ota"
  /\ at[t] = "drive" => job[t].stage = "first"

Shaped == \A t \in Tasks : JobShape(t)

\* What a stop is for says what kind of stop it is.
LEMMA ShapeStep ==
  ASSUME TypeInv, Shaped, Next
  PROVE  Shaped'
<1>0. at \in [Tasks -> Places] /\ job \in [Tasks -> Jobs]
  BY DEF TypeInv, TypeParts, TaskTypes
<1>1. ASSUME NEW t \in Tasks, Drive(t)
      PROVE  Shaped'
  BY <1>1, <1>0 DEF Shaped, JobShape, Rebooting, Temporary, Durable, Jobs, NoJob, Drive,
     Outcome
<1>2. ASSUME NEW t \in Tasks, Halt(t)
      PROVE  Shaped'
  BY <1>2, <1>0 DEF Shaped, JobShape, Rebooting, Temporary, Durable, Jobs, NoJob, Halt,
     HaltInhibits, HaltMaintains
<1>3. ASSUME NEW t \in Tasks, Settle(t)
      PROVE  Shaped'
  <2>1. job[t].stage \in Stages
    BY <1>0 DEF Jobs
  <2>2. AfterHalt(t) \in {"automatic", "judge", "persist", "end"}
    BY <2>1 DEF AfterHalt, Stages
  <2>3. \A u \in Tasks : at'[u] \in {"otasave", "drive"} => at'[u] = at[u]
    BY <1>3, <1>0, <2>2 DEF Settle
  <2>4. \A u \in Tasks : /\ job'[u].purpose = job[u].purpose /\ job'[u].action = job[u].action
                        /\ job'[u].clear = job[u].clear /\ job'[u].stage = job[u].stage
    BY <1>3, <1>0 DEF Settle, Jobs
  <2> QED
    BY <2>3, <2>4 DEF Shaped, JobShape, Rebooting, Temporary
<1>4. ASSUME NEW t \in Tasks, Automatic(t)
      PROVE  Shaped'
  BY <1>4, <1>0 DEF Shaped, JobShape, Rebooting, Temporary, Durable, Jobs, NoJob,
     Automatic, Outcome, AutomaticFailed
<1>5. ASSUME NEW t \in Tasks, CommitInhibit(t)
      PROVE  Shaped'
  BY <1>5, <1>0 DEF Shaped, JobShape, Rebooting, Temporary, Durable, Jobs, NoJob,
     CommitInhibit, Outcome, AutomaticFailed
<1>6. ASSUME NEW t \in Tasks, Verify(t)
      PROVE  Shaped'
  BY <1>6, <1>0 DEF Shaped, JobShape, Rebooting, Temporary, Durable, Jobs, NoJob, Verify
<1>7. ASSUME NEW t \in Tasks, Judge(t)
      PROVE  Shaped'
  BY <1>7, <1>0 DEF Shaped, JobShape, Rebooting, Temporary, Durable, Jobs, NoJob, Judge
<1>8. ASSUME NEW t \in Tasks, Persist(t)
      PROVE  Shaped'
  BY <1>8, <1>0 DEF Shaped, JobShape, Rebooting, Temporary, Durable, Jobs, NoJob,
     FallsBack, Persist, Outcome
<1>9. ASSUME NEW t \in Tasks, EndStop(t)
      PROVE  Shaped'
  BY <1>9, <1>0 DEF Shaped, JobShape, Rebooting, Temporary, Durable, Jobs, NoJob,
     EndStop, Released, AfterStop, Reboots
<1>10. ASSUME NEW t \in Tasks, Restart(t)
      PROVE  Shaped'
  BY <1>10, <1>0 DEF Shaped, JobShape, Rebooting, Temporary, Durable, Jobs, NoJob,
     Restart
<1>11. ASSUME NEW t \in Tasks, ApplyManual(t)
      PROVE  Shaped'
  BY <1>11, <1>0 DEF Shaped, JobShape, Rebooting, Temporary, Durable, Jobs, NoJob,
     ApplyManual
<1>12. ASSUME NEW t \in Tasks, EnableBegin(t)
      PROVE  Shaped'
  BY <1>12, <1>0 DEF Shaped, JobShape, Rebooting, Temporary, Durable, Jobs, NoJob,
     EnableBegin
<1>13. ASSUME NEW t \in Tasks, Recheck(t)
      PROVE  Shaped'
  BY <1>13, <1>0 DEF Shaped, JobShape, Rebooting, Temporary, Durable, Jobs, NoJob,
     Recheck
<1>14. ASSUME NEW t \in Tasks, TurnOn(t)
      PROVE  Shaped'
  BY <1>14, <1>0 DEF Shaped, JobShape, Rebooting, Temporary, Durable, Jobs, NoJob,
     TurnOn, Outcome
<1>15. ASSUME NEW t \in Tasks, Confirm(t)
      PROVE  Shaped'
  BY <1>15, <1>0 DEF Shaped, JobShape, Rebooting, Temporary, Durable, Jobs, NoJob,
     Confirm, Outcome
<1>16. ASSUME NEW t \in Tasks, LeaveEnable(t)
      PROVE  Shaped'
  BY <1>16, <1>0 DEF Shaped, JobShape, Rebooting, Temporary, Durable, Jobs, NoJob,
     LeaveEnable
<1>17. ASSUME NEW t \in Tasks, OtaSave(t)
      PROVE  Shaped'
  BY <1>17, <1>0 DEF Shaped, JobShape, Rebooting, Temporary, Durable, Jobs, NoJob,
     OtaSave, Outcome, Released
<1>18. ASSUME NEW t \in Tasks, CommandBegin(t)
      PROVE  Shaped'
  BY <1>18, <1>0 DEF Shaped, JobShape, Rebooting, Temporary, Durable, Jobs, NoJob,
     CommandBegin
<1>19. ASSUME NEW t \in Tasks, OtaAbort(t)
      PROVE  Shaped'
  BY <1>19, <1>0 DEF Shaped, JobShape, Rebooting, Temporary, Durable, Jobs, NoJob,
     OtaAbort, Released
<1>20. ASSUME NEW t \in Tasks, Claim(t)
      PROVE  Shaped'
  BY <1>20, <1>0 DEF Shaped, JobShape, Rebooting, Temporary, Durable, Jobs, NoJob, Claim,
     ClaimStop, motorVars, autoVars, nvsVars
<1>21. ASSUME NEW t \in Tasks, OtaReboot(t)
      PROVE  Shaped'
  BY <1>21, <1>0 DEF Shaped, JobShape, Rebooting, Temporary, Durable, Jobs, NoJob,
     OtaReboot
<1>22. CASE Still
  BY <1>22, <1>0 DEF Shaped, JobShape, Rebooting, Temporary, Durable, Jobs, NoJob, Still,
     lineVars, motorVars, autoVars, nvsVars
<1>23. CASE Schedule
  BY <1>23, <1>0 DEF Shaped, JobShape, Rebooting, Temporary, Durable, Jobs, NoJob,
     Schedule
<1>24. CASE Override
  BY <1>24, <1>0 DEF Shaped, JobShape, Rebooting, Temporary, Durable, Jobs, NoJob,
     Override
<1>25. CASE AsyncSave
  BY <1>25, <1>0 DEF Shaped, JobShape, Rebooting, Temporary, Durable, Jobs, NoJob,
     AsyncSave
<1>26. CASE RmtFault
  BY <1>26, <1>0 DEF Shaped, JobShape, Rebooting, Temporary, Durable, Jobs, NoJob,
     RmtFault
<1> QED
  BY <1>1, <1>2, <1>3, <1>4, <1>5, <1>6, <1>7, <1>8, <1>9, <1>10, <1>11, <1>12, <1>13,
     <1>14, <1>15, <1>16, <1>17, <1>18, <1>19, <1>20, <1>21, <1>22, <1>23, <1>24, <1>25,
     <1>26, ClaimOrStill, TaskNames DEF Next, StopStep, EnableStep

Holds(t) ==
  /\ Temporary(t)
  /\ \/ at[t] \in (StopPlaces \ {"drive", "halt"}) \cup {"otasave"}
     \/ at[t] = "halt" /\ job[t].stage # "first"

Holders == {t \in Tasks : Holds(t)}

Holding ==
  /\ IsFiniteSet(Holders)
  /\ maintenance >= Cardinality(Holders) + (IF ota = "held" THEN 1 ELSE 0)
  /\ maintenance > 0 => ~moving

\* The step of one task leaves the other holders alone.
Elsewhere(t) == \A u \in Tasks : u # t => at'[u] = at[u] /\ job'[u] = job[u]

LEMMA HoldersKept ==
  ASSUME NEW t \in Tasks, Elsewhere(t), Holds(t)' <=> Holds(t)
  PROVE  Holders' = Holders
<1>1. \A u \in Tasks : Holds(u)' <=> Holds(u)
  BY DEF Elsewhere, Holds, Temporary
<1> QED
  BY <1>1 DEF Holders

LEMMA HoldersLeft ==
  ASSUME NEW t \in Tasks, Elsewhere(t), Holds(t), ~Holds(t)', IsFiniteSet(Holders)
  PROVE  IsFiniteSet(Holders') /\ Cardinality(Holders') = Cardinality(Holders) - 1
<1>1. \A u \in Tasks : u # t => (Holds(u)' <=> Holds(u))
  BY DEF Elsewhere, Holds, Temporary
<1>2. Holders' = Holders \ {t} /\ t \in Holders
  BY <1>1 DEF Holders
<1> QED
  BY <1>2, FS_RemoveElement

LEMMA HoldersJoined ==
  ASSUME NEW t \in Tasks, Elsewhere(t), ~Holds(t), Holds(t)', IsFiniteSet(Holders)
  PROVE  IsFiniteSet(Holders') /\ Cardinality(Holders') = Cardinality(Holders) + 1
<1>1. \A u \in Tasks : u # t => (Holds(u)' <=> Holds(u))
  BY DEF Elsewhere, Holds, Temporary
<1>2. Holders' = Holders \cup {t} /\ t \notin Holders
  BY <1>1 DEF Holders
<1> QED
  BY <1>2, FS_AddElement

\* A step that holds and releases nothing.
LEMMA HoldSame ==
  ASSUME TypeInv, Holding, NEW t \in Tasks, Elsewhere(t), Holds(t)' <=> Holds(t),
         maintenance' = maintenance, ota' = "held" => ota = "held",
         moving' => moving \/ maintenance = 0
  PROVE  Holding'
<1>1. Holders' = Holders
  BY HoldersKept
<1>2. Cardinality(Holders) \in Nat /\ maintenance \in Nat
  BY FS_CardinalityType DEF Holding, TypeInv, TypeParts, MotorTypes
<1> QED
  BY <1>1, <1>2 DEF Holding

\* Counts are taken and released one for one.
LEMMA HoldStep ==
  ASSUME TypeInv, Shaped, Holding, Next
  PROVE  Holding'
<1>0. at \in [Tasks -> Places] /\ job \in [Tasks -> Jobs]
  BY DEF TypeInv, TypeParts, TaskTypes
<1>c. Cardinality(Holders) \in Nat /\ maintenance \in Nat
  BY FS_CardinalityType DEF Holding, TypeInv, TypeParts, MotorTypes
<1>1. ASSUME NEW t \in Tasks, Drive(t)
      PROVE  Holding'
  <2>1. Elsewhere(t)
    BY <1>1, <1>0 DEF Elsewhere, Drive
  <2>2. Holds(t)' <=> Holds(t)
    <3>1. job'[t].action = job[t].action /\ job'[t].stage = job[t].stage
      BY <1>1, <1>0 DEF Drive, Jobs
    <3>2. at[t] = "drive" /\ at'[t] = "halt"
      BY <1>1, <1>0 DEF Drive
    <3>3. job[t].stage = "first"
      BY <3>2 DEF Shaped, JobShape
    <3> QED
      BY <3>1, <3>2, <3>3 DEF Holds, Temporary, StopPlaces
  <2>3. /\ maintenance' = maintenance /\ (ota' = "held" => ota = "held")
        /\ moving' => moving \/ maintenance = 0
    BY <1>1 DEF Drive, motorVars
  <2> QED
    BY <2>1, <2>2, <2>3, HoldSame
<1>2. ASSUME NEW t \in Tasks, Halt(t)
      PROVE  Holding'
  <2>1. Elsewhere(t) /\ ~moving' /\ ota' = ota
    BY <1>2, <1>0 DEF Elsewhere, Halt
  <2>2. Holds(t)' <=> Temporary(t)
    BY <1>2, <1>0 DEF Halt, Holds, Temporary, StopPlaces
  <2>3. Holds(t) <=> Temporary(t) /\ job[t].stage # "first"
    BY <1>2 DEF Halt, Holds, StopPlaces
  <2>4. CASE HaltMaintains(t)
    <3>1. maintenance' = maintenance + 1
      BY <1>2, <2>4 DEF Halt
    <3>2. IsFiniteSet(Holders') /\ Cardinality(Holders') = Cardinality(Holders) + 1
      BY <2>1, <2>2, <2>3, <2>4, HoldersJoined DEF HaltMaintains, Holding
    <3> QED
      BY <1>c, <2>1, <3>1, <3>2 DEF Holding
  <2>5. CASE ~HaltMaintains(t)
    <3>1. maintenance' = maintenance
      BY <1>2, <2>5 DEF Halt
    <3> QED
      BY <2>1, <2>2, <2>3, <2>5, <3>1, HoldSame DEF HaltMaintains
  <2> QED
    BY <2>4, <2>5
<1>3. ASSUME NEW t \in Tasks, Settle(t)
      PROVE  Holding'
  <2>1. Elsewhere(t)
    BY <1>3, <1>0 DEF Elsewhere, Settle
  <2>2. Holds(t)' <=> Holds(t)
    BY <1>3, <1>0 DEF Holds, Temporary, StopPlaces, Jobs, Stages, Settle, Outcome,
       GivenBy, AfterHalt
  <2>3. /\ maintenance' = maintenance /\ (ota' = "held" => ota = "held")
        /\ moving' => moving \/ maintenance = 0
    BY <1>3 DEF Settle, motorVars
  <2> QED
    BY <2>1, <2>2, <2>3, HoldSame
<1>4. ASSUME NEW t \in Tasks, Automatic(t)
      PROVE  Holding'
  <2>1. Elsewhere(t)
    BY <1>4, <1>0 DEF Elsewhere, Automatic
  <2>2. Holds(t)' <=> Holds(t)
    BY <1>4, <1>0 DEF Holds, Temporary, StopPlaces, Jobs, Automatic, Outcome,
       AutomaticFailed
  <2>3. /\ maintenance' = maintenance /\ (ota' = "held" => ota = "held")
        /\ moving' => moving \/ maintenance = 0
    BY <1>4 DEF Automatic, motorVars
  <2> QED
    BY <2>1, <2>2, <2>3, HoldSame
<1>5. ASSUME NEW t \in Tasks, CommitInhibit(t)
      PROVE  Holding'
  <2>1. Elsewhere(t)
    BY <1>5, <1>0 DEF Elsewhere, CommitInhibit
  <2>2. Holds(t)' <=> Holds(t)
    BY <1>5, <1>0 DEF Holds, Temporary, StopPlaces, Jobs, CommitInhibit, Outcome,
       AutomaticFailed
  <2>3. /\ maintenance' = maintenance /\ (ota' = "held" => ota = "held")
        /\ moving' => moving \/ maintenance = 0
    BY <1>5 DEF CommitInhibit, motorVars
  <2> QED
    BY <2>1, <2>2, <2>3, HoldSame
<1>6. ASSUME NEW t \in Tasks, Verify(t)
      PROVE  Holding'
  <2>1. Elsewhere(t)
    BY <1>6, <1>0 DEF Elsewhere, Verify
  <2>2. Holds(t)' <=> Holds(t)
    BY <1>6, <1>0 DEF Holds, Temporary, StopPlaces, Jobs, Verify
  <2>3. /\ maintenance' = maintenance /\ (ota' = "held" => ota = "held")
        /\ moving' => moving \/ maintenance = 0
    BY <1>6 DEF Verify, motorVars
  <2> QED
    BY <2>1, <2>2, <2>3, HoldSame
<1>7. ASSUME NEW t \in Tasks, Judge(t)
      PROVE  Holding'
  <2>1. Elsewhere(t)
    BY <1>7, <1>0 DEF Elsewhere, Judge
  <2>2. Holds(t)' <=> Holds(t)
    BY <1>7, <1>0 DEF Holds, Temporary, StopPlaces, Jobs, Judge
  <2>3. /\ maintenance' = maintenance /\ (ota' = "held" => ota = "held")
        /\ moving' => moving \/ maintenance = 0
    BY <1>7 DEF Judge, motorVars
  <2> QED
    BY <2>1, <2>2, <2>3, HoldSame
<1>8. ASSUME NEW t \in Tasks, Persist(t)
      PROVE  Holding'
  <2>1. Elsewhere(t)
    BY <1>8, <1>0 DEF Elsewhere, Persist
  <2>2. Holds(t)' <=> Holds(t)
    BY <1>8, <1>0 DEF Holds, Temporary, StopPlaces, FallsBack, Jobs, Persist, Outcome
  <2>3. /\ maintenance' = maintenance /\ (ota' = "held" => ota = "held")
        /\ moving' => moving \/ maintenance = 0
    BY <1>8 DEF Persist, motorVars
  <2> QED
    BY <2>1, <2>2, <2>3, HoldSame
<1>9. ASSUME NEW t \in Tasks, EndStop(t)
      PROVE  Holding'
  <2>1. Elsewhere(t) /\ moving' = moving /\ at[t] = "end" /\ (ota' = "held" => ota = "held")
    BY <1>9, <1>0 DEF Elsewhere, EndStop
  <2>2. Holds(t) <=> Temporary(t)
    BY <2>1 DEF Holds, StopPlaces
  <2>3. at'[t] \in {"restart", "otasave", "idle"} /\ (at'[t] = "otasave" => job' = job)
    BY <1>9, <1>0 DEF EndStop, AfterStop
  <2>4. CASE Releases(t)
    <3>1. maintenance' = Released
      BY <1>9, <2>4 DEF EndStop
    <3>2. Temporary(t) /\ at'[t] # "otasave"
      BY <1>9, <1>0, <2>4 DEF Releases, Temporary, Durable, EndStop, AfterStop, Shaped, JobShape
    <3>3. ~Holds(t)'
      BY <2>3, <3>2 DEF Holds, StopPlaces
    <3>4. IsFiniteSet(Holders') /\ Cardinality(Holders') = Cardinality(Holders) - 1
      BY <2>1, <2>2, <3>2, <3>3, HoldersLeft DEF Holding
    <3> QED
      BY <1>c, <2>1, <3>1, <3>4 DEF Holding, Released
  <2>5. CASE ~Releases(t) /\ (Holds(t)' <=> Holds(t))
    BY <1>9, <2>1, <2>5, HoldSame DEF EndStop
  <2>6. CASE ~Releases(t) /\ Holds(t) /\ ~Holds(t)'
    <3>1. IsFiniteSet(Holders') /\ Cardinality(Holders') = Cardinality(Holders) - 1
      BY <2>1, <2>6, HoldersLeft DEF Holding
    <3>2. maintenance' = maintenance
      BY <1>9, <2>6 DEF EndStop
    <3> QED
      BY <1>c, <2>1, <3>1, <3>2 DEF Holding
  <2>7. Holds(t)' => Holds(t)
    BY <2>2, <2>3 DEF Holds, Temporary, StopPlaces
  <2> QED
    BY <2>4, <2>5, <2>6, <2>7
<1>10. ASSUME NEW t \in Tasks, Restart(t)
      PROVE  Holding'
  <2>1. Elsewhere(t)
    BY <1>10, <1>0 DEF Elsewhere, Restart
  <2>2. Holds(t)' <=> Holds(t)
    BY <1>10, <1>0 DEF Holds, Temporary, StopPlaces, Jobs, Restart
  <2>3. /\ maintenance' = maintenance /\ (ota' = "held" => ota = "held")
        /\ moving' => moving \/ maintenance = 0
    BY <1>10 DEF Restart, motorVars
  <2> QED
    BY <2>1, <2>2, <2>3, HoldSame
<1>11. ASSUME NEW t \in Tasks, ApplyManual(t)
      PROVE  Holding'
  <2>1. Elsewhere(t)
    BY <1>11, <1>0 DEF Elsewhere, ApplyManual
  <2>2. Holds(t)' <=> Holds(t)
    BY <1>11, <1>0 DEF Holds, Temporary, StopPlaces, Jobs, ApplyManual
  <2>3. /\ maintenance' = maintenance /\ (ota' = "held" => ota = "held")
        /\ moving' => moving \/ maintenance = 0
    BY <1>11 DEF ApplyManual, ManualAllowed
  <2> QED
    BY <2>1, <2>2, <2>3, HoldSame
<1>12. ASSUME NEW t \in Tasks, EnableBegin(t)
      PROVE  Holding'
  <2>1. Elsewhere(t)
    BY <1>12, <1>0 DEF Elsewhere, EnableBegin
  <2>2. Holds(t)' <=> Holds(t)
    BY <1>12, <1>0 DEF Holds, Temporary, StopPlaces, Jobs, EnableBegin
  <2>3. /\ maintenance' = maintenance /\ (ota' = "held" => ota = "held")
        /\ moving' => moving \/ maintenance = 0
    BY <1>12 DEF EnableBegin, motorVars
  <2> QED
    BY <2>1, <2>2, <2>3, HoldSame
<1>13. ASSUME NEW t \in Tasks, Recheck(t)
      PROVE  Holding'
  <2>1. Elsewhere(t)
    BY <1>13, <1>0 DEF Elsewhere, Recheck
  <2>2. Holds(t)' <=> Holds(t)
    BY <1>13, <1>0 DEF Holds, Temporary, StopPlaces, Jobs, Recheck
  <2>3. /\ maintenance' = maintenance /\ (ota' = "held" => ota = "held")
        /\ moving' => moving \/ maintenance = 0
    BY <1>13 DEF Recheck, motorVars
  <2> QED
    BY <2>1, <2>2, <2>3, HoldSame
<1>14. ASSUME NEW t \in Tasks, TurnOn(t)
      PROVE  Holding'
  <2>1. Elsewhere(t)
    BY <1>14, <1>0 DEF Elsewhere, TurnOn
  <2>2. Holds(t)' <=> Holds(t)
    BY <1>14, <1>0 DEF Holds, Temporary, StopPlaces, Jobs, TurnOn, Outcome
  <2>3. /\ maintenance' = maintenance /\ (ota' = "held" => ota = "held")
        /\ moving' => moving \/ maintenance = 0
    BY <1>14 DEF TurnOn, motorVars
  <2> QED
    BY <2>1, <2>2, <2>3, HoldSame
<1>15. ASSUME NEW t \in Tasks, Confirm(t)
      PROVE  Holding'
  <2>1. Elsewhere(t)
    BY <1>15, <1>0 DEF Elsewhere, Confirm
  <2>2. Holds(t)' <=> Holds(t)
    BY <1>15, <1>0 DEF Holds, Temporary, StopPlaces, Jobs, Confirm, Outcome
  <2>3. /\ maintenance' = maintenance /\ (ota' = "held" => ota = "held")
        /\ moving' => moving \/ maintenance = 0
    BY <1>15 DEF Confirm, motorVars
  <2> QED
    BY <2>1, <2>2, <2>3, HoldSame
<1>16. ASSUME NEW t \in Tasks, LeaveEnable(t)
      PROVE  Holding'
  <2>1. Elsewhere(t)
    BY <1>16, <1>0 DEF Elsewhere, LeaveEnable
  <2>2. Holds(t)' <=> Holds(t)
    BY <1>16, <1>0 DEF Holds, Temporary, StopPlaces, NoJob, Jobs, LeaveEnable
  <2>3. /\ maintenance' = maintenance /\ (ota' = "held" => ota = "held")
        /\ moving' => moving \/ maintenance = 0
    BY <1>16 DEF LeaveEnable, motorVars
  <2> QED
    BY <2>1, <2>2, <2>3, HoldSame
<1>17. ASSUME NEW t \in Tasks, OtaSave(t)
      PROVE  Holding'
  <2>1. Elsewhere(t) /\ moving' = moving /\ at[t] = "otasave"
    BY <1>17, <1>0 DEF Elsewhere, OtaSave
  <2>2. Holds(t)
    BY <2>1 DEF Holds, Temporary, Shaped, JobShape, Durable
  <2>3. ~Holds(t)'
    BY <1>17, <1>0 DEF Holds, OtaSave, StopPlaces
  <2>4. IsFiniteSet(Holders') /\ Cardinality(Holders') = Cardinality(Holders) - 1
    BY <2>1, <2>2, <2>3, HoldersLeft DEF Holding
  <2>5. \/ ota' = "held" /\ maintenance' = maintenance
        \/ ota' = ota /\ maintenance' = Released
    BY <1>17 DEF OtaSave
  <2> QED
    BY <1>c, <2>1, <2>4, <2>5 DEF Holding, Released
<1>18. ASSUME NEW t \in Tasks, CommandBegin(t)
      PROVE  Holding'
  <2>1. Elsewhere(t)
    BY <1>18, <1>0 DEF Elsewhere, CommandBegin
  <2>2. Holds(t)' <=> Holds(t)
    BY <1>18, <1>0 DEF Holds, Temporary, StopPlaces, Jobs, CommandBegin
  <2>3. /\ maintenance' = maintenance /\ (ota' = "held" => ota = "held")
        /\ moving' => moving \/ maintenance = 0
    BY <1>18 DEF CommandBegin, motorVars
  <2> QED
    BY <2>1, <2>2, <2>3, HoldSame
<1>19. ASSUME NEW t \in Tasks, OtaAbort(t)
      PROVE  Holding'
  <2>1. Elsewhere(t) /\ moving' = moving /\ ota = "held" /\ ota' = "aborting"
        /\ maintenance' = Released
    BY <1>19, <1>0 DEF Elsewhere, OtaAbort
  <2>2. Holds(t)' <=> Holds(t)
    BY <1>19, <1>0 DEF OtaAbort, Holds, StopPlaces
  <2>3. Holders' = Holders
    BY <2>1, <2>2, HoldersKept
  <2> QED
    BY <1>c, <2>1, <2>3 DEF Holding, Released
<1>20. ASSUME NEW t \in Tasks, Claim(t)
      PROVE  Holding'
  <2>1. Elsewhere(t)
    BY <1>20, <1>0 DEF Elsewhere, Claim, ClaimStop
  <2>2. Holds(t)' <=> Holds(t)
    BY <1>20, <1>0 DEF Holds, Temporary, StopPlaces, NoJob, Jobs, Claim, ClaimStop
  <2>3. /\ maintenance' = maintenance /\ (ota' = "held" => ota = "held")
        /\ moving' => moving \/ maintenance = 0
    BY <1>20 DEF Claim, ClaimStop, motorVars
  <2> QED
    BY <2>1, <2>2, <2>3, HoldSame
<1>21. ASSUME NEW t \in Tasks, OtaReboot(t)
      PROVE  Holding'
  <2>1. Holders' = Holders
    BY <1>21 DEF Holders, Holds, Temporary, OtaReboot
  <2> QED
    BY <1>21, <2>1 DEF Holding, OtaReboot, motorVars
<1>22. CASE Still
  <2>1. Holders' = Holders
    BY <1>22 DEF Holders, Holds, Temporary, Still
  <2> QED
    BY <1>22, <2>1 DEF Holding, Still, lineVars, motorVars
<1>23. CASE Schedule
  <2>1. Holders' = Holders
    BY <1>23 DEF Holders, Holds, Temporary, Schedule
  <2> QED
    BY <1>23, <2>1 DEF Holding, Schedule, AutomaticAllowed, ManualAllowed
<1>24. CASE Override
  <2>1. Holders' = Holders
    BY <1>24 DEF Holders, Holds, Temporary, Override
  <2> QED
    BY <1>24, <2>1 DEF Holding, Override, motorVars
<1>25. CASE AsyncSave
  <2>1. Holders' = Holders
    BY <1>25 DEF Holders, Holds, Temporary, AsyncSave
  <2> QED
    BY <1>25, <2>1 DEF Holding, AsyncSave, motorVars
<1>26. CASE RmtFault
  <2>1. Holders' = Holders
    BY <1>26 DEF Holders, Holds, Temporary, RmtFault
  <2> QED
    BY <1>26, <2>1 DEF Holding, RmtFault
<1> QED
  BY <1>1, <1>2, <1>3, <1>4, <1>5, <1>6, <1>7, <1>8, <1>9, <1>10, <1>11, <1>12, <1>13,
     <1>14, <1>15, <1>16, <1>17, <1>18, <1>19, <1>20, <1>21, <1>22, <1>23, <1>24, <1>25,
     <1>26, ClaimOrStill, TaskNames DEF Next, StopStep, EnableStep

-----------------------------------------------------------------------------
(* The reboot.  What was latched stays latched, so that both commits of a  *)
(* stop that reboots are still in flash when the node restarts.            *)

Latching ==
  /\ latched => autoInhibit
  /\ \A t \in Tasks : at[t] = "commit" => latched
  /\ \A t \in Tasks : job[t].automatic => latched /\ autoNvs

\* A stop before a reboot has zeroed the targets, and nobody may set them again.
Quenched ==
  \A t \in Tasks :
    Rebooting(t) /\ at[t] \in (StopPlaces \ {"drive", "halt"}) \cup {"restart"} =>
      /\ job[t].action \in inhibits /\ ~manual
      /\ job[t].saved => ~manualNvs

\* A durable stop without an error has made both commits.
Complete ==
  \A t \in Tasks : ~Temporary(t) /\ ~job[t].failed =>
    /\ at[t] \in {"verify", "judge", "persist", "end"} => job[t].automatic
    /\ at[t] = "end" /\ job[t].clear => job[t].saved

Unsaved ==
  \A t \in Tasks : at[t] \in {"drive", "halt"} /\ job[t].stage = "first" => ~job[t].saved

Committed ==
  \A t \in Tasks : at[t] = "restart" => Rebooting(t) /\ job[t].automatic /\ job[t].saved

RebootInv == Latching /\ Quenched /\ Complete /\ Unsaved /\ Committed

\* No step takes back what a stop has latched or committed.
LEMMA RebootStep ==
  ASSUME TypeInv, Shaped, RebootInv, Next
  PROVE  RebootInv'
<1> USE DEF RebootInv
<1>0. at \in [Tasks -> Places] /\ job \in [Tasks -> Jobs]
  BY DEF TypeInv, TypeParts, TaskTypes
<1>1. ASSUME NEW t \in Tasks, Drive(t)
      PROVE  RebootInv'
  <2>1. Latching'
    BY <1>1, <1>0 DEF Latching, Jobs, Drive, autoVars, nvsVars, Outcome
  <2>2. Quenched'
    BY <1>1, <1>0 DEF Quenched, Rebooting, Temporary, Durable, StopPlaces, Shaped,
       JobShape, Jobs, Drive, motorVars, nvsVars, Outcome
  <2>3. Complete'
    BY <1>1, <1>0 DEF Complete, Rebooting, Temporary, Durable, Jobs, Drive, Outcome
  <2>4. Unsaved'
    BY <1>1, <1>0 DEF Unsaved, Jobs, Drive, Outcome
  <2>5. Committed'
    BY <1>1, <1>0 DEF Committed, Rebooting, Temporary, Durable, Jobs, Drive, Outcome
  <2> QED
    BY <2>1, <2>2, <2>3, <2>4, <2>5
<1>2. ASSUME NEW t \in Tasks, Halt(t)
      PROVE  RebootInv'
  <2>1. Latching'
    BY <1>2, <1>0 DEF Latching, Jobs, Halt, autoVars, nvsVars, HaltInhibits,
       HaltMaintains
  <2>2. Quenched'
    BY <1>2, <1>0 DEF Quenched, Rebooting, Temporary, Durable, StopPlaces, Shaped,
       JobShape, Unsaved, Jobs, Halt, nvsVars, HaltInhibits, HaltMaintains
  <2>3. Complete'
    BY <1>2, <1>0 DEF Complete, Rebooting, Temporary, Durable, Jobs, Halt, HaltInhibits,
       HaltMaintains
  <2>4. Unsaved'
    BY <1>2, <1>0 DEF Unsaved, Jobs, Halt, HaltInhibits, HaltMaintains
  <2>5. Committed'
    BY <1>2, <1>0 DEF Committed, Rebooting, Temporary, Durable, Jobs, Halt, HaltInhibits,
       HaltMaintains
  <2> QED
    BY <2>1, <2>2, <2>3, <2>4, <2>5
<1>3. ASSUME NEW t \in Tasks, Settle(t)
      PROVE  RebootInv'
  <2>1. Latching'
    BY <1>3, <1>0 DEF Latching, Stages, Jobs, Settle, autoVars, nvsVars, Outcome,
       GivenBy, AfterHalt
  <2>2. Quenched'
    BY <1>3, <1>0 DEF Quenched, Rebooting, Temporary, Durable, StopPlaces, Shaped,
       JobShape, Stages, Jobs, Settle, motorVars, nvsVars, Outcome, GivenBy, AfterHalt
  <2>3. Complete'
    <3>1. \A u \in Tasks : u # t => at'[u] = at[u] /\ job'[u] = job[u]
      BY <1>3, <1>0 DEF Settle
    <3>2. job'[t].action = job[t].action
      BY <1>3, <1>0 DEF Settle, Jobs
    <3>3. ~Temporary(t) => at'[t] = "automatic"
      BY <1>3, <1>0 DEF Settle, AfterHalt, Shaped, JobShape
    <3> QED
      BY <3>1, <3>2, <3>3 DEF Complete, Temporary
  <2>4. Unsaved'
    BY <1>3, <1>0 DEF Unsaved, Stages, Jobs, Settle, Outcome, GivenBy, AfterHalt
  <2>5. Committed'
    BY <1>3, <1>0 DEF Committed, Rebooting, Temporary, Durable, Stages, Jobs, Settle,
       Outcome, GivenBy, AfterHalt
  <2> QED
    BY <2>1, <2>2, <2>3, <2>4, <2>5
<1>4. ASSUME NEW t \in Tasks, Automatic(t)
      PROVE  RebootInv'
  <2>1. Latching'
    <3>1. \A u \in Tasks : job'[u].automatic = job[u].automatic
      BY <1>4, <1>0 DEF Automatic, AutomaticFailed, Jobs
    <3>2. (latched => latched') /\ (autoInhibit => autoInhibit') /\ UNCHANGED autoNvs
      BY <1>4 DEF Automatic, nvsVars
    <3>3. latched' => latched \/ autoInhibit'
      BY <1>4 DEF Automatic
    <3>4. at'[t] = "commit" => latched'
      BY <1>4, <1>0 DEF Automatic
    <3>5. \A u \in Tasks : u # t => at'[u] = at[u]
      BY <1>4, <1>0 DEF Automatic
    <3> QED
      BY <3>1, <3>2, <3>3, <3>4, <3>5 DEF Latching
  <2>2. Quenched'
    BY <1>4, <1>0 DEF Quenched, Rebooting, Temporary, Durable, StopPlaces, Shaped,
       JobShape, Jobs, Automatic, motorVars, nvsVars, Outcome, AutomaticFailed
  <2>3. Complete'
    BY <1>4, <1>0 DEF Complete, Rebooting, Temporary, Durable, Jobs, Automatic, Outcome,
       AutomaticFailed
  <2>4. Unsaved'
    BY <1>4, <1>0 DEF Unsaved, Jobs, Automatic, Outcome, AutomaticFailed
  <2>5. Committed'
    BY <1>4, <1>0 DEF Committed, Rebooting, Temporary, Durable, Jobs, Automatic, Outcome,
       AutomaticFailed
  <2> QED
    BY <2>1, <2>2, <2>3, <2>4, <2>5
<1>5. ASSUME NEW t \in Tasks, CommitInhibit(t)
      PROVE  RebootInv'
  <2>1. Latching'
    BY <1>5, <1>0 DEF Latching, Jobs, CommitInhibit, autoVars, Outcome, AutomaticFailed
  <2>2. Quenched'
    BY <1>5, <1>0 DEF Quenched, Rebooting, Temporary, Durable, StopPlaces, Shaped,
       JobShape, Jobs, CommitInhibit, motorVars, Outcome, AutomaticFailed
  <2>3. Complete'
    BY <1>5, <1>0 DEF Complete, Rebooting, Temporary, Durable, Jobs, CommitInhibit,
       Outcome, AutomaticFailed
  <2>4. Unsaved'
    BY <1>5, <1>0 DEF Unsaved, Jobs, CommitInhibit, Outcome, AutomaticFailed
  <2>5. Committed'
    BY <1>5, <1>0 DEF Committed, Rebooting, Temporary, Durable, Jobs, CommitInhibit,
       Outcome, AutomaticFailed
  <2> QED
    BY <2>1, <2>2, <2>3, <2>4, <2>5
<1>6. ASSUME NEW t \in Tasks, Verify(t)
      PROVE  RebootInv'
  <2>1. Latching'
    BY <1>6, <1>0 DEF Latching, Jobs, Verify, autoVars, nvsVars
  <2>2. Quenched'
    BY <1>6, <1>0 DEF Quenched, Rebooting, Temporary, Durable, StopPlaces, Shaped,
       JobShape, Jobs, Verify, motorVars, nvsVars
  <2>3. Complete'
    BY <1>6, <1>0 DEF Complete, Rebooting, Temporary, Durable, Jobs, Verify
  <2>4. Unsaved'
    BY <1>6, <1>0 DEF Unsaved, Jobs, Verify
  <2>5. Committed'
    BY <1>6, <1>0 DEF Committed, Rebooting, Temporary, Durable, Jobs, Verify
  <2> QED
    BY <2>1, <2>2, <2>3, <2>4, <2>5
<1>7. ASSUME NEW t \in Tasks, Judge(t)
      PROVE  RebootInv'
  <2>1. Latching'
    BY <1>7, <1>0 DEF Latching, Jobs, Judge, autoVars, nvsVars
  <2>2. Quenched'
    BY <1>7, <1>0 DEF Quenched, Rebooting, Temporary, Durable, StopPlaces, Shaped,
       JobShape, Jobs, Judge, motorVars, nvsVars
  <2>3. Complete'
    BY <1>7, <1>0 DEF Complete, Rebooting, Temporary, Durable, Jobs, Judge
  <2>4. Unsaved'
    BY <1>7, <1>0 DEF Unsaved, Jobs, Judge
  <2>5. Committed'
    BY <1>7, <1>0 DEF Committed, Rebooting, Temporary, Durable, Jobs, Judge
  <2> QED
    BY <2>1, <2>2, <2>3, <2>4, <2>5
<1>8. ASSUME NEW t \in Tasks, Persist(t)
      PROVE  RebootInv'
  <2>1. Latching'
    BY <1>8, <1>0 DEF Latching, FallsBack, Jobs, Persist, autoVars, Outcome
  <2>2. Quenched'
    BY <1>8, <1>0 DEF Quenched, Rebooting, Temporary, Durable, StopPlaces, Shaped,
       JobShape, FallsBack, Jobs, Persist, motorVars, Outcome
  <2>3. Complete'
    BY <1>8, <1>0 DEF Complete, Rebooting, Temporary, Durable, FallsBack, Jobs, Persist,
       Outcome
  <2>4. Unsaved'
    BY <1>8, <1>0 DEF Unsaved, FallsBack, Jobs, Persist, Outcome
  <2>5. Committed'
    BY <1>8, <1>0 DEF Committed, Rebooting, Temporary, Durable, FallsBack, Jobs, Persist,
       Outcome
  <2> QED
    BY <2>1, <2>2, <2>3, <2>4, <2>5
<1>9. ASSUME NEW t \in Tasks, EndStop(t)
      PROVE  RebootInv'
  <2>1. Latching'
    BY <1>9, <1>0 DEF Latching, NoJob, Jobs, EndStop, autoVars, nvsVars, Released,
       AfterStop, Reboots
  <2>2. Quenched'
    BY <1>9, <1>0 DEF Quenched, Rebooting, Temporary, Durable, StopPlaces, Shaped,
       JobShape, NoJob, Jobs, EndStop, nvsVars, Released, AfterStop, Reboots
  <2>3. Complete'
    BY <1>9, <1>0 DEF Complete, Rebooting, Temporary, Durable, NoJob, Jobs, EndStop,
       Released, AfterStop, Reboots
  <2>4. Unsaved'
    BY <1>9, <1>0 DEF Unsaved, NoJob, Jobs, EndStop, Released, AfterStop, Reboots
  <2>5. Committed'
    BY <1>9, <1>0 DEF Committed, Rebooting, Temporary, Durable, Complete, Shaped,
       JobShape, NoJob, Jobs, EndStop, Released, AfterStop, Reboots
  <2> QED
    BY <2>1, <2>2, <2>3, <2>4, <2>5
<1>10. ASSUME NEW t \in Tasks, Restart(t)
      PROVE  RebootInv'
  <2>1. Latching'
    BY <1>10, <1>0 DEF Latching, Jobs, Restart, autoVars, nvsVars
  <2>2. Quenched'
    BY <1>10, <1>0 DEF Quenched, Rebooting, Temporary, Durable, StopPlaces, Shaped,
       JobShape, Jobs, Restart, motorVars, nvsVars
  <2>3. Complete'
    BY <1>10, <1>0 DEF Complete, Rebooting, Temporary, Durable, Jobs, Restart
  <2>4. Unsaved'
    BY <1>10, <1>0 DEF Unsaved, Jobs, Restart
  <2>5. Committed'
    BY <1>10, <1>0 DEF Committed, Rebooting, Temporary, Durable, Jobs, Restart
  <2> QED
    BY <2>1, <2>2, <2>3, <2>4, <2>5
<1>11. ASSUME NEW t \in Tasks, ApplyManual(t)
      PROVE  RebootInv'
  <2>1. Latching'
    BY <1>11, <1>0 DEF Latching, Jobs, ApplyManual, autoVars, nvsVars
  <2>2. Quenched'
    BY <1>11, <1>0 DEF Quenched, Rebooting, Temporary, Durable, StopPlaces, Shaped,
       JobShape, ManualAllowed, Jobs, ApplyManual, nvsVars
  <2>3. Complete'
    BY <1>11, <1>0 DEF Complete, Rebooting, Temporary, Durable, Jobs, ApplyManual
  <2>4. Unsaved'
    BY <1>11, <1>0 DEF Unsaved, Jobs, ApplyManual
  <2>5. Committed'
    BY <1>11, <1>0 DEF Committed, Rebooting, Temporary, Durable, Jobs, ApplyManual
  <2> QED
    BY <2>1, <2>2, <2>3, <2>4, <2>5
<1>12. ASSUME NEW t \in Tasks, EnableBegin(t)
      PROVE  RebootInv'
  <2>1. Latching'
    BY <1>12, <1>0 DEF Latching, Jobs, EnableBegin, autoVars, nvsVars
  <2>2. Quenched'
    BY <1>12, <1>0 DEF Quenched, Rebooting, Temporary, Durable, StopPlaces, Shaped,
       JobShape, Jobs, EnableBegin, motorVars, nvsVars
  <2>3. Complete'
    BY <1>12, <1>0 DEF Complete, Rebooting, Temporary, Durable, Jobs, EnableBegin
  <2>4. Unsaved'
    BY <1>12, <1>0 DEF Unsaved, Jobs, EnableBegin
  <2>5. Committed'
    BY <1>12, <1>0 DEF Committed, Rebooting, Temporary, Durable, Jobs, EnableBegin
  <2> QED
    BY <2>1, <2>2, <2>3, <2>4, <2>5
<1>13. ASSUME NEW t \in Tasks, Recheck(t)
      PROVE  RebootInv'
  <2>1. Latching'
    BY <1>13, <1>0 DEF Latching, Jobs, Recheck, autoVars, nvsVars
  <2>2. Quenched'
    BY <1>13, <1>0 DEF Quenched, Rebooting, Temporary, Durable, StopPlaces, Shaped,
       JobShape, Jobs, Recheck, motorVars, nvsVars
  <2>3. Complete'
    BY <1>13, <1>0 DEF Complete, Rebooting, Temporary, Durable, Jobs, Recheck
  <2>4. Unsaved'
    BY <1>13, <1>0 DEF Unsaved, Jobs, Recheck
  <2>5. Committed'
    BY <1>13, <1>0 DEF Committed, Rebooting, Temporary, Durable, Jobs, Recheck
  <2> QED
    BY <2>1, <2>2, <2>3, <2>4, <2>5
<1>14. ASSUME NEW t \in Tasks, TurnOn(t)
      PROVE  RebootInv'
  <2>1. Latching'
    BY <1>14, <1>0 DEF Latching, Jobs, TurnOn, autoVars, nvsVars, Outcome
  <2>2. Quenched'
    BY <1>14, <1>0 DEF Quenched, Rebooting, Temporary, Durable, StopPlaces, Shaped,
       JobShape, Jobs, TurnOn, motorVars, nvsVars, Outcome
  <2>3. Complete'
    BY <1>14, <1>0 DEF Complete, Rebooting, Temporary, Durable, Jobs, TurnOn, Outcome
  <2>4. Unsaved'
    BY <1>14, <1>0 DEF Unsaved, Jobs, TurnOn, Outcome
  <2>5. Committed'
    BY <1>14, <1>0 DEF Committed, Rebooting, Temporary, Durable, Jobs, TurnOn, Outcome
  <2> QED
    BY <2>1, <2>2, <2>3, <2>4, <2>5
<1>15. ASSUME NEW t \in Tasks, Confirm(t)
      PROVE  RebootInv'
  <2>1. Latching'
    BY <1>15, <1>0 DEF Latching, Jobs, Confirm, autoVars, nvsVars, Outcome
  <2>2. Quenched'
    BY <1>15, <1>0 DEF Quenched, Rebooting, Temporary, Durable, StopPlaces, Shaped,
       JobShape, Jobs, Confirm, motorVars, nvsVars, Outcome
  <2>3. Complete'
    BY <1>15, <1>0 DEF Complete, Rebooting, Temporary, Durable, Jobs, Confirm, Outcome
  <2>4. Unsaved'
    BY <1>15, <1>0 DEF Unsaved, Jobs, Confirm, Outcome
  <2>5. Committed'
    BY <1>15, <1>0 DEF Committed, Rebooting, Temporary, Durable, Jobs, Confirm, Outcome
  <2> QED
    BY <2>1, <2>2, <2>3, <2>4, <2>5
<1>16. ASSUME NEW t \in Tasks, LeaveEnable(t)
      PROVE  RebootInv'
  <2>1. Latching'
    BY <1>16, <1>0 DEF Latching, NoJob, Jobs, LeaveEnable, autoVars, nvsVars
  <2>2. Quenched'
    BY <1>16, <1>0 DEF Quenched, Rebooting, Temporary, Durable, StopPlaces, Shaped,
       JobShape, NoJob, Jobs, LeaveEnable, motorVars, nvsVars
  <2>3. Complete'
    BY <1>16, <1>0 DEF Complete, Rebooting, Temporary, Durable, NoJob, Jobs, LeaveEnable
  <2>4. Unsaved'
    BY <1>16, <1>0 DEF Unsaved, NoJob, Jobs, LeaveEnable
  <2>5. Committed'
    BY <1>16, <1>0 DEF Committed, Rebooting, Temporary, Durable, NoJob, Jobs, LeaveEnable
  <2> QED
    BY <2>1, <2>2, <2>3, <2>4, <2>5
<1>17. ASSUME NEW t \in Tasks, OtaSave(t)
      PROVE  RebootInv'
  <2>1. Latching'
    BY <1>17, <1>0 DEF Latching, NoJob, Jobs, OtaSave, autoVars, Outcome, Released
  <2>2. Quenched'
    BY <1>17, <1>0 DEF Quenched, Rebooting, Temporary, Durable, StopPlaces, Shaped,
       JobShape, NoJob, Jobs, OtaSave, Outcome, Released
  <2>3. Complete'
    BY <1>17, <1>0 DEF Complete, Rebooting, Temporary, Durable, NoJob, Jobs, OtaSave,
       Outcome, Released
  <2>4. Unsaved'
    BY <1>17, <1>0 DEF Unsaved, NoJob, Jobs, OtaSave, Outcome, Released
  <2>5. Committed'
    BY <1>17, <1>0 DEF Committed, Rebooting, Temporary, Durable, NoJob, Jobs, OtaSave,
       Outcome, Released
  <2> QED
    BY <2>1, <2>2, <2>3, <2>4, <2>5
<1>18. ASSUME NEW t \in Tasks, CommandBegin(t)
      PROVE  RebootInv'
  <2>1. Latching'
    BY <1>18, <1>0 DEF Latching, Jobs, CommandBegin, autoVars, nvsVars
  <2>2. Quenched'
    BY <1>18, <1>0 DEF Quenched, Rebooting, Temporary, Durable, StopPlaces, Shaped,
       JobShape, Jobs, CommandBegin, motorVars, nvsVars
  <2>3. Complete'
    BY <1>18, <1>0 DEF Complete, Rebooting, Temporary, Durable, Jobs, CommandBegin
  <2>4. Unsaved'
    BY <1>18, <1>0 DEF Unsaved, Jobs, CommandBegin
  <2>5. Committed'
    BY <1>18, <1>0 DEF Committed, Rebooting, Temporary, Durable, Jobs, CommandBegin
  <2> QED
    BY <2>1, <2>2, <2>3, <2>4, <2>5
<1>19. ASSUME NEW t \in Tasks, OtaAbort(t)
      PROVE  RebootInv'
  <2>1. Latching'
    BY <1>19, <1>0 DEF Latching, Jobs, OtaAbort, autoVars, nvsVars, Released
  <2>2. Quenched'
    BY <1>19, <1>0 DEF Quenched, Rebooting, Temporary, Durable, StopPlaces, Shaped,
       JobShape, Jobs, OtaAbort, nvsVars, Released
  <2>3. Complete'
    BY <1>19, <1>0 DEF Complete, Rebooting, Temporary, Durable, Jobs, OtaAbort, Released
  <2>4. Unsaved'
    BY <1>19, <1>0 DEF Unsaved, Jobs, OtaAbort, Released
  <2>5. Committed'
    BY <1>19, <1>0 DEF Committed, Rebooting, Temporary, Durable, Jobs, OtaAbort, Released
  <2> QED
    BY <2>1, <2>2, <2>3, <2>4, <2>5
<1>20. ASSUME NEW t \in Tasks, Claim(t)
      PROVE  RebootInv'
  <2>1. Latching'
    BY <1>20, <1>0 DEF Latching, NoJob, Jobs, Claim, ClaimStop, motorVars, autoVars,
       nvsVars
  <2>2. Quenched'
    BY <1>20, <1>0 DEF Quenched, Rebooting, Temporary, Durable, StopPlaces, Shaped,
       JobShape, NoJob, Jobs, Claim, ClaimStop, motorVars, autoVars, nvsVars
  <2>3. Complete'
    BY <1>20, <1>0 DEF Complete, Rebooting, Temporary, Durable, NoJob, Jobs, Claim,
       ClaimStop, motorVars, autoVars, nvsVars
  <2>4. Unsaved'
    BY <1>20, <1>0 DEF Unsaved, NoJob, Jobs, Claim, ClaimStop, motorVars, autoVars,
       nvsVars
  <2>5. Committed'
    BY <1>20, <1>0 DEF Committed, Rebooting, Temporary, Durable, NoJob, Jobs, Claim,
       ClaimStop, motorVars, autoVars, nvsVars
  <2> QED
    BY <2>1, <2>2, <2>3, <2>4, <2>5
<1>21. ASSUME NEW t \in Tasks, OtaReboot(t)
      PROVE  RebootInv'
  <2>1. Latching'
    BY <1>21, <1>0 DEF Latching, Jobs, OtaReboot, autoVars, nvsVars
  <2>2. Quenched'
    BY <1>21, <1>0 DEF Quenched, Rebooting, Temporary, Durable, StopPlaces, Shaped,
       JobShape, Jobs, OtaReboot, motorVars, nvsVars
  <2>3. Complete'
    BY <1>21, <1>0 DEF Complete, Rebooting, Temporary, Durable, Jobs, OtaReboot
  <2>4. Unsaved'
    BY <1>21, <1>0 DEF Unsaved, Jobs, OtaReboot
  <2>5. Committed'
    BY <1>21, <1>0 DEF Committed, Rebooting, Temporary, Durable, Jobs, OtaReboot
  <2> QED
    BY <2>1, <2>2, <2>3, <2>4, <2>5
<1>22. CASE Still
  <2>1. Latching'
    BY <1>22, <1>0 DEF Latching, Jobs, Still, lineVars, motorVars, autoVars, nvsVars
  <2>2. Quenched'
    BY <1>22, <1>0 DEF Quenched, Rebooting, Temporary, Durable, StopPlaces, Shaped,
       JobShape, Jobs, Still, lineVars, motorVars, autoVars, nvsVars
  <2>3. Complete'
    BY <1>22, <1>0 DEF Complete, Rebooting, Temporary, Durable, Jobs, Still, lineVars,
       motorVars, autoVars, nvsVars
  <2>4. Unsaved'
    BY <1>22, <1>0 DEF Unsaved, Jobs, Still, lineVars, motorVars, autoVars, nvsVars
  <2>5. Committed'
    BY <1>22, <1>0 DEF Committed, Rebooting, Temporary, Durable, Jobs, Still, lineVars,
       motorVars, autoVars, nvsVars
  <2> QED
    BY <2>1, <2>2, <2>3, <2>4, <2>5
<1>23. CASE Schedule
  <2>1. Latching'
    BY <1>23, <1>0 DEF Latching, Jobs, Schedule, autoVars, nvsVars
  <2>2. Quenched'
    BY <1>23, <1>0 DEF Quenched, Rebooting, Temporary, Durable, StopPlaces, Shaped,
       JobShape, Jobs, Schedule, nvsVars
  <2>3. Complete'
    BY <1>23, <1>0 DEF Complete, Rebooting, Temporary, Durable, Jobs, Schedule
  <2>4. Unsaved'
    BY <1>23, <1>0 DEF Unsaved, Jobs, Schedule
  <2>5. Committed'
    BY <1>23, <1>0 DEF Committed, Rebooting, Temporary, Durable, Jobs, Schedule
  <2> QED
    BY <2>1, <2>2, <2>3, <2>4, <2>5
<1>24. CASE Override
  <2>1. Latching'
    BY <1>24, <1>0 DEF Latching, Jobs, Override, nvsVars
  <2>2. Quenched'
    BY <1>24, <1>0 DEF Quenched, Rebooting, Temporary, Durable, StopPlaces, Shaped,
       JobShape, Jobs, Override, motorVars, nvsVars
  <2>3. Complete'
    BY <1>24, <1>0 DEF Complete, Rebooting, Temporary, Durable, Jobs, Override
  <2>4. Unsaved'
    BY <1>24, <1>0 DEF Unsaved, Jobs, Override
  <2>5. Committed'
    BY <1>24, <1>0 DEF Committed, Rebooting, Temporary, Durable, Jobs, Override
  <2> QED
    BY <2>1, <2>2, <2>3, <2>4, <2>5
<1>25. CASE AsyncSave
  <2>1. Latching'
    BY <1>25, <1>0 DEF Latching, Jobs, AsyncSave, autoVars
  <2>2. Quenched'
    BY <1>25, <1>0 DEF Quenched, Rebooting, Temporary, Durable, StopPlaces, Shaped,
       JobShape, Jobs, AsyncSave, motorVars
  <2>3. Complete'
    BY <1>25, <1>0 DEF Complete, Rebooting, Temporary, Durable, Jobs, AsyncSave
  <2>4. Unsaved'
    BY <1>25, <1>0 DEF Unsaved, Jobs, AsyncSave
  <2>5. Committed'
    BY <1>25, <1>0 DEF Committed, Rebooting, Temporary, Durable, Jobs, AsyncSave
  <2> QED
    BY <2>1, <2>2, <2>3, <2>4, <2>5
<1>26. CASE RmtFault
  <2>1. Latching'
    BY <1>26, <1>0 DEF Latching, Jobs, RmtFault, autoVars, nvsVars
  <2>2. Quenched'
    BY <1>26, <1>0 DEF Quenched, Rebooting, Temporary, Durable, StopPlaces, Shaped,
       JobShape, Jobs, RmtFault, nvsVars
  <2>3. Complete'
    BY <1>26, <1>0 DEF Complete, Rebooting, Temporary, Durable, Jobs, RmtFault
  <2>4. Unsaved'
    BY <1>26, <1>0 DEF Unsaved, Jobs, RmtFault
  <2>5. Committed'
    BY <1>26, <1>0 DEF Committed, Rebooting, Temporary, Durable, Jobs, RmtFault
  <2> QED
    BY <2>1, <2>2, <2>3, <2>4, <2>5
<1> QED
  BY <1>1, <1>2, <1>3, <1>4, <1>5, <1>6, <1>7, <1>8, <1>9, <1>10, <1>11, <1>12, <1>13,
     <1>14, <1>15, <1>16, <1>17, <1>18, <1>19, <1>20, <1>21, <1>22, <1>23, <1>24, <1>25,
     <1>26, ClaimOrStill, TaskNames DEF Next, StopStep, EnableStep

-----------------------------------------------------------------------------
(* The escalation.  A temporary stop with an error makes a second motor    *)
(* stop that latches, and nothing takes the global latch back.             *)

Escalated ==
  \A t \in Tasks :
    /\ /\ at[t] \in {"settle", "persist", "end"}
       /\ job[t].stage \in {"fallback", "refallback"}
       => "GLOBAL" \in inhibits
    /\ at[t] \in {"automatic", "commit", "verify", "judge"} =>
         job[t].stage \in {"first", "verify"}
    /\ ~job[t].fellBack => "GLOBAL" \in inhibits
    /\ at[t] \in {"persist", "end"} /\ Temporary(t) /\ job[t].failed =>
         "GLOBAL" \in inhibits

\* Only a motor stop of a later stage leads an error past the judgement.
LEMMA EscalationStep ==
  ASSUME TypeInv, Shaped, Escalated, Next
  PROVE  Escalated'
<1>0. at \in [Tasks -> Places] /\ job \in [Tasks -> Jobs]
  BY DEF TypeInv, TypeParts, TaskTypes
<1>1. ASSUME NEW t \in Tasks, Drive(t)
      PROVE  Escalated'
  BY <1>1, <1>0 DEF Escalated, Temporary, Durable, Jobs, Drive, motorVars, Outcome
<1>2. ASSUME NEW t \in Tasks, Halt(t)
      PROVE  Escalated'
  BY <1>2, <1>0 DEF Escalated, Temporary, Durable, Jobs, Halt, HaltInhibits,
     HaltMaintains
<1>3. ASSUME NEW t \in Tasks, Settle(t)
      PROVE  Escalated'
  BY <1>3, <1>0 DEF Escalated, Temporary, Durable, Stages, Shaped, JobShape, Jobs,
     Settle, motorVars, Outcome, GivenBy, AfterHalt
<1>4. ASSUME NEW t \in Tasks, Automatic(t)
      PROVE  Escalated'
  BY <1>4, <1>0 DEF Escalated, Temporary, Durable, Jobs, Automatic, motorVars, Outcome,
     AutomaticFailed
<1>5. ASSUME NEW t \in Tasks, CommitInhibit(t)
      PROVE  Escalated'
  BY <1>5, <1>0 DEF Escalated, Temporary, Durable, Jobs, CommitInhibit, motorVars,
     Outcome, AutomaticFailed
<1>6. ASSUME NEW t \in Tasks, Verify(t)
      PROVE  Escalated'
  BY <1>6, <1>0 DEF Escalated, Temporary, Durable, Jobs, Verify, motorVars
<1>7. ASSUME NEW t \in Tasks, Judge(t)
      PROVE  Escalated'
  BY <1>7, <1>0 DEF Escalated, Temporary, Durable, Jobs, Judge, motorVars
<1>8. ASSUME NEW t \in Tasks, Persist(t)
      PROVE  Escalated'
  BY <1>8, <1>0 DEF Escalated, Temporary, Durable, FallsBack, Jobs, Persist, motorVars,
     Outcome
<1>9. ASSUME NEW t \in Tasks, EndStop(t)
      PROVE  Escalated'
  BY <1>9, <1>0 DEF Escalated, Temporary, Durable, NoJob, Jobs, EndStop, Released,
     AfterStop, Reboots
<1>10. ASSUME NEW t \in Tasks, Restart(t)
      PROVE  Escalated'
  BY <1>10, <1>0 DEF Escalated, Temporary, Durable, Jobs, Restart, motorVars
<1>11. ASSUME NEW t \in Tasks, ApplyManual(t)
      PROVE  Escalated'
  BY <1>11, <1>0 DEF Escalated, Temporary, Durable, Jobs, ApplyManual
<1>12. ASSUME NEW t \in Tasks, EnableBegin(t)
      PROVE  Escalated'
  BY <1>12, <1>0 DEF Escalated, Temporary, Durable, Jobs, EnableBegin, motorVars
<1>13. ASSUME NEW t \in Tasks, Recheck(t)
      PROVE  Escalated'
  BY <1>13, <1>0 DEF Escalated, Temporary, Durable, Jobs, Recheck, motorVars
<1>14. ASSUME NEW t \in Tasks, TurnOn(t)
      PROVE  Escalated'
  BY <1>14, <1>0 DEF Escalated, Temporary, Durable, Jobs, TurnOn, motorVars, Outcome
<1>15. ASSUME NEW t \in Tasks, Confirm(t)
      PROVE  Escalated'
  BY <1>15, <1>0 DEF Escalated, Temporary, Durable, Jobs, Confirm, motorVars, Outcome
<1>16. ASSUME NEW t \in Tasks, LeaveEnable(t)
      PROVE  Escalated'
  BY <1>16, <1>0 DEF Escalated, Temporary, Durable, NoJob, Jobs, LeaveEnable, motorVars
<1>17. ASSUME NEW t \in Tasks, OtaSave(t)
      PROVE  Escalated'
  BY <1>17, <1>0 DEF Escalated, Temporary, Durable, NoJob, Jobs, OtaSave, Outcome,
     Released
<1>18. ASSUME NEW t \in Tasks, CommandBegin(t)
      PROVE  Escalated'
  BY <1>18, <1>0 DEF Escalated, Temporary, Durable, Jobs, CommandBegin, motorVars
<1>19. ASSUME NEW t \in Tasks, OtaAbort(t)
      PROVE  Escalated'
  BY <1>19, <1>0 DEF Escalated, Temporary, Durable, Jobs, OtaAbort, Released
<1>20. ASSUME NEW t \in Tasks, Claim(t)
      PROVE  Escalated'
  BY <1>20, <1>0 DEF Escalated, Temporary, Durable, NoJob, Jobs, Claim, ClaimStop,
     motorVars, autoVars, nvsVars
<1>21. ASSUME NEW t \in Tasks, OtaReboot(t)
      PROVE  Escalated'
  BY <1>21, <1>0 DEF Escalated, Temporary, Durable, Jobs, OtaReboot, motorVars
<1>22. CASE Still
  BY <1>22, <1>0 DEF Escalated, Temporary, Durable, Jobs, Still, lineVars, motorVars,
     autoVars, nvsVars
<1>23. CASE Schedule
  BY <1>23, <1>0 DEF Escalated, Temporary, Durable, Jobs, Schedule
<1>24. CASE Override
  BY <1>24, <1>0 DEF Escalated, Temporary, Durable, Jobs, Override, motorVars
<1>25. CASE AsyncSave
  BY <1>25, <1>0 DEF Escalated, Temporary, Durable, Jobs, AsyncSave, motorVars
<1>26. CASE RmtFault
  BY <1>26, <1>0 DEF Escalated, Temporary, Durable, Jobs, RmtFault
<1> QED
  BY <1>1, <1>2, <1>3, <1>4, <1>5, <1>6, <1>7, <1>8, <1>9, <1>10, <1>11, <1>12, <1>13,
     <1>14, <1>15, <1>16, <1>17, <1>18, <1>19, <1>20, <1>21, <1>22, <1>23, <1>24, <1>25,
     <1>26, ClaimOrStill, TaskNames DEF Next, StopStep, EnableStep

-----------------------------------------------------------------------------
(* The theorems.                                                           *)

StopInv == TypeInv /\ LineInv /\ Shaped /\ Holding /\ RebootInv /\ Escalated

LEMMA StopInvInit == Init => StopInv
<1> SUFFICES ASSUME Init PROVE StopInv
  OBVIOUS
<1>1. LineInv
  BY DEF Init, LineInv, Owned, Fenced, Clear, InterlockOffDuringStop, ClearedTargetsStayCleared,
     StopPlaces
<1>2. Shaped
  BY DEF Init, Shaped, JobShape, Rebooting, Temporary, NoJob
<1>3. Holding
  <2>1. Holders = {}
    BY DEF Init, Holders, Holds, StopPlaces
  <2> QED
    BY <2>1, FS_EmptySet DEF Init, Holding
<1>4. RebootInv
  BY DEF Init, RebootInv, Latching, Quenched, Complete, Unsaved, Committed, StopPlaces, NoJob
<1>5. Escalated
  BY DEF Init, Escalated, NoJob
<1> QED
  BY <1>1, <1>2, <1>3, <1>4, <1>5, TypeInit DEF StopInv

LEMMA StopInvFrame == StopInv /\ UNCHANGED vars => StopInv'
<1> SUFFICES ASSUME StopInv, UNCHANGED vars PROVE StopInv'
  OBVIOUS
<1>0. UNCHANGED <<lineVars, at, job, motorVars, autoVars, nvsVars, ota>>
  BY DEF vars
<1>1. LineInv'
  BY <1>0 DEF StopInv, LineInv, Owned, Fenced, Clear, InterlockOffDuringStop,
     ClearedTargetsStayCleared, lineVars, motorVars
<1>2. Shaped'
  BY <1>0 DEF StopInv, Shaped, JobShape, Rebooting, Temporary
<1>3. Holding'
  BY <1>0 DEF StopInv, Holding, Holders, Holds, Temporary, motorVars
<1>4. RebootInv'
  BY <1>0 DEF StopInv, RebootInv, Latching, Quenched, Complete, Unsaved, Committed, Rebooting,
     Temporary, motorVars, autoVars, nvsVars
<1>5. Escalated'
  BY <1>0 DEF StopInv, Escalated, Temporary, motorVars
<1> QED
  BY <1>1, <1>2, <1>3, <1>4, <1>5, TypeFrame DEF StopInv

LEMMA Invariance == Spec => []StopInv
<1>1. StopInv /\ Next => StopInv'
  <2> SUFFICES ASSUME StopInv, Next PROVE StopInv'
    OBVIOUS
  <2>1. TypeInv'
    BY TypeStep DEF StopInv
  <2>2. LineInv'
    BY LineStep DEF StopInv
  <2>3. Shaped'
    BY ShapeStep DEF StopInv
  <2>4. Holding'
    BY HoldStep DEF StopInv
  <2>5. RebootInv'
    BY RebootStep DEF StopInv
  <2>6. Escalated'
    BY EscalationStep DEF StopInv
  <2> QED
    BY <2>1, <2>2, <2>3, <2>4, <2>5, <2>6 DEF StopInv
<1> QED
  BY <1>1, StopInvInit, StopInvFrame, PTL DEF Spec

\* However many tasks stop, enable and command at once, a line that a stop has
\* driven off stays off until that stop ends (enable_output_if_safe).
THEOREM LineSafety == Spec => []InterlockOffDuringStop
<1>1. StopInv => InterlockOffDuringStop
  BY DEF StopInv, LineInv
<1> QED
  BY <1>1, Invariance, PTL

\* No command sets a target again that a stop has cleared and is saving, since
\* output_command_begin has let it in under the mutex or not at all.
THEOREM TargetSafety == Spec => []ClearedTargetsStayCleared
<1>1. StopInv => ClearedTargetsStayCleared
  BY DEF StopInv, LineInv
<1> QED
  BY <1>1, Invariance, PTL

\* enable_output_if_safe turns the line on only while no inhibit of a stop is
\* in force, although the inhibits are read before the GPIO write.
THEOREM EnableSafety == Spec => TurnedOnOnlyWhenClear
<1> DEFINE OnlyWhenClear ==
      ~interlock /\ interlock' =>
        maintenance = 0 /\ inhibits \cap {"GLOBAL", "COMMUNICATION", "RMT"} = {}
<1>1. StopInv /\ Next => OnlyWhenClear
  <2> SUFFICES ASSUME StopInv, Next, ~interlock, interlock'
               PROVE  maintenance = 0 /\ inhibits \cap {"GLOBAL", "COMMUNICATION", "RMT"} = {}
    OBVIOUS
  <2>1. PICK t \in Tasks : TurnOn(t)
    <3>1. ASSUME NEW t \in Tasks, StopStep(t) \/ OtaSave(t) \/ CommandBegin(t) \/ OtaAbort(t)
                                  \/ OtaReboot(t) \/ Claim(t)
          PROVE  FALSE
      BY <3>1 DEF StopStep, Drive, Halt, Settle, Automatic, CommitInhibit, Verify, Judge,
         Persist, EndStop, Restart, OtaSave, CommandBegin, OtaAbort, OtaReboot, Claim,
         ClaimStop, lineVars
    <3>2. ASSUME NEW t \in Tasks, EnableStep(t)
          PROVE  TurnOn(t)
      BY <3>2 DEF EnableStep, ApplyManual, EnableBegin, Recheck, Confirm, LeaveEnable,
         lineVars
    <3>3. ASSUME Still \/ Schedule \/ Override \/ AsyncSave \/ RmtFault
          PROVE  FALSE
      BY <3>3 DEF Still, Schedule, Override, AsyncSave, RmtFault, lineVars
    <3> QED
      BY <3>1, <3>2, <3>3, ClaimOrStill, TaskNames DEF Next
  <2> QED
    BY <2>1 DEF TurnOn, StopInv, LineInv, Clear
<1>2. UNCHANGED vars => OnlyWhenClear
  BY DEF vars, lineVars
<1> QED
  BY <1>1, <1>2, Invariance, PTL DEF Spec, TurnedOnOnlyWhenClear

\* An update downloads with the motors held, whichever stops begin and end
\* meanwhile: the count of motor_control_clear_maintenance_inhibit is nested.
THEOREM UpdateSafety == Spec => []OtaHoldsMotors
<1>1. StopInv => OtaHoldsMotors
  BY FS_CardinalityType DEF StopInv, Holding, OtaHoldsMotors, TypeInv, TypeParts, MotorTypes
<1> QED
  BY <1>1, Invariance, PTL

\* restart_after_fail_safe_stop and the reboot after RMT faults leave zero
\* targets and inhibited schedules in flash.
THEOREM RebootSafety == Spec => []RestartIsSafe
<1>1. Init => RestartIsSafe
  BY DEF Init, RestartIsSafe
<1>2. StopInv /\ RestartIsSafe /\ Next => RestartIsSafe'
  <2> SUFFICES ASSUME StopInv, Next, restarted' \in {"restart", "reboot"}
               PROVE  autoNvs' /\ ~manualNvs'
    BY DEF RestartIsSafe
  <2>1. restarted = "no"
    BY DEF Next, Running
  <2>2. PICK t \in Tasks : Restart(t)
    <3>1. ASSUME NEW t \in Tasks, OtaSave(t) \/ CommandBegin(t) \/ OtaAbort(t) \/ OtaReboot(t)
                                  \/ Claim(t) \/ EnableStep(t)
          PROVE  FALSE
      BY <2>1, <3>1 DEF OtaSave, CommandBegin, OtaAbort, OtaReboot, Claim, ClaimStop,
         EnableStep, ApplyManual, EnableBegin, Recheck, TurnOn, Confirm, LeaveEnable
    <3>2. ASSUME NEW t \in Tasks, StopStep(t)
          PROVE  Restart(t)
      BY <2>1, <3>2 DEF StopStep, Drive, Halt, Settle, Automatic, CommitInhibit, Verify,
         Judge, Persist, EndStop
    <3>3. ASSUME Still \/ Schedule \/ Override \/ AsyncSave \/ RmtFault
          PROVE  FALSE
      BY <2>1, <3>3 DEF Still, Schedule, Override, AsyncSave, RmtFault
    <3> QED
      BY <3>1, <3>2, <3>3, ClaimOrStill, TaskNames DEF Next
  <2>3. UNCHANGED <<autoNvs, manualNvs>> /\ at[t] = "restart"
    BY <2>2 DEF Restart, nvsVars
  <2>4. autoNvs /\ ~manualNvs
    BY <2>3 DEF StopInv, RebootInv, Committed, Latching, Quenched
  <2> QED
    BY <2>3, <2>4
<1>3. RestartIsSafe /\ UNCHANGED vars => RestartIsSafe'
  BY DEF RestartIsSafe, vars, nvsVars
<1> QED
  BY <1>1, <1>2, <1>3, Invariance, PTL DEF Spec

\* No step takes back an inhibit, but for the one that a command lifts.
LEMMA Latched == Next => inhibits \ {"COMMUNICATION"} \subseteq inhibits'
<1>1. ASSUME NEW t \in Tasks, StopStep(t)
      PROVE  inhibits \subseteq inhibits'
  BY <1>1 DEF StopStep, Drive, Halt, Settle, Automatic, CommitInhibit, Verify, Judge,
     Persist, EndStop, Restart, motorVars
<1>2. ASSUME NEW t \in Tasks, EnableStep(t)
      PROVE  inhibits \ {"COMMUNICATION"} \subseteq inhibits'
  BY <1>2 DEF EnableStep, ApplyManual, EnableBegin, Recheck, TurnOn, Confirm, LeaveEnable,
     motorVars
<1>3. ASSUME NEW t \in Tasks, OtaSave(t) \/ CommandBegin(t) \/ OtaAbort(t) \/ OtaReboot(t)
                              \/ Claim(t)
      PROVE  inhibits \subseteq inhibits'
  BY <1>3 DEF OtaSave, CommandBegin, OtaAbort, OtaReboot, Claim, ClaimStop, motorVars
<1>4. ASSUME Still \/ Schedule \/ Override \/ AsyncSave \/ RmtFault
      PROVE  inhibits \subseteq inhibits'
  BY <1>4 DEF Still, Schedule, Override, AsyncSave, RmtFault, motorVars
<1> QED
  BY <1>1, <1>2, <1>3, <1>4, ClaimOrStill, TaskNames DEF Next

\* A temporary stop that reports an error to its caller has latched the global
\* inhibit (stop_all_internal).
THEOREM LatchSafety == Spec => FailedStopLatches
<1> DEFINE Latches ==
      \A t \in Tasks :
        at[t] = "end" /\ at'[t] # "end" /\ Temporary(t) /\ job[t].failed =>
          "GLOBAL" \in inhibits'
<1>1. StopInv /\ Next => Latches
  <2> SUFFICES ASSUME StopInv, Next, NEW t \in Tasks, at[t] = "end", at'[t] # "end",
                      Temporary(t), job[t].failed
               PROVE  "GLOBAL" \in inhibits'
    OBVIOUS
  <2>1. "GLOBAL" \in inhibits
    BY DEF StopInv, Escalated
  <2>2. inhibits \ {"COMMUNICATION"} \subseteq inhibits'
    BY Latched
  <2> QED
    BY <2>1, <2>2
<1>2. UNCHANGED vars => Latches
  BY DEF vars
<1> QED
  BY <1>1, <1>2, Invariance, PTL DEF Spec, FailedStopLatches

=============================================================================
