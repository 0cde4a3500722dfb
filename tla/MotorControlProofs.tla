------------------------- MODULE MotorControlProofs -------------------------
(***************************************************************************)
(* Theorems about MotorControl for every number of fans and callers, every *)
(* minimum spin, ramp step and error limit, and without the bounds that    *)
(* the model-checked instances need.                                       *)
(***************************************************************************)
EXTENDS MotorControl, TLAPS, FiniteSetTheorems

(***************************************************************************)
(* The percentage arithmetic stays in range and avoids the reserved DShot  *)
(* commands.                                                               *)
(***************************************************************************)
LEMMA EffectivePctType ==
  ASSUME NEW p \in Pct
  PROVE  /\ EffectivePct(p) \in Pct
         /\ EffectivePct(p) = 0 <=> p = 0
  BY MinSpinAssumption DEF Pct, EffectivePct

LEMMA ScaledPct ==
  ASSUME NEW e \in 1..100
  PROVE  (e * 1999) \div 100 \in 0..1999
  OBVIOUS

LEMMA PctToDshotType ==
  ASSUME NEW p \in Pct
  PROVE  /\ PctToDshot(p) \in 0..DshotMax
         /\ PctToDshot(p) \notin Reserved
         /\ p = 0 => PctToDshot(p) = 0
<1>1. CASE p = 0
  BY <1>1 DEF PctToDshot, EffectivePct, DshotMax, Reserved
<1>2. CASE p # 0
  <2>1. EffectivePct(p) \in 1..100
    BY <1>2, EffectivePctType DEF Pct
  <2>2. PICK q \in 0..1999 : PctToDshot(p) = 48 + q
    BY <2>1, ScaledPct DEF PctToDshot, DshotMax
  <2>3. 48 + q \in Nat /\ 48 + q >= 48 /\ 48 + q <= 2047
    OBVIOUS
  <2> QED
    BY <1>2, <2>2, <2>3 DEF DshotMax, Reserved
<1> QED BY <1>1, <1>2

LEMMA SteppedType ==
  ASSUME NEW c \in Pct, NEW g \in Pct
  PROVE  Stepped(c, g) \in Pct
  BY MotorAssumption DEF Stepped, Pct

(***************************************************************************)
(* Type correctness, one lemma per group of actions.                       *)
(***************************************************************************)
LEMMA OpTypes ==
  /\ \A k \in {"none", "ramp", "stop", "single", "zero"} : Op(k) \in Ops
  /\ \A i \in Inhibits, c \in BOOLEAN : StopOp(i, c) \in Ops
  /\ StopCalls \subseteq Ops
  BY MotorAssumption DEF Op, StopOp, Ops, Inhibits, StopVariants

LEMMA ConstantTypes ==
  /\ N \in Nat /\ N >= 1
  /\ Fans = 1..N
  /\ Ramp \in Tasks /\ Callers \subseteq Tasks /\ Supervisor \in Tasks
  /\ 1 \in 1..(N + 1)
  /\ 0 \in Pct /\ 0 \in 0..DshotMax
  BY MotorAssumption DEF Fans, Tasks, Pct, DshotMax

LEMMA TypeInit == Init => TypeOK
<1> SUFFICES ASSUME Init PROVE TypeOK
  OBVIOUS
<1> USE ConstantTypes, MotorAssumption DEF Init
<1>1. MotorTypes
  BY DEF MotorTypes
<1>2. OutputTypes
  BY DEF OutputTypes, RmtState, NoRequest
<1>3. InhibitTypes
  <2>1. 0 \in 0..DepthMax
    BY DEF Init
  <2> QED
    BY <2>1, Zenon DEF InhibitTypes
<1>4. TaskTypes
  <2>1. pc \in [Tasks -> PcValues]
    BY DEF PcValues
  <2>2. op \in [Tasks -> Ops]
    BY OpTypes
  <2> QED
    BY <2>1, <2>2 DEF TaskTypes
<1>5. \A t \in Tasks : FanIndexed(t) => fan[t] \in Fans
  BY DEF FanIndexed
<1> QED
  BY <1>1, <1>2, <1>3, <1>4, <1>5 DEF TypeOK, BoundTypes

LEMMA TypeApplyBegin ==
  ASSUME TypeOK, NEW t \in Tasks, ApplyBegin(t)
  PROVE  TypeOK'
<1> USE ConstantTypes DEF TypeOK
<1>1. pc[t] = "apply" /\ fan[t] \in Fans
  BY DEF ApplyBegin, FanIndexed
<1>2. MotorTypes'
  BY <1>1 DEF ApplyBegin, MotorTypes
<1>3. OutputTypes'
  <2>1. throttle[fan[t]] \in 0..DshotMax /\ EffectivePct(current[fan[t]]) \in Pct
    BY <1>1, EffectivePctType DEF MotorTypes
  <2> QED
    BY <1>1, <2>1 DEF ApplyBegin, OutputTypes, TakeIo, NoRequest
<1>4. InhibitTypes' /\ BoundTypes'
  BY DEF ApplyBegin, InhibitTypes, BoundTypes, inhibitVars
<1>5. TaskTypes' /\ (\A u \in Tasks : FanIndexed(u) => fan[u] \in Fans)'
  BY <1>1 DEF ApplyBegin, Goto, TaskTypes, PcValues, FanIndexed
<1> QED
  BY <1>2, <1>3, <1>4, <1>5

LEMMA TypeApplyFinish ==
  ASSUME TypeOK, NEW t \in Tasks, ApplyFinish(t)
  PROVE  TypeOK'
<1> USE ConstantTypes DEF TypeOK
<1> DEFINE f == fan[t]
<1>1. pc[t] = "rmt" /\ f \in Fans
  BY DEF ApplyFinish, FanIndexed
<1>2. PICK ok \in BOOLEAN :
        /\ ok \/ faults < MaxFaults
        /\ faults' = IF ok THEN faults ELSE faults + 1
        /\ RmtSequence(f, request[t].dshot, ok)
        /\ RecordApplyResult(f, ok, request[t].pct)
        /\ Goto(t, IF op[t].kind = "single" THEN "idle"
                   ELSE IF ok THEN "applied" ELSE "failed")
  BY DEF ApplyFinish
<1>3. request[t].dshot \in 0..DshotMax /\ request[t].pct \in Pct
  BY DEF OutputTypes
<1>4. MotorTypes'
  <2>1. \A e \in 0..ErrorMax : e < ErrorMax => e + 1 \in 0..ErrorMax
    BY MotorAssumption
  <2>2. errors' \in [Fans -> 0..ErrorMax]
    BY <1>1, <1>2, <2>1, MotorAssumption DEF RecordApplyResult, MotorTypes
  <2>3. latched' \in [Fans -> BOOLEAN]
    BY <1>1, <1>2 DEF RecordApplyResult, MotorTypes
  <2>4. applied' \in [Fans -> Pct] /\ target' \in [Fans -> Pct]
    BY <1>1, <1>2, <1>3 DEF RecordApplyResult, MotorTypes
  <2>5. generation' \in [Fans -> Nat]
    BY <1>1, <1>2 DEF RecordApplyResult, MotorTypes
  <2>6. UNCHANGED <<current, throttle, manual, tach_inhibited>>
    BY DEF ApplyFinish
  <2> QED
    BY <2>2, <2>3, <2>4, <2>5, <2>6 DEF MotorTypes
<1>5. OutputTypes'
  <2>1. rmt' \in [Fans -> RmtState]
    <3> DEFINE d == request[t].dshot
               r == rmt[f]
               Failed(e) == [r EXCEPT !.enabled = e, !.active = FALSE, !.payload = d]
               Stopped == [r EXCEPT !.enabled = FALSE]
               Streaming == [active |-> TRUE, enabled |-> TRUE, payload |-> d, last |-> d]
    <3>1. r \in RmtState
      BY <1>1 DEF OutputTypes
    <3>2. Streaming \in RmtState
      BY <1>3 DEF RmtState
    <3>3. Stopped \in RmtState
      BY <3>1 DEF RmtState
    <3>4. \A e \in BOOLEAN : Failed(e) \in RmtState
      BY <1>3, <3>1 DEF RmtState
    <3>5. rmt' = rmt \/ \E s \in RmtState : rmt' = [rmt EXCEPT ![f] = s]
      BY <1>2, <3>2, <3>3, <3>4 DEF RmtSequence
    <3> QED
      BY <1>1, <3>5 DEF OutputTypes
  <2> QED
    BY <2>1 DEF ApplyFinish, GiveIo, NoRequest, OutputTypes
<1>6. InhibitTypes'
  <2>1. rmt_inhibited' \in BOOLEAN /\ rmt_fault_pending' \in BOOLEAN
    BY <1>2 DEF RecordApplyResult, InhibitTypes
  <2> QED
    BY <2>1 DEF ApplyFinish, InhibitTypes
<1>7. BoundTypes'
  BY <1>2, MotorAssumption DEF ApplyFinish, BoundTypes
<1>8. TaskTypes' /\ (\A u \in Tasks : FanIndexed(u) => fan[u] \in Fans)'
  BY <1>1, <1>2 DEF ApplyFinish, Goto, TaskTypes, PcValues, FanIndexed
<1> QED
  BY <1>4, <1>5, <1>6, <1>7, <1>8

LEMMA TypeClaimStop ==
  ASSUME TypeOK, NEW t \in Tasks, NEW o \in Ops, ClaimStop(t, o),
         BoundTypes', rmt_fault_pending' = rmt_fault_pending
  PROVE  TypeOK'
<1> USE ConstantTypes DEF TypeOK, ClaimStop
<1>1. MotorTypes' /\ OutputTypes'
  BY DEF MotorTypes, OutputTypes, motorVars, mutexVars
<1>2. InhibitTypes'
  BY MotorAssumption DEF InhibitTypes, DepthAvailable, mutexVars
<1>3. TaskTypes' /\ (\A u \in Tasks : FanIndexed(u) => fan[u] \in Fans)'
  BY DEF Goto, TaskTypes, PcValues, FanIndexed
<1> QED
  BY <1>1, <1>2, <1>3

LEMMA TypeStopZero ==
  ASSUME TypeOK, NEW t \in Tasks, StopZero(t)
  PROVE  TypeOK'
<1> USE ConstantTypes DEF TypeOK, StopZero
<1>1. op[t] \in Ops
  BY DEF TaskTypes
<1>2. MotorTypes'
  <2>1. tach_inhibited' \in [Fans -> BOOLEAN] /\ latched' = latched
    BY <1>1 DEF MotorTypes, Ops
  <2>2. manual' \in [Fans -> Pct]
    BY <1>1 DEF MotorTypes, Ops
  <2>3. /\ target' \in [Fans -> Pct]
        /\ current' \in [Fans -> Pct]
        /\ throttle' \in [Fans -> 0..DshotMax]
        /\ generation' \in [Fans -> Nat]
    BY DEF MotorTypes
  <2> QED
    BY <2>1, <2>2, <2>3 DEF MotorTypes
<1>3. OutputTypes' /\ BoundTypes'
  BY DEF OutputTypes, BoundTypes
<1>4. InhibitTypes'
  BY DEF InhibitTypes
<1>5. TaskTypes'
  <2>1. current \in [Fans -> Pct] /\ [f \in Fans |-> generation[f] + 1] \in [Fans -> Nat]
    BY DEF MotorTypes
  <2> QED
    BY <2>1 DEF Goto, TaskTypes, PcValues
<1>6. (\A u \in Tasks : FanIndexed(u) => fan[u] \in Fans)'
  BY DEF Goto, TaskTypes, FanIndexed
<1> QED
  BY <1>2, <1>3, <1>4, <1>5, <1>6

LEMMA TypeRollBack ==
  ASSUME TypeOK, NEW t \in Tasks, NEW f \in Fans, NEW undo \in BOOLEAN,
         RollBack(t, f, undo)
  PROVE  /\ current' \in [Fans -> Pct]
         /\ throttle' \in [Fans -> 0..DshotMax]
         /\ generation' \in [Fans -> Nat]
<1>1. previous[t][f] \in Pct /\ PctToDshot(previous[t][f]) \in 0..DshotMax
  BY PctToDshotType DEF TypeOK, TaskTypes
<1> QED
  BY <1>1 DEF RollBack, TypeOK, MotorTypes

LEMMA TypeStopApplied ==
  ASSUME TypeOK, NEW t \in Tasks, StopApplied(t)
  PROVE  TypeOK'
<1> USE ConstantTypes DEF TypeOK
<1>1. pc[t] \in {"applied", "failed"} /\ fan[t] \in Fans
  BY DEF StopApplied, FanIndexed
<1>2. MotorTypes'
  <2>1. \E undo \in BOOLEAN : RollBack(t, fan[t], undo)
    BY DEF StopApplied
  <2> QED
    BY <1>1, <2>1, TypeRollBack DEF StopApplied, MotorTypes
<1>3. OutputTypes' /\ BoundTypes' /\ InhibitTypes'
  BY DEF StopApplied, OutputTypes, BoundTypes, InhibitTypes, mutexVars, inhibitVars
<1>n. fan[t] + 1 \in 1..(N + 1) /\ (fan[t] < N => fan[t] + 1 \in Fans)
  BY <1>1
<1>4. TaskTypes'
  <2>1. stop_ok' \in [Tasks -> BOOLEAN]
    BY DEF StopApplied, TaskTypes
  <2>2. fan' \in [Tasks -> 1..(N + 1)]
    BY <1>n DEF StopApplied, TaskTypes
  <2>3. pc' \in [Tasks -> PcValues]
    BY DEF StopApplied, Goto, TaskTypes, PcValues
  <2> QED
    BY <2>1, <2>2, <2>3 DEF StopApplied, TaskTypes
<1>5. (\A u \in Tasks : FanIndexed(u) => fan[u] \in Fans)'
  <2> SUFFICES ASSUME NEW u \in Tasks, FanIndexed(u)' PROVE fan'[u] \in Fans
    OBVIOUS
  <2>1. CASE u = t
    <3>1. fan[t] < N
      BY <1>1, <2>1 DEF StopApplied, Goto, TaskTypes, FanIndexed
    <3> QED
      BY <1>n, <2>1, <3>1 DEF StopApplied, TaskTypes
  <2>2. CASE u # t
    BY <2>2 DEF StopApplied, Goto, TaskTypes, FanIndexed
  <2> QED
    BY <2>1, <2>2
<1> QED
  BY <1>2, <1>3, <1>4, <1>5

LEMMA TypeStopEnd ==
  ASSUME TypeOK, NEW t \in Tasks, StopEnd(t)
  PROVE  TypeOK'
<1> USE ConstantTypes DEF TypeOK, StopEnd
<1>1. MotorTypes' /\ OutputTypes' /\ BoundTypes'
  BY DEF MotorTypes, OutputTypes, BoundTypes, motorVars
<1>2. InhibitTypes'
  BY MotorAssumption DEF InhibitTypes, GiveStopMutex
<1>3. TaskTypes' /\ (\A u \in Tasks : FanIndexed(u) => fan[u] \in Fans)'
  BY OpTypes DEF Goto, TaskTypes, PcValues, FanIndexed
<1> QED
  BY <1>1, <1>2, <1>3

LEMMA TypeRampStart ==
  ASSUME TypeOK, RampRegistered \/ RampTick
  PROVE  TypeOK'
<1> USE ConstantTypes DEF TypeOK, RampRegistered, RampTick
<1>1. MotorTypes' /\ OutputTypes' /\ BoundTypes' /\ InhibitTypes'
  BY DEF MotorTypes, OutputTypes, BoundTypes, InhibitTypes, motorVars, mutexVars,
         inhibitVars
<1>2. TaskTypes'
  <2>1. pc' \in [Tasks -> PcValues]
    BY DEF Goto, TaskTypes, PcValues
  <2>2. op' \in [Tasks -> Ops] /\ fan' \in [Tasks -> 1..(N + 1)]
    BY OpTypes DEF TaskTypes
  <2> QED
    BY <2>1, <2>2 DEF TaskTypes
<1>3. (\A u \in Tasks : FanIndexed(u) => fan[u] \in Fans)'
  <2>1. CASE RampRegistered
    BY <2>1 DEF Goto, TaskTypes, FanIndexed
  <2>2. CASE RampTick
    BY <2>2 DEF Goto, TaskTypes, FanIndexed
  <2> QED
    BY <2>1, <2>2
<1> QED
  BY <1>1, <1>2, <1>3

LEMMA TypeRampAdvance ==
  ASSUME TypeOK, RampAdvance
  PROVE  TypeOK'
<1> USE ConstantTypes DEF TypeOK
<1> DEFINE f == fan[Ramp]
           c == Stepped(current[f], target[f])
<1>1. f \in Fans /\ pc[Ramp] = "step"
  BY DEF RampAdvance, FanIndexed
<1>2. c \in Pct /\ PctToDshot(c) \in 0..DshotMax
  BY <1>1, SteppedType, PctToDshotType DEF MotorTypes
<1>3. MotorTypes'
  <2> HIDE DEF c
  <2> QED
    BY <1>1, <1>2 DEF RampAdvance, MotorTypes, c
<1>4. OutputTypes' /\ BoundTypes' /\ InhibitTypes'
  BY DEF RampAdvance, OutputTypes, BoundTypes, InhibitTypes, mutexVars, inhibitVars
<1>5. TaskTypes'
  <2>1. changed' \in BOOLEAN
    BY DEF RampAdvance
  <2>2. pc' \in [Tasks -> PcValues]
    BY DEF RampAdvance, AfterAdvance, Goto, TaskTypes, PcValues
  <2>3. previous' \in [Tasks -> [Fans -> Pct]]
    BY <1>1 DEF RampAdvance, TaskTypes, MotorTypes
  <2>4. attempted' \in [Tasks -> [Fans -> Nat]]
    <3> DEFINE g == IF current[f] # target[f] THEN generation[f] + 1
                    ELSE generation[f]
    <3>1. g \in Nat
      BY <1>1 DEF MotorTypes
    <3>2. attempted' = [attempted EXCEPT ![Ramp][f] = g]
      BY DEF RampAdvance
    <3> HIDE DEF g
    <3> QED
      BY <1>1, <3>1, <3>2 DEF TaskTypes
  <2> QED
    BY <2>1, <2>2, <2>3, <2>4 DEF RampAdvance, TaskTypes
<1>6. (\A u \in Tasks : FanIndexed(u) => fan[u] \in Fans)'
  BY <1>1 DEF RampAdvance, AfterAdvance, Goto, TaskTypes, FanIndexed
<1> QED
  BY <1>3, <1>4, <1>5, <1>6

LEMMA TypeRampApplied ==
  ASSUME TypeOK, RampApplied
  PROVE  TypeOK'
<1> USE ConstantTypes DEF TypeOK
<1>1. pc[Ramp] \in {"applied", "failed"} /\ fan[Ramp] \in Fans
  BY DEF RampApplied, FanIndexed
<1>2. MotorTypes'
  <2>1. \E undo \in BOOLEAN : RollBack(Ramp, fan[Ramp], undo)
    BY DEF RampApplied, TaskTypes
  <2> QED
    BY <1>1, <2>1, TypeRollBack DEF RampApplied, MotorTypes
<1>3. OutputTypes' /\ BoundTypes' /\ InhibitTypes'
  BY DEF RampApplied, OutputTypes, BoundTypes, InhibitTypes, mutexVars, inhibitVars
<1>4. fan[Ramp] < N => fan[Ramp] + 1 \in Fans
  BY <1>1
<1>5. TaskTypes'
  <2>1. pc' \in [Tasks -> PcValues] /\ changed' \in BOOLEAN
    BY DEF RampApplied, Goto, TaskTypes, PcValues
  <2>2. fan' \in [Tasks -> 1..(N + 1)]
    BY <1>1, <1>4 DEF RampApplied, TaskTypes
  <2>3. previous' \in [Tasks -> [Fans -> Pct]]
    BY <1>1 DEF RampApplied, TaskTypes
  <2>4. attempted' \in [Tasks -> [Fans -> Nat]]
    BY <1>1 DEF RampApplied, TaskTypes
  <2> QED
    BY <2>1, <2>2, <2>3, <2>4 DEF RampApplied, TaskTypes
<1>6. (\A u \in Tasks : FanIndexed(u) => fan[u] \in Fans)'
  BY <1>1, <1>4 DEF RampApplied, Goto, TaskTypes, FanIndexed
<1> QED
  BY <1>2, <1>3, <1>5, <1>6

LEMMA TypeZeroOne ==
  ASSUME TypeOK, NEW t \in Callers, NEW f \in Fans, NEW clear \in BOOLEAN,
         ZeroOne(t, f, clear), BoundTypes', tach_inhibited' \in [Fans -> BOOLEAN]
  PROVE  TypeOK'
<1> USE ConstantTypes DEF TypeOK, ZeroOne
<1>1. MotorTypes'
  <2>1. /\ target' \in [Fans -> Pct]
        /\ current' \in [Fans -> Pct]
        /\ throttle' \in [Fans -> 0..DshotMax]
        /\ generation' \in [Fans -> Nat]
    BY DEF MotorTypes
  <2>2. manual' \in [Fans -> Pct]
    BY DEF MotorTypes
  <2>3. UNCHANGED <<applied, errors, latched>>
    OBVIOUS
  <2> QED
    BY <2>1, <2>2, <2>3 DEF MotorTypes
<1>2. OutputTypes' /\ InhibitTypes'
  BY DEF OutputTypes, InhibitTypes, mutexVars, inhibitVars
<1>3. TaskTypes'
  <2>1. pc' \in [Tasks -> PcValues]
    BY DEF Goto, TaskTypes, PcValues
  <2>2. op' \in [Tasks -> Ops] /\ fan' \in [Tasks -> 1..(N + 1)]
    BY OpTypes DEF TaskTypes
  <2> QED
    BY <2>1, <2>2 DEF TaskTypes
<1>4. (\A u \in Tasks : FanIndexed(u) => fan[u] \in Fans)'
  BY DEF Goto, TaskTypes, FanIndexed
<1> QED
  BY <1>1, <1>2, <1>3, <1>4

LEMMA TypeZeroProof ==
  ASSUME TypeOK, NEW t \in Callers, ZeroProofStep(t)
  PROVE  TypeOK'
<1> USE ConstantTypes
        DEF TypeOK, ZeroProofStep, ZeroProofLock, ZeroProofTimeout, ZeroProofJudge,
            ZeroProofEnd
<1>1. MotorTypes' /\ InhibitTypes' /\ BoundTypes'
  BY DEF MotorTypes, InhibitTypes, BoundTypes, motorVars, mutexVars, inhibitVars
<1>2. OutputTypes'
  BY DEF OutputTypes, TakeIo, GiveIo, mutexVars
<1>3. fan[t] \in Int /\ (fan[t] <= N => fan[t] + 1 \in 1..(N + 1))
  BY DEF TaskTypes
<1>4. TaskTypes' /\ (\A u \in Tasks : FanIndexed(u) => fan[u] \in Fans)'
  BY <1>3, OpTypes DEF Goto, TaskTypes, PcValues, FanIndexed
<1> QED
  BY <1>1, <1>2, <1>4

\* The operations that only write motor_context_t fields or flags.
LEMMA TypeRequests ==
  ASSUME TypeOK, NEW t \in Callers,
         \/ \E f \in Fans : ClearTachInhibit(t, f)
         \/ \E f \in Fans, p \in Targets : RequestManual(t, f, p) \/ RequestAutomatic(t, f, p)
         \/ \E ps \in [Fans -> Targets] : RestoreAll(t, ps)
         \/ ClearMaintenance(t)
         \/ \E paused \in BOOLEAN : SetRampPaused(t, paused)
  PROVE  TypeOK'
<1> USE ConstantTypes, MotorAssumption DEF TypeOK
<1>1. BoundTypes'
  BY DEF ClearTachInhibit, RequestManual, RequestAutomatic, RestoreAll,
         ClearMaintenance, SetRampPaused, Call, BoundTypes
<1>2. TaskTypes' /\ (\A u \in Tasks : FanIndexed(u) => fan[u] \in Fans)'
  BY DEF ClearTachInhibit, RequestManual, RequestAutomatic, RestoreAll,
         ClearMaintenance, SetRampPaused, TaskTypes, localVars, FanIndexed
<1>3. OutputTypes'
  BY DEF ClearTachInhibit, RequestManual, RequestAutomatic, RestoreAll,
         ClearMaintenance, SetRampPaused, OutputTypes, localVars, mutexVars
<1>4. MotorTypes' /\ InhibitTypes'
  <2>1. CASE \E f \in Fans : ClearTachInhibit(t, f)
    BY <2>1 DEF ClearTachInhibit, MotorTypes, InhibitTypes, inhibitVars, mutexVars
  <2>2. CASE \E f \in Fans, p \in Targets : RequestManual(t, f, p)
    <3>1. PICK f \in Fans, p \in Targets : RequestManual(t, f, p)
      BY <2>2
    <3>2. manual' \in [Fans -> Pct] /\ target' \in [Fans -> Pct]
      BY <3>1 DEF RequestManual, MotorTypes
    <3>3. UNCHANGED <<current, throttle, applied, generation, errors, latched,
                      tach_inhibited>>
      BY <3>1 DEF RequestManual
    <3>4. InhibitTypes'
      BY <3>1 DEF RequestManual, InhibitTypes, mutexVars
    <3> QED
      BY <3>2, <3>3, <3>4 DEF MotorTypes
  <2>3. CASE \E f \in Fans, p \in Targets : RequestAutomatic(t, f, p)
    BY <2>3 DEF RequestAutomatic, MotorTypes, InhibitTypes, inhibitVars, mutexVars
  <2>4. CASE \E ps \in [Fans -> Targets] : RestoreAll(t, ps)
    <3>1. PICK ps \in [Fans -> Targets] : RestoreAll(t, ps)
      BY <2>4
    <3>2. ps \in [Fans -> Pct]
      OBVIOUS
    <3>3. manual' = ps /\ target' = ps
          /\ UNCHANGED <<current, throttle, applied, generation, errors, latched,
                         tach_inhibited>>
      BY <3>1 DEF RestoreAll
    <3>4. MotorTypes'
      BY <3>2, <3>3 DEF MotorTypes
    <3>5. InhibitTypes'
      BY <3>1 DEF RestoreAll, InhibitTypes, inhibitVars, mutexVars
    <3> QED
      BY <3>4, <3>5
  <2>5. CASE ClearMaintenance(t)
    BY <2>5 DEF ClearMaintenance, MotorTypes, InhibitTypes, motorVars, mutexVars
  <2>6. CASE \E paused \in BOOLEAN : SetRampPaused(t, paused)
    BY <2>6 DEF SetRampPaused, MotorTypes, InhibitTypes, motorVars, inhibitVars,
                mutexVars
  <2> QED
    BY <2>1, <2>2, <2>3, <2>4, <2>5, <2>6
<1> QED
  BY <1>1, <1>2, <1>3, <1>4

LEMMA TypeCallerStart ==
  ASSUME TypeOK, NEW t \in Callers, CallerStart(t)
  PROVE  TypeOK'
<1> USE ConstantTypes
<1>1. ASSUME NEW kind, Call(t, kind), UNCHANGED faults
      PROVE  BoundTypes'
  BY <1>1, MotorAssumption DEF Call, BoundTypes, TypeOK
<1>2. CASE \E o \in StopCalls : StopAll(t, o)
  <2>1. BoundTypes'
    BY <1>1, <1>2 DEF StopAll, ClaimStop
  <2> QED
    BY <1>2, <2>1, OpTypes, TypeClaimStop DEF StopAll
<1>3. CASE \E f \in Fans, clear \in BOOLEAN : StopOne(t, f, clear)
  <2>1. BoundTypes'
    BY <1>1, <1>3 DEF StopOne, ZeroOne
  <2>2. tach_inhibited' \in [Fans -> BOOLEAN]
    BY <1>3 DEF StopOne, TypeOK, MotorTypes
  <2> QED
    BY <1>3, <2>1, <2>2, TypeZeroOne DEF StopOne
<1>4. CASE \E f \in Fans : SetTachInhibit(t, f)
  <2>1. BoundTypes'
    BY <1>1, <1>4 DEF SetTachInhibit, ZeroOne
  <2>2. tach_inhibited' \in [Fans -> BOOLEAN]
    BY <1>4 DEF SetTachInhibit, TypeOK, MotorTypes
  <2> QED
    BY <1>4, <2>1, <2>2, TypeZeroOne DEF SetTachInhibit
<1>5. CASE ZeroProofBegin(t)
  <2>1. BoundTypes'
    BY <1>1, <1>5 DEF ZeroProofBegin
  <2>2. MotorTypes' /\ OutputTypes' /\ InhibitTypes'
    BY <1>5 DEF ZeroProofBegin, TypeOK, MotorTypes, OutputTypes, InhibitTypes,
                motorVars, mutexVars, inhibitVars
  <2>3. TaskTypes'
    BY <1>5, OpTypes DEF ZeroProofBegin, TypeOK, TaskTypes, Goto, PcValues
  <2>4. (\A u \in Tasks : FanIndexed(u) => fan[u] \in Fans)'
    BY <1>5 DEF ZeroProofBegin, TypeOK, TaskTypes, Goto, FanIndexed
  <2> QED
    BY <2>1, <2>2, <2>3, <2>4 DEF TypeOK
<1> QED
  BY <1>2, <1>3, <1>4, <1>5, TypeRequests DEF CallerStart

LEMMA TypeSupervisor ==
  ASSUME TypeOK, TakeRmtFault \/ StopForRmtFault
  PROVE  TypeOK'
<1> USE ConstantTypes
<1>1. CASE TakeRmtFault
  BY <1>1 DEF TakeRmtFault, AfterTake, Goto, TypeOK, MotorTypes, OutputTypes,
              InhibitTypes, TaskTypes, BoundTypes, FanIndexed, PcValues, motorVars,
              mutexVars, localVars
<1>2. CASE StopForRmtFault
  <2>1. StopOp("RMT", FALSE) \in Ops
    BY OpTypes DEF Inhibits
  <2>2. BoundTypes'
    BY <1>2 DEF StopForRmtFault, ClaimStop, TypeOK, BoundTypes
  <2> QED
    BY <1>2, <2>1, <2>2, TypeClaimStop DEF StopForRmtFault
<1> QED
  BY <1>1, <1>2

LEMMA TypeRampTask ==
  ASSUME TypeOK, RampTask
  PROVE  TypeOK'
<1>1. CASE RampFatal
  <2>1. StopOp("GLOBAL", TRUE) \in Ops
    BY OpTypes DEF Inhibits
  <2>2. BoundTypes'
    BY <1>1 DEF RampFatal, ClaimStop, TypeOK, BoundTypes
  <2> QED
    BY <1>1, <2>1, <2>2, ConstantTypes, TypeClaimStop DEF RampFatal
<1>2. CASE RampSuspended
  BY <1>2 DEF RampSuspended, vars, TypeOK, MotorTypes, OutputTypes, InhibitTypes,
              TaskTypes, BoundTypes, FanIndexed, motorVars, inhibitVars, mutexVars,
              localVars
<1> QED
  BY <1>1, <1>2, TypeRampStart, TypeRampAdvance, TypeRampApplied DEF RampTask

\* Every state the motor controller reaches is well typed, and no task ever
\* indexes s_motors outside the configured fans.
THEOREM TypeCorrectness == Spec => []TypeOK
<1>1. TypeOK /\ [Next]_vars => TypeOK'
  <2> SUFFICES ASSUME TypeOK, [Next]_vars PROVE TypeOK'
    OBVIOUS
  <2>1. CASE \E t \in Tasks : ApplyStep(t) \/ StopStep(t)
    BY <2>1, TypeApplyBegin, TypeApplyFinish, TypeStopZero, TypeStopApplied, TypeStopEnd
       DEF ApplyStep, StopStep
  <2>2. CASE RampTask
    BY <2>2, TypeRampTask
  <2>3. CASE \E t \in Callers : CallerStart(t) \/ ZeroProofStep(t)
    BY <2>3, TypeCallerStart, TypeZeroProof
  <2>4. CASE TakeRmtFault \/ StopForRmtFault
    BY <2>4, TypeSupervisor
  <2>5. CASE UNCHANGED vars
    BY <2>5 DEF vars, TypeOK, MotorTypes, OutputTypes, InhibitTypes, TaskTypes,
                BoundTypes, FanIndexed, motorVars, inhibitVars, mutexVars, localVars
  <2> QED
    BY <2>1, <2>2, <2>3, <2>4, <2>5 DEF Next
<1> QED
  BY <1>1, TypeInit, PTL DEF Spec

-----------------------------------------------------------------------------
(***************************************************************************)
(* The safety theorems.  InhibitHoldsZero is not inductive: a task that    *)
(* has changed a position, or that a verified stop has made remember one,  *)
(* can write it back after the inhibit was latched and zeroed.  What       *)
(* prevents it is the generation number; the inductive invariant says so   *)
(* of every task in its rollback window.  The second half is about stops,  *)
(* RMT faults and safe-zero proofs.                                        *)
(***************************************************************************)
\* Task t has written fan f and may still roll the write back.
RollbackWindow(t, f) ==
  /\ pc[t] \in {"apply", "rmt", "applied", "failed"}
  /\ \/ t = Ramp /\ op[t].kind = "ramp" /\ changed /\ fan[t] = f
     \/ op[t].kind = "stop" /\ op[t].rollback /\ fan[t] <= f

\* A rollback that still would take place restores zero where zero is held.
NoStaleRollback ==
  \A t \in Tasks, f \in Fans :
    RollbackWindow(t, f) =>
      /\ attempted[t][f] <= generation[f]
      /\ attempted[t][f] = generation[f] /\ ZeroHeld(f) => previous[t][f] = 0

\* A stop that rolls back latches no inhibit of its own.
VerifiedLatchesNothing ==
  \A t \in Tasks : op[t].rollback => op[t].inhibit = "NONE"

\* The ramp task iterates only as the ramp task.
RampKind ==
  /\ pc[Ramp] \in {"loop", "step"} => op[Ramp].kind = "ramp"
  /\ pc[Ramp] = "stopMutex" => op[Ramp].kind = "stop"

SafeInv ==
  TypeOK /\ InhibitHoldsZero /\ NoStaleRollback /\ VerifiedLatchesNothing /\ RampKind

(***************************************************************************)
(* Most steps are quiet: they only zero targets and throttles, release     *)
(* inhibits, advance generations, and open no rollback window.             *)
(***************************************************************************)
QuietMotors ==
  \A f \in Fans :
    /\ target'[f] = target[f] \/ target'[f] = 0
    /\ current'[f] = current[f]
    /\ throttle'[f] = throttle[f] \/ throttle'[f] = 0
    /\ latched'[f] => latched[f] \/ target'[f] = 0
    /\ generation'[f] \in Nat /\ generation'[f] >= generation[f]

QuietInhibits == \A f \in Fans : ZeroHeld(f)' => ZeroHeld(f)

QuietWindows ==
  \A t \in Tasks, f \in Fans :
    RollbackWindow(t, f)' =>
      /\ RollbackWindow(t, f)
      /\ attempted'[t][f] = attempted[t][f] /\ previous'[t][f] = previous[t][f]

QuietOps == VerifiedLatchesNothing' /\ RampKind'

LEMMA QuietStep ==
  ASSUME SafeInv, TypeOK', QuietMotors, QuietInhibits, QuietWindows, QuietOps
  PROVE  SafeInv'
<1>1. InhibitHoldsZero'
  BY DEF SafeInv, InhibitHoldsZero, QuietMotors, QuietInhibits
<1>2. NoStaleRollback'
  <2> SUFFICES ASSUME NEW t \in Tasks, NEW f \in Fans, RollbackWindow(t, f)'
               PROVE  /\ attempted'[t][f] <= generation'[f]
                      /\ attempted'[t][f] = generation'[f] /\ ZeroHeld(f)'
                           => previous'[t][f] = 0
    BY DEF NoStaleRollback
  <2>1. /\ attempted[t][f] <= generation[f]
        /\ attempted[t][f] = generation[f] /\ ZeroHeld(f) => previous[t][f] = 0
    BY DEF SafeInv, NoStaleRollback, QuietWindows
  <2>2. attempted'[t][f] = attempted[t][f] /\ previous'[t][f] = previous[t][f]
    BY DEF QuietWindows
  <2>3. /\ generation[f] \in Nat /\ attempted[t][f] \in Nat
        /\ generation'[f] \in Nat /\ generation'[f] >= generation[f]
    BY DEF SafeInv, TypeOK, MotorTypes, TaskTypes, QuietMotors
  <2>4. ZeroHeld(f)' => ZeroHeld(f)
    BY DEF QuietInhibits
  <2> QED
    BY <2>1, <2>2, <2>3, <2>4
<1> QED
  BY <1>1, <1>2 DEF SafeInv, QuietOps

\* An inhibit comes into force only where a flag is set, a maintenance stop is
\* counted or a claimed one zeroes the motors.
LEMMA InhibitsKept ==
  ASSUME UNCHANGED <<global_inhibited, communication_inhibited, tach_inhibited,
                     maintenance_depth>>,
         MaintenanceClaimed => MaintenanceClaimed'
  PROVE  QuietInhibits
  BY DEF QuietInhibits, ZeroHeld

LEMMA GenerationTypes ==
  ASSUME TypeOK
  PROVE  \A t \in Tasks, f \in Fans :
           /\ attempted[t][f] \in Nat /\ generation[f] \in Nat /\ previous[t][f] \in Pct
           /\ generation[f] + 1 \in Nat /\ generation[f] + 1 > generation[f]
<1>1. \A t \in Tasks, f \in Fans : attempted[t][f] \in Nat /\ previous[t][f] \in Pct
  BY DEF TypeOK, TaskTypes
<1>2. \A f \in Fans : generation[f] \in Nat
  BY DEF TypeOK, MotorTypes
<1> QED
  BY <1>1, <1>2

LEMMA MotorsKept ==
  ASSUME TypeOK, UNCHANGED motorVars
  PROVE  QuietMotors
<1>1. \A f \in Fans : generation[f] \in Nat
  BY DEF TypeOK, MotorTypes
<1> QED
  BY <1>1 DEF motorVars, QuietMotors

\* A step of task t that neither enters nor leaves stopMutex keeps every claim.
LEMMA ClaimsKept ==
  ASSUME TypeOK, NEW t \in Tasks, NEW to, pc[t] # "stopMutex", Goto(t, to),
         \A u \in Tasks : u # t => op'[u] = op[u]
  PROVE  MaintenanceClaimed => MaintenanceClaimed'
  BY DEF MaintenanceClaimed, Goto, TypeOK, TaskTypes

LEMMA QuietApplyBegin ==
  ASSUME SafeInv, TypeOK', NEW t \in Tasks, ApplyBegin(t)
  PROVE  SafeInv'
<1> USE ConstantTypes DEF SafeInv
<1>1. pc[t] = "apply" /\ Goto(t, "rmt") /\ UNCHANGED <<op, fan, attempted, previous, changed>>
  BY DEF ApplyBegin
<1>2. pc' = [pc EXCEPT ![t] = "rmt"]
  BY <1>1 DEF Goto
<1>3. QuietMotors
  BY DEF ApplyBegin, QuietMotors, TypeOK, MotorTypes
<1>4. QuietInhibits
  BY <1>1, ClaimsKept, InhibitsKept DEF ApplyBegin, inhibitVars
<1>5. QuietWindows
  BY <1>1, <1>2 DEF QuietWindows, RollbackWindow, TypeOK, TaskTypes
<1>6. QuietOps
  BY <1>1, <1>2 DEF QuietOps, VerifiedLatchesNothing, RampKind, TypeOK, TaskTypes
<1> QED
  BY <1>3, <1>4, <1>5, <1>6, QuietStep

LEMMA QuietApplyFinish ==
  ASSUME SafeInv, TypeOK', NEW t \in Tasks, ApplyFinish(t)
  PROVE  SafeInv'
<1> USE ConstantTypes DEF SafeInv
<1> DEFINE f == fan[t]
<1>1. pc[t] = "rmt" /\ f \in Fans
  BY DEF ApplyFinish, TypeOK, FanIndexed
<1>2. PICK ok \in BOOLEAN :
        /\ RecordApplyResult(f, ok, request[t].pct)
        /\ Goto(t, IF op[t].kind = "single" THEN "idle"
                   ELSE IF ok THEN "applied" ELSE "failed")
  BY DEF ApplyFinish
<1>3. UNCHANGED <<op, fan, attempted, previous, changed, current, throttle,
                  tach_inhibited, maintenance_depth, global_inhibited,
                  communication_inhibited>>
  BY DEF ApplyFinish
<1>4. PICK to \in {"idle", "applied", "failed"} : pc' = [pc EXCEPT ![t] = to]
  BY <1>2 DEF Goto
<1>5. QuietMotors
  <2> SUFFICES ASSUME NEW g \in Fans
               PROVE  /\ target'[g] = target[g] \/ target'[g] = 0
                      /\ latched'[g] => latched[g] \/ target'[g] = 0
                      /\ generation'[g] \in Nat /\ generation'[g] >= generation[g]
    BY <1>3 DEF QuietMotors
  <2>1. target'[g] = target[g] \/ target'[g] = 0
    BY <1>1, <1>2 DEF RecordApplyResult, TypeOK, MotorTypes
  <2>2. latched'[g] => latched[g] \/ target'[g] = 0
    BY <1>1, <1>2 DEF RecordApplyResult, TypeOK, MotorTypes
  <2>3. generation'[g] = generation[g] \/ generation'[g] = generation[g] + 1
    BY <1>1, <1>2 DEF RecordApplyResult, TypeOK, MotorTypes
  <2>4. generation[g] \in Nat
    BY DEF TypeOK, MotorTypes
  <2>5. generation'[g] \in Nat /\ generation'[g] >= generation[g]
    BY <2>3, <2>4
  <2> QED
    BY <2>1, <2>2, <2>5
<1>6. QuietInhibits
  BY <1>1, <1>3, <1>4, ClaimsKept, InhibitsKept DEF Goto
<1>7. QuietWindows
  BY <1>1, <1>3, <1>4 DEF QuietWindows, RollbackWindow, TypeOK, TaskTypes
<1>8. QuietOps
  BY <1>3, <1>4 DEF QuietOps, VerifiedLatchesNothing, RampKind, TypeOK, TaskTypes
<1> QED
  BY <1>5, <1>6, <1>7, <1>8, QuietStep

\* A claim counts a maintenance stop only together with its own pending claim.
LEMMA QuietClaimStop ==
  ASSUME SafeInv, TypeOK', NEW t \in Tasks, NEW o \in Ops,
         pc[t] \in {"boot", "idle", "faultTaken"},
         o.kind = "stop", o.rollback => o.inhibit = "NONE", ClaimStop(t, o)
  PROVE  SafeInv'
<1> USE ConstantTypes DEF SafeInv
<1>1. pc' = [pc EXCEPT ![t] = "stopMutex"] /\ op' = [op EXCEPT ![t] = o]
  BY DEF ClaimStop, Goto
<1>2. UNCHANGED <<motorVars, global_inhibited, communication_inhibited, fan,
                  attempted, previous, changed>>
  BY DEF ClaimStop
<1>3. QuietMotors
  BY <1>2, MotorsKept
<1>4. QuietInhibits
  <2>1. MaintenanceClaimed => MaintenanceClaimed'
    BY <1>1 DEF MaintenanceClaimed, TypeOK, TaskTypes
  <2>2. CASE o.inhibit = "MAINTENANCE"
    <3>1. MaintenanceClaimed'
      BY <1>1, <2>2 DEF MaintenanceClaimed, TypeOK, TaskTypes
    <3> QED
      BY <1>2, <3>1 DEF QuietInhibits, ZeroHeld, motorVars
  <2>3. CASE o.inhibit # "MAINTENANCE"
    BY <1>2, <2>1, <2>3, InhibitsKept DEF ClaimStop, motorVars
  <2> QED
    BY <2>2, <2>3
<1>5. QuietWindows
  BY <1>1, <1>2 DEF QuietWindows, RollbackWindow, TypeOK, TaskTypes
<1>6. QuietOps
  BY <1>1 DEF QuietOps, VerifiedLatchesNothing, RampKind, TypeOK, TaskTypes
<1> QED
  BY <1>3, <1>4, <1>5, <1>6, QuietStep

LEMMA QuietStopEnd ==
  ASSUME SafeInv, TypeOK', NEW t \in Tasks, StopEnd(t)
  PROVE  SafeInv'
<1> USE ConstantTypes, MotorAssumption DEF SafeInv
<1>1. PICK to \in {"idle", "suspended"} : pc' = [pc EXCEPT ![t] = to]
  BY DEF StopEnd, Goto
<1>2. /\ pc[t] = "stopEnd"
      /\ op' = [op EXCEPT ![t] = Op("none")]
      /\ fan' = [fan EXCEPT ![t] = 1]
      /\ previous' = [previous EXCEPT ![t] = [f \in Fans |-> 0]]
      /\ attempted' = [attempted EXCEPT ![t] = [f \in Fans |-> 0]]
      /\ UNCHANGED <<motorVars, maintenance_depth, global_inhibited,
                     communication_inhibited, changed>>
  BY DEF StopEnd
<1>3. QuietMotors
  BY <1>2, MotorsKept
<1>4. QuietInhibits
  <2>1. MaintenanceClaimed => MaintenanceClaimed'
    BY <1>1, <1>2 DEF MaintenanceClaimed, TypeOK, TaskTypes
  <2> QED
    BY <1>2, <2>1, InhibitsKept DEF motorVars
<1>5. QuietWindows
  BY <1>1, <1>2 DEF QuietWindows, RollbackWindow, TypeOK, TaskTypes
<1>6. QuietOps
  BY <1>1, <1>2 DEF QuietOps, VerifiedLatchesNothing, RampKind, TypeOK, TaskTypes, Op
<1> QED
  BY <1>3, <1>4, <1>5, <1>6, QuietStep

LEMMA QuietRampStart ==
  ASSUME SafeInv, TypeOK', RampRegistered \/ RampTick
  PROVE  SafeInv'
<1> USE ConstantTypes DEF SafeInv
<1>1. PICK to \in {"loop", "step"} : pc' = [pc EXCEPT ![Ramp] = to]
  BY DEF RampRegistered, RampTick, Goto
<1>2. /\ pc[Ramp] \in {"boot", "loop"}
      /\ op' = IF pc[Ramp] = "boot" THEN [op EXCEPT ![Ramp] = Op("ramp")] ELSE op
      /\ fan' = fan \/ fan' = [fan EXCEPT ![Ramp] = 1]
      /\ UNCHANGED <<motorVars, inhibitVars, attempted, previous, changed>>
  BY DEF RampRegistered, RampTick
<1>3. QuietMotors
  BY <1>2, MotorsKept
<1>4. QuietInhibits
  <2>1. MaintenanceClaimed => MaintenanceClaimed'
    BY <1>1, <1>2 DEF MaintenanceClaimed, TypeOK, TaskTypes
  <2> QED
    BY <1>2, <2>1, InhibitsKept DEF motorVars, inhibitVars
<1>5. QuietWindows
  BY <1>1, <1>2 DEF QuietWindows, RollbackWindow, TypeOK, TaskTypes
<1>6. QuietOps
  BY <1>1, <1>2 DEF QuietOps, VerifiedLatchesNothing, RampKind, TypeOK, TaskTypes, Op
<1> QED
  BY <1>3, <1>4, <1>5, <1>6, QuietStep

LEMMA QuietZeroProof ==
  ASSUME SafeInv, TypeOK', NEW t \in Callers, ZeroProofBegin(t) \/ ZeroProofStep(t)
  PROVE  SafeInv'
<1> USE ConstantTypes, MotorAssumption
    DEF SafeInv, ZeroProofStep, ZeroProofBegin, ZeroProofLock, ZeroProofTimeout,
        ZeroProofJudge, ZeroProofEnd, Call
<1>1. PICK to \in {"idle", "zeroLock", "zeroHeld", "zeroDenied"} :
        pc' = [pc EXCEPT ![t] = to]
  BY DEF Goto, TypeOK, TaskTypes
<1>2. pc[t] \in {"idle", "zeroLock", "zeroHeld", "zeroDenied"}
  OBVIOUS
<1>3. UNCHANGED <<motorVars, inhibitVars, attempted, previous, changed>>
  OBVIOUS
<1>4. op' = op \/ (\E k \in {"none", "zero"} : op' = [op EXCEPT ![t] = Op(k)])
  OBVIOUS
<1>5. \A u \in Tasks : u # t => fan'[u] = fan[u]
  BY DEF TypeOK, TaskTypes
<1> QED
  <2> USE ConstantTypes, MotorAssumption DEF SafeInv
  <2>1. QuietMotors
    BY <1>3, MotorsKept
  <2>2. QuietInhibits
    <3>1. MaintenanceClaimed => MaintenanceClaimed'
      BY <1>1, <1>2, <1>4 DEF MaintenanceClaimed, TypeOK, TaskTypes
    <3> QED
      BY <1>3, <3>1, InhibitsKept DEF motorVars, inhibitVars
  <2>3. QuietWindows
    BY <1>1, <1>3, <1>4, <1>5 DEF QuietWindows, RollbackWindow, TypeOK, TaskTypes
  <2>4. VerifiedLatchesNothing'
    <3> SUFFICES ASSUME NEW k \in {"none", "zero"}, op' = [op EXCEPT ![t] = Op(k)]
                 PROVE  \A u \in Tasks : op'[u] = op[u] \/ ~op'[u].rollback
      BY <1>4 DEF VerifiedLatchesNothing
    <3>1. Op(k).rollback = FALSE
      BY DEF Op
    <3>2. \A u \in Tasks : op'[u] = IF u = t THEN Op(k) ELSE op[u]
      BY DEF TypeOK, TaskTypes
    <3> QED
      BY <3>1, <3>2
  <2>5. RampKind'
    BY <1>1, <1>4 DEF RampKind, TypeOK, TaskTypes
  <2> QED
    BY <2>1, <2>2, <2>3, <2>4, <2>5, QuietStep DEF QuietOps

\* Requests move a fan only where no inhibit holds it.
LEMMA SafeRequests ==
  ASSUME SafeInv, TypeOK', NEW t \in Callers,
         \/ \E f \in Fans, p \in Targets : RequestManual(t, f, p) \/ RequestAutomatic(t, f, p)
         \/ \E ps \in [Fans -> Targets] : RestoreAll(t, ps)
  PROVE  SafeInv'
<1> USE ConstantTypes DEF SafeInv
<1>1. UNCHANGED <<current, throttle, generation, latched, tach_inhibited,
                  maintenance_depth, global_inhibited, pc, op, fan, attempted,
                  previous, changed>>
  BY DEF RequestManual, RequestAutomatic, RestoreAll, inhibitVars, localVars
<1>2. communication_inhibited' => communication_inhibited
  BY DEF RequestManual, RequestAutomatic, RestoreAll, inhibitVars
<1>3. QuietInhibits
  <2>1. MaintenanceClaimed' <=> MaintenanceClaimed
    BY <1>1 DEF MaintenanceClaimed
  <2> QED
    BY <1>1, <1>2, <2>1 DEF QuietInhibits, ZeroHeld
<1>4. \A f \in Fans :
        target'[f] = target[f] \/ (~latched[f] /\ ~ZeroHeld(f)')
  <2>1. CASE \E f \in Fans, p \in Targets :
               RequestManual(t, f, p) \/ RequestAutomatic(t, f, p)
    <3>1. PICK f \in Fans, p \in Targets :
               RequestManual(t, f, p) \/ RequestAutomatic(t, f, p)
      BY <2>1
    <3>2. ~latched[f] /\ ~global_inhibited' /\ ~communication_inhibited'
          /\ ~tach_inhibited'[f] /\ maintenance_depth' = 0
      BY <3>1 DEF RequestManual, RequestAutomatic, AutomaticAllowed, MotionAllowed,
                  inhibitVars
    <3>3. ~ZeroHeld(f)'
      BY <3>2 DEF ZeroHeld
    <3>4. \A g \in Fans : g # f => target'[g] = target[g]
      BY <3>1 DEF RequestManual, RequestAutomatic, TypeOK, MotorTypes
    <3> QED
      BY <3>2, <3>3, <3>4
  <2>2. CASE \E ps \in [Fans -> Targets] : RestoreAll(t, ps)
    <3> SUFFICES ASSUME NEW f \in Fans PROVE ~latched[f] /\ ~ZeroHeld(f)'
      OBVIOUS
    <3>1. ~latched[f] /\ ~global_inhibited' /\ ~communication_inhibited'
          /\ ~tach_inhibited'[f] /\ maintenance_depth' = 0
      BY <2>2 DEF RestoreAll, AutomaticAllowed, MotionAllowed, inhibitVars
    <3> QED
      BY <3>1 DEF ZeroHeld
  <2> QED
    BY <2>1, <2>2
<1>5. InhibitHoldsZero'
  BY <1>1, <1>3, <1>4 DEF InhibitHoldsZero, QuietInhibits
<1>6. NoStaleRollback'
  BY <1>1, <1>3 DEF NoStaleRollback, RollbackWindow, QuietInhibits
<1>7. VerifiedLatchesNothing' /\ RampKind'
  BY <1>1 DEF VerifiedLatchesNothing, RampKind
<1> QED
  BY <1>5, <1>6, <1>7

\* Releasing an inhibit, pausing the ramp and taking the RMT notification.
LEMMA QuietFlags ==
  ASSUME SafeInv, TypeOK', NEW t \in Callers,
         \/ \E f \in Fans : ClearTachInhibit(t, f)
         \/ ClearMaintenance(t)
         \/ \E paused \in BOOLEAN : SetRampPaused(t, paused)
         \/ TakeRmtFault
  PROVE  SafeInv'
<1> USE ConstantTypes, MotorAssumption DEF SafeInv
<1>1. UNCHANGED <<target, current, throttle, generation, latched>>
  BY DEF ClearTachInhibit, ClearMaintenance, SetRampPaused, TakeRmtFault, motorVars
<1>2. UNCHANGED <<op, fan, attempted, previous, changed>>
  BY DEF ClearTachInhibit, ClearMaintenance, SetRampPaused, TakeRmtFault, localVars
<1>3. UNCHANGED <<global_inhibited, communication_inhibited>>
  BY DEF ClearTachInhibit, ClearMaintenance, SetRampPaused, TakeRmtFault, inhibitVars
<1>4. \/ pc' = pc
      \/ pc[Supervisor] = "idle" /\ pc' = [pc EXCEPT ![Supervisor] = "faultTaken"]
  BY DEF ClearTachInhibit, ClearMaintenance, SetRampPaused, TakeRmtFault, AfterTake, Goto
<1>5. maintenance_depth' > 0 => maintenance_depth > 0
  BY DEF TypeOK, InhibitTypes, ClearTachInhibit, ClearMaintenance, SetRampPaused,
         TakeRmtFault, inhibitVars
<1>6. \A f \in Fans : tach_inhibited'[f] => tach_inhibited[f]
  BY DEF TypeOK, MotorTypes, ClearTachInhibit, ClearMaintenance, SetRampPaused,
         TakeRmtFault, motorVars
<1>7. QuietMotors
  <2>1. \A f \in Fans : generation[f] \in Nat
    BY DEF TypeOK, MotorTypes
  <2> QED
    BY <1>1, <2>1 DEF QuietMotors
<1>8. QuietInhibits
  <2>1. MaintenanceClaimed => MaintenanceClaimed'
    BY <1>2, <1>4 DEF MaintenanceClaimed, TypeOK, TaskTypes
  <2> QED
    BY <1>3, <1>5, <1>6, <2>1 DEF QuietInhibits, ZeroHeld
<1>9. QuietWindows
  <2>1. \A u \in Tasks : pc'[u] # "faultTaken" => pc'[u] = pc[u]
    BY <1>4 DEF TypeOK, TaskTypes
  <2> QED
    BY <1>2, <2>1 DEF QuietWindows, RollbackWindow
<1>10. VerifiedLatchesNothing' /\ RampKind'
  BY <1>2, <1>4 DEF VerifiedLatchesNothing, RampKind, TypeOK, TaskTypes
<1> QED
  BY <1>7, <1>8, <1>9, <1>10, QuietStep DEF QuietOps

(***************************************************************************)
(* The steps that write positions.                                         *)
(***************************************************************************)
\* Every write advances the generation of the fans it zeroes, which closes the
\* rollback windows that were open on them.
LEMMA SafeStopZero ==
  ASSUME SafeInv, TypeOK', NEW t \in Tasks, StopZero(t)
  PROVE  SafeInv'
<1> USE ConstantTypes DEF SafeInv
<1>1. /\ pc' = [pc EXCEPT ![t] = "apply"] /\ pc[t] = "stopMutex"
      /\ target' = [f \in Fans |-> 0]
      /\ current' = [f \in Fans |-> 0]
      /\ throttle' = [f \in Fans |-> 0]
      /\ generation' = [f \in Fans |-> generation[f] + 1]
      /\ attempted' = [attempted EXCEPT ![t] = [f \in Fans |-> generation[f] + 1]]
      /\ previous' = [previous EXCEPT ![t] = current]
      /\ fan' = [fan EXCEPT ![t] = 1]
      /\ UNCHANGED <<op, changed, maintenance_depth>>
  BY DEF StopZero, Goto
<1>2. InhibitHoldsZero'
  BY <1>1 DEF InhibitHoldsZero
<1>3. VerifiedLatchesNothing' /\ RampKind'
  BY <1>1 DEF VerifiedLatchesNothing, RampKind, TypeOK, TaskTypes
<1>4. NoStaleRollback'
  <2> SUFFICES ASSUME NEW u \in Tasks, NEW f \in Fans, RollbackWindow(u, f)'
               PROVE  /\ attempted'[u][f] <= generation'[f]
                      /\ attempted'[u][f] = generation'[f] /\ ZeroHeld(f)'
                           => previous'[u][f] = 0
    BY DEF NoStaleRollback
  <2>1. generation[f] \in Nat /\ generation'[f] = generation[f] + 1
    BY <1>1 DEF TypeOK, MotorTypes
  <2>2. CASE u # t
    <3>1. RollbackWindow(u, f)
      BY <1>1, <2>2 DEF RollbackWindow, TypeOK, TaskTypes
    <3>2. attempted[u][f] <= generation[f] /\ attempted[u][f] \in Nat
      <4>1. attempted[u][f] <= generation[f]
        BY <3>1 DEF NoStaleRollback
      <4>2. attempted[u][f] \in Nat
        BY DEF TypeOK, TaskTypes
      <4> QED
        BY <4>1, <4>2
    <3>3. attempted'[u][f] = attempted[u][f]
      BY <1>1, <2>2 DEF TypeOK, TaskTypes
    <3> QED
      BY <2>1, <3>2, <3>3
  <2>3. CASE u = t
    <3>1. attempted'[t][f] = generation'[f] /\ previous'[t][f] = current[f]
      BY <1>1 DEF TypeOK, TaskTypes
    <3>2. ASSUME ZeroHeld(f)'
          PROVE  current[f] = 0
      <4>1. op[t].rollback
        BY <1>1, <2>3 DEF RollbackWindow, RampKind
      <4>2. op[t].inhibit = "NONE"
        BY <4>1 DEF VerifiedLatchesNothing
      <4>3. ZeroHeld(f)
        <5>1. global_inhibited' => global_inhibited
          BY <4>2 DEF StopZero
        <5>2. communication_inhibited' => communication_inhibited
          BY <4>2 DEF StopZero
        <5>3. tach_inhibited'[f] => tach_inhibited[f]
          BY <4>2 DEF StopZero
        <5>4. MaintenanceClaimed => MaintenanceClaimed'
          BY <1>1, <4>2 DEF MaintenanceClaimed, TypeOK, TaskTypes
        <5> QED
          BY <1>1, <3>2, <5>1, <5>2, <5>3, <5>4 DEF ZeroHeld
      <4> QED
        BY <4>3 DEF InhibitHoldsZero
    <3> QED
      BY <2>1, <2>3, <3>1, <3>2
  <2> QED
    BY <2>2, <2>3
<1> QED
  BY <1>2, <1>3, <1>4

LEMMA SafeZeroOne ==
  ASSUME SafeInv, TypeOK', NEW t \in Callers, NEW f \in Fans, NEW clear \in BOOLEAN,
         StopOne(t, f, clear) \/ SetTachInhibit(t, f)
  PROVE  SafeInv'
<1> USE ConstantTypes, MotorAssumption DEF SafeInv
<1>1. ZeroOne(t, f, clear) \/ ZeroOne(t, f, TRUE)
  BY DEF StopOne, SetTachInhibit
<1>2. /\ pc' = [pc EXCEPT ![t] = "apply"]
      /\ op' = [op EXCEPT ![t] = Op("single")]
      /\ fan' = [fan EXCEPT ![t] = f]
      /\ target' = [target EXCEPT ![f] = 0]
      /\ current' = [current EXCEPT ![f] = 0]
      /\ throttle' = [throttle EXCEPT ![f] = 0]
      /\ generation' = [generation EXCEPT ![f] = @ + 1]
      /\ UNCHANGED <<latched, attempted, previous, changed, maintenance_depth>>
  BY <1>1 DEF ZeroOne, Goto, inhibitVars
<1>3. pc[t] = "idle"
  BY DEF StopOne, SetTachInhibit, Call
<1>4. UNCHANGED <<global_inhibited, communication_inhibited>>
  BY <1>1 DEF ZeroOne, inhibitVars
<1>5. \A g \in Fans : g # f => tach_inhibited'[g] = tach_inhibited[g]
  BY DEF StopOne, SetTachInhibit, TypeOK, MotorTypes
<1>6. MaintenanceClaimed => MaintenanceClaimed'
  BY <1>2, <1>3 DEF MaintenanceClaimed, TypeOK, TaskTypes
<1>7. \A g \in Fans : g # f => (ZeroHeld(g)' => ZeroHeld(g))
  BY <1>2, <1>4, <1>5, <1>6 DEF ZeroHeld
<1>8. InhibitHoldsZero'
  <2> SUFFICES ASSUME NEW g \in Fans
               PROVE  /\ ZeroHeld(g)' => target'[g] = 0 /\ current'[g] = 0 /\ throttle'[g] = 0
                      /\ latched'[g] => target'[g] = 0
    BY DEF InhibitHoldsZero
  <2>1. CASE g = f
    BY <1>2, <2>1 DEF TypeOK, MotorTypes
  <2>2. CASE g # f
    BY <1>2, <1>7, <2>2 DEF InhibitHoldsZero, TypeOK, MotorTypes
  <2> QED
    BY <2>1, <2>2
<1>9. NoStaleRollback'
  <2> SUFFICES ASSUME NEW u \in Tasks, NEW g \in Fans, RollbackWindow(u, g)'
               PROVE  /\ attempted[u][g] <= generation'[g]
                      /\ attempted[u][g] = generation'[g] /\ ZeroHeld(g)'
                           => previous[u][g] = 0
    BY <1>2 DEF NoStaleRollback
  <2>1. u # t
    BY <1>2 DEF RollbackWindow, TypeOK, TaskTypes, Op
  <2>2. RollbackWindow(u, g)
    BY <1>2, <2>1 DEF RollbackWindow, TypeOK, TaskTypes
  <2>3. attempted[u][g] <= generation[g] /\ (attempted[u][g] = generation[g] /\ ZeroHeld(g)
                                               => previous[u][g] = 0)
    BY <2>2 DEF NoStaleRollback
  <2>4. attempted[u][g] \in Nat /\ generation[g] \in Nat
    BY GenerationTypes
  <2>5. generation'[g] = IF g = f THEN generation[g] + 1 ELSE generation[g]
    BY <1>2 DEF TypeOK, MotorTypes
  <2>6. CASE g = f
    BY <2>3, <2>4, <2>5, <2>6
  <2>7. CASE g # f
    BY <1>7, <2>3, <2>5, <2>7
  <2> QED
    BY <2>6, <2>7
<1>10. VerifiedLatchesNothing'
  <2>1. Op("single").rollback = FALSE
    BY DEF Op
  <2> QED
    BY <1>2, <2>1 DEF VerifiedLatchesNothing, TypeOK, TaskTypes
<1>11. RampKind'
  BY <1>2 DEF RampKind, TypeOK, TaskTypes
<1> QED
  BY <1>8, <1>9, <1>10, <1>11

\* The ramp task moves only a fan whose target differs from its position, which
\* no held fan's does; on any other fan its window stays shut.
LEMMA SafeRampAdvance ==
  ASSUME SafeInv, TypeOK', RampAdvance
  PROVE  SafeInv'
<1> USE ConstantTypes, MotorAssumption DEF SafeInv
<1> DEFINE f == fan[Ramp]
           move == current[f] # target[f]
<1>1. pc[Ramp] = "step" /\ f \in Fans
  BY DEF RampAdvance, TypeOK, FanIndexed
<1>2. /\ pc' = [pc EXCEPT ![Ramp] = "apply"]
      /\ changed' = move
      /\ previous' = [previous EXCEPT ![Ramp][f] = current[f]]
      /\ attempted' = [attempted EXCEPT ![Ramp][f] =
                         IF move THEN generation[f] + 1 ELSE generation[f]]
      /\ generation' = [generation EXCEPT ![f] = IF move THEN @ + 1 ELSE @]
      /\ UNCHANGED <<target, latched, tach_inhibited, inhibitVars, op, fan>>
  BY DEF RampAdvance, AfterAdvance, Goto
<1>3. \A g \in Fans : ~(g = f /\ move) =>
        current'[g] = current[g] /\ throttle'[g] = throttle[g]
  BY <1>1 DEF RampAdvance, TypeOK, MotorTypes
<1>4. \A g \in Fans : ZeroHeld(g)' <=> ZeroHeld(g)
  <2>1. MaintenanceClaimed <=> MaintenanceClaimed'
    BY <1>1, <1>2 DEF MaintenanceClaimed, TypeOK, TaskTypes
  <2> QED
    BY <1>2, <2>1 DEF ZeroHeld, inhibitVars
<1>5. \A g \in Fans : ZeroHeld(g) => ~(g = f /\ move)
  BY DEF InhibitHoldsZero
<1>6. InhibitHoldsZero'
  BY <1>2, <1>3, <1>4, <1>5 DEF InhibitHoldsZero
<1>7. \A g \in Fans : generation'[g] = IF g = f /\ move THEN generation[g] + 1 ELSE generation[g]
  BY <1>1, <1>2 DEF TypeOK, MotorTypes
<1>8. NoStaleRollback'
  <2> SUFFICES ASSUME NEW u \in Tasks, NEW g \in Fans, RollbackWindow(u, g)'
               PROVE  /\ attempted'[u][g] <= generation'[g]
                      /\ attempted'[u][g] = generation'[g] /\ ZeroHeld(g)
                           => previous'[u][g] = 0
    BY <1>4 DEF NoStaleRollback
  <2>1. attempted[u][g] \in Nat /\ generation[g] \in Nat
    BY GenerationTypes
  <2>2. CASE u = Ramp
    <3>1. g = f /\ move
      BY <1>1, <1>2, <2>2 DEF RollbackWindow, RampKind, TypeOK, TaskTypes
    <3>2. attempted'[u][g] = generation'[g]
      BY <1>1, <1>2, <1>7, <2>2, <3>1 DEF TypeOK, TaskTypes
    <3> QED
      BY <1>5, <1>7, <2>1, <3>1, <3>2
  <2>3. CASE u # Ramp
    <3>1. RollbackWindow(u, g)
      BY <1>2, <2>3 DEF RollbackWindow, TypeOK, TaskTypes
    <3>2. attempted[u][g] <= generation[g] /\ (attempted[u][g] = generation[g] /\ ZeroHeld(g)
                                                 => previous[u][g] = 0)
      BY <3>1 DEF NoStaleRollback
    <3>3. attempted'[u][g] = attempted[u][g] /\ previous'[u][g] = previous[u][g]
      BY <1>2, <2>3 DEF TypeOK, TaskTypes
    <3> QED
      BY <1>7, <2>1, <3>2, <3>3
  <2> QED
    BY <2>2, <2>3
<1>9. VerifiedLatchesNothing' /\ RampKind'
  BY <1>2 DEF VerifiedLatchesNothing, RampKind, TypeOK, TaskTypes
<1> QED
  BY <1>6, <1>8, <1>9

\* A rollback inside its window writes back a position that no inhibit forbids,
\* and invalidates every other remembered position of the fan.
LEMMA SafeRollBack ==
  ASSUME SafeInv, TypeOK', NEW t \in Tasks, NEW f \in Fans, NEW undo \in BOOLEAN,
         RollBack(t, f, undo),
         undo => RollbackWindow(t, f) /\ ~Superseded(t, f),
         UNCHANGED <<target, latched, tach_inhibited, inhibitVars>>,
         MaintenanceClaimed => MaintenanceClaimed',
         \A u \in Tasks, g \in Fans :
           RollbackWindow(u, g)' =>
             /\ RollbackWindow(u, g)
             /\ attempted'[u][g] = attempted[u][g] /\ previous'[u][g] = previous[u][g]
  PROVE  InhibitHoldsZero' /\ NoStaleRollback'
<1> USE DEF SafeInv
<1>1. \A g \in Fans : ZeroHeld(g)' => ZeroHeld(g)
  BY DEF ZeroHeld, inhibitVars
<1>2. \A g \in Fans : ~(undo /\ g = f) =>
        /\ current'[g] = current[g] /\ throttle'[g] = throttle[g]
        /\ generation'[g] = generation[g]
  BY DEF RollBack, TypeOK, MotorTypes
<1>3. undo => /\ current'[f] = previous[t][f]
              /\ throttle'[f] = PctToDshot(previous[t][f])
              /\ generation'[f] = generation[f] + 1
  BY DEF RollBack, TypeOK, MotorTypes
<1>4. InhibitHoldsZero'
  <2> SUFFICES ASSUME NEW g \in Fans
               PROVE  /\ ZeroHeld(g)' => target'[g] = 0 /\ current'[g] = 0 /\ throttle'[g] = 0
                      /\ latched'[g] => target'[g] = 0
    BY DEF InhibitHoldsZero
  <2>1. CASE ~(undo /\ g = f)
    BY <1>1, <1>2, <2>1 DEF InhibitHoldsZero
  <2>2. CASE undo /\ g = f
    <3>1. ZeroHeld(f)' => previous[t][f] = 0
      BY <1>1, <2>2 DEF NoStaleRollback, Superseded
    <3>2. previous[t][f] = 0 => PctToDshot(previous[t][f]) = 0
      BY GenerationTypes, PctToDshotType
    <3> QED
      BY <1>1, <1>3, <2>2, <3>1, <3>2 DEF InhibitHoldsZero
  <2> QED
    BY <2>1, <2>2
<1>5. NoStaleRollback'
  <2> SUFFICES ASSUME NEW u \in Tasks, NEW g \in Fans, RollbackWindow(u, g)'
               PROVE  /\ attempted'[u][g] <= generation'[g]
                      /\ attempted'[u][g] = generation'[g] /\ ZeroHeld(g)'
                           => previous'[u][g] = 0
    BY DEF NoStaleRollback
  <2>1. /\ attempted'[u][g] = attempted[u][g] /\ previous'[u][g] = previous[u][g]
        /\ attempted[u][g] <= generation[g]
        /\ attempted[u][g] = generation[g] /\ ZeroHeld(g) => previous[u][g] = 0
    BY DEF NoStaleRollback
  <2>2. attempted[u][g] \in Nat /\ generation[g] \in Nat
    BY GenerationTypes
  <2>3. generation'[g] = generation[g] \/ generation'[g] = generation[g] + 1
    BY <1>2, <1>3
  <2> QED
    BY <1>1, <2>1, <2>2, <2>3
<1> QED
  BY <1>4, <1>5

LEMMA SafeStopApplied ==
  ASSUME SafeInv, TypeOK', NEW t \in Tasks, StopApplied(t)
  PROVE  SafeInv'
<1> USE ConstantTypes DEF SafeInv
<1> DEFINE f == fan[t]
           undo == pc[t] = "failed" /\ op[t].rollback /\ ~Superseded(t, f)
<1>1. /\ pc[t] \in {"applied", "failed"} /\ op[t].kind = "stop" /\ f \in Fans
      /\ RollBack(t, f, undo)
      /\ fan' = [fan EXCEPT ![t] = @ + 1]
  BY DEF StopApplied, TypeOK, FanIndexed
<1>2. UNCHANGED <<target, latched, tach_inhibited, inhibitVars, op, previous, attempted,
                  changed>>
  BY DEF StopApplied
<1>3. PICK to \in {"apply", "stopEnd"} : pc' = [pc EXCEPT ![t] = to]
  BY DEF StopApplied, Goto
<1>4. undo => RollbackWindow(t, f) /\ ~Superseded(t, f)
  BY <1>1 DEF RollbackWindow, Fans
<1>5. MaintenanceClaimed => MaintenanceClaimed'
  BY <1>1, <1>2, <1>3 DEF MaintenanceClaimed, TypeOK, TaskTypes
<1>6. ASSUME NEW u \in Tasks, NEW g \in Fans, RollbackWindow(u, g)'
      PROVE  RollbackWindow(u, g)
  <2>1. CASE u = t
    <3>1. fan'[t] = f + 1 /\ f \in Int /\ g \in Int
      BY <1>1 DEF TypeOK, TaskTypes, Fans
    <3> QED
      BY <1>1, <1>2, <1>6, <2>1, <3>1 DEF RollbackWindow
  <2>2. CASE u # t
    BY <1>1, <1>2, <1>3, <1>6, <2>2 DEF RollbackWindow, TypeOK, TaskTypes
  <2> QED
    BY <2>1, <2>2
<1>7. InhibitHoldsZero' /\ NoStaleRollback'
  <2>1. undo \in BOOLEAN
    OBVIOUS
  <2> HIDE DEF undo, f
  <2> QED
    BY <1>1, <1>2, <1>4, <1>5, <1>6, <2>1, SafeRollBack
<1>8. VerifiedLatchesNothing' /\ RampKind'
  BY <1>2, <1>3 DEF VerifiedLatchesNothing, RampKind, TypeOK, TaskTypes
<1> QED
  BY <1>7, <1>8

LEMMA SafeRampApplied ==
  ASSUME SafeInv, TypeOK', RampApplied
  PROVE  SafeInv'
<1> USE ConstantTypes, MotorAssumption DEF SafeInv
<1> DEFINE f == fan[Ramp]
           undo == changed /\ pc[Ramp] = "failed" /\ ~Superseded(Ramp, f)
<1>1. /\ pc[Ramp] \in {"applied", "failed"} /\ op[Ramp].kind = "ramp" /\ f \in Fans
      /\ RollBack(Ramp, f, undo)
      /\ \A u \in Tasks : u # Ramp =>
           fan'[u] = fan[u] /\ attempted'[u] = attempted[u] /\ previous'[u] = previous[u]
  BY DEF RampApplied, TypeOK, FanIndexed, TaskTypes
<1>2. UNCHANGED <<target, latched, tach_inhibited, inhibitVars, op>>
  BY DEF RampApplied
<1>3. PICK to \in {"step", "loop"} : pc' = [pc EXCEPT ![Ramp] = to]
  BY DEF RampApplied, Goto
<1>4. undo => RollbackWindow(Ramp, f) /\ ~Superseded(Ramp, f)
  BY <1>1 DEF RollbackWindow
<1>5. MaintenanceClaimed => MaintenanceClaimed'
  BY <1>1, <1>2, <1>3 DEF MaintenanceClaimed, TypeOK, TaskTypes
<1>6. ASSUME NEW u \in Tasks, NEW g \in Fans, RollbackWindow(u, g)'
      PROVE  /\ RollbackWindow(u, g)
             /\ attempted'[u][g] = attempted[u][g] /\ previous'[u][g] = previous[u][g]
  BY <1>1, <1>2, <1>3, <1>6 DEF RollbackWindow, TypeOK, TaskTypes
<1>7. InhibitHoldsZero' /\ NoStaleRollback'
  <2>1. undo \in BOOLEAN
    BY Zenon DEF SafeInv, TypeOK, TaskTypes
  <2> HIDE DEF undo, f
  <2> QED
    BY <1>1, <1>2, <1>4, <1>5, <1>6, <2>1, SafeRollBack
<1>8. VerifiedLatchesNothing' /\ RampKind'
  BY <1>1, <1>2, <1>3 DEF VerifiedLatchesNothing, RampKind, TypeOK, TaskTypes
<1> QED
  BY <1>7, <1>8

(***************************************************************************)
(* The theorems.                                                           *)
(***************************************************************************)
LEMMA SafeInit == Init => SafeInv
<1> SUFFICES ASSUME Init PROVE SafeInv
  OBVIOUS
<1>1. InhibitHoldsZero
  BY DEF Init, InhibitHoldsZero
<1>2. NoStaleRollback
  BY DEF Init, NoStaleRollback, RollbackWindow
<1>3. VerifiedLatchesNothing /\ RampKind
  BY ConstantTypes DEF Init, VerifiedLatchesNothing, RampKind, Op
<1> QED
  BY <1>1, <1>2, <1>3, TypeInit DEF SafeInv

LEMMA SafeStep ==
  ASSUME SafeInv, TypeOK', [Next]_vars
  PROVE  SafeInv'
<1> USE ConstantTypes
<1>1. CASE \E t \in Tasks : ApplyStep(t) \/ StopStep(t)
  BY <1>1, QuietApplyBegin, QuietApplyFinish, SafeStopZero, SafeStopApplied, QuietStopEnd
     DEF ApplyStep, StopStep
<1>2. CASE RampTask
  <2>1. CASE RampFatal
    <3>1. StopOp("GLOBAL", TRUE) \in Ops
      BY OpTypes DEF Inhibits
    <3>2. StopOp("GLOBAL", TRUE).kind = "stop" /\ StopOp("GLOBAL", TRUE).rollback = FALSE
      BY DEF StopOp
    <3> QED
      BY <2>1, <3>1, <3>2, QuietClaimStop DEF RampFatal
  <2>2. CASE RampSuspended
    BY <2>2 DEF RampSuspended, vars, motorVars, inhibitVars, localVars, mutexVars, SafeInv,
                InhibitHoldsZero, ZeroHeld, MaintenanceClaimed, NoStaleRollback,
                RollbackWindow, VerifiedLatchesNothing, RampKind
  <2> QED
    BY <1>2, <2>1, <2>2, QuietRampStart, SafeRampAdvance, SafeRampApplied DEF RampTask
<1>3. CASE \E t \in Callers : CallerStart(t) \/ ZeroProofStep(t)
  <2> SUFFICES ASSUME NEW t \in Callers, CallerStart(t) \/ ZeroProofStep(t) PROVE SafeInv'
    BY <1>3
  <2>1. CASE \E o \in StopCalls : StopAll(t, o)
    <3>1. PICK o \in StopCalls : StopAll(t, o)
      BY <2>1
    <3>2. o \in Ops /\ o.kind = "stop" /\ (o.rollback => o.inhibit = "NONE")
      BY MotorAssumption DEF StopVariants
    <3> QED
      BY <3>1, <3>2, QuietClaimStop DEF StopAll, Call
  <2> QED
    BY <2>1, SafeZeroOne, SafeRequests, QuietFlags, QuietZeroProof DEF CallerStart
<1>4. CASE TakeRmtFault
  BY <1>4, MotorAssumption, QuietFlags
<1>5. CASE StopForRmtFault
  <2>1. StopOp("RMT", FALSE) \in Ops
    BY OpTypes DEF Inhibits
  <2>2. StopOp("RMT", FALSE).kind = "stop" /\ StopOp("RMT", FALSE).rollback = FALSE
    BY DEF StopOp
  <2> QED
    BY <1>5, <2>1, <2>2, QuietClaimStop DEF StopForRmtFault
<1>6. CASE UNCHANGED vars
  BY <1>6 DEF vars, motorVars, inhibitVars, localVars, mutexVars, SafeInv,
              InhibitHoldsZero, ZeroHeld, MaintenanceClaimed, NoStaleRollback,
              RollbackWindow, VerifiedLatchesNothing, RampKind
<1> QED
  BY <1>1, <1>2, <1>3, <1>4, <1>5, <1>6 DEF Next

\* No inhibit that a stop has zeroed for is ever undone by a request, a ramp
\* iteration or a rollback, for any number of tasks, fans and faults.
THEOREM InhibitSafety == Spec => []InhibitHoldsZero
<1>1. SafeInv /\ TypeOK' /\ [Next]_vars => SafeInv'
  BY SafeStep
<1>2. SafeInv => InhibitHoldsZero
  BY DEF SafeInv
<1> QED
  BY <1>1, <1>2, SafeInit, TypeCorrectness, PTL DEF Spec

(***************************************************************************)
(* The throttle is the position's: every write of one writes the other,    *)
(* and the reserved range that apply_motor coerces is never reached.       *)
(***************************************************************************)
LEMMA TracksStep ==
  ASSUME TypeOK, ThrottleTracksPosition, TypeOK', [Next]_vars
  PROVE  ThrottleTracksPosition'
<1>1. \A f \in Fans : current'[f] \in Pct
  BY DEF TypeOK, MotorTypes
<1>2. SUFFICES ASSUME NEW f \in Fans PROVE throttle'[f] = PctToDshot(current'[f])
  BY <1>1, PctToDshotType DEF ThrottleTracksPosition
<1>3. throttle[f] = PctToDshot(current[f]) /\ throttle[f] \notin Reserved
  BY DEF ThrottleTracksPosition
<1>4. PctToDshot(0) = 0
  BY ConstantTypes, PctToDshotType
<1>5. ASSUME throttle'[f] = throttle[f], current'[f] = current[f]
      PROVE  throttle'[f] = PctToDshot(current'[f])
  BY <1>3, <1>5
<1>6. CASE \E t \in Tasks : ApplyStep(t) \/ StopStep(t)
  <2>1. PICK t \in Tasks : ApplyStep(t) \/ StopStep(t)
    BY <1>6
  <2>2. CASE ApplyBegin(t)
    <3>1. fan[t] = f => throttle'[f] = throttle[f]
      BY <1>3, <2>2 DEF ApplyBegin, TypeOK, MotorTypes
    <3>2. fan[t] # f => throttle'[f] = throttle[f]
      BY <2>2 DEF ApplyBegin, TypeOK, MotorTypes
    <3> QED
      BY <1>5, <2>2, <3>1, <3>2 DEF ApplyBegin
  <2>3. CASE StopZero(t)
    BY <1>4, <2>3 DEF StopZero
  <2>4. CASE StopApplied(t)
    <3>1. PICK undo \in BOOLEAN : RollBack(t, fan[t], undo)
      BY <2>4 DEF StopApplied
    <3> QED
      BY <1>3, <3>1 DEF RollBack, TypeOK, MotorTypes
  <2>5. CASE ApplyFinish(t) \/ StopEnd(t)
    BY <1>5, <2>5 DEF ApplyFinish, StopEnd, motorVars
  <2> QED
    BY <2>1, <2>2, <2>3, <2>4, <2>5 DEF ApplyStep, StopStep
<1>7. CASE RampTask
  <2>1. CASE RampAdvance
    BY <1>3, <2>1 DEF RampAdvance, TypeOK, MotorTypes
  <2>2. CASE RampApplied
    <3>1. PICK undo : RollBack(Ramp, fan[Ramp], undo)
      BY <2>2 DEF RampApplied
    <3> QED
      BY <1>3, <3>1 DEF RollBack, TypeOK, MotorTypes
  <2> QED
    BY <1>5, <1>7, <2>1, <2>2 DEF RampTask, RampRegistered, RampFatal, RampSuspended,
         RampTick, ClaimStop, motorVars, vars
<1>8. CASE \E t \in Callers : CallerStart(t) \/ ZeroProofStep(t)
  <2>1. PICK t \in Callers : CallerStart(t) \/ ZeroProofStep(t)
    BY <1>8
  <2>2. CASE \E g \in Fans, clear \in BOOLEAN : ZeroOne(t, g, clear)
    BY <1>3, <1>4, <2>2 DEF ZeroOne, TypeOK, MotorTypes
  <2>3. CASE ZeroProofBegin(t) \/ ZeroProofStep(t)
    BY <1>5, <2>3 DEF ZeroProofBegin, ZeroProofStep, ZeroProofLock, ZeroProofTimeout,
                      ZeroProofJudge, ZeroProofEnd, motorVars
  <2>4. CASE \E o \in StopCalls : StopAll(t, o)
    BY <1>5, <2>4 DEF StopAll, ClaimStop, motorVars
  <2>5. CASE \/ \E g \in Fans : ClearTachInhibit(t, g)
             \/ \E g \in Fans, p \in Targets : RequestManual(t, g, p) \/ RequestAutomatic(t, g, p)
             \/ \E ps \in [Fans -> Targets] : RestoreAll(t, ps)
             \/ ClearMaintenance(t)
             \/ \E paused \in BOOLEAN : SetRampPaused(t, paused)
    BY <1>5, <2>5 DEF ClearTachInhibit, RequestManual, RequestAutomatic, RestoreAll,
                      ClearMaintenance, SetRampPaused, motorVars
  <2> QED
    BY <2>1, <2>2, <2>3, <2>4, <2>5 DEF CallerStart, StopOne, SetTachInhibit
<1>9. CASE TakeRmtFault \/ StopForRmtFault \/ UNCHANGED vars
  BY <1>5, <1>9 DEF TakeRmtFault, StopForRmtFault, ClaimStop, motorVars, vars
<1> QED
  BY <1>6, <1>7, <1>8, <1>9 DEF Next

\* A fan's throttle always stands for its position and is never one of the
\* reserved DShot commands, for every minimum spin and ramp step.
THEOREM ThrottleSafety == Spec => []ThrottleTracksPosition
<1>1. Init => ThrottleTracksPosition
  BY ConstantTypes, PctToDshotType DEF Init, ThrottleTracksPosition
<1> QED
  BY <1>1, TracksStep, TypeCorrectness, PTL DEF Spec

-----------------------------------------------------------------------------
(***************************************************************************)
(* What a stop, an RMT fault and a safe-zero proof rely on.  Each step is  *)
(* one of a single task, which touches its own locals and its own mutexes; *)
(* the mutexes say who may change an output, s_stop_depth and rmt_inhibited*)
(* that nothing moves, and the generation that nothing comes back.         *)
(***************************************************************************)
\* The operations of task t that are one critical section.
Request(t) ==
  \/ \E f \in Fans : ClearTachInhibit(t, f)
  \/ \E f \in Fans, p \in Targets : RequestManual(t, f, p) \/ RequestAutomatic(t, f, p)
  \/ \E ps \in [Fans -> Targets] : RestoreAll(t, ps)
  \/ ClearMaintenance(t)
  \/ \E paused \in BOOLEAN : SetRampPaused(t, paused)

\* The steps of task t.
By(t) ==
  \/ ApplyStep(t) \/ StopStep(t)
  \/ t = Ramp /\ RampTask
  \/ t \in Callers /\ (CallerStart(t) \/ ZeroProofStep(t))
  \/ t = Supervisor /\ (TakeRmtFault \/ StopForRmtFault)

LEMMA StepOfOne ==
  ASSUME Next
  PROVE  \E t \in Tasks : By(t)
  BY MotorAssumption DEF Next, By, Tasks

\* A step of task t leaves the locals and the mutexes of the others alone.
OthersKept(t) ==
  \A u \in Tasks : u # t =>
    /\ pc'[u] = pc[u] /\ op'[u] = op[u] /\ fan'[u] = fan[u] /\ request'[u] = request[u]
    /\ stop_ok'[u] = stop_ok[u] /\ previous'[u] = previous[u] /\ attempted'[u] = attempted[u]
    /\ \A f \in Fans : io_owner'[f] = u <=> io_owner[f] = u

\* Giving back one's own mutexes and taking a free one touch no other task's.
LEMMA IoKept ==
  ASSUME TypeOK, NEW t \in Tasks,
         GiveIo(t) \/ (\E f \in Fans : TakeIo(t, f)) \/ UNCHANGED io_owner
  PROVE  \A u \in Tasks, f \in Fans : u # t => (io_owner'[f] = u <=> io_owner[f] = u)
<1> USE ConstantTypes, MotorAssumption DEF TypeOK, OutputTypes
<1>1. CASE GiveIo(t)
  <2> SUFFICES ASSUME NEW u \in Tasks, NEW f \in Fans, u # t
               PROVE  io_owner'[f] = u <=> io_owner[f] = u
    OBVIOUS
  <2>1. io_owner'[f] = IF io_owner[f] = t THEN NoTask ELSE io_owner[f]
    BY <1>1 DEF GiveIo
  <2> QED
    BY <2>1
<1>2. CASE \E f \in Fans : TakeIo(t, f)
  BY <1>2 DEF TakeIo
<1>3. CASE UNCHANGED io_owner
  BY <1>3
<1> QED
  BY <1>1, <1>2, <1>3

LEMMA OneTaskMoves ==
  ASSUME TypeOK, NEW t \in Tasks, By(t)
  PROVE  OthersKept(t)
<1> USE ConstantTypes, MotorAssumption
<1>1. CASE ApplyBegin(t)
  BY <1>1
     DEF ApplyBegin, TakeIo, Goto, OthersKept, TypeOK, TaskTypes, OutputTypes, localVars,
         mutexVars
<1>2. CASE ApplyFinish(t)
  <2>1. \A u \in Tasks : u # t => pc'[u] = pc[u] /\ request'[u] = request[u]
    BY <1>2 DEF ApplyFinish, Goto, TypeOK, TaskTypes, OutputTypes
  <2> QED
    BY <1>2, <2>1, IoKept DEF ApplyFinish, OthersKept
<1>3. CASE StopZero(t)
  BY <1>3
     DEF StopZero, Goto, OthersKept, TypeOK, TaskTypes, OutputTypes, localVars, mutexVars
<1>4. CASE StopApplied(t)
  BY <1>4
     DEF StopApplied, Goto, OthersKept, TypeOK, TaskTypes, OutputTypes, localVars,
         mutexVars
<1>5. CASE StopEnd(t)
  BY <1>5
     DEF StopEnd, GiveStopMutex, Goto, Op, OthersKept, TypeOK, TaskTypes, OutputTypes,
         localVars, mutexVars
<1>6. CASE t = Ramp /\ RampRegistered
  BY <1>6
     DEF RampRegistered, Goto, Op, OthersKept, TypeOK, TaskTypes, OutputTypes, localVars,
         mutexVars
<1>7. CASE t = Ramp /\ RampFatal
  BY <1>7
     DEF RampFatal, ClaimStop, StopOp, Goto, OthersKept, TypeOK, TaskTypes, OutputTypes,
         localVars, mutexVars
<1>8. CASE t = Ramp /\ RampTick
  BY <1>8
     DEF RampTick, Goto, OthersKept, TypeOK, TaskTypes, OutputTypes, localVars, mutexVars
<1>9. CASE t = Ramp /\ RampAdvance
  BY <1>9
     DEF RampAdvance, AfterAdvance, Goto, OthersKept, TypeOK, TaskTypes, OutputTypes,
         localVars, mutexVars
<1>10. CASE t = Ramp /\ RampApplied
  BY <1>10
     DEF RampApplied, Goto, OthersKept, TypeOK, TaskTypes, OutputTypes, localVars,
         mutexVars
<1>11. ASSUME NEW o \in StopCalls, StopAll(t, o)
      PROVE  OthersKept(t)
  BY <1>11
     DEF StopAll, ClaimStop, Call, Goto, OthersKept, TypeOK, TaskTypes, OutputTypes,
         localVars, mutexVars
<1>12. ASSUME NEW f \in Fans, NEW clear \in BOOLEAN, ZeroOne(t, f, clear), pc[t] = "idle"
      PROVE  OthersKept(t)
  BY <1>12
     DEF ZeroOne, Goto, Op, OthersKept, TypeOK, TaskTypes, OutputTypes, localVars,
         mutexVars
<1>13. CASE Request(t)
  BY <1>13
     DEF Request, ClearTachInhibit, RequestManual, RequestAutomatic, RestoreAll,
         ClearMaintenance, SetRampPaused, Call, OthersKept, TypeOK, TaskTypes,
         OutputTypes, localVars, mutexVars
<1>14. CASE ZeroProofBegin(t)
  BY <1>14
     DEF ZeroProofBegin, Call, Goto, Op, OthersKept, TypeOK, TaskTypes, OutputTypes,
         localVars, mutexVars
<1>15. CASE ZeroProofLock(t)
  BY <1>15
     DEF ZeroProofLock, TakeIo, OthersKept, TypeOK, TaskTypes, OutputTypes, localVars,
         mutexVars
<1>16. CASE ZeroProofTimeout(t)
  <2>1. \A u \in Tasks : u # t => pc'[u] = pc[u] /\ op'[u] = op[u] /\ fan'[u] = fan[u]
    BY <1>16 DEF ZeroProofTimeout, Goto, TypeOK, TaskTypes
  <2> QED
    BY <1>16, <2>1, IoKept DEF ZeroProofTimeout, OthersKept
<1>17. CASE ZeroProofJudge(t)
  BY <1>17
     DEF ZeroProofJudge, Goto, OthersKept, TypeOK, TaskTypes, OutputTypes, localVars,
         mutexVars
<1>18. CASE ZeroProofEnd(t)
  <2>1. \A u \in Tasks : u # t => pc'[u] = pc[u] /\ op'[u] = op[u] /\ fan'[u] = fan[u]
    BY <1>18 DEF ZeroProofEnd, Goto, TypeOK, TaskTypes
  <2> QED
    BY <1>18, <2>1, IoKept DEF ZeroProofEnd, OthersKept
<1>19. CASE t = Supervisor /\ TakeRmtFault
  BY <1>19
     DEF TakeRmtFault, AfterTake, Goto, OthersKept, TypeOK, TaskTypes, OutputTypes,
         localVars, mutexVars
<1>20. CASE t = Supervisor /\ StopForRmtFault
  BY <1>20
     DEF StopForRmtFault, ClaimStop, StopOp, Goto, OthersKept, TypeOK, TaskTypes,
         OutputTypes, localVars, mutexVars
<1>21. CASE t = Ramp /\ RampSuspended
  BY <1>21 DEF RampSuspended, vars, OthersKept, localVars, mutexVars
<1> QED
  BY <1>1, <1>2, <1>3, <1>4, <1>5, <1>6, <1>7, <1>8, <1>9, <1>10, <1>11, <1>12, <1>13,
     <1>14, <1>15, <1>16, <1>17, <1>18, <1>19, <1>20, <1>21
     DEF By, ApplyStep, StopStep, RampTask, CallerStart, ZeroProofStep, Request, StopOne,
         SetTachInhibit, Call

\* Which io_mutexes task t holds at its position.
HoldsIo(t) ==
  /\ pc[t] = "rmt" => io_owner[fan[t]] = t
  /\ pc[t] = "zeroLock" => \A f \in Fans : f < fan[t] => io_owner[f] = t
  /\ pc[t] \in {"zeroHeld", "zeroDenied"} => \A f \in Fans : io_owner[f] = t

Holders == \A t \in Tasks : HoldsIo(t)

LEMMA HoldersStep ==
  ASSUME TypeOK, Holders, NEW t \in Tasks, By(t)
  PROVE  Holders'
<1> USE ConstantTypes, MotorAssumption
<1>0. SUFFICES HoldsIo(t)'
  <2> SUFFICES ASSUME NEW u \in Tasks, u # t PROVE HoldsIo(u)'
    BY DEF Holders
  <2>1. pc[u] = "rmt" => fan[u] \in Fans
    BY DEF TypeOK, FanIndexed
  <2> QED
    BY <2>1, OneTaskMoves DEF Holders, HoldsIo, OthersKept
<1>1. CASE ApplyBegin(t)
  BY <1>1
     DEF ApplyBegin, TakeIo, Goto, FanIndexed, OutputTypes, HoldsIo, TypeOK, TaskTypes,
         localVars, mutexVars
<1>2. CASE ApplyFinish(t)
  BY <1>2
     DEF ApplyFinish, GiveIo, Goto, HoldsIo, TypeOK, TaskTypes, localVars, mutexVars
<1>3. CASE StopZero(t)
  BY <1>3
     DEF StopZero, Goto, HoldsIo, TypeOK, TaskTypes, localVars, mutexVars
<1>4. CASE StopApplied(t)
  BY <1>4
     DEF StopApplied, Goto, HoldsIo, TypeOK, TaskTypes, localVars, mutexVars
<1>5. CASE StopEnd(t)
  BY <1>5
     DEF StopEnd, GiveStopMutex, Goto, Op, HoldsIo, TypeOK, TaskTypes, localVars,
         mutexVars
<1>6. CASE t = Ramp /\ RampRegistered
  BY <1>6
     DEF RampRegistered, Goto, Op, HoldsIo, TypeOK, TaskTypes, localVars, mutexVars
<1>7. CASE t = Ramp /\ RampFatal
  BY <1>7
     DEF RampFatal, ClaimStop, StopOp, Goto, HoldsIo, TypeOK, TaskTypes, localVars,
         mutexVars
<1>8. CASE t = Ramp /\ RampTick
  BY <1>8
     DEF RampTick, Goto, HoldsIo, TypeOK, TaskTypes, localVars, mutexVars
<1>9. CASE t = Ramp /\ RampAdvance
  BY <1>9
     DEF RampAdvance, AfterAdvance, Goto, HoldsIo, TypeOK, TaskTypes, localVars, mutexVars
<1>10. CASE t = Ramp /\ RampApplied
  BY <1>10
     DEF RampApplied, Goto, HoldsIo, TypeOK, TaskTypes, localVars, mutexVars
<1>11. ASSUME NEW o \in StopCalls, StopAll(t, o)
      PROVE  HoldsIo(t)'
  BY <1>11
     DEF StopAll, ClaimStop, Call, Goto, HoldsIo, TypeOK, TaskTypes, localVars, mutexVars
<1>12. ASSUME NEW f \in Fans, NEW clear \in BOOLEAN, ZeroOne(t, f, clear), pc[t] = "idle"
      PROVE  HoldsIo(t)'
  BY <1>12
     DEF ZeroOne, Goto, Op, HoldsIo, TypeOK, TaskTypes, localVars, mutexVars
<1>13. CASE Request(t)
  BY <1>13
     DEF Request, ClearTachInhibit, RequestManual, RequestAutomatic, RestoreAll, ClearMaintenance,
         SetRampPaused, Call, Holders, HoldsIo, localVars, mutexVars
<1>14. CASE ZeroProofBegin(t)
  BY <1>14
     DEF ZeroProofBegin, Call, Goto, Op, HoldsIo, TypeOK, TaskTypes, localVars, mutexVars
<1>15. CASE ZeroProofLock(t)
  <2>1. pc'[t] = "zeroLock" /\ fan[t] \in Nat /\ fan'[t] = fan[t] + 1
    BY <1>15 DEF ZeroProofLock, TypeOK, TaskTypes
  <2>2. \A f \in Fans : io_owner'[f] = IF f = fan[t] THEN t ELSE io_owner[f]
    BY <1>15 DEF ZeroProofLock, TakeIo, TypeOK, OutputTypes
  <2>3. \A f \in Fans : f < fan[t] => io_owner[f] = t
    BY <1>15 DEF ZeroProofLock, Holders, HoldsIo
  <2>4. \A f \in Fans : f < fan'[t] => f < fan[t] \/ f = fan[t]
    BY <2>1
  <2> QED
    BY <2>1, <2>2, <2>3, <2>4 DEF HoldsIo
<1>16. CASE ZeroProofTimeout(t)
  BY <1>16
     DEF ZeroProofTimeout, GiveIo, Goto, Op, HoldsIo, TypeOK, TaskTypes, localVars,
         mutexVars
<1>17. CASE ZeroProofJudge(t)
  BY <1>17
     DEF ZeroProofJudge, Goto, Holders, HoldsIo, TypeOK, TaskTypes, localVars, mutexVars
<1>18. CASE ZeroProofEnd(t)
  BY <1>18
     DEF ZeroProofEnd, GiveIo, Goto, Op, HoldsIo, TypeOK, TaskTypes, localVars, mutexVars
<1>19. CASE t = Supervisor /\ TakeRmtFault
  BY <1>19
     DEF TakeRmtFault, AfterTake, Goto, HoldsIo, TypeOK, TaskTypes, localVars, mutexVars
<1>20. CASE t = Supervisor /\ StopForRmtFault
  BY <1>20
     DEF StopForRmtFault, ClaimStop, StopOp, Goto, HoldsIo, TypeOK, TaskTypes, localVars,
         mutexVars
<1>21. CASE t = Ramp /\ RampSuspended
  BY <1>21 DEF RampSuspended, vars, Holders, HoldsIo, localVars, mutexVars
<1> QED
  BY <1>1, <1>2, <1>3, <1>4, <1>5, <1>6, <1>7, <1>8, <1>9, <1>10, <1>11, <1>12, <1>13,
     <1>14, <1>15, <1>16, <1>17, <1>18, <1>19, <1>20, <1>21
     DEF By, ApplyStep, StopStep, RampTask, CallerStart, ZeroProofStep, Request, StopOne,
         SetTachInhibit, Call

\* Where a stop is: behind StopZero it owns s_stop_mutex.
StopPlace(t) ==
  /\ op[t].kind = "stop" => pc[t] \in {"stopMutex"} \cup AfterZeroing
  /\ pc[t] \in {"stopMutex", "stopEnd"} => op[t].kind = "stop"
  /\ op[t].kind = "stop" /\ pc[t] \in AfterZeroing => stop_owner = t

Positions == \A t \in Tasks : StopPlace(t)

LEMMA StopKinds ==
  /\ \A o \in StopCalls : o \in Ops /\ o.kind = "stop" /\ (o.rollback => o.inhibit = "NONE")
  /\ \A i, c : StopOp(i, c).kind = "stop" /\ StopOp(i, c).inhibit = i /\ ~StopOp(i, c).rollback
  /\ \A k : Op(k).kind = k /\ ~Op(k).rollback /\ Op(k).inhibit = "NONE"
  BY MotorAssumption DEF StopVariants, StopOp, Op

LEMMA PositionsStep ==
  ASSUME TypeOK, Positions, RampKind, NEW t \in Tasks, By(t)
  PROVE  Positions'
<1> USE ConstantTypes, MotorAssumption, StopKinds DEF AfterZeroing
<1>0. SUFFICES /\ StopPlace(t)'
               /\ stop_owner' # stop_owner => stop_owner = NoTask \/ stop_owner = t
  <2> SUFFICES ASSUME NEW u \in Tasks, u # t PROVE StopPlace(u)'
    BY DEF Positions
  <2> QED
    BY OneTaskMoves DEF Positions, StopPlace, OthersKept
<1> DEFINE Goal == /\ StopPlace(t)'
                   /\ stop_owner' # stop_owner => stop_owner = NoTask \/ stop_owner = t
<1>1. CASE ApplyBegin(t)
  <2>1. /\ pc[t] = "apply"
        /\ pc'[t] = "rmt"
        /\ op'[t] = op[t] /\ stop_owner' = stop_owner
    BY <1>1 DEF ApplyBegin, Goto, TypeOK, TaskTypes, mutexVars, localVars
  <2> QED
    BY <2>1 DEF Positions, StopPlace
<1>2. CASE ApplyFinish(t)
  <2>1. pc[t] = "rmt" /\ op' = op /\ stop_owner' = stop_owner
    BY <1>2 DEF ApplyFinish
  <2>2. pc'[t] \in {"applied", "failed"} \/ (pc'[t] = "idle" /\ op[t].kind = "single")
    BY <1>2 DEF ApplyFinish, Goto, TypeOK, TaskTypes
  <2> QED
    BY <2>1, <2>2 DEF Positions, StopPlace
<1>3. CASE StopZero(t)
  <2>1. /\ pc[t] = "stopMutex"
        /\ pc'[t] = "apply"
        /\ op'[t] = op[t] /\ stop_owner = NoTask /\ stop_owner' = t
    BY <1>3 DEF StopZero, Goto, TypeOK, TaskTypes, mutexVars, localVars
  <2> QED
    BY <2>1 DEF Positions, StopPlace
<1>4. CASE StopApplied(t)
  <2>1. /\ pc[t] \in {"applied", "failed"}
        /\ pc'[t] \in {"apply", "stopEnd"}
        /\ op'[t] = op[t] /\ stop_owner' = stop_owner /\ op[t].kind = "stop"
    BY <1>4 DEF StopApplied, Goto, TypeOK, TaskTypes, mutexVars, localVars
  <2> QED
    BY <2>1 DEF Positions, StopPlace
<1>5. CASE StopEnd(t)
  <2>1. /\ pc[t] = "stopEnd"
        /\ pc'[t] \in {"suspended", "idle"}
        /\ op'[t].kind = "none" /\ stop_owner' = NoTask
    BY <1>5 DEF StopEnd, GiveStopMutex, Goto, TypeOK, TaskTypes, mutexVars, localVars
  <2> QED
    BY <2>1 DEF Positions, StopPlace
<1>6. CASE t = Ramp /\ RampRegistered
  <2>1. /\ pc[t] = "boot"
        /\ pc'[t] = "loop"
        /\ op'[t].kind = "ramp" /\ stop_owner' = stop_owner
    BY <1>6 DEF RampRegistered, Goto, TypeOK, TaskTypes, mutexVars, localVars
  <2> QED
    BY <2>1 DEF Positions, StopPlace
<1>7. CASE t = Ramp /\ RampFatal
  <2>1. /\ pc[t] = "boot"
        /\ pc'[t] = "stopMutex"
        /\ op'[t].kind = "stop" /\ stop_owner' = stop_owner
    BY <1>7 DEF RampFatal, ClaimStop, StopOp, Goto, TypeOK, TaskTypes, mutexVars, localVars
  <2> QED
    BY <2>1 DEF Positions, StopPlace
<1>8. CASE t = Ramp /\ RampTick
  <2>1. /\ pc[t] = "loop"
        /\ pc'[t] \in {"loop", "step"}
        /\ op'[t].kind = "ramp" /\ stop_owner' = stop_owner
    BY <1>8 DEF RampTick, RampKind, Goto, TypeOK, TaskTypes, mutexVars, localVars
  <2> QED
    BY <2>1 DEF Positions, StopPlace
<1>9. CASE t = Ramp /\ RampAdvance
  <2>1. /\ pc[t] = "step"
        /\ pc'[t] = "apply"
        /\ op'[t].kind = "ramp" /\ stop_owner' = stop_owner
    BY <1>9 DEF RampAdvance, AfterAdvance, RampKind, Goto, TypeOK, TaskTypes, mutexVars, localVars
  <2> QED
    BY <2>1 DEF Positions, StopPlace
<1>10. CASE t = Ramp /\ RampApplied
  <2>1. /\ pc[t] \in {"applied", "failed"}
        /\ pc'[t] \in {"loop", "step"}
        /\ op'[t].kind = "ramp" /\ stop_owner' = stop_owner
    BY <1>10 DEF RampApplied, Goto, TypeOK, TaskTypes, mutexVars, localVars
  <2> QED
    BY <2>1 DEF Positions, StopPlace
<1>11. ASSUME NEW o \in StopCalls, StopAll(t, o)
      PROVE  Goal
  <2>1. /\ pc[t] = "idle"
        /\ pc'[t] = "stopMutex"
        /\ op'[t].kind = "stop" /\ stop_owner' = stop_owner
    BY <1>11 DEF StopAll, Call, ClaimStop, Goto, TypeOK, TaskTypes, mutexVars, localVars
  <2> QED
    BY <2>1 DEF Positions, StopPlace
<1>12. ASSUME NEW f \in Fans, NEW clear \in BOOLEAN, ZeroOne(t, f, clear), pc[t] = "idle"
      PROVE  Goal
  <2>1. /\ pc[t] = "idle"
        /\ pc'[t] = "apply"
        /\ op'[t].kind = "single" /\ stop_owner' = stop_owner
    BY <1>12 DEF ZeroOne, Goto, TypeOK, TaskTypes, mutexVars, localVars
  <2> QED
    BY <2>1 DEF Positions, StopPlace
<1>13. CASE Request(t)
  <2>1. UNCHANGED <<pc, op, stop_owner>>
    BY <1>13
       DEF Request, ClearTachInhibit, RequestManual, RequestAutomatic, RestoreAll,
           ClearMaintenance, SetRampPaused, localVars, mutexVars
  <2> QED
    BY <2>1 DEF Positions, StopPlace
<1>14. CASE ZeroProofBegin(t)
  <2>1. /\ pc[t] = "idle"
        /\ pc'[t] = "zeroLock"
        /\ op'[t].kind = "zero" /\ stop_owner' = stop_owner
    BY <1>14 DEF ZeroProofBegin, Call, Goto, TypeOK, TaskTypes, mutexVars, localVars
  <2> QED
    BY <2>1 DEF Positions, StopPlace
<1>15. CASE ZeroProofLock(t)
  <2>1. /\ pc[t] = "zeroLock"
        /\ pc'[t] = "zeroLock"
        /\ op'[t] = op[t] /\ stop_owner' = stop_owner
    BY <1>15 DEF ZeroProofLock, Goto, TypeOK, TaskTypes, mutexVars, localVars
  <2> QED
    BY <2>1 DEF Positions, StopPlace
<1>16. CASE ZeroProofTimeout(t)
  <2>1. /\ pc[t] = "zeroLock"
        /\ pc'[t] = "idle"
        /\ op'[t].kind = "none" /\ stop_owner' = stop_owner
    BY <1>16 DEF ZeroProofTimeout, Goto, TypeOK, TaskTypes, mutexVars, localVars
  <2> QED
    BY <2>1 DEF Positions, StopPlace
<1>17. CASE ZeroProofJudge(t)
  <2>1. /\ pc[t] = "zeroLock"
        /\ pc'[t] \in {"zeroHeld", "zeroDenied"}
        /\ op'[t] = op[t] /\ stop_owner' = stop_owner
    BY <1>17 DEF ZeroProofJudge, Goto, TypeOK, TaskTypes, mutexVars, localVars
  <2> QED
    BY <2>1 DEF Positions, StopPlace
<1>18. CASE ZeroProofEnd(t)
  <2>1. /\ pc[t] \in {"zeroHeld", "zeroDenied"}
        /\ pc'[t] = "idle"
        /\ op'[t].kind = "none" /\ stop_owner' = stop_owner
    BY <1>18 DEF ZeroProofEnd, Goto, TypeOK, TaskTypes, mutexVars, localVars
  <2> QED
    BY <2>1 DEF Positions, StopPlace
<1>19. CASE t = Supervisor /\ TakeRmtFault
  <2>1. /\ pc[t] = "idle"
        /\ pc'[t] = "faultTaken"
        /\ op'[t] = op[t] /\ stop_owner' = stop_owner
    BY <1>19 DEF TakeRmtFault, AfterTake, Goto, TypeOK, TaskTypes, mutexVars, localVars
  <2> QED
    BY <2>1 DEF Positions, StopPlace
<1>20. CASE t = Supervisor /\ StopForRmtFault
  <2>1. /\ pc[t] = "faultTaken"
        /\ pc'[t] = "stopMutex"
        /\ op'[t].kind = "stop" /\ stop_owner' = stop_owner
    BY <1>20 DEF StopForRmtFault, ClaimStop, StopOp, Goto, TypeOK, TaskTypes, mutexVars, localVars
  <2> QED
    BY <2>1 DEF Positions, StopPlace
<1>21. CASE t = Ramp /\ RampSuspended
  <2>1. UNCHANGED <<pc, op, stop_owner>>
    BY <1>21 DEF RampSuspended, vars, localVars, mutexVars
  <2> QED
    BY <2>1 DEF Positions, StopPlace
<1> QED
  BY <1>1, <1>2, <1>3, <1>4, <1>5, <1>6, <1>7, <1>8, <1>9, <1>10, <1>11, <1>12, <1>13,
     <1>14, <1>15, <1>16, <1>17, <1>18, <1>19, <1>20, <1>21
     DEF By, ApplyStep, StopStep, RampTask, CallerStart, ZeroProofStep, Request, StopOne,
         SetTachInhibit, Call

\* s_stop_depth counts the stops under way.
Stops == {t \in Tasks : op[t].kind = "stop"}

Counted == IsFiniteSet(Stops) /\ stop_depth = Cardinality(Stops)

LEMMA CountedStep ==
  ASSUME TypeOK, Positions, RampKind, Counted, NEW t \in Tasks, By(t)
  PROVE  Counted'
<1> USE ConstantTypes, MotorAssumption, StopKinds
<1>0. \A u \in Tasks : u # t => (op'[u].kind = "stop" <=> op[u].kind = "stop")
  BY OneTaskMoves DEF OthersKept
<1>a. ASSUME stop_depth' = stop_depth, op'[t].kind = "stop" <=> op[t].kind = "stop"
      PROVE  Counted'
  <2>1. Stops' = Stops
    BY <1>0, <1>a DEF Stops
  <2> QED
    BY <1>a, <2>1 DEF Counted
<1>b. ASSUME stop_depth' = stop_depth + 1, op'[t].kind = "stop", op[t].kind # "stop"
      PROVE  Counted'
  <2>1. Stops' = Stops \cup {t} /\ t \notin Stops
    BY <1>0, <1>b DEF Stops
  <2> QED
    BY <1>b, <2>1, FS_AddElement DEF Counted
<1>c. ASSUME stop_depth' = IF stop_depth > 0 THEN stop_depth - 1 ELSE stop_depth,
             op'[t].kind # "stop", op[t].kind = "stop"
      PROVE  Counted'
  <2>1. Stops' = Stops \ {t} /\ t \in Stops
    BY <1>0, <1>c DEF Stops
  <2>2. Cardinality(Stops) \in Nat /\ Cardinality(Stops) # 0
    BY <2>1, FS_CardinalityType, FS_EmptySet DEF Counted
  <2>3. /\ IsFiniteSet(Stops \ {t})
        /\ Cardinality(Stops \ {t}) = Cardinality(Stops) - 1
    BY <2>1, FS_RemoveElement DEF Counted
  <2> QED
    BY <1>c, <2>1, <2>2, <2>3 DEF Counted
<1>d. ASSUME NEW o, ClaimStop(t, o), o.kind = "stop", pc[t] \in {"idle", "boot", "faultTaken"}
      PROVE  Counted'
  <2>1. op[t].kind # "stop"
    BY <1>d DEF Positions, StopPlace, AfterZeroing
  <2>2. op'[t] = o /\ stop_depth' = stop_depth + 1
    BY <1>d DEF ClaimStop, TypeOK, TaskTypes
  <2> QED
    BY <1>b, <1>d, <2>1, <2>2
<1>1. CASE ApplyBegin(t)
  BY <1>1, <1>a
     DEF ApplyBegin, TakeIo, Goto, inhibitVars, localVars
<1>2. CASE ApplyFinish(t)
  BY <1>2, <1>a
     DEF ApplyFinish, GiveIo, Goto, inhibitVars, localVars
<1>3. CASE StopZero(t)
  BY <1>3, <1>a
     DEF StopZero, Goto, inhibitVars, localVars
<1>4. CASE StopApplied(t)
  BY <1>4, <1>a
     DEF StopApplied, Goto, inhibitVars, localVars
<1>5. CASE StopEnd(t)
  <2>1. op[t].kind = "stop" /\ op'[t] = Op("none")
    BY <1>5 DEF StopEnd, Positions, StopPlace, TypeOK, TaskTypes
  <2> QED
    BY <1>5, <2>1, <1>c DEF StopEnd
<1>6. CASE t = Ramp /\ RampRegistered
  <2>1. op[t].kind # "stop" /\ op'[t] = Op("ramp")
    BY <1>6 DEF RampRegistered, Call, Positions, StopPlace, AfterZeroing, TypeOK, TaskTypes
  <2> QED
    BY <1>6, <2>1, <1>a DEF RampRegistered, inhibitVars
<1>7. CASE t = Ramp /\ RampFatal
  <2>1. ClaimStop(t, StopOp("GLOBAL", TRUE)) /\ pc[t] \in {"boot", "faultTaken"}
    BY <1>7 DEF RampFatal
  <2>2. StopOp("GLOBAL", TRUE).kind = "stop"
    BY DEF StopOp
  <2> QED
    BY <1>d, <2>1, <2>2
<1>8. CASE t = Ramp /\ RampTick
  BY <1>8, <1>a
     DEF RampTick, Goto, inhibitVars, localVars
<1>9. CASE t = Ramp /\ RampAdvance
  BY <1>9, <1>a
     DEF RampAdvance, AfterAdvance, Goto, inhibitVars, localVars
<1>10. CASE t = Ramp /\ RampApplied
  BY <1>10, <1>a
     DEF RampApplied, Goto, inhibitVars, localVars
<1>11. ASSUME NEW o \in StopCalls, StopAll(t, o)
      PROVE  Counted'
  BY <1>11, <1>d DEF StopAll, Call
<1>12. ASSUME NEW f \in Fans, NEW clear \in BOOLEAN, ZeroOne(t, f, clear), pc[t] = "idle"
      PROVE  Counted'
  <2>1. op[t].kind # "stop" /\ op'[t] = Op("single")
    BY <1>12 DEF ZeroOne, Call, Positions, StopPlace, AfterZeroing, TypeOK, TaskTypes
  <2> QED
    BY <1>12, <2>1, <1>a DEF ZeroOne, inhibitVars
<1>13. CASE Request(t)
  BY <1>13, <1>a
     DEF Request, ClearTachInhibit, RequestManual, RequestAutomatic, RestoreAll,
         ClearMaintenance, SetRampPaused, Call, inhibitVars, localVars
<1>14. CASE ZeroProofBegin(t)
  <2>1. op[t].kind # "stop" /\ op'[t] = Op("zero")
    BY <1>14 DEF ZeroProofBegin, Call, Positions, StopPlace, AfterZeroing, TypeOK, TaskTypes
  <2> QED
    BY <1>14, <2>1, <1>a DEF ZeroProofBegin, inhibitVars
<1>15. CASE ZeroProofLock(t)
  BY <1>15, <1>a
     DEF ZeroProofLock, TakeIo, inhibitVars, localVars
<1>16. CASE ZeroProofTimeout(t)
  <2>1. op[t].kind # "stop" /\ op'[t] = Op("none")
    BY <1>16 DEF ZeroProofTimeout, Call, Positions, StopPlace, AfterZeroing, TypeOK, TaskTypes
  <2> QED
    BY <1>16, <2>1, <1>a DEF ZeroProofTimeout, inhibitVars
<1>17. CASE ZeroProofJudge(t)
  BY <1>17, <1>a
     DEF ZeroProofJudge, Goto, inhibitVars, localVars
<1>18. CASE ZeroProofEnd(t)
  <2>1. op[t].kind # "stop" /\ op'[t] = Op("none")
    BY <1>18 DEF ZeroProofEnd, Call, Positions, StopPlace, AfterZeroing, TypeOK, TaskTypes
  <2> QED
    BY <1>18, <2>1, <1>a DEF ZeroProofEnd, inhibitVars
<1>19. CASE t = Supervisor /\ TakeRmtFault
  BY <1>19, <1>a
     DEF TakeRmtFault, AfterTake, Goto, inhibitVars, localVars
<1>20. CASE t = Supervisor /\ StopForRmtFault
  <2>1. ClaimStop(t, StopOp("RMT", FALSE)) /\ pc[t] \in {"boot", "faultTaken"}
    BY <1>20 DEF StopForRmtFault
  <2>2. StopOp("RMT", FALSE).kind = "stop"
    BY DEF StopOp
  <2> QED
    BY <1>d, <2>1, <2>2
<1>21. CASE t = Ramp /\ RampSuspended
  BY <1>21, <1>a DEF RampSuspended, vars, localVars, inhibitVars
<1> QED
  BY <1>1, <1>2, <1>3, <1>4, <1>5, <1>6, <1>7, <1>8, <1>9, <1>10, <1>11, <1>12, <1>13,
     <1>14, <1>15, <1>16, <1>17, <1>18, <1>19, <1>20, <1>21
     DEF By, ApplyStep, StopStep, RampTask, CallerStart, ZeroProofStep, Request, StopOne,
         SetTachInhibit, Call

\* An active stream carries what the firmware sent last.
Streaming == \A f \in Fans : rmt[f].active => rmt[f].payload = rmt[f].last

\* What the RMT calls for throttle d leave of fan f, and of the other fans.
LEMMA SequenceLeaves ==
  ASSUME TypeOK, NEW f \in Fans, NEW d \in 0..DshotMax, NEW ok \in BOOLEAN,
         RmtSequence(f, d, ok)
  PROVE  /\ \A g \in Fans : g # f => rmt'[g] = rmt[g]
         /\ (rmt[f].active => rmt[f].payload = rmt[f].last)
              => /\ rmt'[f].active => rmt'[f].payload = rmt'[f].last
                 /\ ok => rmt'[f].active /\ rmt'[f].enabled /\ rmt'[f].payload = d
                 /\ ~ok => \/ rmt'[f] = rmt[f]
                           \/ ~rmt'[f].active \/ ~rmt'[f].enabled
<1> DEFINE After(s) == rmt' = [rmt EXCEPT ![f] = s]
<1>0. rmt \in [Fans -> RmtState] /\ rmt[f] \in RmtState
  BY DEF TypeOK, OutputTypes
<1>1. CASE rmt' = rmt /\ (ok => rmt[f].last = d /\ rmt[f].active /\ rmt[f].enabled)
  BY <1>1
<1>2. CASE ~ok /\ After([rmt[f] EXCEPT !.enabled = FALSE])
  <2>1. rmt'[f] = [rmt[f] EXCEPT !.enabled = FALSE] /\ \A g \in Fans : g # f => rmt'[g] = rmt[g]
    BY <1>0, <1>2
  <2> QED
    BY <1>0, <1>2, <2>1 DEF RmtState
<1>3. CASE ~ok /\ \E e \in BOOLEAN :
                 After([rmt[f] EXCEPT !.enabled = e, !.active = FALSE, !.payload = d])
  <2>1. PICK e \in BOOLEAN :
          After([rmt[f] EXCEPT !.enabled = e, !.active = FALSE, !.payload = d])
    BY <1>3
  <2>2. /\ rmt'[f] = [rmt[f] EXCEPT !.enabled = e, !.active = FALSE, !.payload = d]
        /\ \A g \in Fans : g # f => rmt'[g] = rmt[g]
    BY <1>0, <2>1
  <2> QED
    BY <1>0, <1>3, <2>2 DEF RmtState
<1>4. CASE ok /\ After([active |-> TRUE, enabled |-> TRUE, payload |-> d, last |-> d])
  <2>1. /\ rmt'[f] = [active |-> TRUE, enabled |-> TRUE, payload |-> d, last |-> d]
        /\ \A g \in Fans : g # f => rmt'[g] = rmt[g]
    BY <1>0, <1>4
  <2> QED
    BY <1>4, <2>1
<1> QED
  BY <1>1, <1>2, <1>3, <1>4 DEF RmtSequence

\* Only ApplyFinish touches an output: it reports what it has sent.
LEMMA OutputStep ==
  ASSUME TypeOK, Streaming, NEW t \in Tasks, By(t)
  PROVE  \/ UNCHANGED <<rmt, applied>> /\ ~ApplyFinish(t)
         \/ \E f \in Fans :
              /\ ApplyFinish(t) /\ f = fan[t]
              /\ \A g \in Fans : g # f => rmt'[g] = rmt[g] /\ applied'[g] = applied[g]
              /\ rmt'[f].active => rmt'[f].payload = rmt'[f].last
              /\ \/ Emitted(f)' = request[t].dshot /\ applied'[f] = request[t].pct
                 \/ /\ Emitted(f)' \in {Emitted(f), 0} /\ applied'[f] = applied[f]
                    /\ pc'[t] # "applied"
<1>1. CASE ApplyFinish(t)
  <2>1. PICK f \in Fans : f = fan[t] /\ pc[t] = "rmt"
    BY <1>1 DEF ApplyFinish, TypeOK, FanIndexed
  <2>2. request[t].dshot \in 0..DshotMax
    BY DEF TypeOK, OutputTypes
  <2>3. PICK ok \in BOOLEAN :
          /\ RmtSequence(f, request[t].dshot, ok)
          /\ RecordApplyResult(f, ok, request[t].pct)
          /\ Goto(t, IF op[t].kind = "single" THEN "idle"
                     ELSE IF ok THEN "applied" ELSE "failed")
    BY <1>1, <2>1 DEF ApplyFinish
  <2>4. /\ \A g \in Fans : g # f => applied'[g] = applied[g]
        /\ applied'[f] = IF ok THEN request[t].pct ELSE applied[f]
    BY <2>1, <2>3 DEF RecordApplyResult, TypeOK, MotorTypes
  <2>5. pc'[t] = "applied" => ok
    BY <2>3 DEF Goto, TypeOK, TaskTypes
  <2>6. rmt[f].active => rmt[f].payload = rmt[f].last
    BY <2>1 DEF Streaming
  <2>7. /\ \A g \in Fans : g # f => rmt'[g] = rmt[g]
        /\ rmt'[f].active => rmt'[f].payload = rmt'[f].last
        /\ ok => rmt'[f].active /\ rmt'[f].enabled /\ rmt'[f].payload = request[t].dshot
        /\ ~ok => rmt'[f] = rmt[f] \/ ~rmt'[f].active \/ ~rmt'[f].enabled
    BY <2>1, <2>2, <2>3, <2>6, SequenceLeaves
  <2>8. CASE ok
    <3>1. Emitted(f)' = request[t].dshot
      BY <2>7, <2>8 DEF Emitted
    <3> QED
      BY <1>1, <2>1, <2>4, <2>7, <2>8, <3>1
  <2>9. CASE ~ok
    <3>1. Emitted(f)' \in {Emitted(f), 0}
      BY <2>7, <2>9 DEF Emitted
    <3> QED
      BY <1>1, <2>1, <2>4, <2>5, <2>7, <2>9, <3>1
  <2> QED
    BY <2>8, <2>9
<1>2. CASE ~ApplyFinish(t)
  <2> SUFFICES UNCHANGED <<rmt, applied>>
    BY <1>2
<2>1. CASE ApplyBegin(t)
  BY <2>1
     DEF ApplyBegin, TakeIo, Goto, motorVars
<2>2. CASE ApplyFinish(t)
  BY <1>2, <2>2
<2>3. CASE StopZero(t)
  BY <2>3
     DEF StopZero, Goto, motorVars
<2>4. CASE StopApplied(t)
  BY <2>4
     DEF StopApplied, Goto, motorVars
<2>5. CASE StopEnd(t)
  BY <2>5
     DEF StopEnd, GiveStopMutex, Goto, Op, motorVars
<2>6. CASE t = Ramp /\ RampRegistered
  BY <2>6
     DEF RampRegistered, Goto, Op, motorVars
<2>7. CASE t = Ramp /\ RampFatal
  BY <2>7
     DEF RampFatal, ClaimStop, StopOp, Goto, motorVars
<2>8. CASE t = Ramp /\ RampTick
  BY <2>8
     DEF RampTick, Goto, motorVars
<2>9. CASE t = Ramp /\ RampAdvance
  BY <2>9
     DEF RampAdvance, AfterAdvance, Goto, motorVars
<2>10. CASE t = Ramp /\ RampApplied
  BY <2>10
     DEF RampApplied, Goto, motorVars
<2>11. ASSUME NEW o \in StopCalls, StopAll(t, o)
      PROVE  UNCHANGED <<rmt, applied>>
  BY <2>11
     DEF StopAll, ClaimStop, Call, Goto, motorVars
<2>12. ASSUME NEW f \in Fans, NEW clear \in BOOLEAN, ZeroOne(t, f, clear), pc[t] = "idle"
      PROVE  UNCHANGED <<rmt, applied>>
  BY <2>12
     DEF ZeroOne, Goto, Op, motorVars
<2>13. CASE Request(t)
  BY <2>13
     DEF Request, ClearTachInhibit, RequestManual, RequestAutomatic, RestoreAll,
         ClearMaintenance, SetRampPaused, Call, motorVars
<2>14. CASE ZeroProofBegin(t)
  BY <2>14
     DEF ZeroProofBegin, Call, Goto, Op, motorVars
<2>15. CASE ZeroProofLock(t)
  BY <2>15
     DEF ZeroProofLock, TakeIo, motorVars
<2>16. CASE ZeroProofTimeout(t)
  BY <2>16
     DEF ZeroProofTimeout, GiveIo, Goto, Op, motorVars
<2>17. CASE ZeroProofJudge(t)
  BY <2>17
     DEF ZeroProofJudge, Goto, motorVars
<2>18. CASE ZeroProofEnd(t)
  BY <2>18
     DEF ZeroProofEnd, GiveIo, Goto, Op, motorVars
<2>19. CASE t = Supervisor /\ TakeRmtFault
  BY <2>19
     DEF TakeRmtFault, AfterTake, Goto, motorVars
<2>20. CASE t = Supervisor /\ StopForRmtFault
  BY <2>20
     DEF StopForRmtFault, ClaimStop, StopOp, Goto, motorVars
<2>21. CASE t = Ramp /\ RampSuspended
  BY <2>21 DEF RampSuspended, vars, motorVars
<2> QED
  BY <2>1, <2>2, <2>3, <2>4, <2>5, <2>6, <2>7, <2>8, <2>9, <2>10, <2>11, <2>12, <2>13,
     <2>14, <2>15, <2>16, <2>17, <2>18, <2>19, <2>20, <2>21
     DEF By, ApplyStep, StopStep, RampTask, CallerStart, ZeroProofStep, Request, StopOne,
         SetTachInhibit, Call

<1> QED
  BY <1>1, <1>2

LEMMA StreamingStep ==
  ASSUME TypeOK, Streaming, NEW t \in Tasks, By(t)
  PROVE  Streaming'
  BY OutputStep DEF Streaming

\* Every fan is at rest, and no rollback of task u that would still take place
\* moves one.
AtRest == \A f \in Fans : target[f] = 0 /\ current[f] = 0 /\ throttle[f] = 0

CannotReturn(u) ==
  \A f \in Fans :
    RollbackWindow(u, f) /\ attempted[u][f] = generation[f] => previous[u][f] = 0

Motionless(S) == AtRest /\ \A u \in S : CannotReturn(u)

\* Generations only grow, and only the ramp task notes that it has moved a fan.
LEMMA GenerationsGrow ==
  ASSUME TypeOK, NEW t \in Tasks, By(t)
  PROVE  /\ \A f \in Fans : generation'[f] \in {generation[f], generation[f] + 1}
         /\ t # Ramp => changed' = changed
<1> USE ConstantTypes, MotorAssumption
<1> DEFINE Goal == /\ \A f \in Fans : generation'[f] \in {generation[f], generation[f] + 1}
                   /\ t # Ramp => changed' = changed
<1>1. CASE ApplyBegin(t)
  BY <1>1
     DEF ApplyBegin, TakeIo, Goto, TypeOK, MotorTypes, motorVars, localVars
<1>2. CASE ApplyFinish(t)
  <2>1. PICK ok \in BOOLEAN : RecordApplyResult(fan[t], ok, request[t].pct)
    BY <1>2 DEF ApplyFinish
  <2> QED
    BY <1>2, <2>1 DEF ApplyFinish, RecordApplyResult, TypeOK, MotorTypes
<1>3. CASE StopZero(t)
  BY <1>3
     DEF StopZero, Goto, TypeOK, MotorTypes, motorVars, localVars
<1>4. CASE StopApplied(t)
  BY <1>4
     DEF StopApplied, Goto, RollBack, TypeOK, MotorTypes, motorVars, localVars
<1>5. CASE StopEnd(t)
  BY <1>5
     DEF StopEnd, GiveStopMutex, Goto, Op, TypeOK, MotorTypes, motorVars, localVars
<1>6. CASE t = Ramp /\ RampRegistered
  BY <1>6
     DEF RampRegistered, Goto, Op, TypeOK, MotorTypes, motorVars, localVars
<1>7. CASE t = Ramp /\ RampFatal
  BY <1>7
     DEF RampFatal, ClaimStop, StopOp, Goto, TypeOK, MotorTypes, motorVars, localVars
<1>8. CASE t = Ramp /\ RampTick
  BY <1>8
     DEF RampTick, Goto, TypeOK, MotorTypes, motorVars, localVars
<1>9. CASE t = Ramp /\ RampAdvance
  BY <1>9
     DEF RampAdvance, AfterAdvance, Goto, TypeOK, MotorTypes, motorVars, localVars
<1>10. CASE t = Ramp /\ RampApplied
  BY <1>10
     DEF RampApplied, Goto, RollBack, TypeOK, MotorTypes, motorVars, localVars
<1>11. ASSUME NEW o \in StopCalls, StopAll(t, o)
      PROVE  Goal
  BY <1>11
     DEF StopAll, ClaimStop, Call, Goto, TypeOK, MotorTypes, motorVars, localVars
<1>12. ASSUME NEW f \in Fans, NEW clear \in BOOLEAN, ZeroOne(t, f, clear), pc[t] = "idle"
      PROVE  Goal
  BY <1>12
     DEF ZeroOne, Goto, Op, TypeOK, MotorTypes, motorVars, localVars
<1>13. CASE Request(t)
  BY <1>13
     DEF Request, ClearTachInhibit, RequestManual, RequestAutomatic, RestoreAll, ClearMaintenance,
         SetRampPaused, motorVars, localVars
<1>14. CASE ZeroProofBegin(t)
  BY <1>14
     DEF ZeroProofBegin, Call, Goto, Op, TypeOK, MotorTypes, motorVars, localVars
<1>15. CASE ZeroProofLock(t)
  BY <1>15
     DEF ZeroProofLock, TakeIo, TypeOK, MotorTypes, motorVars, localVars
<1>16. CASE ZeroProofTimeout(t)
  BY <1>16
     DEF ZeroProofTimeout, GiveIo, Goto, Op, TypeOK, MotorTypes, motorVars, localVars
<1>17. CASE ZeroProofJudge(t)
  BY <1>17
     DEF ZeroProofJudge, Goto, TypeOK, MotorTypes, motorVars, localVars
<1>18. CASE ZeroProofEnd(t)
  BY <1>18
     DEF ZeroProofEnd, GiveIo, Goto, Op, TypeOK, MotorTypes, motorVars, localVars
<1>19. CASE t = Supervisor /\ TakeRmtFault
  BY <1>19
     DEF TakeRmtFault, AfterTake, Goto, TypeOK, MotorTypes, motorVars, localVars
<1>20. CASE t = Supervisor /\ StopForRmtFault
  BY <1>20
     DEF StopForRmtFault, ClaimStop, StopOp, Goto, TypeOK, MotorTypes, motorVars,
         localVars
<1>21. CASE t = Ramp /\ RampSuspended
  BY <1>21 DEF RampSuspended, vars, motorVars, localVars
<1> QED
  BY <1>1, <1>2, <1>3, <1>4, <1>5, <1>6, <1>7, <1>8, <1>9, <1>10, <1>11, <1>12, <1>13,
     <1>14, <1>15, <1>16, <1>17, <1>18, <1>19, <1>20, <1>21
     DEF By, ApplyStep, StopStep, RampTask, CallerStart, ZeroProofStep, Request, StopOne,
         SetTachInhibit, Call

LEMMA RollBackRests ==
  ASSUME TypeOK, AtRest, NEW t \in Tasks, NEW f \in Fans, NEW undo, RollBack(t, f, undo),
         undo => previous[t][f] = 0
  PROVE  \A g \in Fans : current'[g] = 0 /\ throttle'[g] = 0
<1>1. PctToDshot(0) = 0
  BY PctToDshotType DEF Pct
<1> QED
  BY <1>1 DEF AtRest, RollBack, TypeOK, MotorTypes

\* While no fan may move, what is at rest stays so.
LEMMA RestStep ==
  ASSUME TypeOK, RampKind, AtRest, \A f \in Fans : ~MotionAllowed(f), NEW t \in Tasks, By(t),
         pc[t] = "failed" => CannotReturn(t)
  PROVE  AtRest'
<1> USE ConstantTypes, MotorAssumption
<1>1. CASE ApplyBegin(t)
  BY <1>1 DEF ApplyBegin, AtRest, TypeOK, MotorTypes
<1>2. CASE ApplyFinish(t)
  <2>1. PICK ok \in BOOLEAN : RecordApplyResult(fan[t], ok, request[t].pct)
    BY <1>2 DEF ApplyFinish
  <2> QED
    BY <1>2, <2>1 DEF ApplyFinish, RecordApplyResult, AtRest, TypeOK, MotorTypes
<1>3. CASE StopZero(t)
  BY <1>3 DEF StopZero, AtRest
<1>4. CASE StopApplied(t)
  <2> DEFINE undo == pc[t] = "failed" /\ op[t].rollback /\ ~Superseded(t, fan[t])
  <2>1. fan[t] \in Fans /\ RollBack(t, fan[t], undo) /\ UNCHANGED target
    BY <1>4 DEF StopApplied, TypeOK, FanIndexed
  <2>2. undo => RollbackWindow(t, fan[t])
    <3>1. op[t].kind = "stop"
      BY <1>4 DEF StopApplied
    <3> QED
      BY <2>1, <3>1, ConstantTypes DEF RollbackWindow
  <2>3. undo => previous[t][fan[t]] = 0
    BY <2>1, <2>2 DEF CannotReturn, Superseded
  <2> HIDE DEF undo
  <2> QED
    BY <2>1, <2>3, RollBackRests DEF AtRest
<1>5. CASE StopEnd(t)
  BY <1>5 DEF StopEnd, AtRest, motorVars
<1>6. CASE t = Ramp /\ RampRegistered
  BY <1>6 DEF RampRegistered, AtRest, motorVars
<1>7. CASE t = Ramp /\ RampFatal
  BY <1>7 DEF RampFatal, ClaimStop, AtRest, motorVars
<1>8. CASE t = Ramp /\ RampTick
  BY <1>8 DEF RampTick, AtRest, motorVars
<1>9. CASE t = Ramp /\ RampAdvance
  <2>1. fan[Ramp] \in Fans
    BY <1>9 DEF RampAdvance, TypeOK, FanIndexed
  <2>2. current[fan[Ramp]] = target[fan[Ramp]]
    BY <2>1 DEF AtRest
  <2> QED
    BY <1>9, <2>1, <2>2 DEF RampAdvance, AtRest, TypeOK, MotorTypes
<1>10. CASE t = Ramp /\ RampApplied
  <2> DEFINE undo == changed /\ pc[t] = "failed" /\ ~Superseded(t, fan[t])
  <2>1. fan[t] \in Fans /\ RollBack(t, fan[t], undo) /\ UNCHANGED target
    BY <1>10 DEF RampApplied, TypeOK, FanIndexed
  <2>2. undo => RollbackWindow(t, fan[t])
    <3>1. t = Ramp /\ op[t].kind = "ramp"
      BY <1>10 DEF RampApplied
    <3> QED
      BY <2>1, <3>1, ConstantTypes DEF RollbackWindow
  <2>3. undo => previous[t][fan[t]] = 0
    BY <2>1, <2>2 DEF CannotReturn, Superseded
  <2> HIDE DEF undo
  <2> QED
    BY <2>1, <2>3, RollBackRests DEF AtRest
<1>11. ASSUME NEW o \in StopCalls, StopAll(t, o)
      PROVE  AtRest'
  BY <1>11 DEF StopAll, ClaimStop, AtRest, motorVars
<1>12. ASSUME NEW f \in Fans, NEW clear \in BOOLEAN, ZeroOne(t, f, clear), pc[t] = "idle"
      PROVE  AtRest'
  BY <1>12 DEF ZeroOne, AtRest, TypeOK, MotorTypes
<1>13. CASE Request(t)
  <2>1. UNCHANGED <<target, current, throttle>>
    BY <1>13
       DEF Request, ClearTachInhibit, RequestManual, RequestAutomatic, RestoreAll,
           ClearMaintenance, SetRampPaused, AutomaticAllowed, motorVars
  <2> QED
    BY <2>1 DEF AtRest
<1>14. CASE ZeroProofBegin(t)
  BY <1>14 DEF ZeroProofBegin, AtRest, motorVars
<1>15. CASE ZeroProofLock(t)
  BY <1>15 DEF ZeroProofLock, AtRest, motorVars
<1>16. CASE ZeroProofTimeout(t)
  BY <1>16 DEF ZeroProofTimeout, AtRest, motorVars
<1>17. CASE ZeroProofJudge(t)
  BY <1>17 DEF ZeroProofJudge, AtRest, motorVars
<1>18. CASE ZeroProofEnd(t)
  BY <1>18 DEF ZeroProofEnd, AtRest, motorVars
<1>19. CASE t = Supervisor /\ TakeRmtFault
  BY <1>19 DEF TakeRmtFault, AtRest, motorVars
<1>20. CASE t = Supervisor /\ StopForRmtFault
  BY <1>20 DEF StopForRmtFault, ClaimStop, AtRest, motorVars
<1>21. CASE t = Ramp /\ RampSuspended
  BY <1>21 DEF RampSuspended, vars, AtRest, motorVars
<1> QED
  BY <1>1, <1>2, <1>3, <1>4, <1>5, <1>6, <1>7, <1>8, <1>9, <1>10, <1>11, <1>12, <1>13,
     <1>14, <1>15, <1>16, <1>17, <1>18, <1>19, <1>20, <1>21
     DEF By, ApplyStep, StopStep, RampTask, CallerStart, ZeroProofStep, Request, StopOne,
         SetTachInhibit, Call

\* A task whose rollbacks move nothing opens no window that would.
LEMMA OwnWindow ==
  ASSUME TypeOK, RampKind, NoStaleRollback, AtRest, NEW t \in Tasks, CannotReturn(t), By(t)
  PROVE  CannotReturn(t)'
<1> USE ConstantTypes, MotorAssumption, StopKinds
<1>0. SUFFICES ASSUME NEW f \in Fans, RollbackWindow(t, f)', attempted'[t][f] = generation'[f]
               PROVE  previous'[t][f] = 0
  BY DEF CannotReturn
<1>a. /\ generation[f] \in Nat /\ attempted[t][f] \in Nat
      /\ generation'[f] \in {generation[f], generation[f] + 1}
  BY GenerationsGrow, GenerationTypes
<1>1. CASE ApplyBegin(t)
  <2>1. RollbackWindow(t, f) /\ UNCHANGED <<attempted, previous, generation>>
    BY <1>0, <1>1 DEF ApplyBegin, RollbackWindow, Goto, TypeOK, TaskTypes, motorVars, localVars
  <2> QED
    BY <1>0, <2>1 DEF CannotReturn
<1>2. CASE ApplyFinish(t)
  <2>1. RollbackWindow(t, f) /\ UNCHANGED <<attempted, previous>>
    BY <1>0, <1>2 DEF ApplyFinish, RollbackWindow, Goto, TypeOK, TaskTypes
  <2>2. attempted[t][f] <= generation[f]
    BY <2>1 DEF NoStaleRollback
  <2> QED
    BY <1>0, <1>a, <2>1, <2>2 DEF CannotReturn
<1>3. CASE StopZero(t)
  <2>1. previous'[t] = current
    BY <1>3 DEF StopZero, TypeOK, TaskTypes
  <2> QED
    BY <2>1 DEF AtRest
<1>4. CASE StopApplied(t)
  <2>1. RollbackWindow(t, f) /\ UNCHANGED <<attempted, previous>>
    <3>1. fan[t] \in Nat /\ fan'[t] = fan[t] + 1 /\ UNCHANGED <<op, attempted, previous>>
      BY <1>4 DEF StopApplied, TypeOK, TaskTypes
    <3> QED
      BY <1>0, <1>4, <3>1 DEF StopApplied, RollbackWindow
  <2>2. attempted[t][f] <= generation[f]
    BY <2>1 DEF NoStaleRollback
  <2> QED
    BY <1>0, <1>a, <2>1, <2>2 DEF CannotReturn
<1>5. CASE StopEnd(t)
  <2>1. ~RollbackWindow(t, f)'
    BY <1>5 DEF StopEnd, RollbackWindow, Goto, Op, TypeOK, TaskTypes
  <2> QED
    BY <1>0, <2>1
<1>6. CASE t = Ramp /\ RampRegistered
  <2>1. ~RollbackWindow(t, f)'
    BY <1>6 DEF RampRegistered, RollbackWindow, Goto, Op, TypeOK, TaskTypes
  <2> QED
    BY <1>0, <2>1
<1>7. CASE t = Ramp /\ RampFatal
  <2>1. ~RollbackWindow(t, f)'
    BY <1>7 DEF RampFatal, ClaimStop, RollbackWindow, Goto, Op, TypeOK, TaskTypes
  <2> QED
    BY <1>0, <2>1
<1>8. CASE t = Ramp /\ RampTick
  <2>1. ~RollbackWindow(t, f)'
    BY <1>8 DEF RampTick, RollbackWindow, Goto, Op, TypeOK, TaskTypes
  <2> QED
    BY <1>0, <2>1
<1>9. CASE t = Ramp /\ RampAdvance
  <2>1. fan[Ramp] \in Fans /\ op[Ramp].kind = "ramp"
    BY <1>9 DEF RampAdvance, RampKind, TypeOK, FanIndexed
  <2>2. ~changed' /\ UNCHANGED op
    BY <1>9, <2>1 DEF RampAdvance, AtRest
  <2> QED
    BY <1>0, <1>9, <2>1, <2>2 DEF RollbackWindow
<1>10. CASE t = Ramp /\ RampApplied
  <2>1. pc'[t] \in {"step", "loop"}
    BY <1>10 DEF RampApplied, Goto, TypeOK, TaskTypes
  <2> QED
    BY <1>0, <2>1 DEF RollbackWindow
<1>11. ASSUME NEW o \in StopCalls, StopAll(t, o)
      PROVE  previous'[t][f] = 0
  <2>1. ~RollbackWindow(t, f)'
    BY <1>11 DEF StopAll, ClaimStop, RollbackWindow, Goto, Op, TypeOK, TaskTypes
  <2> QED
    BY <1>0, <2>1
<1>12. ASSUME NEW g \in Fans, NEW clear \in BOOLEAN, ZeroOne(t, g, clear), pc[t] = "idle"
      PROVE  previous'[t][f] = 0
  <2>1. ~RollbackWindow(t, f)'
    BY <1>12 DEF ZeroOne, RollbackWindow, Goto, Op, TypeOK, TaskTypes
  <2> QED
    BY <1>0, <2>1
<1>13. CASE Request(t)
  <2>1. UNCHANGED <<attempted, previous, generation, pc, op, fan, changed>>
    BY <1>13
       DEF Request, ClearTachInhibit, RequestManual, RequestAutomatic, RestoreAll,
           ClearMaintenance, SetRampPaused, motorVars, localVars
  <2> QED
    BY <1>0, <2>1 DEF CannotReturn, RollbackWindow
<1>14. CASE ZeroProofBegin(t)
  <2>1. ~RollbackWindow(t, f)'
    BY <1>14 DEF ZeroProofBegin, RollbackWindow, Goto, Op, TypeOK, TaskTypes
  <2> QED
    BY <1>0, <2>1
<1>15. CASE ZeroProofLock(t)
  <2>1. ~RollbackWindow(t, f)'
    BY <1>15 DEF ZeroProofLock, RollbackWindow, Goto, Op, TypeOK, TaskTypes
  <2> QED
    BY <1>0, <2>1
<1>16. CASE ZeroProofTimeout(t)
  <2>1. ~RollbackWindow(t, f)'
    BY <1>16 DEF ZeroProofTimeout, RollbackWindow, Goto, Op, TypeOK, TaskTypes
  <2> QED
    BY <1>0, <2>1
<1>17. CASE ZeroProofJudge(t)
  <2>1. ~RollbackWindow(t, f)'
    BY <1>17 DEF ZeroProofJudge, RollbackWindow, Goto, Op, TypeOK, TaskTypes
  <2> QED
    BY <1>0, <2>1
<1>18. CASE ZeroProofEnd(t)
  <2>1. ~RollbackWindow(t, f)'
    BY <1>18 DEF ZeroProofEnd, RollbackWindow, Goto, Op, TypeOK, TaskTypes
  <2> QED
    BY <1>0, <2>1
<1>19. CASE t = Supervisor /\ TakeRmtFault
  <2>1. ~RollbackWindow(t, f)'
    BY <1>19 DEF TakeRmtFault, AfterTake, RollbackWindow, Goto, Op, TypeOK, TaskTypes
  <2> QED
    BY <1>0, <2>1
<1>20. CASE t = Supervisor /\ StopForRmtFault
  <2>1. ~RollbackWindow(t, f)'
    BY <1>20 DEF StopForRmtFault, ClaimStop, RollbackWindow, Goto, Op, TypeOK, TaskTypes
  <2> QED
    BY <1>0, <2>1
<1>21. CASE t = Ramp /\ RampSuspended
  <2>1. RollbackWindow(t, f) /\ UNCHANGED <<attempted, previous, generation>>
    BY <1>0, <1>21 DEF RampSuspended, vars, RollbackWindow, Goto, TypeOK, TaskTypes, motorVars, localVars
  <2> QED
    BY <1>0, <2>1 DEF CannotReturn
<1> QED
  BY <1>1, <1>2, <1>3, <1>4, <1>5, <1>6, <1>7, <1>8, <1>9, <1>10, <1>11, <1>12, <1>13,
     <1>14, <1>15, <1>16, <1>17, <1>18, <1>19, <1>20, <1>21
     DEF By, ApplyStep, StopStep, RampTask, CallerStart, ZeroProofStep, Request, StopOne,
         SetTachInhibit, Call

\* The windows of the others: a later generation closes them.
LEMMA OtherWindow ==
  ASSUME TypeOK, NoStaleRollback, NEW t \in Tasks, By(t), NEW u \in Tasks, u # t,
         CannotReturn(u) \/ StopZero(t)
  PROVE  CannotReturn(u)'
<1>0. SUFFICES ASSUME NEW f \in Fans, RollbackWindow(u, f)', attempted'[u][f] = generation'[f]
               PROVE  previous'[u][f] = 0
  BY DEF CannotReturn
<1>1. RollbackWindow(u, f) /\ attempted'[u] = attempted[u] /\ previous'[u] = previous[u]
  BY <1>0, OneTaskMoves, GenerationsGrow DEF OthersKept, RollbackWindow
<1>2. /\ generation[f] \in Nat /\ attempted[u][f] \in Nat /\ attempted[u][f] <= generation[f]
      /\ generation'[f] \in {generation[f], generation[f] + 1}
  BY <1>1, GenerationsGrow DEF NoStaleRollback, TypeOK, MotorTypes, TaskTypes
<1>3. CASE StopZero(t)
  <2>1. generation'[f] = generation[f] + 1
    BY <1>3 DEF StopZero
  <2> QED
    BY <1>0, <1>1, <1>2, <2>1
<1>4. CASE CannotReturn(u)
  BY <1>0, <1>1, <1>2, <1>4 DEF CannotReturn
<1> QED
  BY <1>3, <1>4

\* What is motionless stays so while no fan may move.
LEMMA MotionlessStep ==
  ASSUME SafeInv, NEW S \in SUBSET Tasks, Motionless(S), \A f \in Fans : ~MotionAllowed(f),
         NEW t \in Tasks, By(t), pc[t] = "failed" => t \in S
  PROVE  Motionless(S)'
<1> USE DEF SafeInv, Motionless
<1>1. AtRest'
  BY RestStep
<1>2. ASSUME NEW u \in S PROVE CannotReturn(u)'
  <2>1. CASE u = t
    BY <2>1, OwnWindow
  <2>2. CASE u # t
    BY <2>2, OtherWindow
  <2> QED
    BY <2>1, <2>2
<1> QED
  BY <1>1, <1>2

\* StopZero makes everything motionless that it does not remember itself.
LEMMA StopZeroRests ==
  ASSUME SafeInv, NEW t \in Tasks, StopZero(t)
  PROVE  Motionless(Tasks \ {t})' /\ (~op[t].rollback => Motionless(Tasks)')
<1> USE ConstantTypes, MotorAssumption DEF SafeInv, Motionless
<1>1. AtRest'
  BY DEF StopZero, AtRest
<1>2. ASSUME NEW u \in Tasks \ {t} PROVE CannotReturn(u)'
  BY OtherWindow DEF By, StopStep
<1>3. ~op[t].rollback => CannotReturn(t)'
  <2>1. op'[t] = op[t] /\ (t = Ramp => op[t].kind = "stop")
    BY DEF StopZero, RampKind
  <2> QED
    BY <2>1 DEF CannotReturn, RollbackWindow
<1> QED
  BY <1>1, <1>2, <1>3

(***************************************************************************)
(* An RMT fault has its consequence: until nothing can move any more, its  *)
(* notification is pending, taken, or at the door of s_stop_mutex.         *)
(***************************************************************************)
FaultUnderWay ==
  \/ rmt_fault_pending
  \/ pc[Supervisor] = "faultTaken"
  \/ \E u \in Tasks : pc[u] = "stopMutex" /\ op[u].inhibit = "RMT"

Served == rmt_inhibited => FaultUnderWay \/ Motionless(Tasks)

LEMMA FaultRaised ==
  ASSUME TypeOK, NEW t \in Tasks, By(t), rmt_inhibited', ~rmt_inhibited
  PROVE  rmt_fault_pending' \/ (StopZero(t) /\ op[t].inhibit = "RMT")
<1> DEFINE Goal == rmt_fault_pending' \/ (StopZero(t) /\ op[t].inhibit = "RMT")
<1>0. rmt_inhibited' # rmt_inhibited
  OBVIOUS
<1>1. CASE ApplyBegin(t)
  BY <1>0, <1>1 DEF ApplyBegin, inhibitVars
<1>2. CASE ApplyFinish(t)
  <2>1. PICK ok \in BOOLEAN : RecordApplyResult(fan[t], ok, request[t].pct)
    BY <1>2 DEF ApplyFinish
  <2> QED
    BY <1>0, <2>1 DEF RecordApplyResult
<1>3. CASE StopZero(t)
  BY <1>0, <1>3 DEF StopZero
<1>4. CASE StopApplied(t)
  BY <1>0, <1>4 DEF StopApplied, inhibitVars
<1>5. CASE StopEnd(t)
  BY <1>0, <1>5 DEF StopEnd, inhibitVars
<1>6. CASE t = Ramp /\ RampRegistered
  BY <1>0, <1>6 DEF RampRegistered, inhibitVars
<1>7. CASE t = Ramp /\ RampFatal
  BY <1>0, <1>7 DEF RampFatal, ClaimStop
<1>8. CASE t = Ramp /\ RampTick
  BY <1>0, <1>8 DEF RampTick, inhibitVars
<1>9. CASE t = Ramp /\ RampAdvance
  BY <1>0, <1>9 DEF RampAdvance, inhibitVars
<1>10. CASE t = Ramp /\ RampApplied
  BY <1>0, <1>10 DEF RampApplied, inhibitVars
<1>11. ASSUME NEW o \in StopCalls, StopAll(t, o)
      PROVE  Goal
  BY <1>0, <1>11 DEF StopAll, ClaimStop
<1>12. ASSUME NEW f \in Fans, NEW clear \in BOOLEAN, ZeroOne(t, f, clear), pc[t] = "idle"
      PROVE  Goal
  BY <1>0, <1>12 DEF ZeroOne, inhibitVars
<1>13. CASE Request(t)
  BY <1>0, <1>13
     DEF Request, ClearTachInhibit, RequestManual, RequestAutomatic, RestoreAll, ClearMaintenance,
         SetRampPaused, inhibitVars
<1>14. CASE ZeroProofBegin(t)
  BY <1>0, <1>14 DEF ZeroProofBegin, inhibitVars
<1>15. CASE ZeroProofLock(t)
  BY <1>0, <1>15 DEF ZeroProofLock, inhibitVars
<1>16. CASE ZeroProofTimeout(t)
  BY <1>0, <1>16 DEF ZeroProofTimeout, inhibitVars
<1>17. CASE ZeroProofJudge(t)
  BY <1>0, <1>17 DEF ZeroProofJudge, inhibitVars
<1>18. CASE ZeroProofEnd(t)
  BY <1>0, <1>18 DEF ZeroProofEnd, inhibitVars
<1>19. CASE t = Supervisor /\ TakeRmtFault
  BY <1>0, <1>19 DEF TakeRmtFault, inhibitVars
<1>20. CASE t = Supervisor /\ StopForRmtFault
  BY <1>0, <1>20 DEF StopForRmtFault, ClaimStop
<1>21. CASE t = Ramp /\ RampSuspended
  BY <1>0, <1>21 DEF RampSuspended, vars, inhibitVars
<1> QED
  BY <1>1, <1>2, <1>3, <1>4, <1>5, <1>6, <1>7, <1>8, <1>9, <1>10, <1>11, <1>12, <1>13,
     <1>14, <1>15, <1>16, <1>17, <1>18, <1>19, <1>20, <1>21
     DEF By, ApplyStep, StopStep, RampTask, CallerStart, ZeroProofStep, Request, StopOne,
         SetTachInhibit, Call

LEMMA FaultStaysUnderWay ==
  ASSUME TypeOK, NEW t \in Tasks, By(t), FaultUnderWay
  PROVE  FaultUnderWay' \/ (StopZero(t) /\ op[t].inhibit = "RMT")
<1> USE ConstantTypes, MotorAssumption, StopKinds
<1> DEFINE Goal == FaultUnderWay' \/ (StopZero(t) /\ op[t].inhibit = "RMT")
           Hot == \/ t = Supervisor /\ pc[t] = "faultTaken"
                  \/ pc[t] = "stopMutex" /\ op[t].inhibit = "RMT"
           Kept == rmt_fault_pending => rmt_fault_pending'
<1>a. ASSUME Hot => Hot', Kept PROVE FaultUnderWay'
  BY <1>a, OneTaskMoves DEF FaultUnderWay, OthersKept
<1>1. CASE ApplyBegin(t)
  BY <1>a, <1>1 DEF ApplyBegin, inhibitVars
<1>2. CASE ApplyFinish(t)
  <2>1. Kept
    BY <1>2 DEF ApplyFinish, RecordApplyResult
  <2> QED
    BY <1>a, <1>2, <2>1 DEF ApplyFinish
<1>3. CASE StopZero(t)
  BY <1>a, <1>3 DEF StopZero, inhibitVars
<1>4. CASE StopApplied(t)
  BY <1>a, <1>4 DEF StopApplied, inhibitVars
<1>5. CASE StopEnd(t)
  BY <1>a, <1>5 DEF StopEnd, inhibitVars
<1>6. CASE t = Ramp /\ RampRegistered
  BY <1>a, <1>6 DEF RampRegistered, inhibitVars
<1>7. CASE t = Ramp /\ RampFatal
  BY <1>a, <1>7 DEF RampFatal, Call, ClaimStop
<1>8. CASE t = Ramp /\ RampTick
  BY <1>a, <1>8 DEF RampTick, inhibitVars
<1>9. CASE t = Ramp /\ RampAdvance
  BY <1>a, <1>9 DEF RampAdvance, inhibitVars
<1>10. CASE t = Ramp /\ RampApplied
  BY <1>a, <1>10 DEF RampApplied, inhibitVars
<1>11. ASSUME NEW o \in StopCalls, StopAll(t, o)
      PROVE  Goal
  BY <1>a, <1>11 DEF StopAll, Call, ClaimStop
<1>12. ASSUME NEW f \in Fans, NEW clear \in BOOLEAN, ZeroOne(t, f, clear), pc[t] = "idle"
      PROVE  Goal
  BY <1>a, <1>12 DEF ZeroOne, inhibitVars
<1>13. CASE Request(t)
  BY <1>a, <1>13
     DEF Request, ClearTachInhibit, RequestManual, RequestAutomatic, RestoreAll, ClearMaintenance,
         SetRampPaused, Call, inhibitVars
<1>14. CASE ZeroProofBegin(t)
  BY <1>a, <1>14 DEF ZeroProofBegin, Call, inhibitVars
<1>15. CASE ZeroProofLock(t)
  BY <1>a, <1>15 DEF ZeroProofLock, inhibitVars
<1>16. CASE ZeroProofTimeout(t)
  BY <1>a, <1>16 DEF ZeroProofTimeout, inhibitVars
<1>17. CASE ZeroProofJudge(t)
  BY <1>a, <1>17 DEF ZeroProofJudge, inhibitVars
<1>18. CASE ZeroProofEnd(t)
  BY <1>a, <1>18 DEF ZeroProofEnd, inhibitVars
<1>19. CASE t = Supervisor /\ TakeRmtFault
  BY <1>19 DEF TakeRmtFault, AfterTake, Goto, FaultUnderWay, TypeOK, TaskTypes
<1>20. CASE t = Supervisor /\ StopForRmtFault
  BY <1>20 DEF StopForRmtFault, ClaimStop, Goto, FaultUnderWay, TypeOK, TaskTypes
<1>21. CASE t = Ramp /\ RampSuspended
  BY <1>a, <1>21 DEF RampSuspended, vars, inhibitVars
<1> QED
  BY <1>1, <1>2, <1>3, <1>4, <1>5, <1>6, <1>7, <1>8, <1>9, <1>10, <1>11, <1>12, <1>13,
     <1>14, <1>15, <1>16, <1>17, <1>18, <1>19, <1>20, <1>21
     DEF By, ApplyStep, StopStep, RampTask, CallerStart, ZeroProofStep, Request, StopOne,
         SetTachInhibit, Call

LEMMA ServedStep ==
  ASSUME SafeInv, Served, NEW t \in Tasks, By(t)
  PROVE  Served'
<1> USE DEF SafeInv
<1>1. ASSUME StopZero(t), op[t].inhibit = "RMT" PROVE Motionless(Tasks)'
  <2>1. ~op[t].rollback
    BY <1>1 DEF VerifiedLatchesNothing
  <2> QED
    BY <1>1, <2>1, StopZeroRests
<1>2. CASE rmt_inhibited' /\ ~rmt_inhibited
  BY <1>1, <1>2, FaultRaised DEF Served, FaultUnderWay
<1>3. CASE rmt_inhibited /\ FaultUnderWay
  BY <1>1, <1>3, FaultStaysUnderWay DEF Served
<1>4. CASE rmt_inhibited /\ Motionless(Tasks)
  <2>1. \A f \in Fans : ~MotionAllowed(f)
    BY <1>4 DEF MotionAllowed
  <2>2. Tasks \in SUBSET Tasks
    OBVIOUS
  <2>3. Motionless(Tasks)'
    BY <1>4, <2>1, <2>2, MotionlessStep DEF SafeInv
  <2> QED
    BY <2>3 DEF Served
<1> QED
  BY <1>2, <1>3, <1>4 DEF Served

(***************************************************************************)
(* A stop that has met no error so far: nothing moves, and what it has     *)
(* sent stays sent.                                                        *)
(***************************************************************************)
Stopping(s) == op[s].kind = "stop" /\ stop_ok[s] /\ pc[s] \in AfterZeroing

Done(s, f) == f < fan[s] \/ (f = fan[s] /\ pc[s] = "applied")

Quiet(s) ==
  /\ Motionless(Tasks \ {s})
  /\ \A f \in Fans : Done(s, f) => Emitted(f) = 0 /\ applied[f] = 0
  /\ \A u \in Tasks : pc[u] = "rmt" /\ (u = s \/ Done(s, fan[u])) => request[u] = NoRequest

Silence == \A s \in Tasks : Stopping(s) => Quiet(s)

\* How a task comes to three of its positions.
LEMMA Arrivals ==
  ASSUME TypeOK, Positions, RampKind, NEW t \in Tasks, By(t)
  PROVE  /\ pc'[t] = "rmt" => ApplyBegin(t)
         /\ pc'[t] = "zeroHeld" => ZeroProofJudge(t)
         /\ Stopping(t)' =>
              \/ StopZero(t)
              \/ /\ Stopping(t)
                 /\ ApplyBegin(t) \/ ApplyFinish(t) \/ (StopApplied(t) /\ pc[t] = "applied")
<1> USE ConstantTypes, MotorAssumption, StopKinds
<1> DEFINE Moved == ApplyBegin(t) \/ ApplyFinish(t) \/ (StopApplied(t) /\ pc[t] = "applied")
           Goal == /\ pc'[t] = "rmt" => ApplyBegin(t)
                   /\ pc'[t] = "zeroHeld" => ZeroProofJudge(t)
                   /\ Stopping(t)' => StopZero(t) \/ (Stopping(t) /\ Moved)
<1>1. CASE ApplyBegin(t)
  <2>1. pc'[t] = "rmt" /\ pc[t] = "apply" /\ UNCHANGED <<op, stop_ok>>
    BY <1>1 DEF ApplyBegin, Goto, TypeOK, TaskTypes
  <2>2. Stopping(t)' => Stopping(t)
    BY <2>1 DEF Stopping, AfterZeroing
  <2> QED
    BY <1>1, <2>1, <2>2
<1>2. CASE ApplyFinish(t)
  <2>1. pc'[t] \in {"idle", "applied", "failed"} /\ pc[t] = "rmt" /\ UNCHANGED <<op, stop_ok>>
    BY <1>2 DEF ApplyFinish, Goto, TypeOK, TaskTypes
  <2>2. Stopping(t)' => Stopping(t)
    BY <2>1 DEF Stopping, AfterZeroing
  <2> QED
    BY <1>2, <2>1, <2>2
<1>3. CASE StopZero(t)
  <2>1. pc'[t] = "apply"
    BY <1>3 DEF StopZero, Goto, TypeOK, TaskTypes
  <2> QED
    BY <1>3, <2>1
<1>4. CASE StopApplied(t)
  <2>1. /\ pc'[t] \in {"apply", "stopEnd"} /\ pc[t] \in {"applied", "failed"}
        /\ op[t].kind = "stop"
        /\ stop_ok'[t] => stop_ok[t] /\ pc[t] = "applied"
    BY <1>4 DEF StopApplied, Goto, TypeOK, TaskTypes
  <2> QED
    BY <1>4, <2>1 DEF Stopping, AfterZeroing
<1>5. CASE StopEnd(t)
  <2>1. pc'[t] \notin {"rmt", "zeroHeld"} /\ ~Stopping(t)'
    BY <1>5 DEF StopEnd, Op, Goto, Stopping, AfterZeroing, TypeOK, TaskTypes
  <2> QED
    BY <2>1
<1>6. CASE t = Ramp /\ RampRegistered
  <2>1. pc'[t] \notin {"rmt", "zeroHeld"} /\ ~Stopping(t)'
    BY <1>6 DEF RampRegistered, Op, Goto, Stopping, AfterZeroing, TypeOK, TaskTypes
  <2> QED
    BY <2>1
<1>7. CASE t = Ramp /\ RampFatal
  <2>1. pc'[t] \notin {"rmt", "zeroHeld"} /\ ~Stopping(t)'
    BY <1>7 DEF RampFatal, ClaimStop, Goto, Stopping, AfterZeroing, TypeOK, TaskTypes
  <2> QED
    BY <2>1
<1>8. CASE t = Ramp /\ RampTick
  <2>1. pc'[t] \notin {"rmt", "zeroHeld"} /\ ~Stopping(t)'
    BY <1>8 DEF RampTick, Goto, Stopping, AfterZeroing, TypeOK, TaskTypes
  <2> QED
    BY <2>1
<1>9. CASE t = Ramp /\ RampAdvance
  <2>1. pc'[t] = "apply" /\ op'[t].kind # "stop"
    BY <1>9 DEF RampAdvance, AfterAdvance, RampKind, Goto, TypeOK, TaskTypes
  <2> QED
    BY <2>1 DEF Stopping
<1>10. CASE t = Ramp /\ RampApplied
  <2>1. pc'[t] \notin {"rmt", "zeroHeld"} /\ ~Stopping(t)'
    BY <1>10 DEF RampApplied, Goto, Stopping, AfterZeroing, TypeOK, TaskTypes
  <2> QED
    BY <2>1
<1>11. ASSUME NEW o \in StopCalls, StopAll(t, o)
      PROVE  Goal
  <2>1. pc'[t] \notin {"rmt", "zeroHeld"} /\ ~Stopping(t)'
    BY <1>11 DEF StopAll, ClaimStop, Goto, Stopping, AfterZeroing, TypeOK, TaskTypes
  <2> QED
    BY <2>1
<1>12. ASSUME NEW f \in Fans, NEW clear \in BOOLEAN, ZeroOne(t, f, clear), pc[t] = "idle"
      PROVE  Goal
  <2>1. pc'[t] = "apply" /\ op'[t].kind # "stop"
    BY <1>12 DEF ZeroOne, AfterAdvance, RampKind, Goto, TypeOK, TaskTypes
  <2> QED
    BY <2>1 DEF Stopping
<1>13. CASE Request(t)
  <2>1. pc[t] = "idle" /\ UNCHANGED pc
    BY <1>13
       DEF Request, ClearTachInhibit, RequestManual, RequestAutomatic, RestoreAll,
           ClearMaintenance, SetRampPaused, Call
  <2> QED
    BY <2>1 DEF Stopping, AfterZeroing
<1>14. CASE ZeroProofBegin(t)
  <2>1. pc'[t] \notin {"rmt", "zeroHeld"} /\ ~Stopping(t)'
    BY <1>14 DEF ZeroProofBegin, Call, Goto, Stopping, AfterZeroing, TypeOK, TaskTypes
  <2> QED
    BY <2>1
<1>15. CASE ZeroProofLock(t)
  <2>1. pc'[t] \notin {"rmt", "zeroHeld"} /\ ~Stopping(t)'
    BY <1>15 DEF ZeroProofLock, Goto, Stopping, AfterZeroing, TypeOK, TaskTypes
  <2> QED
    BY <2>1
<1>16. CASE ZeroProofTimeout(t)
  <2>1. pc'[t] \notin {"rmt", "zeroHeld"} /\ ~Stopping(t)'
    BY <1>16 DEF ZeroProofTimeout, Goto, Stopping, AfterZeroing, TypeOK, TaskTypes
  <2> QED
    BY <2>1
<1>17. CASE ZeroProofJudge(t)
  <2>1. pc'[t] \in {"zeroHeld", "zeroDenied"}
    BY <1>17 DEF ZeroProofJudge, Goto, TypeOK, TaskTypes
  <2> QED
    BY <1>17, <2>1 DEF Stopping, AfterZeroing
<1>18. CASE ZeroProofEnd(t)
  <2>1. pc'[t] \notin {"rmt", "zeroHeld"} /\ ~Stopping(t)'
    BY <1>18 DEF ZeroProofEnd, Goto, Stopping, AfterZeroing, TypeOK, TaskTypes
  <2> QED
    BY <2>1
<1>19. CASE t = Supervisor /\ TakeRmtFault
  <2>1. pc'[t] \notin {"rmt", "zeroHeld"} /\ ~Stopping(t)'
    BY <1>19 DEF TakeRmtFault, AfterTake, Goto, Stopping, AfterZeroing, TypeOK, TaskTypes
  <2> QED
    BY <2>1
<1>20. CASE t = Supervisor /\ StopForRmtFault
  <2>1. pc'[t] \notin {"rmt", "zeroHeld"} /\ ~Stopping(t)'
    BY <1>20 DEF StopForRmtFault, ClaimStop, Goto, Stopping, AfterZeroing, TypeOK, TaskTypes
  <2> QED
    BY <2>1
<1>21. CASE t = Ramp /\ RampSuspended
  <2>1. pc[t] = "suspended" /\ UNCHANGED pc
    BY <1>21 DEF RampSuspended, vars
  <2> QED
    BY <2>1 DEF Stopping, AfterZeroing
<1> QED
  BY <1>1, <1>2, <1>3, <1>4, <1>5, <1>6, <1>7, <1>8, <1>9, <1>10, <1>11, <1>12, <1>13,
     <1>14, <1>15, <1>16, <1>17, <1>18, <1>19, <1>20, <1>21
     DEF By, ApplyStep, StopStep, RampTask, CallerStart, ZeroProofStep, Request, StopOne,
         SetTachInhibit, Call

\* The step that a stop in progress sees: its own or one of the others.
LEMMA QuietKept ==
  ASSUME SafeInv, Holders, Positions, Counted, Streaming, NEW s \in Tasks, NEW t \in Tasks,
         Stopping(s), Quiet(s), By(t), Stopping(s)'
  PROVE  Quiet(s)'
<1> USE ConstantTypes, MotorAssumption DEF SafeInv
<1>0. t = s => ApplyBegin(s) \/ ApplyFinish(s) \/ (StopApplied(s) /\ pc[s] = "applied")
  <2> SUFFICES ASSUME t = s PROVE ApplyBegin(s) \/ ApplyFinish(s) \/ (StopApplied(s) /\ pc[s] = "applied")
    OBVIOUS
  <2>1. ~StopZero(s)
    BY DEF StopZero, Stopping, AfterZeroing
  <2> QED
    BY <2>1, Arrivals
<1>1. Motionless(Tasks \ {s})'
  <2>1. s \in Stops /\ stop_depth # 0
    BY FS_EmptySet DEF Counted, Stops, Stopping
  <2>2. \A f \in Fans : ~MotionAllowed(f)
    BY <2>1 DEF MotionAllowed
  <2>3. pc[t] = "failed" => t \in Tasks \ {s}
    BY <1>0 DEF ApplyBegin, ApplyFinish
  <2>4. Tasks \ {s} \in SUBSET Tasks
    OBVIOUS
  <2> QED
    BY <2>2, <2>3, <2>4, MotionlessStep DEF Quiet
<1>2. ASSUME NEW f \in Fans, Done(s, f)'
      PROVE  Done(s, f) \/ (ApplyFinish(t) /\ t = s /\ f = fan[s] /\ pc'[s] = "applied")
  <2>1. CASE t # s
    <3>1. pc'[s] = pc[s] /\ fan'[s] = fan[s]
      BY <2>1, OneTaskMoves DEF OthersKept
    <3> QED
      BY <1>2, <3>1 DEF Done
  <2>2. CASE ApplyBegin(s)
    <3>1. pc'[s] = "rmt" /\ fan'[s] = fan[s]
      BY <2>2 DEF ApplyBegin, Goto, TypeOK, TaskTypes
    <3> QED
      BY <1>2, <3>1 DEF Done
  <2>3. CASE ApplyFinish(s) /\ t = s
    BY <1>2, <2>3 DEF ApplyFinish, Done
  <2>4. CASE StopApplied(s) /\ pc[s] = "applied"
    <3>1. fan[s] \in Nat /\ fan'[s] = fan[s] + 1 /\ f \in Nat
      BY <2>4 DEF StopApplied, TypeOK, TaskTypes
    <3>2. pc'[s] # "applied"
      BY <2>4 DEF StopApplied, Goto, TypeOK, TaskTypes
    <3> QED
      BY <1>2, <2>4, <3>1, <3>2 DEF Done
  <2> QED
    BY <1>0, <2>1, <2>2, <2>3, <2>4
<1>3. ASSUME NEW g \in Fans, Done(s, g)'
      PROVE  Emitted(g)' = 0 /\ applied'[g] = 0
  <2>1. CASE UNCHANGED <<rmt, applied>> /\ ~ApplyFinish(t)
    BY <1>2, <1>3, <2>1 DEF Quiet, Emitted
  <2>2. CASE ~(UNCHANGED <<rmt, applied>> /\ ~ApplyFinish(t))
    <3>1. PICK f \in Fans :
              /\ ApplyFinish(t) /\ f = fan[t]
              /\ \A h \in Fans : h # f => rmt'[h] = rmt[h] /\ applied'[h] = applied[h]
              /\ \/ Emitted(f)' = request[t].dshot /\ applied'[f] = request[t].pct
                 \/ /\ Emitted(f)' \in {Emitted(f), 0} /\ applied'[f] = applied[f]
                    /\ pc'[t] # "applied"
      BY <2>2, OutputStep
    <3>2. CASE g # f
      <4>1. Done(s, g)
        BY <1>2, <1>3, <3>1, <3>2
      <4> QED
        BY <3>1, <3>2, <4>1 DEF Quiet, Emitted
    <3>3. CASE g = f
      <4>1. request[t] = NoRequest
        <5>1. pc[t] = "rmt"
          BY <3>1 DEF ApplyFinish
        <5> QED
          BY <1>2, <1>3, <3>1, <3>3, <5>1 DEF Quiet
      <4>2. Done(s, g) \/ (t = s /\ pc'[t] = "applied")
        BY <1>2, <1>3
      <4> QED
        BY <3>1, <3>3, <4>1, <4>2 DEF Quiet, NoRequest
    <3> QED
      BY <3>2, <3>3
  <2> QED
    BY <2>1, <2>2
<1>4. ASSUME NEW u \in Tasks, pc'[u] = "rmt", u = s \/ Done(s, fan[u])'
      PROVE  request'[u] = NoRequest
  <2>1. CASE u = t
    <3>1. ApplyBegin(t) /\ fan[t] \in Fans
      BY <1>4, <2>1, Arrivals DEF ApplyBegin, TypeOK, FanIndexed
    <3>2. throttle[fan[t]] = 0 /\ current[fan[t]] = 0
      BY <3>1 DEF Quiet, Motionless, AtRest
    <3>3. EffectivePct(0) = 0
      BY DEF EffectivePct
    <3>4. request'[t] = NoRequest
      BY <3>1, <3>2, <3>3 DEF ApplyBegin, NoRequest, TypeOK, OutputTypes
    <3> QED
      BY <2>1, <3>4
  <2>2. CASE u # t
    <3>1. pc[u] = "rmt" /\ fan'[u] = fan[u] /\ request'[u] = request[u] /\ fan[u] \in Fans
      BY <1>4, <2>2, OneTaskMoves DEF OthersKept, TypeOK, FanIndexed
    <3>2. u = s \/ Done(s, fan[u])
      <4> SUFFICES ASSUME u # s PROVE Done(s, fan[u])
        OBVIOUS
      <4>1. PICK f \in Fans : f = fan[u] /\ f = fan'[u]
        BY <3>1
      <4>2. Done(s, f)'
        BY <1>4, <4>1 DEF Done
      <4>3. ~(ApplyFinish(t) /\ t = s /\ f = fan[s])
        BY <3>1, <4>1 DEF ApplyFinish, Holders, HoldsIo
      <4> QED
        BY <1>2, <4>1, <4>2, <4>3
    <3> QED
      BY <3>1, <3>2 DEF Quiet
  <2> QED
    BY <2>1, <2>2
<1> QED
  BY <1>1, <1>3, <1>4 DEF Quiet

LEMMA SilenceStep ==
  ASSUME SafeInv, Holders, Positions, Counted, Streaming, Silence, NEW t \in Tasks, By(t)
  PROVE  Silence'
<1> USE ConstantTypes, MotorAssumption DEF SafeInv
<1> SUFFICES ASSUME NEW s \in Tasks, Stopping(s)' PROVE Quiet(s)'
  BY DEF Silence
<1>1. CASE Stopping(s)
  BY <1>1, QuietKept DEF Silence
<1>2. CASE ~Stopping(s)
  <2>1. t = s
    BY <1>2, OneTaskMoves DEF Stopping, OthersKept
  <2>2. StopZero(s)
    BY <1>2, <2>1, Arrivals
  <2>3. Motionless(Tasks \ {s})'
    BY <2>2, StopZeroRests
  <2>4. fan'[s] = 1 /\ pc'[s] = "apply"
    BY <2>2 DEF StopZero, Goto, TypeOK, TaskTypes
  <2>5. \A f \in 1..(N + 1) : ~Done(s, f)'
    BY <2>4 DEF Done
  <2>6. \A u \in Tasks : fan'[u] \in 1..(N + 1)
    BY <2>2 DEF StopZero, TypeOK, TaskTypes
  <2> QED
    BY <2>3, <2>4, <2>5, <2>6 DEF Quiet, Done
<1> QED
  BY <1>1, <1>2

\* The proof of a safe zero holds every io_mutex, so nothing reaches an output.
LEMMA CoherentStep ==
  ASSUME SafeInv, Holders, Holders', Positions, Streaming, ZeroProofIsCoherent,
         NEW t \in Tasks, By(t), TypeOK'
  PROVE  ZeroProofIsCoherent'
<1> USE ConstantTypes, MotorAssumption DEF SafeInv
<1> SUFFICES ASSUME NEW s \in Callers, pc'[s] = "zeroHeld"
             PROVE  /\ \A f \in Fans : Emitted(f)' = 0 /\ applied'[f] = 0
                    /\ \A u \in Tasks : pc'[u] # "rmt"
  BY DEF ZeroProofIsCoherent
<1>1. \A u \in Tasks : pc'[u] # "rmt"
  <2> SUFFICES ASSUME NEW u \in Tasks, pc'[u] = "rmt" PROVE FALSE
    OBVIOUS
  <2>1. fan'[u] \in Fans
    BY DEF TypeOK, FanIndexed
  <2> QED
    BY <2>1 DEF Holders, HoldsIo
<1>2. CASE pc[s] = "zeroHeld"
  <2>1. ~ApplyFinish(t)
    BY <1>2 DEF ApplyFinish, ZeroProofIsCoherent
  <2>2. UNCHANGED <<rmt, applied>>
    BY <2>1, OutputStep
  <2> QED
    BY <1>1, <1>2, <2>2 DEF ZeroProofIsCoherent, Emitted
<1>3. CASE pc[s] # "zeroHeld"
  <2>1. t = s
    BY <1>3, OneTaskMoves DEF OthersKept
  <2>2. ZeroProofJudge(s)
    BY <2>1, Arrivals
  <2>3. /\ \A f \in Fans : HoldsZero(f)
        /\ UNCHANGED <<rmt, applied>>
    BY <2>2 DEF ZeroProofJudge, Goto, motorVars, TypeOK, TaskTypes
  <2> QED
    BY <1>1, <2>3 DEF HoldsZero, Emitted
<1> QED
  BY <1>2, <1>3

StopInv ==
  /\ SafeInv /\ Holders /\ Positions /\ Counted /\ Streaming
  /\ Served /\ Silence /\ ZeroProofIsCoherent

LEMMA StopInit == Init => StopInv
<1> SUFFICES ASSUME Init PROVE StopInv
  OBVIOUS
<1> USE ConstantTypes, MotorAssumption
<1>1. SafeInv
  BY SafeInit
<1>2. \A t \in Tasks : pc[t] \in {"boot", "idle"} /\ op[t] = Op("none")
  BY DEF Init
<1>3. Holders /\ Positions /\ Silence /\ ZeroProofIsCoherent
  BY <1>2, StopKinds DEF Holders, HoldsIo, Positions, StopPlace, Silence, Stopping, ZeroProofIsCoherent, AfterZeroing
<1>4. Counted
  <2>1. Stops = {}
    BY <1>2, StopKinds DEF Stops
  <2> QED
    BY <2>1, FS_EmptySet DEF Counted, Init
<1>5. Streaming /\ Served
  BY DEF Streaming, Served, Init
<1> QED
  BY <1>1, <1>3, <1>4, <1>5 DEF StopInv

LEMMA StopStepInv ==
  ASSUME StopInv, TypeOK', [Next]_vars
  PROVE  StopInv'
<1> USE DEF StopInv
<1>1. SafeInv'
  BY SafeStep
<1>2. CASE Next
  <2>1. PICK t \in Tasks : By(t)
    BY <1>2, StepOfOne
  <2>2. TypeOK /\ RampKind
    BY DEF SafeInv
  <2>3. Holders'
    BY <2>1, <2>2, HoldersStep
  <2>4. Positions' /\ Counted' /\ Streaming'
    BY <2>1, <2>2, PositionsStep, CountedStep, StreamingStep
  <2>5. Served' /\ Silence'
    BY <2>1, ServedStep, SilenceStep
  <2>6. ZeroProofIsCoherent'
    BY <1>1, <2>1, <2>3, CoherentStep
  <2> QED
    BY <1>1, <2>3, <2>4, <2>5, <2>6
<1>3. CASE UNCHANGED vars
  <2>1. Holders' /\ Positions' /\ Counted' /\ Streaming'
    BY <1>3 DEF vars, Holders, HoldsIo, Positions, StopPlace, Counted, Stops, Streaming,
                mutexVars, localVars, inhibitVars
  <2>2. Served'
    BY <1>3 DEF vars, Served, FaultUnderWay, Motionless, AtRest, CannotReturn, RollbackWindow,
                motorVars, localVars, inhibitVars
  <2>3. Silence'
    BY <1>3 DEF vars, Silence, Stopping, Quiet, Done, Emitted, Motionless, AtRest, CannotReturn,
                RollbackWindow, motorVars, localVars
  <2>4. ZeroProofIsCoherent'
    BY <1>3 DEF vars, ZeroProofIsCoherent, Emitted, motorVars
  <2> QED
    BY <1>1, <2>1, <2>2, <2>3, <2>4
<1> QED
  BY <1>2, <1>3

LEMMA StopInvariant == Spec => []StopInv
<1>1. Init => StopInv
  BY StopInit
<1>2. StopInv /\ TypeOK' /\ [Next]_vars => StopInv'
  BY StopStepInv
<1> QED
  BY <1>1, <1>2, TypeCorrectness, PTL DEF Spec

\* What a stop has zeroed without an error stays silent until the stop returns,
\* for any number of fans, other stops, requests and failing RMT calls.
THEOREM SilenceSafety == Spec => []StoppedFansStaySilent
<1>1. StopInv => StoppedFansStaySilent
  BY DEF StopInv, Silence, Stopping, Quiet, Done, StoppedFansStaySilent
<1> QED
  BY <1>1, StopInvariant, PTL

\* An RMT inhibit is never left without consequence (take_rmt_fault and its stop).
THEOREM FaultSafety == Spec => []RmtFaultIsServed
<1>1. StopInv => RmtFaultIsServed
  BY DEF StopInv, Served, FaultUnderWay, Motionless, AtRest, RmtFaultIsServed
<1> QED
  BY <1>1, StopInvariant, PTL

\* A positive answer of motor_control_holds_safe_zero describes one moment.
THEOREM ZeroProofSafety == Spec => []ZeroProofIsCoherent
<1>1. StopInv => ZeroProofIsCoherent
  BY DEF StopInv
<1> QED
  BY <1>1, StopInvariant, PTL

=============================================================================
