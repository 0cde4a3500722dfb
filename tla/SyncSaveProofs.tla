--------------------------- MODULE SyncSaveProofs ---------------------------
(***************************************************************************)
(* What SyncSave guarantees for every set of callers and every bound: the  *)
(* types, that an acknowledged save is durable, that no wake-up is lost,   *)
(* and that the protocol refines DurableSave.                              *)
(***************************************************************************)
EXTENDS SyncSave, TLAPS

\* A caller that has published a generation and waits for its completion,
\* and one that holds s_sync_mutex.
Waiting(c) == pc[c] \in {"notify", "check", "await"}
Holding(c) == Waiting(c) \/ pc[c] = "leave"

\* s_sync_mutex admits one caller, which owns the latest generation.
Exclusive ==
  \A c \in Savers :
    /\ Holding(c) => owner = c
    /\ Waiting(c) => gen[c] = requested /\ ok[c] = FALSE

\* The save task runs behind the requests.
Behind == completed <= requested /\ serving <= requested

\* Flash only moves forward, and never past memory.
Forward ==
  /\ promised <= nvs
  /\ nvs <= value
  /\ at = "commit" => nvs <= snap /\ snap <= value

\* A caller asks for a version that memory holds already.
Asking ==
  \A c \in Savers :
    /\ pc[c] = "idle" => asked[c] = NoValue
    /\ pc[c] # "idle" => asked[c] \in Nat /\ asked[c] <= value

\* Wherever the save for the generation of a caller has got to, it carries the
\* version that the caller asked for.
Carried ==
  \A c \in Savers :
    /\ Waiting(c) /\ at = "commit" /\ serving = gen[c] => asked[c] <= snap
    /\ Waiting(c) /\ at = "done" /\ serving = gen[c] /\ wrote => asked[c] <= nvs
    /\ Waiting(c) /\ completed = gen[c] /\ result => asked[c] <= nvs
    /\ pc[c] = "leave" /\ ok[c] => asked[c] <= nvs

\* The save task will look at the requests again before it waits.
Saving ==
  \/ "SYNC" \in notified \/ at \in {"pend", "give"}
  \/ at \in {"snap", "commit", "done"} /\ serving # 0

\* A caller that has notified the task is saved for, or has been, and then the
\* semaphore it waits for is given.
Waking ==
  \A c \in Savers :
    /\ pc[c] \in {"check", "await"} /\ completed # requested => Saving
    /\ pc[c] = "await" /\ completed = requested => token \/ at = "give"

SaveInv == TypeOK /\ Exclusive /\ Behind /\ Forward /\ Asking /\ Carried

-----------------------------------------------------------------------------
LEMMA SaveInvInit == Init => SaveInv
<1> SUFFICES ASSUME Init PROVE SaveInv
  OBVIOUS
<1> USE SaveAssumption DEF Init
<1>1. pc \in [Savers -> CallerSteps] /\ gen \in [Savers -> Nat] /\ ok \in [Savers -> BOOLEAN]
  BY DEF CallerSteps
<1>2. asked \in [Savers -> Nat \cup {NoValue}]
  OBVIOUS
<1>3. TypeOK
  BY <1>1, <1>2 DEF TypeOK, Bits, WriterSteps
<1>4. Exclusive /\ Behind /\ Forward /\ Asking /\ Carried
  BY DEF Exclusive, Behind, Forward, Asking, Carried, Waiting, Holding
<1> QED
  BY <1>3, <1>4 DEF SaveInv

\* A step keeps every part of the invariant.
LEMMA SaveInvStep == SaveInv /\ [Next]_vars => SaveInv'
<1> SUFFICES ASSUME SaveInv, [Next]_vars PROVE SaveInv'
  OBVIOUS
<1> USE SaveAssumption
<1>0. /\ TypeOK /\ Exclusive /\ Behind /\ Forward /\ Asking /\ Carried
  BY DEF SaveInv
<1>1. ASSUME Edit PROVE SaveInv'
  <2>1. TypeOK'
    BY <1>0, <1>1 DEF Edit, TypeOK, Bits, WriterSteps, CallerSteps, syncVars,
       writerVars, callerVars, historyVars, boundVars
  <2>2. Exclusive'
    BY <1>0, <1>1 DEF Edit, Exclusive, Waiting, Holding, TypeOK, CallerSteps,
       syncVars, writerVars, callerVars, historyVars, boundVars
  <2>3. Behind'
    BY <1>0, <1>1 DEF Edit, Behind, TypeOK, syncVars, writerVars, callerVars,
       historyVars, boundVars
  <2>4. Forward'
    BY <1>0, <1>1 DEF Edit, Forward, TypeOK, Carried, Asking, syncVars, writerVars,
       callerVars, historyVars, boundVars
  <2>5. Asking'
    BY <1>0, <1>1 DEF Edit, Asking, TypeOK, Forward, CallerSteps, syncVars,
       writerVars, callerVars, historyVars, boundVars
  <2>6. Carried'
    BY <1>0, <1>1 DEF Edit, Carried, Waiting, Holding, TypeOK, Exclusive, Behind,
       Forward, Asking, CallerSteps, syncVars, writerVars, callerVars, historyVars,
       boundVars
  <2> QED
    BY <2>1, <2>2, <2>3, <2>4, <2>5, <2>6 DEF SaveInv
<1>2. ASSUME RequestSave PROVE SaveInv'
  <2>1. TypeOK'
    BY <1>0, <1>2 DEF RequestSave, TypeOK, Bits, WriterSteps, CallerSteps, syncVars,
       writerVars, callerVars, historyVars, boundVars
  <2>2. Exclusive'
    BY <1>0, <1>2 DEF RequestSave, Exclusive, Waiting, Holding, TypeOK, CallerSteps,
       syncVars, writerVars, callerVars, historyVars, boundVars
  <2>3. Behind'
    BY <1>0, <1>2 DEF RequestSave, Behind, TypeOK, syncVars, writerVars, callerVars,
       historyVars, boundVars
  <2>4. Forward'
    BY <1>0, <1>2 DEF RequestSave, Forward, TypeOK, Carried, Asking, syncVars,
       writerVars, callerVars, historyVars, boundVars
  <2>5. Asking'
    BY <1>0, <1>2 DEF RequestSave, Asking, TypeOK, Forward, CallerSteps, syncVars,
       writerVars, callerVars, historyVars, boundVars
  <2>6. Carried'
    BY <1>0, <1>2 DEF RequestSave, Carried, Waiting, Holding, TypeOK, Exclusive,
       Behind, Forward, Asking, CallerSteps, syncVars, writerVars, callerVars,
       historyVars, boundVars
  <2> QED
    BY <2>1, <2>2, <2>3, <2>4, <2>5, <2>6 DEF SaveInv
<1>3. ASSUME Start PROVE SaveInv'
  <2>1. TypeOK'
    BY <1>0, <1>3 DEF Start, TypeOK, Bits, WriterSteps, CallerSteps, syncVars,
       writerVars, callerVars, historyVars, boundVars
  <2>2. Exclusive'
    BY <1>0, <1>3 DEF Start, Exclusive, Waiting, Holding, TypeOK, CallerSteps,
       syncVars, writerVars, callerVars, historyVars, boundVars
  <2>3. Behind'
    BY <1>0, <1>3 DEF Start, Behind, TypeOK, syncVars, writerVars, callerVars,
       historyVars, boundVars
  <2>4. Forward'
    BY <1>0, <1>3 DEF Start, Forward, TypeOK, Carried, Asking, syncVars, writerVars,
       callerVars, historyVars, boundVars
  <2>5. Asking'
    BY <1>0, <1>3 DEF Start, Asking, TypeOK, Forward, CallerSteps, syncVars,
       writerVars, callerVars, historyVars, boundVars
  <2>6. Carried'
    BY <1>0, <1>3 DEF Start, Carried, Waiting, Holding, TypeOK, Exclusive, Behind,
       Forward, Asking, CallerSteps, syncVars, writerVars, callerVars, historyVars,
       boundVars
  <2> QED
    BY <2>1, <2>2, <2>3, <2>4, <2>5, <2>6 DEF SaveInv
<1>4. ASSUME Reset PROVE SaveInv'
  <2>1. TypeOK'
    <3>1. /\ pc' \in [Savers -> CallerSteps] /\ gen' \in [Savers -> Nat]
          /\ ok' \in [Savers -> BOOLEAN]
      BY <1>4 DEF Reset, CallerSteps
    <3>2. asked' \in [Savers -> Nat \cup {NoValue}]
      BY <1>4 DEF Reset
    <3>3. /\ value' \in Nat /\ nvs' \in Nat /\ promised' \in Nat
          /\ calls' \in Nat /\ failures' \in Nat /\ resets' \in Nat
      BY <1>0, <1>4 DEF Reset, TypeOK
    <3> QED
      BY <3>1, <3>2, <3>3, <1>4 DEF Reset, TypeOK, Bits, WriterSteps
  <2>2. Exclusive'
    BY <1>0, <1>4 DEF Reset, Exclusive, Waiting, Holding, TypeOK, CallerSteps
  <2>3. Behind'
    BY <1>0, <1>4 DEF Reset, Behind, TypeOK
  <2>4. Forward'
    BY <1>0, <1>4 DEF Reset, Forward, TypeOK, Carried, Asking
  <2>5. Asking'
    BY <1>0, <1>4 DEF Reset, Asking, TypeOK, Forward, CallerSteps
  <2>6. Carried'
    BY <1>0, <1>4 DEF Reset, Carried, Waiting, Holding, TypeOK, Exclusive, Behind,
       Forward, Asking, CallerSteps
  <2> QED
    BY <2>1, <2>2, <2>3, <2>4, <2>5, <2>6 DEF SaveInv
<1>5. ASSUME Wait PROVE SaveInv'
  <2>1. TypeOK'
    BY <1>0, <1>5 DEF Wait, TypeOK, Bits, WriterSteps, CallerSteps, dataVars,
       syncVars, callerVars, historyVars, boundVars
  <2>2. Exclusive'
    BY <1>0, <1>5 DEF Wait, Exclusive, Waiting, Holding, TypeOK, CallerSteps,
       dataVars, syncVars, callerVars, historyVars, boundVars
  <2>3. Behind'
    BY <1>0, <1>5 DEF Wait, Behind, TypeOK, dataVars, syncVars, callerVars,
       historyVars, boundVars
  <2>4. Forward'
    BY <1>0, <1>5 DEF Wait, Forward, TypeOK, Carried, Asking, dataVars, syncVars,
       callerVars, historyVars, boundVars
  <2>5. Asking'
    BY <1>0, <1>5 DEF Wait, Asking, TypeOK, Forward, CallerSteps, dataVars, syncVars,
       callerVars, historyVars, boundVars
  <2>6. Carried'
    BY <1>0, <1>5 DEF Wait, Carried, Waiting, Holding, TypeOK, Exclusive, Behind,
       Forward, Asking, CallerSteps, dataVars, syncVars, callerVars, historyVars,
       boundVars
  <2> QED
    BY <2>1, <2>2, <2>3, <2>4, <2>5, <2>6 DEF SaveInv
<1>6. ASSUME Debounce PROVE SaveInv'
  <2>1. TypeOK'
    BY <1>0, <1>6 DEF Debounce, AfterSync, TypeOK, Bits, WriterSteps, CallerSteps,
       dataVars, syncVars, callerVars, historyVars, boundVars
  <2>2. Exclusive'
    BY <1>0, <1>6 DEF Debounce, AfterSync, Exclusive, Waiting, Holding, TypeOK,
       CallerSteps, dataVars, syncVars, callerVars, historyVars, boundVars
  <2>3. Behind'
    BY <1>0, <1>6 DEF Debounce, AfterSync, Behind, TypeOK, dataVars, syncVars,
       callerVars, historyVars, boundVars
  <2>4. Forward'
    BY <1>0, <1>6 DEF Debounce, AfterSync, Forward, TypeOK, Carried, Asking, dataVars,
       syncVars, callerVars, historyVars, boundVars
  <2>5. Asking'
    BY <1>0, <1>6 DEF Debounce, AfterSync, Asking, TypeOK, Forward, CallerSteps,
       dataVars, syncVars, callerVars, historyVars, boundVars
  <2>6. Carried'
    BY <1>0, <1>6 DEF Debounce, AfterSync, Carried, Waiting, Holding, TypeOK,
       Exclusive, Behind, Forward, Asking, CallerSteps, dataVars, syncVars,
       callerVars, historyVars, boundVars
  <2> QED
    BY <2>1, <2>2, <2>3, <2>4, <2>5, <2>6 DEF SaveInv
<1>7. ASSUME Quiet PROVE SaveInv'
  <2>1. TypeOK'
    BY <1>0, <1>7 DEF Quiet, TypeOK, Bits, WriterSteps, CallerSteps, dataVars,
       syncVars, callerVars, historyVars, boundVars
  <2>2. Exclusive'
    BY <1>0, <1>7 DEF Quiet, Exclusive, Waiting, Holding, TypeOK, CallerSteps,
       dataVars, syncVars, callerVars, historyVars, boundVars
  <2>3. Behind'
    BY <1>0, <1>7 DEF Quiet, Behind, TypeOK, dataVars, syncVars, callerVars,
       historyVars, boundVars
  <2>4. Forward'
    BY <1>0, <1>7 DEF Quiet, Forward, TypeOK, Carried, Asking, dataVars, syncVars,
       callerVars, historyVars, boundVars
  <2>5. Asking'
    BY <1>0, <1>7 DEF Quiet, Asking, TypeOK, Forward, CallerSteps, dataVars, syncVars,
       callerVars, historyVars, boundVars
  <2>6. Carried'
    BY <1>0, <1>7 DEF Quiet, Carried, Waiting, Holding, TypeOK, Exclusive, Behind,
       Forward, Asking, CallerSteps, dataVars, syncVars, callerVars, historyVars,
       boundVars
  <2> QED
    BY <2>1, <2>2, <2>3, <2>4, <2>5, <2>6 DEF SaveInv
<1>8. ASSUME Pend PROVE SaveInv'
  <2>1. TypeOK'
    BY <1>0, <1>8 DEF Pend, TypeOK, Bits, WriterSteps, CallerSteps, dataVars,
       syncVars, callerVars, historyVars, boundVars
  <2>2. Exclusive'
    BY <1>0, <1>8 DEF Pend, Exclusive, Waiting, Holding, TypeOK, CallerSteps,
       dataVars, syncVars, callerVars, historyVars, boundVars
  <2>3. Behind'
    BY <1>0, <1>8 DEF Pend, Behind, TypeOK, dataVars, syncVars, callerVars,
       historyVars, boundVars
  <2>4. Forward'
    BY <1>0, <1>8 DEF Pend, Forward, TypeOK, Carried, Asking, dataVars, syncVars,
       callerVars, historyVars, boundVars
  <2>5. Asking'
    BY <1>0, <1>8 DEF Pend, Asking, TypeOK, Forward, CallerSteps, dataVars, syncVars,
       callerVars, historyVars, boundVars
  <2>6. Carried'
    BY <1>0, <1>8 DEF Pend, Carried, Waiting, Holding, TypeOK, Exclusive, Behind,
       Forward, Asking, CallerSteps, dataVars, syncVars, callerVars, historyVars,
       boundVars
  <2> QED
    BY <2>1, <2>2, <2>3, <2>4, <2>5, <2>6 DEF SaveInv
<1>9. ASSUME Snapshot PROVE SaveInv'
  <2>1. TypeOK'
    BY <1>0, <1>9 DEF Snapshot, TypeOK, Bits, WriterSteps, CallerSteps, dataVars,
       syncVars, callerVars, historyVars, boundVars
  <2>2. Exclusive'
    BY <1>0, <1>9 DEF Snapshot, Exclusive, Waiting, Holding, TypeOK, CallerSteps,
       dataVars, syncVars, callerVars, historyVars, boundVars
  <2>3. Behind'
    BY <1>0, <1>9 DEF Snapshot, Behind, TypeOK, dataVars, syncVars, callerVars,
       historyVars, boundVars
  <2>4. Forward'
    BY <1>0, <1>9 DEF Snapshot, Forward, TypeOK, Carried, Asking, dataVars, syncVars,
       callerVars, historyVars, boundVars
  <2>5. Asking'
    BY <1>0, <1>9 DEF Snapshot, Asking, TypeOK, Forward, CallerSteps, dataVars,
       syncVars, callerVars, historyVars, boundVars
  <2>6. Carried'
    BY <1>0, <1>9 DEF Snapshot, Carried, Waiting, Holding, TypeOK, Exclusive, Behind,
       Forward, Asking, CallerSteps, dataVars, syncVars, callerVars, historyVars,
       boundVars
  <2> QED
    BY <2>1, <2>2, <2>3, <2>4, <2>5, <2>6 DEF SaveInv
<1>10. ASSUME WriteFlash PROVE SaveInv'
  <2>1. TypeOK'
    <3>1. nvs' \in Nat /\ failures' \in Nat
      BY <1>0, <1>10 DEF WriteFlash, TypeOK
    <3>2. wrote' \in BOOLEAN
      BY <1>10 DEF WriteFlash
    <3>3. at' \in WriterSteps
      BY <1>10 DEF WriteFlash, AfterWrite, WriterSteps
    <3> QED
      BY <1>0, <3>1, <3>2, <3>3, <1>10 DEF WriteFlash, TypeOK, dataVars, syncVars, callerVars,
         historyVars
  <2>2. Exclusive'
    BY <1>0, <1>10 DEF WriteFlash, AfterWrite, Exclusive, Waiting, Holding, TypeOK,
       CallerSteps, syncVars, callerVars, historyVars
  <2>3. Behind'
    BY <1>0, <1>10 DEF WriteFlash, AfterWrite, Behind, TypeOK, syncVars, callerVars,
       historyVars
  <2>4. Forward'
    BY <1>0, <1>10 DEF WriteFlash, AfterWrite, Forward, TypeOK, Carried, Asking,
       syncVars, callerVars, historyVars
  <2>5. Asking'
    BY <1>0, <1>10 DEF WriteFlash, AfterWrite, Asking, TypeOK, Forward, CallerSteps,
       syncVars, callerVars, historyVars
  <2>6. Carried'
    BY <1>0, <1>10 DEF WriteFlash, AfterWrite, Carried, Waiting, Holding, TypeOK,
       Exclusive, Behind, Forward, Asking, CallerSteps, syncVars, callerVars,
       historyVars
  <2> QED
    BY <2>1, <2>2, <2>3, <2>4, <2>5, <2>6 DEF SaveInv
<1>11. ASSUME Complete PROVE SaveInv'
  <2>1. TypeOK'
    BY <1>0, <1>11 DEF Complete, SavedGeneration, TypeOK, Bits, WriterSteps,
       CallerSteps, dataVars, callerVars, historyVars, boundVars
  <2>2. Exclusive'
    BY <1>0, <1>11 DEF Complete, SavedGeneration, Exclusive, Waiting, Holding, TypeOK,
       CallerSteps, dataVars, callerVars, historyVars, boundVars
  <2>3. Behind'
    BY <1>0, <1>11 DEF Complete, SavedGeneration, Behind, TypeOK, dataVars,
       callerVars, historyVars, boundVars
  <2>4. Forward'
    BY <1>0, <1>11 DEF Complete, SavedGeneration, Forward, TypeOK, Carried, Asking,
       dataVars, callerVars, historyVars, boundVars
  <2>5. Asking'
    BY <1>0, <1>11 DEF Complete, SavedGeneration, Asking, TypeOK, Forward,
       CallerSteps, dataVars, callerVars, historyVars, boundVars
  <2>6. Carried'
    BY <1>0, <1>11 DEF Complete, SavedGeneration, Carried, Waiting, Holding, TypeOK,
       Exclusive, Behind, Forward, Asking, CallerSteps, dataVars, callerVars,
       historyVars, boundVars
  <2> QED
    BY <2>1, <2>2, <2>3, <2>4, <2>5, <2>6 DEF SaveInv
<1>12. ASSUME GiveToken PROVE SaveInv'
  <2>1. TypeOK'
    BY <1>0, <1>12 DEF GiveToken, TypeOK, Bits, WriterSteps, CallerSteps, dataVars,
       callerVars, historyVars, boundVars
  <2>2. Exclusive'
    BY <1>0, <1>12 DEF GiveToken, Exclusive, Waiting, Holding, TypeOK, CallerSteps,
       dataVars, callerVars, historyVars, boundVars
  <2>3. Behind'
    BY <1>0, <1>12 DEF GiveToken, Behind, TypeOK, dataVars, callerVars, historyVars,
       boundVars
  <2>4. Forward'
    BY <1>0, <1>12 DEF GiveToken, Forward, TypeOK, Carried, Asking, dataVars,
       callerVars, historyVars, boundVars
  <2>5. Asking'
    BY <1>0, <1>12 DEF GiveToken, Asking, TypeOK, Forward, CallerSteps, dataVars,
       callerVars, historyVars, boundVars
  <2>6. Carried'
    BY <1>0, <1>12 DEF GiveToken, Carried, Waiting, Holding, TypeOK, Exclusive,
       Behind, Forward, Asking, CallerSteps, dataVars, callerVars, historyVars,
       boundVars
  <2> QED
    BY <2>1, <2>2, <2>3, <2>4, <2>5, <2>6 DEF SaveInv
<1>13. ASSUME NEW c \in Savers, SaveSync(c) PROVE SaveInv'
  <2>1. TypeOK'
    BY <1>0, <1>13 DEF SaveSync, TypeOK, Bits, WriterSteps, CallerSteps, dataVars,
       syncVars, writerVars
  <2>2. Exclusive'
    BY <1>0, <1>13 DEF SaveSync, Exclusive, Waiting, Holding, TypeOK, CallerSteps,
       dataVars, syncVars, writerVars
  <2>3. Behind'
    BY <1>0, <1>13 DEF SaveSync, Behind, TypeOK, dataVars, syncVars, writerVars
  <2>4. Forward'
    BY <1>0, <1>13 DEF SaveSync, Forward, TypeOK, Carried, Asking, dataVars, syncVars,
       writerVars
  <2>5. Asking'
    BY <1>0, <1>13 DEF SaveSync, Asking, TypeOK, Forward, CallerSteps, dataVars,
       syncVars, writerVars
  <2>6. Carried'
    BY <1>0, <1>13 DEF SaveSync, Carried, Waiting, Holding, TypeOK, Exclusive, Behind,
       Forward, Asking, CallerSteps, dataVars, syncVars, writerVars
  <2> QED
    BY <2>1, <2>2, <2>3, <2>4, <2>5, <2>6 DEF SaveInv
<1>14. ASSUME NEW c \in Savers, LockTimeout(c) PROVE SaveInv'
  <2>1. TypeOK'
    BY <1>0, <1>14 DEF LockTimeout, TypeOK, Bits, WriterSteps, CallerSteps, dataVars,
       syncVars, writerVars, boundVars
  <2>2. Exclusive'
    BY <1>0, <1>14 DEF LockTimeout, Exclusive, Waiting, Holding, TypeOK, CallerSteps,
       dataVars, syncVars, writerVars, boundVars
  <2>3. Behind'
    BY <1>0, <1>14 DEF LockTimeout, Behind, TypeOK, dataVars, syncVars, writerVars,
       boundVars
  <2>4. Forward'
    BY <1>0, <1>14 DEF LockTimeout, Forward, TypeOK, Carried, Asking, dataVars,
       syncVars, writerVars, boundVars
  <2>5. Asking'
    BY <1>0, <1>14 DEF LockTimeout, Asking, TypeOK, Forward, CallerSteps, dataVars,
       syncVars, writerVars, boundVars
  <2>6. Carried'
    BY <1>0, <1>14 DEF LockTimeout, Carried, Waiting, Holding, TypeOK, Exclusive,
       Behind, Forward, Asking, CallerSteps, dataVars, syncVars, writerVars, boundVars
  <2> QED
    BY <2>1, <2>2, <2>3, <2>4, <2>5, <2>6 DEF SaveInv
<1>15. ASSUME NEW c \in Savers, Claim(c) PROVE SaveInv'
  <2>1. TypeOK'
    BY <1>0, <1>15 DEF Claim, TypeOK, Bits, WriterSteps, CallerSteps, dataVars,
       writerVars, historyVars, boundVars
  <2>2. Exclusive'
    BY <1>0, <1>15 DEF Claim, Exclusive, Waiting, Holding, TypeOK, CallerSteps,
       dataVars, writerVars, historyVars, boundVars
  <2>3. Behind'
    BY <1>0, <1>15 DEF Claim, Behind, TypeOK, dataVars, writerVars, historyVars,
       boundVars
  <2>4. Forward'
    BY <1>0, <1>15 DEF Claim, Forward, TypeOK, Carried, Asking, dataVars, writerVars,
       historyVars, boundVars
  <2>5. Asking'
    BY <1>0, <1>15 DEF Claim, Asking, TypeOK, Forward, CallerSteps, dataVars,
       writerVars, historyVars, boundVars
  <2>6. Carried'
    BY <1>0, <1>15 DEF Claim, Carried, Waiting, Holding, TypeOK, Exclusive, Behind,
       Forward, Asking, CallerSteps, dataVars, writerVars, historyVars, boundVars
  <2> QED
    BY <2>1, <2>2, <2>3, <2>4, <2>5, <2>6 DEF SaveInv
<1>16. ASSUME NEW c \in Savers, Notify(c) PROVE SaveInv'
  <2>1. TypeOK'
    BY <1>0, <1>16 DEF Notify, TypeOK, Bits, WriterSteps, CallerSteps, dataVars,
       syncVars, writerVars, historyVars, boundVars
  <2>2. Exclusive'
    BY <1>0, <1>16 DEF Notify, Exclusive, Waiting, Holding, TypeOK, CallerSteps,
       dataVars, syncVars, writerVars, historyVars, boundVars
  <2>3. Behind'
    BY <1>0, <1>16 DEF Notify, Behind, TypeOK, dataVars, syncVars, writerVars,
       historyVars, boundVars
  <2>4. Forward'
    BY <1>0, <1>16 DEF Notify, Forward, TypeOK, Carried, Asking, dataVars, syncVars,
       writerVars, historyVars, boundVars
  <2>5. Asking'
    BY <1>0, <1>16 DEF Notify, Asking, TypeOK, Forward, CallerSteps, dataVars,
       syncVars, writerVars, historyVars, boundVars
  <2>6. Carried'
    BY <1>0, <1>16 DEF Notify, Carried, Waiting, Holding, TypeOK, Exclusive, Behind,
       Forward, Asking, CallerSteps, dataVars, syncVars, writerVars, historyVars,
       boundVars
  <2> QED
    BY <2>1, <2>2, <2>3, <2>4, <2>5, <2>6 DEF SaveInv
<1>17. ASSUME NEW c \in Savers, Check(c) PROVE SaveInv'
  <2>1. TypeOK'
    BY <1>0, <1>17 DEF Check, Answered, TypeOK, Bits, WriterSteps, CallerSteps,
       dataVars, syncVars, writerVars, historyVars, boundVars
  <2>2. Exclusive'
    BY <1>0, <1>17 DEF Check, Answered, Exclusive, Waiting, Holding, TypeOK,
       CallerSteps, dataVars, syncVars, writerVars, historyVars, boundVars
  <2>3. Behind'
    BY <1>0, <1>17 DEF Check, Answered, Behind, TypeOK, dataVars, syncVars,
       writerVars, historyVars, boundVars
  <2>4. Forward'
    BY <1>0, <1>17 DEF Check, Answered, Forward, TypeOK, Carried, Asking, dataVars,
       syncVars, writerVars, historyVars, boundVars
  <2>5. Asking'
    BY <1>0, <1>17 DEF Check, Answered, Asking, TypeOK, Forward, CallerSteps,
       dataVars, syncVars, writerVars, historyVars, boundVars
  <2>6. Carried'
    BY <1>0, <1>17 DEF Check, Answered, Carried, Waiting, Holding, TypeOK, Exclusive,
       Behind, Forward, Asking, CallerSteps, dataVars, syncVars, writerVars,
       historyVars, boundVars
  <2> QED
    BY <2>1, <2>2, <2>3, <2>4, <2>5, <2>6 DEF SaveInv
<1>18. ASSUME NEW c \in Savers, Await(c) PROVE SaveInv'
  <2>1. TypeOK'
    BY <1>0, <1>18 DEF Await, TypeOK, Bits, WriterSteps, CallerSteps, dataVars,
       writerVars, historyVars, boundVars
  <2>2. Exclusive'
    BY <1>0, <1>18 DEF Await, Exclusive, Waiting, Holding, TypeOK, CallerSteps,
       dataVars, writerVars, historyVars, boundVars
  <2>3. Behind'
    BY <1>0, <1>18 DEF Await, Behind, TypeOK, dataVars, writerVars, historyVars,
       boundVars
  <2>4. Forward'
    BY <1>0, <1>18 DEF Await, Forward, TypeOK, Carried, Asking, dataVars, writerVars,
       historyVars, boundVars
  <2>5. Asking'
    BY <1>0, <1>18 DEF Await, Asking, TypeOK, Forward, CallerSteps, dataVars,
       writerVars, historyVars, boundVars
  <2>6. Carried'
    BY <1>0, <1>18 DEF Await, Carried, Waiting, Holding, TypeOK, Exclusive, Behind,
       Forward, Asking, CallerSteps, dataVars, writerVars, historyVars, boundVars
  <2> QED
    BY <2>1, <2>2, <2>3, <2>4, <2>5, <2>6 DEF SaveInv
<1>19. ASSUME NEW c \in Savers, AwaitTimeout(c) PROVE SaveInv'
  <2>1. TypeOK'
    BY <1>0, <1>19 DEF AwaitTimeout, TypeOK, Bits, WriterSteps, CallerSteps, dataVars,
       syncVars, writerVars, historyVars, boundVars
  <2>2. Exclusive'
    BY <1>0, <1>19 DEF AwaitTimeout, Exclusive, Waiting, Holding, TypeOK, CallerSteps,
       dataVars, syncVars, writerVars, historyVars, boundVars
  <2>3. Behind'
    BY <1>0, <1>19 DEF AwaitTimeout, Behind, TypeOK, dataVars, syncVars, writerVars,
       historyVars, boundVars
  <2>4. Forward'
    BY <1>0, <1>19 DEF AwaitTimeout, Forward, TypeOK, Carried, Asking, dataVars,
       syncVars, writerVars, historyVars, boundVars
  <2>5. Asking'
    BY <1>0, <1>19 DEF AwaitTimeout, Asking, TypeOK, Forward, CallerSteps, dataVars,
       syncVars, writerVars, historyVars, boundVars
  <2>6. Carried'
    BY <1>0, <1>19 DEF AwaitTimeout, Carried, Waiting, Holding, TypeOK, Exclusive,
       Behind, Forward, Asking, CallerSteps, dataVars, syncVars, writerVars,
       historyVars, boundVars
  <2> QED
    BY <2>1, <2>2, <2>3, <2>4, <2>5, <2>6 DEF SaveInv
<1>20. ASSUME NEW c \in Savers, Leave(c) PROVE SaveInv'
  <2>1. TypeOK'
    BY <1>0, <1>20 DEF Leave, Freed, TypeOK, Bits, WriterSteps, CallerSteps, dataVars,
       syncVars, writerVars, boundVars
  <2>2. Exclusive'
    BY <1>0, <1>20 DEF Leave, Freed, Exclusive, Waiting, Holding, TypeOK, CallerSteps,
       dataVars, syncVars, writerVars, boundVars
  <2>3. Behind'
    BY <1>0, <1>20 DEF Leave, Freed, Behind, TypeOK, dataVars, syncVars, writerVars,
       boundVars
  <2>4. Forward'
    BY <1>0, <1>20 DEF Leave, Freed, Forward, TypeOK, Carried, Asking, dataVars,
       syncVars, writerVars, boundVars
  <2>5. Asking'
    BY <1>0, <1>20 DEF Leave, Freed, Asking, TypeOK, Forward, CallerSteps, dataVars,
       syncVars, writerVars, boundVars
  <2>6. Carried'
    BY <1>0, <1>20 DEF Leave, Freed, Carried, Waiting, Holding, TypeOK, Exclusive,
       Behind, Forward, Asking, CallerSteps, dataVars, syncVars, writerVars, boundVars
  <2> QED
    BY <2>1, <2>2, <2>3, <2>4, <2>5, <2>6 DEF SaveInv
<1>21. CASE UNCHANGED vars
  <2>1. TypeOK'
    BY <1>0, <1>21 DEF TypeOK, Bits, WriterSteps, CallerSteps, vars, dataVars,
       syncVars, writerVars, callerVars, historyVars, boundVars
  <2>2. Exclusive'
    BY <1>0, <1>21 DEF Exclusive, Waiting, Holding, TypeOK, CallerSteps, vars,
       dataVars, syncVars, writerVars, callerVars, historyVars, boundVars
  <2>3. Behind'
    BY <1>0, <1>21 DEF Behind, TypeOK, vars, dataVars, syncVars, writerVars,
       callerVars, historyVars, boundVars
  <2>4. Forward'
    BY <1>0, <1>21 DEF Forward, TypeOK, Carried, Asking, vars, dataVars, syncVars,
       writerVars, callerVars, historyVars, boundVars
  <2>5. Asking'
    BY <1>0, <1>21 DEF Asking, TypeOK, Forward, CallerSteps, vars, dataVars, syncVars,
       writerVars, callerVars, historyVars, boundVars
  <2>6. Carried'
    BY <1>0, <1>21 DEF Carried, Waiting, Holding, TypeOK, Exclusive, Behind, Forward,
       Asking, CallerSteps, vars, dataVars, syncVars, writerVars, callerVars,
       historyVars, boundVars
  <2> QED
    BY <2>1, <2>2, <2>3, <2>4, <2>5, <2>6 DEF SaveInv
<1> QED
  BY <1>1, <1>2, <1>3, <1>4, <1>5, <1>6, <1>7, <1>8, <1>9, <1>10, <1>11, <1>12, <1>13,
     <1>14, <1>15, <1>16, <1>17, <1>18, <1>19, <1>20, <1>21 DEF Next, Writer, Caller

\* The protocol keeps its invariant, for every set of callers.
THEOREM SaveInvariant == Spec => []SaveInv
<1>1. Init => SaveInv
  BY SaveInvInit
<1>2. SaveInv /\ [Next]_vars => SaveInv'
  BY SaveInvStep
<1> QED
  BY <1>1, <1>2, PTL DEF Spec

\* TypeOK holds for every set of callers, any number of resets and calls.
THEOREM TypeCorrectness == Spec => []TypeOK
<1>1. SaveInv => TypeOK
  BY DEF SaveInv
<1> QED
  BY <1>1, SaveInvariant, PTL

\* What save_sync acknowledged is in flash: the version the caller asked for
\* is carried by the save that completes its generation.
THEOREM Durability == Spec => []AcknowledgedIsDurable
<1>1. SaveInv => AcknowledgedIsDurable
  BY DEF SaveInv, Forward, AcknowledgedIsDurable
<1> QED
  BY <1>1, SaveInvariant, PTL

-----------------------------------------------------------------------------
\* A step that moves neither a caller nor the counters, nor takes the task away.
LEMMA WakingKept ==
  ASSUME Waking, UNCHANGED <<pc, requested, completed, token>>,
         Saving => Saving', at = "give" => at' = "give"
  PROVE  Waking'
BY DEF Waking

LEMMA WriterWaking ==
  ASSUME SaveInv, Waking, Writer
  PROVE  Waking'
<1> USE DEF SaveInv
<1>1. CASE Wait \/ Debounce
  <2>1. Saving => Saving'
    BY <1>1 DEF Wait, Debounce, Saving
  <2> QED
    BY <1>1, <2>1, WakingKept DEF Wait, Debounce, syncVars, callerVars
<1>2. CASE Quiet
  <2>1. ~Saving /\ at # "give" /\ UNCHANGED <<pc, requested, completed, token>>
    BY <1>2 DEF Quiet, Saving, syncVars, callerVars
  <2> QED
    BY <2>1 DEF Waking
<1>3. CASE Pend
  <2>1. UNCHANGED <<pc, requested, completed, token>> /\ at # "give"
    BY <1>3 DEF Pend, syncVars, callerVars
  <2>2. requested # completed => Saving'
    BY <1>3, SaveAssumption DEF Pend, Saving, TypeOK, Behind
  <2> QED
    BY <2>1, <2>2 DEF Waking
<1>4. CASE Snapshot \/ WriteFlash
  <2>1. Saving => Saving'
    BY <1>4 DEF Snapshot, WriteFlash, AfterWrite, Saving
  <2> QED
    BY <1>4, <2>1, WakingKept DEF Snapshot, WriteFlash, syncVars, callerVars
<1>5. CASE Complete
  BY <1>5 DEF Complete, Waking, Saving, callerVars
<1>6. CASE GiveToken
  BY <1>6 DEF GiveToken, Waking, Saving, callerVars
<1> QED
  BY <1>1, <1>2, <1>3, <1>4, <1>5, <1>6 DEF Writer

\* The caller that holds s_sync_mutex is the only one that is between its request
\* and its return.
LEMMA CallerWaking ==
  ASSUME SaveInv, Waking, NEW c \in Savers,
         SaveSync(c) \/ LockTimeout(c) \/ AwaitTimeout(c) \/ Caller(c)
  PROVE  Waking'
<1> USE DEF SaveInv
<1>1. pc \in [Savers -> CallerSteps] /\ UNCHANGED <<completed, at, serving>>
  BY DEF TypeOK, SaveSync, LockTimeout, AwaitTimeout, Caller, Claim, Notify, Check, Await, Leave,
         syncVars, writerVars
<1>2. \A d \in Savers \ {c} : pc'[d] = pc[d]
  BY <1>1 DEF SaveSync, LockTimeout, AwaitTimeout, Caller, Claim, Notify, Check, Await, Leave
<1>3. ASSUME pc[c] \in {"notify", "check", "await", "leave"}, NEW d \in Savers \ {c}
      PROVE  pc[d] \notin {"check", "await"}
  BY <1>3, SaveAssumption DEF Exclusive, Holding, Waiting
<1>4. CASE SaveSync(c) \/ LockTimeout(c)
  <2>1. pc'[c] \in {"idle", "lock"} /\ UNCHANGED <<requested, token, notified>>
    BY <1>1, <1>4 DEF SaveSync, LockTimeout, syncVars
  <2> QED
    BY <1>1, <1>2, <2>1 DEF Waking, Saving
<1>5. CASE AwaitTimeout(c) \/ Leave(c)
  <2>1. /\ pc[c] \in {"await", "leave"} /\ pc'[c] \in {"idle", "leave"}
        /\ UNCHANGED <<requested, token, notified>>
    BY <1>1, <1>5 DEF AwaitTimeout, Leave, syncVars
  <2> QED
    BY <1>1, <1>2, <2>1 DEF Waking, Saving
<1>6. CASE Claim(c)
  <2>1. \A d \in Savers : pc[d] \notin {"check", "await"}
    BY <1>6, SaveAssumption DEF Claim, Exclusive, Holding, Waiting
  <2>2. pc'[c] \in {"notify", "leave"}
    BY <1>1, <1>6 DEF Claim
  <2> QED
    BY <1>2, <2>1, <2>2 DEF Waking
<1>7. CASE Notify(c)
  <2>1. Saving' /\ pc'[c] = "check"
    BY <1>1, <1>7 DEF Notify, Saving
  <2> QED
    BY <1>2, <1>3, <1>7, <2>1 DEF Notify, Waking
<1>8. CASE Check(c)
  <2>1. /\ pc[c] = "check" /\ UNCHANGED <<requested, token, notified>>
        /\ pc'[c] = "leave" \/ (pc'[c] = "await" /\ completed # gen[c])
    BY <1>1, <1>8 DEF Check, Answered, syncVars
  <2>2. gen[c] = requested
    BY <2>1 DEF Exclusive, Waiting
  <2> QED
    BY <1>1, <1>2, <2>1, <2>2 DEF Waking, Saving
<1>9. CASE Await(c)
  <2>1. pc[c] = "await" /\ pc'[c] = "check" /\ UNCHANGED <<requested, notified>>
    BY <1>1, <1>9 DEF Await
  <2> QED
    BY <1>1, <1>2, <1>3, <2>1 DEF Waking, Saving
<1> QED
  BY <1>4, <1>5, <1>6, <1>7, <1>8, <1>9 DEF Caller

LEMMA WakingStep == SaveInv /\ Waking /\ [Next]_vars => Waking'
<1> SUFFICES ASSUME SaveInv, Waking, [Next]_vars PROVE Waking'
  OBVIOUS
<1>1. CASE Edit \/ RequestSave \/ Start
  <2>1. Saving => Saving'
    BY <1>1 DEF Edit, RequestSave, Start, Saving, writerVars
  <2> QED
    BY <1>1, <2>1, WakingKept DEF Edit, RequestSave, Start, syncVars, writerVars, callerVars
<1>2. CASE Reset
  BY <1>2 DEF Reset, Waking
<1>3. CASE UNCHANGED vars
  BY <1>3, WakingKept DEF vars, Saving, syncVars, writerVars, callerVars
<1> QED
  BY <1>1, <1>2, <1>3, WriterWaking, CallerWaking DEF Next

\* save_sync loses no wake-up, for every set of callers, any number of failed writes
\* and resets, and callers that give up at any time.
THEOREM WakeUpSafety == Spec => []WakeUpIsDue
<1>1. Init => Waking
  BY DEF Init, Waking
<1>2. SaveInv /\ Waking /\ [Next]_vars => Waking'
  BY WakingStep
<1>3. SaveInv /\ Waking => WakeUpIsDue
  BY DEF Waking, Saving, WakeUpIsDue
<1> QED
  BY <1>1, <1>2, <1>3, SaveInvariant, PTL DEF Spec

-----------------------------------------------------------------------------
\* Every step of the protocol is one of DurableSave, or leaves its variables.
LEMMA DurableStep ==
  SaveInv /\ SaveInv' /\ [Next]_vars =>
    [Durable!DurableNext]_<<value, nvs, asked, promised>>
<1> SUFFICES ASSUME SaveInv, [Next]_vars
             PROVE Durable!DurableNext \/ UNCHANGED <<value, nvs, asked, promised>>
  BY DEF Durable!durableVars
<1> USE SaveAssumption
<1>0. TypeOK /\ Forward /\ Asking /\ Carried
  BY DEF SaveInv
<1>1. CASE Edit
  BY <1>1 DEF Edit, Durable!DurableNext, Durable!Edit, historyVars
<1>2. CASE Reset
  BY <1>2 DEF Reset, Durable!DurableNext, Durable!Reset
<1>3. CASE WriteFlash
  <2>1. at = "commit" /\ UNCHANGED <<value, asked, promised>> /\ nvs' \in {nvs, snap}
    BY <1>3 DEF WriteFlash, historyVars
  <2>2. nvs \in Nat /\ snap \in Nat /\ value \in Nat /\ nvs <= snap /\ snap <= value
    BY <1>0, <2>1 DEF TypeOK, Forward
  <2>3. CASE nvs' = nvs
    BY <2>1, <2>3
  <2>4. CASE nvs' = snap /\ snap # nvs
    BY <2>1, <2>2, <2>4 DEF Durable!DurableNext, Durable!Commit
  <2> QED
    BY <2>1, <2>3, <2>4
<1>4. ASSUME NEW c \in Savers, SaveSync(c)
      PROVE Durable!DurableNext
  BY <1>0, <1>4 DEF SaveSync, Asking, Durable!DurableNext, Durable!Ask, dataVars
<1>5. ASSUME NEW c \in Savers, LockTimeout(c)
      PROVE Durable!DurableNext
  BY <1>0, <1>5 DEF LockTimeout, Asking, Durable!DurableNext, Durable!Refuse, dataVars
<1>6. ASSUME NEW c \in Savers, Leave(c)
      PROVE Durable!DurableNext
  <2>1. asked[c] \in Nat /\ asked[c] # NoValue
    BY <1>0, <1>6 DEF Leave, Asking
  <2>2. CASE ok[c]
    <3>1. asked[c] <= nvs
      BY <1>0, <1>6, <2>2 DEF Leave, Carried
    <3> QED
      BY <2>1, <2>2, <3>1, <1>6 DEF Leave, Durable!DurableNext, Durable!Acknowledge, dataVars
  <2>3. CASE ~ok[c]
    BY <2>1, <2>3, <1>6 DEF Leave, Durable!DurableNext, Durable!Refuse, dataVars
  <2> QED
    BY <2>2, <2>3
<1>7. CASE RequestSave \/ Start
  BY <1>7 DEF RequestSave, Start, historyVars
<1>8. CASE Wait \/ Debounce \/ Quiet \/ Pend
  BY <1>8 DEF Wait, Debounce, Quiet, Pend, dataVars, historyVars
<1>9. CASE Snapshot \/ Complete \/ GiveToken
  BY <1>9 DEF Snapshot, Complete, GiveToken, dataVars, historyVars
<1>10. ASSUME NEW c \in Savers, Claim(c) \/ Notify(c) \/ Check(c) \/ Await(c) \/ AwaitTimeout(c)
       PROVE UNCHANGED <<value, nvs, asked, promised>>
  BY <1>10 DEF Claim, Notify, Check, Await, AwaitTimeout, dataVars, historyVars
<1>11. CASE UNCHANGED vars
  BY <1>11 DEF vars, dataVars, historyVars
<1> QED
  BY <1>1, <1>2, <1>3, <1>4, <1>5, <1>6, <1>7, <1>8, <1>9, <1>10, <1>11
     DEF Next, Writer, Caller

\* save_sync implements the abstract promise: the versions, the calls and what
\* was acknowledged evolve as in DurableSave.
THEOREM Refinement == Spec => ImplementsDurableSave
<1>1. Init => Durable!DurableInit
  BY DEF Init, Durable!DurableInit
<1>2. SaveInv /\ SaveInv' /\ [Next]_vars =>
        [Durable!DurableNext]_<<value, nvs, asked, promised>>
  BY DurableStep
<1>3. <<value, nvs, asked, promised>> = Durable!durableVars
  BY DEF Durable!durableVars
<1> QED
  BY <1>1, <1>2, <1>3, SaveInvariant, PTL
     DEF Spec, ImplementsDurableSave, Durable!DurableSpec, Durable!durableVars

=============================================================================
