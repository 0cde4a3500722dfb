------------------------------ MODULE SyncSave ------------------------------
(***************************************************************************)
(* The save task of fan_state_store.c and the callers of save_sync, which  *)
(* scheduler.c repeats with one difference (SaveAfterDebounce).  A caller  *)
(* publishes a request generation under s_lock, notifies the task and      *)
(* waits for the completed generation; the task debounces asynchronous     *)
(* requests, snapshots the state and writes flash.  The wait of a caller   *)
(* may expire at any moment, the flash write may fail, and a reset may     *)
(* come between any two steps.                                             *)
(*                                                                         *)
(* The blob is the version number of DurableSave: a snapshot holds every   *)
(* edit that preceded it.  Its layout, checksum and migration are left     *)
(* out, and the 32-bit generations are numbers.                            *)
(***************************************************************************)
EXTENDS Naturals

CONSTANTS
  Savers,             \* tasks that call save_sync
  NoSaver,            \* owner of a free s_sync_mutex
  NoValue,            \* asked by a saver that has no call under way
  SaveAfterDebounce,  \* TRUE: scheduler.c; FALSE: fan_state_store.c
  Impatient,          \* the callers that pass a timeout, not portMAX_DELAY
  MaxValue,           \* bound on edits
  MaxCalls,           \* bound on calls of save_sync
  MaxFailures,        \* bound on failing flash writes
  MaxResets           \* bound on resets

ASSUME SaveAssumption ==
  /\ NoSaver \notin Savers
  /\ NoValue \notin Nat
  /\ SaveAfterDebounce \in BOOLEAN /\ Impatient \subseteq Savers
  /\ MaxValue \in Nat /\ MaxCalls \in Nat /\ MaxFailures \in Nat /\ MaxResets \in Nat

VARIABLES
  value,        \* version of the targets, or schedules, in memory
  nvs,          \* version in flash
  unsaved,      \* an edit whose request_save has not been made yet
  started,      \* s_save_task exists
  requested,    \* s_sync_requested_generation
  completed,    \* s_sync_completed_generation
  result,       \* s_sync_result is ESP_OK
  token,        \* s_sync_complete, a binary semaphore
  notified,     \* notification bits of the save task
  at,           \* where the save task is
  then,         \* where it goes when no synchronous request is left
  serving,      \* the generation it saves for; 0: an asynchronous save
  snap,         \* the version it writes
  wrote,        \* the write succeeded
  owner,        \* s_sync_mutex
  pc, gen, ok,  \* each caller: position, generation, result is ESP_OK
  asked,        \* history: the version in memory when the caller called
  promised,     \* history: the newest version acknowledged
  calls, failures, resets  \* bounds

dataVars == <<value, nvs, unsaved, started>>
syncVars == <<requested, completed, result, token>>
writerVars == <<at, then, serving, snap, wrote>>
callerVars == <<owner, pc, gen, ok>>
historyVars == <<asked, promised>>
boundVars == <<calls, failures, resets>>
vars == <<dataVars, syncVars, notified, writerVars, callerVars, historyVars, boundVars>>

Bits == {"SYNC", "ASYNC"}
WriterSteps == {"wait", "debounce", "pend", "snap", "commit", "done", "give"}
CallerSteps == {"idle", "lock", "notify", "check", "await", "leave"}

Init ==
  /\ value = 0 /\ nvs = 0 /\ unsaved = FALSE /\ started = FALSE
  /\ requested = 0 /\ completed = 0 /\ result = FALSE /\ token = FALSE
  /\ notified = {}
  /\ at = "wait" /\ then = "wait" /\ serving = 0 /\ snap = 0 /\ wrote = FALSE
  /\ owner = NoSaver
  /\ pc = [c \in Savers |-> "idle"]
  /\ gen = [c \in Savers |-> 0]
  /\ ok = [c \in Savers |-> FALSE]
  /\ asked = [c \in Savers |-> NoValue]
  /\ promised = 0
  /\ calls = 0 /\ failures = 0 /\ resets = 0

-----------------------------------------------------------------------------
\* The owner of the data edits it, then calls request_save.
Edit ==
  /\ value < MaxValue
  /\ value' = value + 1
  /\ unsaved' = TRUE
  /\ UNCHANGED <<nvs, started, syncVars, notified, writerVars, callerVars, historyVars,
                 boundVars>>

RequestSave ==
  /\ unsaved
  /\ unsaved' = FALSE
  /\ notified' = IF started THEN notified \cup {"ASYNC"} ELSE notified
  /\ UNCHANGED <<value, nvs, started, syncVars, writerVars, callerVars, historyVars,
                 boundVars>>

Start ==
  /\ ~started
  /\ started' = TRUE
  /\ UNCHANGED <<value, nvs, unsaved, syncVars, notified, writerVars, callerVars,
                 historyVars, boundVars>>

-----------------------------------------------------------------------------
\* save_sync: the call, and the wait for s_sync_mutex.
SaveSync(c) ==
  /\ pc[c] = "idle"
  /\ calls < MaxCalls
  /\ calls' = calls + 1
  /\ asked' = [asked EXCEPT ![c] = value]
  /\ pc' = [pc EXCEPT ![c] = "lock"]
  /\ UNCHANGED <<dataVars, syncVars, notified, writerVars, owner, gen, ok, promised,
                 failures, resets>>

LockTimeout(c) ==
  /\ pc[c] = "lock"
  /\ c \in Impatient
  /\ owner # NoSaver
  /\ pc' = [pc EXCEPT ![c] = "idle"]
  /\ asked' = [asked EXCEPT ![c] = NoValue]
  /\ UNCHANGED <<dataVars, syncVars, notified, writerVars, owner, gen, ok, promised,
                 boundVars>>

\* The mutex and then the generation, in s_lock; without a save task no
\* generation is claimed and the call fails.
Claim(c) ==
  /\ pc[c] = "lock"
  /\ owner = NoSaver
  /\ owner' = c
  /\ ok' = [ok EXCEPT ![c] = FALSE]
  /\ \/ /\ started
        /\ requested' = requested + 1
        /\ gen' = [gen EXCEPT ![c] = requested + 1]
        /\ pc' = [pc EXCEPT ![c] = "notify"]
     \/ /\ ~started
        /\ pc' = [pc EXCEPT ![c] = "leave"]
        /\ UNCHANGED <<requested, gen>>
  /\ UNCHANGED <<dataVars, completed, result, token, notified, writerVars, historyVars,
                 boundVars>>

Notify(c) ==
  /\ pc[c] = "notify"
  /\ notified' = notified \cup {"SYNC"}
  /\ pc' = [pc EXCEPT ![c] = "check"]
  /\ UNCHANGED <<dataVars, syncVars, writerVars, owner, gen, ok, historyVars, boundVars>>

\* The completed generation is the caller's own.
Answered(c) == completed = gen[c]

Check(c) ==
  /\ pc[c] = "check"
  /\ \/ /\ Answered(c)
        /\ ok' = [ok EXCEPT ![c] = result]
        /\ pc' = [pc EXCEPT ![c] = "leave"]
     \/ /\ ~Answered(c)
        /\ pc' = [pc EXCEPT ![c] = "await"]
        /\ UNCHANGED ok
  /\ UNCHANGED <<dataVars, syncVars, notified, writerVars, owner, gen, historyVars,
                 boundVars>>

\* The semaphore wakes the caller up, whichever save gave it.
Await(c) ==
  /\ pc[c] = "await"
  /\ token
  /\ token' = FALSE
  /\ pc' = [pc EXCEPT ![c] = "check"]
  /\ UNCHANGED <<dataVars, requested, completed, result, notified, writerVars, owner, gen,
                 ok, historyVars, boundVars>>

AwaitTimeout(c) ==
  /\ pc[c] = "await"
  /\ c \in Impatient
  /\ pc' = [pc EXCEPT ![c] = "leave"]
  /\ UNCHANGED <<dataVars, syncVars, notified, writerVars, owner, gen, ok, historyVars,
                 boundVars>>

\* Faulty variant: a caller whose save failed keeps the mutex.
KeptOnError(c) == IF ok[c] THEN NoSaver ELSE owner

\* The owner of the mutex once c has returned.
Freed(c) == NoSaver

Leave(c) ==
  /\ pc[c] = "leave"
  /\ owner' = Freed(c)
  /\ pc' = [pc EXCEPT ![c] = "idle"]
  /\ promised' = IF ok[c] /\ asked[c] > promised THEN asked[c] ELSE promised
  /\ asked' = [asked EXCEPT ![c] = NoValue]
  /\ gen' = [gen EXCEPT ![c] = 0]
  /\ ok' = [ok EXCEPT ![c] = FALSE]
  /\ UNCHANGED <<dataVars, syncVars, notified, writerVars, boundVars>>

-----------------------------------------------------------------------------
\* The save task: xTaskNotifyWait returns every bit and clears them.
Wait ==
  /\ started
  /\ at = "wait"
  /\ notified # {}
  /\ notified' = {}
  /\ at' = IF "SYNC" \in notified THEN "pend" ELSE "debounce"
  /\ then' = IF "ASYNC" \in notified THEN "debounce" ELSE "wait"
  /\ UNCHANGED <<dataVars, syncVars, serving, snap, wrote, callerVars, historyVars,
                 boundVars>>

\* Faulty variant: a synchronous request met in the debounce is taken to have
\* saved the edits that are being debounced.
SyncEndsDebounce == "wait"

\* Where the debounce goes on after the synchronous requests it met.
AfterSync == "debounce"

\* Every notification restarts the quiet period.
Debounce ==
  /\ started
  /\ at = "debounce"
  /\ notified # {}
  /\ notified' = {}
  /\ at' = IF "SYNC" \in notified THEN "pend" ELSE "debounce"
  /\ then' = AfterSync
  /\ UNCHANGED <<dataVars, syncVars, serving, snap, wrote, callerVars, historyVars,
                 boundVars>>

\* The quiet period ends: fan_state_store.c serves a synchronous request that
\* arrived at the boundary instead of saving once more.
Quiet ==
  /\ started
  /\ at = "debounce"
  /\ notified = {}
  /\ at' = IF ~SaveAfterDebounce /\ requested # completed THEN "pend" ELSE "snap"
  /\ then' = "wait"
  /\ serving' = 0
  /\ UNCHANGED <<dataVars, syncVars, notified, snap, wrote, callerVars, historyVars,
                 boundVars>>

\* sync_save_pending
Pend ==
  /\ started
  /\ at = "pend"
  /\ \/ /\ requested # completed
        /\ serving' = requested
        /\ at' = "snap"
     \/ /\ requested = completed
        /\ at' = then
        /\ UNCHANGED serving
  /\ UNCHANGED <<dataVars, syncVars, notified, then, snap, wrote, callerVars, historyVars,
                 boundVars>>

\* save_now, save_to_nvs: the snapshot, then the flash write.  A failed write
\* may have reached flash or not.
Snapshot ==
  /\ started
  /\ at = "snap"
  /\ snap' = value
  /\ at' = "commit"
  /\ UNCHANGED <<dataVars, syncVars, notified, then, serving, wrote, callerVars,
                 historyVars, boundVars>>

AfterWrite == IF serving = 0 THEN "wait" ELSE "done"

WriteFlash ==
  /\ started
  /\ at = "commit"
  /\ \/ /\ nvs' = snap
        /\ wrote' = TRUE
        /\ UNCHANGED failures
     \/ /\ failures < MaxFailures
        /\ failures' = failures + 1
        /\ nvs' \in {nvs, snap}
        /\ wrote' = FALSE
  /\ at' = AfterWrite
  /\ UNCHANGED <<value, unsaved, started, syncVars, notified, then, serving, snap,
                 callerVars, historyVars, calls, resets>>

\* Faulty variant: the generation is read again once the save is over.
LatestGeneration == requested

\* The generation that the save is reported for.
SavedGeneration == serving

\* complete_sync_save
Complete ==
  /\ started
  /\ at = "done"
  /\ completed' = SavedGeneration
  /\ result' = wrote
  /\ at' = "give"
  /\ UNCHANGED <<dataVars, requested, token, notified, then, serving, snap, wrote,
                 callerVars, historyVars, boundVars>>

GiveToken ==
  /\ started
  /\ at = "give"
  /\ token' = TRUE
  /\ at' = "pend"
  /\ UNCHANGED <<dataVars, requested, completed, result, notified, then, serving, snap,
                 wrote, callerVars, historyVars, boundVars>>

-----------------------------------------------------------------------------
\* A reset at any point: the next boot starts from the version in flash.  (A
\* restore that a safety latch refuses is a further edit, to zero.)
Reset ==
  /\ resets < MaxResets
  /\ resets' = resets + 1
  /\ value' = nvs /\ unsaved' = FALSE /\ started' = FALSE
  /\ requested' = 0 /\ completed' = 0 /\ result' = FALSE /\ token' = FALSE
  /\ notified' = {}
  /\ at' = "wait" /\ then' = "wait" /\ serving' = 0 /\ snap' = 0 /\ wrote' = FALSE
  /\ owner' = NoSaver
  /\ pc' = [c \in Savers |-> "idle"]
  /\ gen' = [c \in Savers |-> 0]
  /\ ok' = [c \in Savers |-> FALSE]
  /\ asked' = [c \in Savers |-> NoValue]
  /\ UNCHANGED <<nvs, promised, calls, failures>>

Caller(c) ==
  \/ Claim(c) \/ Notify(c) \/ Check(c) \/ Await(c) \/ Leave(c)

Writer ==
  \/ Wait \/ Debounce \/ Quiet \/ Pend \/ Snapshot \/ WriteFlash \/ Complete
  \/ GiveToken

Next ==
  \/ Edit \/ RequestSave \/ Start \/ Reset \/ Writer
  \/ \E c \in Savers : SaveSync(c) \/ LockTimeout(c) \/ AwaitTimeout(c) \/ Caller(c)

Spec == Init /\ [][Next]_vars

\* FreeRTOS schedules a task that can run, and hands a given mutex to a
\* waiter: callers compete for s_sync_mutex, hence the strong fairness.
Fairness ==
  /\ WF_vars(Writer)
  /\ WF_vars(Start)
  /\ \A c \in Savers : SF_vars(Claim(c)) /\ WF_vars(Caller(c))

FairSpec == Spec /\ Fairness

-----------------------------------------------------------------------------
TypeOK ==
  /\ value \in Nat /\ nvs \in Nat /\ unsaved \in BOOLEAN /\ started \in BOOLEAN
  /\ requested \in Nat /\ completed \in Nat /\ result \in BOOLEAN /\ token \in BOOLEAN
  /\ notified \in SUBSET Bits
  /\ at \in WriterSteps /\ then \in {"wait", "debounce"}
  /\ serving \in Nat /\ snap \in Nat /\ wrote \in BOOLEAN
  /\ owner \in Savers \cup {NoSaver}
  /\ pc \in [Savers -> CallerSteps]
  /\ gen \in [Savers -> Nat]
  /\ ok \in [Savers -> BOOLEAN]
  /\ asked \in [Savers -> Nat \cup {NoValue}]
  /\ promised \in Nat
  /\ calls \in Nat /\ failures \in Nat /\ resets \in Nat

\* A save that save_sync reported as done is in flash, now and after every
\* reset, although callers give up, leave tokens and generations behind, and
\* the task saves for several of them at once.
AcknowledgedIsDurable == promised <= nvs /\ nvs <= value

Durable == INSTANCE DurableSave

\* No wake-up is lost: for a caller that waits for s_sync_complete the semaphore is
\* given, or the save task has still to see the request, to save for it or to give
\* the semaphore, although a give may find it given and a take may find an answer
\* that is another's.
WakeUpIsDue ==
  \A c \in Savers :
    pc[c] = "await" =>
      \/ token \/ "SYNC" \in notified \/ at \in {"pend", "give"}
      \/ at \in {"snap", "commit", "done"} /\ serving # 0

\* The protocol refines the promise of DurableSave.
ImplementsDurableSave == Durable!DurableSpec

\* A call of save_sync without a timeout (scheduler_inhibit_all) returns once
\* the save task runs: no wake-up is lost between the request, the
\* notification and the semaphore.
SaveReturns == \A c \in Savers : pc[c] # "idle" ~> pc[c] = "idle"

\* An edit whose request_save reached the task gets to flash, whatever
\* synchronous saves its debounce meets, as long as no write has failed (an
\* asynchronous save is not tried again) and the node has not been reset.
AsyncReachesFlash ==
  \A v \in 1..MaxValue :
    ("ASYNC" \in notified /\ value >= v) ~> (nvs >= v \/ failures > 0 \/ resets > 0)

=============================================================================
