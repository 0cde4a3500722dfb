----------------------------- MODULE DurableSave -----------------------------
(***************************************************************************)
(* What fan_state_store_save_sync and scheduler_save_sync promise: a save  *)
(* that is acknowledged has made durable the value its caller saw, or a    *)
(* later one, and no later save or reset takes it back.  The value is a    *)
(* version number that grows with every edit.                              *)
(***************************************************************************)
EXTENDS Naturals

CONSTANTS
  Savers,   \* tasks that call save_sync
  NoValue   \* asked by a saver that has no call under way; not a version

VARIABLES
  value,      \* the version held in memory
  nvs,        \* the version that a reset restores
  asked,      \* the version each caller wants durable
  promised    \* the newest version that was acknowledged

durableVars == <<value, nvs, asked, promised>>

DurableInit ==
  /\ value = 0
  /\ nvs = 0
  /\ asked = [c \in Savers |-> NoValue]
  /\ promised = 0

Edit ==
  /\ value' = value + 1
  /\ UNCHANGED <<nvs, asked, promised>>

Ask(c) ==
  /\ asked[c] = NoValue
  /\ asked' = [asked EXCEPT ![c] = value]
  /\ UNCHANGED <<value, nvs, promised>>

Commit ==
  /\ nvs' \in (nvs + 1)..value
  /\ UNCHANGED <<value, asked, promised>>

Acknowledge(c) ==
  /\ asked[c] # NoValue
  /\ asked[c] <= nvs
  /\ promised' = IF asked[c] > promised THEN asked[c] ELSE promised
  /\ asked' = [asked EXCEPT ![c] = NoValue]
  /\ UNCHANGED <<value, nvs>>

Refuse(c) ==
  /\ asked[c] # NoValue
  /\ asked' = [asked EXCEPT ![c] = NoValue]
  /\ UNCHANGED <<value, nvs, promised>>

\* A reset loses the calls and every version that was not committed.
Reset ==
  /\ value' = nvs
  /\ asked' = [c \in Savers |-> NoValue]
  /\ UNCHANGED <<nvs, promised>>

DurableNext ==
  \/ Edit \/ Commit \/ Reset
  \/ \E c \in Savers : Ask(c) \/ Acknowledge(c) \/ Refuse(c)

DurableSpec == DurableInit /\ [][DurableNext]_durableVars

\* What was acknowledged is durable, now and after any reset.
AcknowledgedIsDurable == promised <= nvs /\ nvs <= value

=============================================================================
