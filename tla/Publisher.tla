------------------------------ MODULE Publisher -------------------------------
(***************************************************************************)
(* state_publisher.c: requests are bits of a task notification; one task   *)
(* takes them all, reads a snapshot of each fan and publishes it, retained *)
(* only when asked for in full.  The states of a fan are two values; the   *)
(* bits of metadata, metrics and health, which are no states, are left out.*)
(***************************************************************************)
EXTENDS Integers

CONSTANTS
  FanCount,     \* fan_count
  MaxChanges    \* bound on changes of an applied percentage

Fans == 0..(FanCount - 1)

ASSUME PublisherAssumption ==
  FanCount \in 1..29 /\ MaxChanges \in Nat

VARIABLES
  applied,     \* applied_pct of each fan
  unreported,  \* fans the ramp task has changed and not reported
  started,     \* s_task is known
  early,       \* s_pending_before_start
  bits,        \* value of the notification
  taken,       \* bits the task is working on
  fan, snap,   \* the fan that is published, -1 for none, and its snapshot
  told,        \* what subscribers were told of each fan, -1 when that was skipped or lost
  retained,    \* what the broker retains of each fan
  changes

publisherVars == <<applied, unreported, started, early, bits, taken, fan, snap, told,
                   retained, changes>>

PublisherInit ==
  /\ applied = [f \in Fans |-> 0] /\ unreported = {}
  /\ started = FALSE /\ early = {} /\ bits = {}
  /\ taken = {} /\ fan = -1 /\ snap = 0
  /\ told = [f \in Fans |-> -1] /\ retained = [f \in Fans |-> 1]
  /\ changes = 0

-----------------------------------------------------------------------------
(* Requests                                                                *)
\* Faulty variant: a notification overwrites the one before it.
Overwrite(asked) ==
  IF started THEN bits' = asked /\ UNCHANGED early
  ELSE early' = asked /\ UNCHANGED bits

\* Requests before the task is known are kept for it.
Request(asked) ==
  IF started THEN bits' = bits \cup asked /\ UNCHANGED early
  ELSE early' = early \cup asked /\ UNCHANGED bits

\* The bit that asks for retained messages.
Full == 31

\* state_publisher_request_all.
Everything == Fans \cup {Full}

StartPublisher ==
  /\ ~started /\ started' = TRUE
  /\ bits' = bits \cup early /\ early' = {}
  /\ UNCHANGED <<applied, unreported, taken, fan, snap, told, retained, changes>>

\* A stop asks for every state in full, a command or a CLEAR for one, at any time.
Notify ==
  /\ \E asked \in {Everything} \cup {{f, Full} : f \in Fans} : Request(asked)
  /\ UNCHANGED <<applied, unreported, started, taken, fan, snap, told, retained, changes>>

\* The ramp task, created after the publisher, or a stop changes a fan and then
\* reports it.  Small steps on the way to a target, which it does not, are left out.
Ramp(f) ==
  /\ started /\ changes < MaxChanges
  /\ changes' = changes + 1
  /\ applied' = [applied EXCEPT ![f] = 1 - @]
  /\ unreported' = unreported \cup {f}
  /\ UNCHANGED <<started, early, bits, taken, fan, snap, told, retained>>

Report(f) ==
  /\ f \in unreported
  /\ unreported' = unreported \ {f}
  /\ Request({f})
  /\ UNCHANGED <<applied, started, taken, fan, snap, told, retained, changes>>

-----------------------------------------------------------------------------
(* The task, over a session that is "off", "connected" or "ready"          *)
Take ==
  /\ started /\ taken = {} /\ bits # {}
  /\ taken' = bits /\ bits' = {}
  /\ UNCHANGED <<applied, unreported, started, early, fan, snap, told, retained, changes>>

\* publish_one_state up to its snapshot; the first fan is first.
ReadState(session) ==
  /\ fan = -1
  /\ \E f \in Fans \cap taken :
       /\ \A g \in Fans \cap taken : f <= g
       /\ IF session = "ready"
          THEN fan' = f /\ snap' = applied[f] /\ UNCHANGED <<taken, told>>
          ELSE taken' = taken \ {f} /\ told' = [told EXCEPT ![f] = -1] /\ UNCHANGED <<fan, snap>>
  /\ UNCHANGED <<applied, unreported, started, early, bits, retained, changes>>

\* mqtt_manager_publish looks at the session again; the client may not accept the
\* message, or lose it with the link.
PublishState(session) ==
  /\ fan # -1
  /\ \/ /\ session # "off"
        /\ told' = [told EXCEPT ![fan] = snap]
        /\ retained' = IF Full \in taken THEN [retained EXCEPT ![fan] = snap] ELSE retained
     \/ /\ told' = [told EXCEPT ![fan] = -1]
        /\ UNCHANGED retained
  /\ taken' = taken \ {fan} /\ fan' = -1 /\ snap' = 0
  /\ UNCHANGED <<applied, unreported, started, early, bits, changes>>

\* Metadata, metrics and health would follow.
EndTurn ==
  /\ taken # {} /\ taken \cap Fans = {}
  /\ taken' = {}
  /\ UNCHANGED <<applied, unreported, started, early, bits, fan, snap, told, retained, changes>>

PublisherTask(session) == Take \/ ReadState(session) \/ PublishState(session) \/ EndTurn

-----------------------------------------------------------------------------
PublisherTypeOK ==
  /\ {applied, retained} \subseteq [Fans -> {0, 1}] /\ told \in [Fans -> {-1, 0, 1}]
  /\ unreported \subseteq Fans /\ started \in BOOLEAN
  /\ {early, bits, taken} \subseteq SUBSET Everything
  /\ fan \in Fans \cup {-1} /\ snap \in {0, 1}
  /\ changes \in 0..MaxChanges

\* A change that subscribers were not told of is on its way, however requests for
\* other fans, for everything, and from before the task was known, run into it.
ChangeIsPending ==
  \A f \in Fans :
    told[f] \notin {applied[f], -1} => f \in unreported \cup early \cup bits \cup taken

=============================================================================
