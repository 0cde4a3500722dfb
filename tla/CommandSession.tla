---------------------------- MODULE CommandSession ----------------------------
(***************************************************************************)
(* What mqtt_manager.h promises of the fence between a command and the     *)
(* broker session that delivered it: while a command holds the fence its   *)
(* session is in force, and a session ends only when no command holds it.  *)
(***************************************************************************)
EXTENDS Naturals

CONSTANT NoSession  \* held when no command is between begin and end

VARIABLES
  number,  \* the session that counts, or the next one
  live,    \* commands of session number may be committed
  held     \* the session of the command that holds the fence

sessionVars == <<number, live, held>>

SessionInit ==
  /\ number = 0
  /\ live = FALSE
  /\ held = NoSession

\* Every required subscription has been granted.
Establish ==
  /\ live' = TRUE
  /\ UNCHANGED <<number, held>>

\* A disconnect, a reconnect, a client replacement or a lost command.
Invalidate ==
  /\ held = NoSession
  /\ number' = number + 1
  /\ live' = FALSE
  /\ UNCHANGED held

\* The linearization point of a command.
Begin ==
  /\ held = NoSession
  /\ live
  /\ held' = number
  /\ UNCHANGED <<number, live>>

End ==
  /\ held # NoSession
  /\ held' = NoSession
  /\ UNCHANGED <<number, live>>

SessionNext == Establish \/ Invalidate \/ Begin \/ End

SessionSpec == SessionInit /\ [][SessionNext]_sessionVars

\* A command that holds the fence belongs to the session in force.
HeldIsLive == held # NoSession => live /\ held = number

=============================================================================
