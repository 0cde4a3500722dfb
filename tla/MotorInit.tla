------------------------------ MODULE MotorInit ------------------------------
(***************************************************************************)
(* motor_control_init of motor_control.c: the RMT objects of one fan after *)
(* the other are created, and when one fails all of them are torn down     *)
(* again, in the opposite order.  Deleting can fail as well; an object     *)
(* that is left over may still drive its pin.                              *)
(* One task runs before any other is created, so a fan is one step.  After *)
(* a clean teardown the code is uninitialized again; nobody tries twice.   *)
(***************************************************************************)
EXTENDS Integers, FiniteSetsExt

CONSTANT MotorCount  \* fan_count

Motors == 0..(MotorCount - 1)

ASSUME MotorInitAssumption == MotorCount \in Nat \ {0}

VARIABLES
  lifecycle,  \* s_lifecycle
  owned,      \* s_owned_fan_count
  objects,    \* each fan: what it has of io_mutex, channel, encoder, and its two flags
  working,    \* the fan that is initialised or released; MotorCount or -1 at the end
  unclean     \* cleanup_error

motorInitVars == <<lifecycle, owned, objects, working, unclean>>

MotorsOff ==
  /\ lifecycle = "uninitialized" /\ owned = 0
  /\ objects = [m \in Motors |-> {}]
  /\ working = 0 /\ unclean = FALSE

Pieces == {"mutex", "channel", "encoder", "enabled", "active"}

\* Ends of initialize_motor that are errors; a transmission that fails may leave
\* its channel enabled.
Incomplete ==
  {{}, {"mutex"}, {"mutex", "channel"}, {"mutex", "channel", "encoder"},
   {"mutex", "channel", "encoder", "enabled"}}

\* Without the mutex for stops there is nothing to tear down.
BeginMotors ==
  /\ lifecycle = "uninitialized"
  /\ lifecycle' \in {"initializing", "unwinding"}
  /\ working' = IF lifecycle' = "initializing" THEN 0 ELSE -1
  /\ UNCHANGED <<owned, objects, unclean>>

InitializeMotor ==
  /\ lifecycle = "initializing" /\ working \in Motors
  /\ owned' = working + 1
  /\ \/ /\ objects' = [objects EXCEPT ![working] = Pieces]
        /\ working' = working + 1
        /\ UNCHANGED lifecycle
     \/ /\ \E got \in Incomplete : objects' = [objects EXCEPT ![working] = got]
        /\ lifecycle' = "unwinding"
        /\ UNCHANGED working
  /\ UNCHANGED unclean

MotorsReady ==
  /\ lifecycle = "initializing" /\ working = MotorCount
  /\ lifecycle' = "ready"
  /\ UNCHANGED <<owned, objects, working, unclean>>

\* What release_motor_resources leaves of the pieces had: each deletion waits
\* for the one before it, and the mutex goes when nothing else is left.
Leftovers(had) ==
  {{}}
  \cup (IF "channel" \in had THEN {{"mutex", "channel"}} ELSE {})
  \cup (IF "encoder" \in had THEN {had \ {"enabled", "active"}} ELSE {})
  \cup (IF "active" \in had THEN {had \ {"enabled"}} ELSE {})
  \cup (IF "enabled" \in had THEN {had} ELSE {})

ReleaseMotor ==
  /\ lifecycle = "unwinding" /\ working >= 0
  /\ \E left \in Leftovers(objects[working]) :
       /\ objects' = [objects EXCEPT ![working] = left]
       /\ unclean' = (unclean \/ left # {})
  /\ working' = working - 1
  /\ UNCHANGED <<lifecycle, owned>>

\* Faulty variant: the fans that still own something are counted.
CountLeft == Quantify(Motors, LAMBDA m : objects[m] # {})

\* The last fan that still owns something, and those before it.
Remaining == Max({0} \cup {m + 1 : m \in {k \in Motors : objects[k] # {}}})

Unwound ==
  /\ lifecycle = "unwinding" /\ working = -1
  /\ owned' = Remaining
  /\ lifecycle' = IF ~unclean /\ owned' = 0 THEN "unavailable" ELSE "failed"
  /\ UNCHANGED <<objects, working, unclean>>

StartMotors == BeginMotors \/ InitializeMotor \/ MotorsReady \/ ReleaseMotor \/ Unwound

\* A stop refuses a lifecycle without objects.
Stoppable == lifecycle \in {"ready", "failed"}

\* The fans whose objects a stop drives to zero.
Reached == IF Stoppable THEN {m \in Motors : m < owned} ELSE {}

-----------------------------------------------------------------------------
MotorInitTypeOK ==
  /\ lifecycle \in {"uninitialized", "initializing", "unwinding", "ready", "failed",
                    "unavailable"}
  /\ owned \in 0..MotorCount
  /\ objects \in [Motors -> SUBSET Pieces]
  /\ working \in -1..MotorCount
  /\ unclean \in BOOLEAN

\* However creation and teardown fail, a fan that still owns an RMT object is one
\* that the fail-safe stop reaches.
LeftoversReachable ==
  lifecycle \in {"ready", "failed", "unavailable"} =>
    \A m \in Motors : objects[m] # {} => m \in Reached

=============================================================================
