--------------------------- MODULE MCMotorControl ---------------------------
(***************************************************************************)
(* Instances of MotorControl for TLC.                                      *)
(***************************************************************************)
EXTENDS MotorControl, TLC

Verified == [Op("stop") EXCEPT !.rollback = TRUE]

\* Every inhibit, and the verified stop that follows a maintenance inhibit.
AllStops ==
  {StopOp(i, FALSE) : i \in {"GLOBAL", "MAINTENANCE", "COMMUNICATION", "TACH_ALL"}}
    \cup {Verified}

\* The stops whose zeroing competes with the ramp task on several fans.
FewStops == {StopOp("GLOBAL", TRUE), StopOp("MAINTENANCE", FALSE), Verified}

=============================================================================
