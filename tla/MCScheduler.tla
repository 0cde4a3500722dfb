----------------------------- MODULE MCScheduler -----------------------------
(***************************************************************************)
(* Scheduler for TLC: what the schedule blob in flash may hold.            *)
(***************************************************************************)
EXTENDS Scheduler

\* Only the first fan has a stored target.
FirstFan == {[f \in Fans |-> IF f = 0 THEN 40 ELSE 0]}

\* Entries that compete for the first fan; the other fans get theirs by command.
Competing == {{<<f, s>> \in Fans \X Slots : f = 0}}

=============================================================================
