------------------------------ MODULE ImageTrial ------------------------------
(***************************************************************************)
(* What app_main.c and ota_manager.c promise of the images in flash: an    *)
(* image that was never confirmed runs once, on trial; it is confirmed or  *)
(* given up, and only an image that is confirmed replaces another one.     *)
(***************************************************************************)
CONSTANT Partitions

VARIABLES
  good,       \* slots with a confirmed image
  candidate,  \* slots with an image that has never run
  trial,      \* slots with an image that has run and is not confirmed
  runs        \* the slot that runs, if any

trialVars == <<good, candidate, trial, runs>>

TrialInit ==
  /\ good # {}
  /\ candidate = {} /\ trial = {} /\ runs = {}

Halt ==
  /\ runs' = {}
  /\ UNCHANGED <<good, candidate, trial>>

\* A new image is preferred, and has this one boot to prove itself.
BootOnTrial ==
  /\ runs = {}
  /\ \E p \in candidate :
       /\ runs' = {p} /\ trial' = {p}
       /\ candidate' = candidate \ {p}
  /\ UNCHANGED good

\* A trial that was cut short is not repeated.
BootConfirmed ==
  /\ runs = {} /\ candidate = {}
  /\ \E p \in good : runs' = {p}
  /\ trial' = {}
  /\ UNCHANGED <<good, candidate>>

Accept ==
  /\ trial # {} /\ runs = trial
  /\ good' = good \cup trial /\ trial' = {}
  /\ UNCHANGED <<candidate, runs>>

\* Nothing is given up before there is something to go back to.
GiveUp ==
  /\ trial # {} /\ runs = trial
  /\ good # {}
  /\ trial' = {} /\ runs' = {}
  /\ UNCHANGED <<good, candidate>>

RunsConfirmed == runs # {} /\ runs \subseteq good /\ trial = {}

Erase(p) ==
  /\ RunsConfirmed /\ p \notin runs
  /\ good' = good \ {p} /\ candidate' = candidate \ {p}
  /\ UNCHANGED <<trial, runs>>

Install(p) ==
  /\ RunsConfirmed /\ p \notin good
  /\ candidate' = {p}
  /\ UNCHANGED <<good, trial, runs>>

TrialNext ==
  \/ Halt \/ BootOnTrial \/ BootConfirmed \/ Accept \/ GiveUp
  \/ \E p \in Partitions : Erase(p) \/ Install(p)

TrialSpec == TrialInit /\ [][TrialNext]_trialVars

\* The node can always boot an image that has been confirmed, and runs no image that
\* was given up or is half written.
Bootable == good # {} /\ runs \subseteq good \cup trial

=============================================================================
