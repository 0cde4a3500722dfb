------------------------------ MODULE BootProofs ------------------------------
(***************************************************************************)
(* The safety of Boot and MotorInit for every number of fans, resets,      *)
(* updates, commands and stops: what a failed initialisation leaves is     *)
(* within reach of a stop, and no boot resumes motion that it must not.    *)
(*                                                                         *)
(* Motors is the initialisation of the fans.  Over it, Course says what    *)
(* the step of app_main implies, Slots what the two images can be, Held    *)
(* what an update leaves quiet, Forgotten what an untrusted boot, a        *)
(* rollback and a stop have made zero in flash, and Resumable that an      *)
(* update has saved the targets it will restart with.                      *)
(***************************************************************************)
EXTENDS Boot, FiniteSetTheorems, WellFoundedInduction, TLAPS

-----------------------------------------------------------------------------
(* The inductive invariant                                                 *)
Unfolding ==
  /\ lifecycle = "uninitialized" =>
       working = 0 /\ owned = 0 /\ \A m \in Motors : objects[m] = {}
  /\ lifecycle = "initializing" => owned = working
  /\ lifecycle = "unwinding" => working # MotorCount
  /\ lifecycle = "ready" => owned = MotorCount
  /\ LeftoversReachable

Course ==
  /\ mode = "reset" => at = "init" /\ Rest
  /\ (mode = "main") = (at = "done")
  /\ ota # "idle" => mode = "main"
  /\ stop # "idle" => mode # "reset" /\ Past("watch")
  /\ mode \in {"persisting", "rolling"} => Pending
  /\ interlock => at = "done"
  /\ wanted => Past("restore")
  /\ schedulesLatched => Past("scheduler") /\ schedules = "held"

Slots ==
  /\ \A p \in Partitions : image[p] = "valid" \/ image[Other(p)] = "valid"
  /\ mode # "reset" => image[running] \in {"valid", "pending"}
  /\ Past("confirm") => ~Pending
  /\ \A p \in Partitions : image[p] = "new" => chosen = p /\ mode \in {"reset", "main"}

\* An image is new only after an update that has held the schedules for good.
Held ==
  /\ ota \in {"saving", "creating", "loading", "installed", "aborting"}
       => schedulesLatched /\ plan = "held"
  /\ \A p \in Partitions : image[p] = "new" =>
       plan # "armed" /\ (mode # "reset" => schedulesLatched)
  /\ Pending /\ mode # "reset" => plan # "armed" /\ schedules # "armed"

Forgotten ==
  /\ reason = "untrusted" /\ mode = "booting" /\ Past("inhibit") =>
       error \/ (schedulesLatched /\ plan = "held")
  /\ reason = "untrusted" /\ mode = "booting" /\ Past("zero") => ~error /\ ~kept /\ ~wanted
  /\ mode = "rolling" => ~kept
  /\ stop # "idle" => latched /\ ~wanted
  /\ stop \in {"saving", "restarting"} => schedulesLatched /\ plan = "held"
  /\ stop = "restarting" => ~kept

Resumable ==
  ota \in {"creating", "loading", "installed", "aborting"} =>
    kept = wanted \/ stop # "idle" \/ unsaved

BootInv == TypeOK /\ Unfolding /\ Course /\ Slots /\ Held /\ Forgotten /\ Resumable

-----------------------------------------------------------------------------
(* Lemmas about operators                                                  *)
\* A nonempty set of naturals that is bounded has the maximum that Max chooses.
LEMMA MaxOfBounded ==
  ASSUME NEW n \in Nat, NEW S \in SUBSET (0..n), S # {}
  PROVE  Max(S) \in S /\ \A s \in S : s <= Max(S)
<1> DEFINE Above == {s..n : s \in S}
<1>1. Above \subseteq FiniteSubsetsOf(0..n) /\ Above # {}
  <2>1. ASSUME NEW s \in S
        PROVE  s..n \in FiniteSubsetsOf(0..n)
    <3>1. s \in Int /\ n \in Int /\ s..n \subseteq 0..n
      OBVIOUS
    <3>2. IsFiniteSet(s..n)
      BY <3>1, FS_Interval
    <3> QED
      BY <3>1, <3>2 DEF FiniteSubsetsOf
  <2> QED
    BY <2>1
<1>2. PICK A \in Above : \A B \in Above : <<B, A>> \notin StrictSubsetOrdering(0..n)
  <2> HIDE DEF Above
  <2> QED
    BY <1>1, FS_StrictSubsetOrderingWellFounded, WFMin, Zenon
<1>3. PICK top \in S : A = top..n
  OBVIOUS
<1>4. \A s \in S : top >= s
  <2> SUFFICES ASSUME NEW s \in S, top < s
               PROVE  FALSE
    OBVIOUS
  <2>1. s..n \in Above /\ s..n \subseteq 0..n /\ top..n \subseteq 0..n
    OBVIOUS
  <2>2. s..n \subseteq top..n /\ top \in top..n /\ top \notin s..n
    OBVIOUS
  <2> QED
    BY <1>2, <1>3, <2>1, <2>2 DEF StrictSubsetOrdering
<1>5. \E x \in S : \A y \in S : x >= y
  BY <1>4
<1> QED
  BY <1>5 DEF Max

\* The places of app_main in numbers.
LEMMA Places ==
  /\ DOMAIN Order = {"init", "configure", "callbacks", "nvs", "motors", "scheduler", "saver",
                     "planner", "inhibit", "zero", "watch", "confirm", "restore", "enable",
                     "done"}
  /\ Order["init"] = 1 /\ Order["configure"] = 2 /\ Order["callbacks"] = 3
  /\ Order["nvs"] = 4 /\ Order["motors"] = 5 /\ Order["scheduler"] = 6
  /\ Order["saver"] = 7 /\ Order["planner"] = 8 /\ Order["inhibit"] = 9
  /\ Order["zero"] = 10 /\ Order["watch"] = 11 /\ Order["confirm"] = 12
  /\ Order["restore"] = 13 /\ Order["enable"] = 14 /\ Order["done"] = 15
BY DEF Order

\* Every step before the last is followed by the next one.
LEMMA FollowingPlace ==
  ASSUME at \in DOMAIN Order, at # "done"
  PROVE  Following \in DOMAIN Order /\ Order[Following] = Order[at] + 1
<1>1. \E step \in DOMAIN Order : Order[step] = Order[at] + 1
  BY Places
<1> QED
  BY <1>1 DEF Following

-----------------------------------------------------------------------------
(* Initialisation of the fans                                              *)
\* What the teardown keeps: every fan that still owns an object is below the
\* number of owned fans.
LEMMA RemainingReaches ==
  ASSUME MotorInitTypeOK
  PROVE  /\ Remaining \in 0..MotorCount
         /\ \A m \in Motors : objects[m] # {} => m < Remaining
<1> DEFINE Owning == {0} \cup {m + 1 : m \in {k \in Motors : objects[k] # {}}}
<1>1. MotorCount \in Nat /\ Owning \subseteq 0..MotorCount /\ Owning # {}
  BY MotorInitAssumption DEF Motors
<1>2. Max(Owning) \in Owning /\ \A s \in Owning : s <= Max(Owning)
  <2> HIDE DEF Owning
  <2> QED
    BY <1>1, MaxOfBounded
<1>3. Max(Owning) \in 0..MotorCount
  BY <1>1, <1>2
<1>4. ASSUME NEW m \in Motors, objects[m] # {}
      PROVE  m < Max(Owning)
  <2>1. m + 1 \in Owning
    BY <1>4
  <2>2. m + 1 <= Max(Owning)
    BY <1>2, <2>1
  <2> QED
    BY <1>3, <2>2 DEF Motors
<1> QED
  BY <1>3, <1>4 DEF Remaining

LEMMA UnfoldingStep ==
  ASSUME MotorInitTypeOK, Unfolding, StartMotors
  PROVE  MotorInitTypeOK' /\ Unfolding'
<1> USE MotorInitAssumption
<1>1. CASE BeginMotors
  BY <1>1 DEF BeginMotors, MotorInitTypeOK, Unfolding, LeftoversReachable, Motors
<1>2. CASE InitializeMotor
  BY <1>2 DEF InitializeMotor, MotorInitTypeOK, Unfolding, LeftoversReachable, Motors,
              Incomplete, Pieces
<1>3. CASE MotorsReady
  BY <1>3 DEF MotorsReady, MotorInitTypeOK, Unfolding, LeftoversReachable, Motors, Reached,
              Stoppable
<1>4. CASE ReleaseMotor
  <2>1. PICK left \in Leftovers(objects[working]) :
          /\ objects' = [objects EXCEPT ![working] = left]
          /\ unclean' = (unclean \/ left # {})
    BY <1>4 DEF ReleaseMotor
  <2>2. working \in Motors
    BY <1>4 DEF ReleaseMotor, MotorInitTypeOK, Unfolding, Motors
  <2>3. left \subseteq Pieces
    <3>1. objects[working] \subseteq Pieces
      BY <2>2 DEF MotorInitTypeOK
    <3> QED
      BY <2>1, <3>1 DEF Leftovers, Pieces
  <2>4. objects' \in [Motors -> SUBSET Pieces]
    BY <2>1, <2>3 DEF MotorInitTypeOK
  <2>5. working' \in -1..MotorCount /\ working' # MotorCount
    BY <1>4, <2>2 DEF ReleaseMotor, Motors
  <2>6. unclean' \in BOOLEAN
    BY <2>1 DEF MotorInitTypeOK
  <2> QED
    BY <1>4, <2>4, <2>5, <2>6 DEF ReleaseMotor, MotorInitTypeOK, Unfolding, LeftoversReachable
<1>5. CASE Unwound
  <2>1. owned' = Remaining /\ owned' \in 0..MotorCount
    BY <1>5, RemainingReaches DEF Unwound
  <2>2. \A m \in Motors : objects[m] # {} => m < owned'
    BY <2>1, RemainingReaches
  <2>3. lifecycle' \in {"unavailable", "failed"} /\ UNCHANGED <<objects, working, unclean>>
    BY <1>5 DEF Unwound
  <2>4. lifecycle' = "unavailable" => owned' = 0
    BY <1>5 DEF Unwound
  <2>5. lifecycle' = "unavailable" => \A m \in Motors : objects[m] = {}
    BY <2>2, <2>4 DEF Motors
  <2>6. LeftoversReachable'
    BY <2>2, <2>3, <2>5 DEF LeftoversReachable, Reached, Stoppable
  <2> QED
    BY <2>1, <2>3, <2>6 DEF MotorInitTypeOK, Unfolding
<1> QED
  BY <1>1, <1>2, <1>3, <1>4, <1>5 DEF StartMotors

\* Before the initialisation nothing is owned, and so it is after any reset.
LEMMA UnfoldingStarts ==
  ASSUME MotorsOff
  PROVE  MotorInitTypeOK /\ Unfolding
<1>1. objects \in [Motors -> SUBSET Pieces] /\ \A m \in Motors : objects[m] = {}
  BY DEF MotorsOff
<1>2. MotorCount \in Nat \ {0}
  BY MotorInitAssumption
<1>3. MotorInitTypeOK
  <2>1. lifecycle = "uninitialized" /\ owned = 0 /\ working = 0 /\ unclean = FALSE
    BY DEF MotorsOff
  <2>2. owned \in 0..MotorCount /\ working \in -1..MotorCount
    BY <1>2, <2>1
  <2> QED
    BY <1>1, <2>1, <2>2 DEF MotorInitTypeOK
<1>4. Unfolding
  BY <1>1, <1>2 DEF MotorsOff, Unfolding, LeftoversReachable
<1> QED
  BY <1>3, <1>4

-----------------------------------------------------------------------------
(* Types                                                                   *)
SlotTypes ==
  /\ image \in [Partitions -> {"none", "new", "pending", "aborted", "invalid", "valid"}]
  /\ chosen \in Partitions /\ running \in Partitions

StoreTypes ==
  /\ kept \in BOOLEAN /\ plan \in {"none", "held", "armed"}

PlaceTypes ==
  /\ reason \in {"trusted", "untrusted"}
  /\ at \in DOMAIN Order
  /\ mode \in {"reset", "booting", "main", "stopping", "failed", "persisting", "rolling", "held"}
  /\ ota \in {"idle", "stopping", "saving", "creating", "loading", "installed", "aborting"}
  /\ stop \in {"idle", "saving", "unheld", "restarting"}

FlagTypes ==
  /\ error \in BOOLEAN /\ interlock \in BOOLEAN /\ latched \in BOOLEAN
  /\ schedulesLatched \in BOOLEAN /\ wanted \in BOOLEAN /\ maintained \in BOOLEAN
  /\ unsaved \in BOOLEAN

OtherTypes ==
  /\ schedules \in {"none", "held", "armed"} /\ dirty \in SUBSET {"targets", "plan"}
  /\ resets \in 0..MaxResets /\ updates \in 0..MaxUpdates /\ calls \in 0..MaxCalls

LEMMA TypeGroups ==
  TypeOK = (/\ SlotTypes /\ StoreTypes /\ PlaceTypes /\ FlagTypes /\ OtherTypes
             /\ MotorInitTypeOK)
BY DEF TypeOK, SlotTypes, StoreTypes, PlaceTypes, FlagTypes, OtherTypes

LEMMA InitTypes == Init => TypeOK
<1> SUFFICES ASSUME Init PROVE TypeOK
  OBVIOUS
<1>1. MotorInitTypeOK
  BY UnfoldingStarts DEF Init, Rest
<1>2. SlotTypes /\ StoreTypes
  <2>1. image = [p \in Partitions |-> IF p = 0 THEN "valid" ELSE "none"]
    BY DEF Init
  <2>2. image \in [Partitions -> {"none", "new", "pending", "aborted", "invalid", "valid"}]
    BY <2>1
  <2> QED
    BY <2>2 DEF Init, SlotTypes, StoreTypes, Partitions
<1>3. PlaceTypes /\ FlagTypes
  BY Places DEF Init, Rest, PlaceTypes, FlagTypes
<1>4. OtherTypes
  BY BootAssumption DEF Init, Rest, OtherTypes
<1> QED
  BY <1>1, <1>2, <1>3, <1>4, TypeGroups

\* Whatever resets the node brings it to where every boot begins.
LEMMA ResetMeans ==
  ASSUME NEW cause, ResetTo(cause)
  PROVE  Rest' /\ reason' = cause
BY DEF ResetTo, Rest, MotorsOff

\* The end of a step of app_main.
LEMMA ProceedMeans ==
  ASSUME PlaceTypes, Proceed, at # "done"
  PROVE  at' \in DOMAIN Order /\ Order[at'] = Order[at] + 1 /\ mode' = mode
BY FollowingPlace DEF Proceed, PlaceTypes

\* What a save and an inhibit leave in flash.
LEMMA SaveTypes ==
  ASSUME NEW ok \in BOOLEAN, SaveTargets(ok), kept \in BOOLEAN, wanted' \in BOOLEAN
  PROVE  kept' \in BOOLEAN
<1>1. kept' \in {kept, wanted'}
  BY DEF SaveTargets
<1> QED
  BY <1>1

LEMMA InhibitTypes ==
  ASSUME NEW ok \in BOOLEAN, Inhibit(ok), plan \in {"none", "held", "armed"}
  PROVE  plan' \in {"none", "held", "armed"}
BY DEF Inhibit, InhibitLatches, InhibitExpires

\* What an inhibit leaves in RAM, and of the saves that are asked for.
LEMMA InhibitKeepsTypes ==
  ASSUME NEW ok \in BOOLEAN, Inhibit(ok), OtherTypes
  PROVE  /\ schedules' \in {"none", "held", "armed"}
         /\ dirty' \in SUBSET {"targets", "plan"}
<1>1. schedules' \in {schedules, "held"} /\ dirty' \in {dirty, dirty \cup {"plan"}}
  BY DEF Inhibit, InhibitLatches, InhibitExpires
<1> QED
  BY <1>1 DEF OtherTypes

\* What any step leaves of the flags.
LEMMA FlagTypesStep ==
  ASSUME SlotTypes, StoreTypes, PlaceTypes, FlagTypes, OtherTypes, Next
  PROVE  FlagTypes'
<1>1. CASE Bootloader
  BY <1>1
     DEF Bootloader, AfterBoot, Other, outputVars, bootVars, FlagTypes
<1>2. CASE Plain
  BY <1>2
     DEF Plain, Step, Proceed, Fail, outputVars, bootVars, FlagTypes
<1>3. CASE StartNvs
  BY <1>3
     DEF StartNvs, Step, Proceed, Fail, outputVars, bootVars, FlagTypes
<1>4. CASE MotorStep
  BY <1>4
     DEF MotorStep, Step, Proceed, Fail, outputVars, bootVars, FlagTypes
<1>5. CASE LoadSchedules
  BY <1>5
     DEF LoadSchedules, Step, Proceed, Fail, outputVars, bootVars, FlagTypes
<1>6. CASE InhibitUntrusted
  BY <1>6
     DEF InhibitUntrusted, Step, Proceed, HoldSchedules, Inhibit, InhibitLatches,
         InhibitExpires, outputVars, bootVars, FlagTypes
<1>7. CASE CommitZero
  BY <1>7
     DEF CommitZero, Step, Proceed, Fail, SaveTargets, outputVars, bootVars, FlagTypes
<1>8. CASE Confirm
  BY <1>8
     DEF Confirm, Step, Proceed, Fail, outputVars, bootVars, FlagTypes
<1>9. CASE RestoreTargets
  BY <1>9
     DEF RestoreTargets, Step, Proceed, Restores, MayMove, outputVars, bootVars, FlagTypes
<1>10. CASE EnableOutput
  BY <1>10
     DEF EnableOutput, Step, EnableIfSafe, MayMove, Fail, outputVars, bootVars, FlagTypes
<1>11. CASE SafeStop
  BY <1>11
     DEF SafeStop, Inhibit, InhibitLatches, InhibitExpires, SaveTargets, outputVars,
         bootVars, FlagTypes
<1>12. CASE CommitRollback
  BY <1>12
     DEF CommitRollback, SaveTargets, Holds, outputVars, bootVars, FlagTypes
<1>13. CASE RollBack
  BY <1>13, ResetMeans, Places
     DEF RollBack, Rest, FlagTypes
<1>14. CASE NoFallback
  BY <1>14
     DEF NoFallback, Holds, outputVars, bootVars, FlagTypes
<1>15. CASE AsyncSave
  BY <1>15
     DEF AsyncSave, outputVars, bootVars, FlagTypes
<1>16. CASE ArmSchedules
  BY <1>16
     DEF ArmSchedules, Call, outputVars, bootVars, FlagTypes
<1>17. CASE StopBegins
  BY <1>17
     DEF StopBegins, Call, Inhibit, InhibitLatches, InhibitExpires, outputVars, bootVars,
         FlagTypes
<1>18. CASE StopSaves
  BY <1>18
     DEF StopSaves, SaveTargets, outputVars, bootVars, FlagTypes
<1>19. CASE StopRestarts
  BY <1>19, ResetMeans, Places
     DEF StopRestarts, Rest, FlagTypes
<1>20. CASE OtaStarts
  BY <1>20
     DEF OtaStarts, OtaRests, outputVars, bootVars, FlagTypes
<1>21. CASE OtaStopped
  BY <1>21
     DEF OtaStopped, OtaRests, Inhibit, InhibitLatches, InhibitExpires, outputVars, bootVars,
         FlagTypes
<1>22. CASE OtaSaves
  BY <1>22
     DEF OtaSaves, OtaRests, OtaCommit, SaveTargets, Release, outputVars, bootVars, FlagTypes
<1>23. CASE OtaCreates
  BY <1>23
     DEF OtaCreates, OtaRests, outputVars, bootVars, FlagTypes
<1>24. CASE OtaLoads
  BY <1>24
     DEF OtaLoads, OtaRests, Other, outputVars, bootVars, FlagTypes
<1>25. CASE OtaRestarts
  BY <1>25, ResetMeans, Places
     DEF OtaRestarts, Rest, FlagTypes
<1>26. CASE OtaAborts
  BY <1>26
     DEF OtaAborts, OtaRests, AbortUpdate, Release, outputVars, bootVars, FlagTypes
<1>27. ASSUME NEW cause \in {"trusted", "untrusted"}, Reset(cause)
      PROVE  FlagTypes'
  BY <1>27, ResetMeans, Places DEF Reset, Rest, FlagTypes
<1>28. ASSUME NEW on \in BOOLEAN, Command(on)
      PROVE  FlagTypes'
  BY <1>28 DEF Command, Call, flashVars, bootVars, FlagTypes
<1> QED
  BY <1>1, <1>2, <1>3, <1>4, <1>5, <1>6, <1>7, <1>8, <1>9, <1>10, <1>11, <1>12, <1>13, <1>14,
     <1>15, <1>16, <1>17, <1>18, <1>19, <1>20, <1>21, <1>22, <1>23, <1>24, <1>25, <1>26, <1>27,
     <1>28
     DEF Next, AppMain, StopSteps, Ota

\* Where any step leaves app_main, an update and a stop.
LEMMA PlaceTypesStep ==
  ASSUME SlotTypes, StoreTypes, PlaceTypes, FlagTypes, OtherTypes, Next
  PROVE  PlaceTypes'
<1>1. CASE Bootloader
  BY <1>1, ProceedMeans, Places
     DEF Bootloader, AfterBoot, Other, bootVars, PlaceTypes
<1>2. CASE Plain
  BY <1>2, ProceedMeans, Places
     DEF Plain, Step, Fail, bootVars, PlaceTypes
<1>3. CASE StartNvs
  BY <1>3, ProceedMeans, Places
     DEF StartNvs, Step, Fail, bootVars, PlaceTypes
<1>4. CASE MotorStep
  BY <1>4, ProceedMeans, Places
     DEF MotorStep, Step, Fail, bootVars, PlaceTypes
<1>5. CASE LoadSchedules
  BY <1>5, ProceedMeans, Places
     DEF LoadSchedules, Step, Fail, bootVars, PlaceTypes
<1>6. CASE InhibitUntrusted
  BY <1>6, ProceedMeans, Places
     DEF InhibitUntrusted, Step, HoldSchedules, Inhibit, InhibitLatches, InhibitExpires,
         bootVars, PlaceTypes
<1>7. CASE CommitZero
  BY <1>7, ProceedMeans, Places
     DEF CommitZero, Step, Fail, SaveTargets, bootVars, PlaceTypes
<1>8. CASE Confirm
  BY <1>8, ProceedMeans, Places
     DEF Confirm, Step, Fail, bootVars, PlaceTypes
<1>9. CASE RestoreTargets
  BY <1>9, ProceedMeans, Places
     DEF RestoreTargets, Step, Restores, MayMove, bootVars, PlaceTypes
<1>10. CASE EnableOutput
  BY <1>10, ProceedMeans, Places
     DEF EnableOutput, Step, EnableIfSafe, MayMove, Fail, bootVars, PlaceTypes
<1>11. CASE SafeStop
  BY <1>11, ProceedMeans, Places
     DEF SafeStop, Inhibit, InhibitLatches, InhibitExpires, SaveTargets, bootVars, PlaceTypes
<1>12. CASE CommitRollback
  BY <1>12, ProceedMeans, Places
     DEF CommitRollback, SaveTargets, Holds, bootVars, PlaceTypes
<1>13. CASE RollBack
  BY <1>13, ResetMeans, Places
     DEF RollBack, Rest, PlaceTypes
<1>14. CASE NoFallback
  BY <1>14, ProceedMeans, Places
     DEF NoFallback, Holds, bootVars, PlaceTypes
<1>15. CASE AsyncSave
  BY <1>15, ProceedMeans, Places
     DEF AsyncSave, bootVars, PlaceTypes
<1>16. CASE ArmSchedules
  BY <1>16, ProceedMeans, Places
     DEF ArmSchedules, Call, bootVars, PlaceTypes
<1>17. CASE StopBegins
  BY <1>17, ProceedMeans, Places
     DEF StopBegins, Call, Inhibit, InhibitLatches, InhibitExpires, bootVars, PlaceTypes
<1>18. CASE StopSaves
  BY <1>18, ProceedMeans, Places
     DEF StopSaves, SaveTargets, bootVars, PlaceTypes
<1>19. CASE StopRestarts
  BY <1>19, ResetMeans, Places
     DEF StopRestarts, Rest, PlaceTypes
<1>20. CASE OtaStarts
  BY <1>20, ProceedMeans, Places
     DEF OtaStarts, OtaRests, bootVars, PlaceTypes
<1>21. CASE OtaStopped
  BY <1>21, ProceedMeans, Places
     DEF OtaStopped, OtaRests, Inhibit, InhibitLatches, InhibitExpires, bootVars, PlaceTypes
<1>22. CASE OtaSaves
  BY <1>22, ProceedMeans, Places
     DEF OtaSaves, OtaRests, OtaCommit, SaveTargets, Release, bootVars, PlaceTypes
<1>23. CASE OtaCreates
  BY <1>23, ProceedMeans, Places
     DEF OtaCreates, OtaRests, bootVars, PlaceTypes
<1>24. CASE OtaLoads
  BY <1>24, ProceedMeans, Places
     DEF OtaLoads, OtaRests, Other, bootVars, PlaceTypes
<1>25. CASE OtaRestarts
  BY <1>25, ResetMeans, Places
     DEF OtaRestarts, Rest, PlaceTypes
<1>26. CASE OtaAborts
  BY <1>26, ProceedMeans, Places
     DEF OtaAborts, OtaRests, AbortUpdate, Release, bootVars, PlaceTypes
<1>27. ASSUME NEW cause \in {"trusted", "untrusted"}, Reset(cause)
      PROVE  PlaceTypes'
  BY <1>27, ResetMeans, Places DEF Reset, Rest, PlaceTypes
<1>28. ASSUME NEW on \in BOOLEAN, Command(on)
      PROVE  PlaceTypes'
  BY <1>28 DEF Command, Call, flashVars, bootVars, PlaceTypes
<1> QED
  BY <1>1, <1>2, <1>3, <1>4, <1>5, <1>6, <1>7, <1>8, <1>9, <1>10, <1>11, <1>12, <1>13, <1>14,
     <1>15, <1>16, <1>17, <1>18, <1>19, <1>20, <1>21, <1>22, <1>23, <1>24, <1>25, <1>26, <1>27,
     <1>28
     DEF Next, AppMain, StopSteps, Ota

\* What any step leaves of the images.
LEMMA SlotTypesStep ==
  ASSUME SlotTypes, StoreTypes, PlaceTypes, FlagTypes, OtherTypes, Next
  PROVE  SlotTypes'
<1>1. CASE Bootloader
  BY <1>1
     DEF Bootloader, AfterBoot, Other, flashVars, bootVars, SlotTypes, Partitions
<1>2. CASE Plain
  BY <1>2
     DEF Plain, Step, Fail, flashVars, bootVars, SlotTypes, Partitions
<1>3. CASE StartNvs
  BY <1>3
     DEF StartNvs, Step, Fail, flashVars, bootVars, SlotTypes, Partitions
<1>4. CASE MotorStep
  BY <1>4
     DEF MotorStep, Step, Fail, flashVars, bootVars, SlotTypes, Partitions
<1>5. CASE LoadSchedules
  BY <1>5
     DEF LoadSchedules, Step, Fail, flashVars, bootVars, SlotTypes, Partitions
<1>6. CASE InhibitUntrusted
  BY <1>6
     DEF InhibitUntrusted, Step, HoldSchedules, flashVars, bootVars, SlotTypes, Partitions
<1>7. CASE CommitZero
  BY <1>7
     DEF CommitZero, Step, Fail, flashVars, bootVars, SlotTypes, Partitions
<1>8. CASE Confirm
  BY <1>8
     DEF Confirm, Step, Fail, flashVars, bootVars, SlotTypes, Partitions
<1>9. CASE RestoreTargets
  BY <1>9
     DEF RestoreTargets, Step, Restores, MayMove, flashVars, bootVars, SlotTypes, Partitions
<1>10. CASE EnableOutput
  BY <1>10
     DEF EnableOutput, Step, EnableIfSafe, MayMove, Fail, flashVars, bootVars, SlotTypes,
         Partitions
<1>11. CASE SafeStop
  BY <1>11
     DEF SafeStop, flashVars, bootVars, SlotTypes, Partitions
<1>12. CASE CommitRollback
  BY <1>12
     DEF CommitRollback, Holds, flashVars, bootVars, SlotTypes, Partitions
<1>13. CASE RollBack
  BY <1>13
     DEF RollBack, flashVars, bootVars, SlotTypes, ResetTo, Partitions
<1>14. CASE NoFallback
  BY <1>14
     DEF NoFallback, Holds, flashVars, bootVars, SlotTypes, Partitions
<1>15. CASE AsyncSave
  BY <1>15
     DEF AsyncSave, flashVars, bootVars, SlotTypes, Partitions
<1>16. CASE ArmSchedules
  BY <1>16
     DEF ArmSchedules, Call, flashVars, bootVars, SlotTypes, Partitions
<1>17. CASE StopBegins
  BY <1>17
     DEF StopBegins, Call, flashVars, bootVars, SlotTypes, Partitions
<1>18. CASE StopSaves
  BY <1>18
     DEF StopSaves, flashVars, bootVars, SlotTypes, Partitions
<1>19. CASE StopRestarts
  BY <1>19
     DEF StopRestarts, flashVars, bootVars, SlotTypes, ResetTo, Partitions
<1>20. CASE OtaStarts
  BY <1>20
     DEF OtaStarts, OtaRests, flashVars, bootVars, SlotTypes, Partitions
<1>21. CASE OtaStopped
  BY <1>21
     DEF OtaStopped, OtaRests, flashVars, bootVars, SlotTypes, Partitions
<1>22. CASE OtaSaves
  BY <1>22
     DEF OtaSaves, OtaRests, OtaCommit, Release, flashVars, bootVars, SlotTypes, Partitions
<1>23. CASE OtaCreates
  BY <1>23
     DEF OtaCreates, OtaRests, flashVars, bootVars, SlotTypes, Partitions
<1>24. CASE OtaLoads
  BY <1>24
     DEF OtaLoads, OtaRests, Other, flashVars, bootVars, SlotTypes, Partitions
<1>25. CASE OtaRestarts
  BY <1>25
     DEF OtaRestarts, flashVars, bootVars, SlotTypes, ResetTo, Partitions
<1>26. CASE OtaAborts
  BY <1>26
     DEF OtaAborts, OtaRests, AbortUpdate, Release, flashVars, bootVars, SlotTypes, Partitions
<1>27. ASSUME NEW cause \in {"trusted", "untrusted"}, Reset(cause)
      PROVE  SlotTypes'
  BY <1>27 DEF Reset, ResetTo, flashVars, SlotTypes
<1>28. ASSUME NEW on \in BOOLEAN, Command(on)
      PROVE  SlotTypes'
  BY <1>28 DEF Command, Call, flashVars, bootVars, SlotTypes
<1> QED
  BY <1>1, <1>2, <1>3, <1>4, <1>5, <1>6, <1>7, <1>8, <1>9, <1>10, <1>11, <1>12, <1>13, <1>14,
     <1>15, <1>16, <1>17, <1>18, <1>19, <1>20, <1>21, <1>22, <1>23, <1>24, <1>25, <1>26, <1>27,
     <1>28
     DEF Next, AppMain, StopSteps, Ota

\* What any step leaves of targets and schedules in flash.
LEMMA StoreTypesStep ==
  ASSUME SlotTypes, StoreTypes, PlaceTypes, FlagTypes, OtherTypes, Next, FlagTypes'
  PROVE  StoreTypes'
<1>1. CASE Bootloader
  BY <1>1
     DEF Bootloader, AfterBoot, Other, flashVars, StoreTypes
<1>2. CASE Plain
  BY <1>2
     DEF Plain, Step, Proceed, Fail, flashVars, StoreTypes
<1>3. CASE StartNvs
  BY <1>3
     DEF StartNvs, Step, Proceed, Fail, flashVars, StoreTypes
<1>4. CASE MotorStep
  BY <1>4
     DEF MotorStep, Step, Proceed, Fail, flashVars, StoreTypes
<1>5. CASE LoadSchedules
  BY <1>5
     DEF LoadSchedules, Step, Proceed, Fail, flashVars, StoreTypes
<1>6. CASE InhibitUntrusted
  BY <1>6, InhibitTypes
     DEF InhibitUntrusted, Step, Proceed, HoldSchedules, flashVars, StoreTypes
<1>7. CASE CommitZero
  BY <1>7, SaveTypes
     DEF CommitZero, Step, Proceed, Fail, flashVars, StoreTypes, FlagTypes
<1>8. CASE Confirm
  BY <1>8
     DEF Confirm, Step, Proceed, Fail, flashVars, StoreTypes
<1>9. CASE RestoreTargets
  BY <1>9
     DEF RestoreTargets, Step, Proceed, Restores, MayMove, flashVars, StoreTypes
<1>10. CASE EnableOutput
  BY <1>10
     DEF EnableOutput, Step, EnableIfSafe, MayMove, Fail, flashVars, StoreTypes
<1>11. CASE SafeStop
  BY <1>11, SaveTypes, InhibitTypes
     DEF SafeStop, flashVars, StoreTypes, FlagTypes
<1>12. CASE CommitRollback
  BY <1>12, SaveTypes
     DEF CommitRollback, Holds, flashVars, StoreTypes, FlagTypes
<1>13. CASE RollBack
  BY <1>13
     DEF RollBack, flashVars, StoreTypes, ResetTo
<1>14. CASE NoFallback
  BY <1>14
     DEF NoFallback, Holds, flashVars, StoreTypes
<1>15. CASE AsyncSave
  BY <1>15
     DEF AsyncSave, flashVars, StoreTypes, FlagTypes, OtherTypes
<1>16. CASE ArmSchedules
  BY <1>16
     DEF ArmSchedules, Call, flashVars, StoreTypes
<1>17. CASE StopBegins
  BY <1>17, InhibitTypes
     DEF StopBegins, Call, flashVars, StoreTypes
<1>18. CASE StopSaves
  BY <1>18, SaveTypes
     DEF StopSaves, flashVars, StoreTypes, FlagTypes
<1>19. CASE StopRestarts
  BY <1>19
     DEF StopRestarts, flashVars, StoreTypes, ResetTo
<1>20. CASE OtaStarts
  BY <1>20
     DEF OtaStarts, OtaRests, flashVars, StoreTypes
<1>21. CASE OtaStopped
  BY <1>21, InhibitTypes
     DEF OtaStopped, OtaRests, flashVars, StoreTypes
<1>22. CASE OtaSaves
  BY <1>22, SaveTypes
     DEF OtaSaves, OtaRests, OtaCommit, Release, flashVars, StoreTypes, FlagTypes
<1>23. CASE OtaCreates
  BY <1>23
     DEF OtaCreates, OtaRests, flashVars, StoreTypes
<1>24. CASE OtaLoads
  BY <1>24
     DEF OtaLoads, OtaRests, Other, flashVars, StoreTypes
<1>25. CASE OtaRestarts
  BY <1>25
     DEF OtaRestarts, flashVars, StoreTypes, ResetTo
<1>26. CASE OtaAborts
  BY <1>26
     DEF OtaAborts, OtaRests, AbortUpdate, Release, flashVars, StoreTypes
<1>27. ASSUME NEW cause \in {"trusted", "untrusted"}, Reset(cause)
      PROVE  StoreTypes'
  BY <1>27 DEF Reset, ResetTo, flashVars, StoreTypes
<1>28. ASSUME NEW on \in BOOLEAN, Command(on)
      PROVE  StoreTypes'
  BY <1>28 DEF Command, Call, flashVars, bootVars, StoreTypes
<1> QED
  BY <1>1, <1>2, <1>3, <1>4, <1>5, <1>6, <1>7, <1>8, <1>9, <1>10, <1>11, <1>12, <1>13, <1>14,
     <1>15, <1>16, <1>17, <1>18, <1>19, <1>20, <1>21, <1>22, <1>23, <1>24, <1>25, <1>26, <1>27,
     <1>28
     DEF Next, AppMain, StopSteps, Ota

\* The schedules, the saves under way and the bounds.
LEMMA OtherTypesStep ==
  ASSUME SlotTypes, StoreTypes, PlaceTypes, FlagTypes, OtherTypes, Next
  PROVE  OtherTypes'
<1> USE BootAssumption
<1>1. CASE Bootloader
  BY <1>1
     DEF Bootloader, AfterBoot, Other, outputVars, boundVars, OtherTypes
<1>2. CASE Plain
  BY <1>2
     DEF Plain, Step, Proceed, Fail, outputVars, boundVars, OtherTypes
<1>3. CASE StartNvs
  BY <1>3
     DEF StartNvs, Step, Proceed, Fail, outputVars, boundVars, OtherTypes
<1>4. CASE MotorStep
  BY <1>4
     DEF MotorStep, Step, Proceed, Fail, outputVars, boundVars, OtherTypes
<1>5. CASE LoadSchedules
  BY <1>5
     DEF LoadSchedules, Step, Proceed, Fail, outputVars, boundVars, OtherTypes, StoreTypes
<1>6. CASE InhibitUntrusted
  BY <1>6
     DEF InhibitUntrusted, Step, Proceed, HoldSchedules, Inhibit, InhibitLatches,
         InhibitExpires, outputVars, boundVars, OtherTypes
<1>7. CASE CommitZero
  BY <1>7
     DEF CommitZero, Step, Proceed, Fail, SaveTargets, outputVars, boundVars, OtherTypes
<1>8. CASE Confirm
  BY <1>8
     DEF Confirm, Step, Proceed, Fail, outputVars, boundVars, OtherTypes
<1>9. CASE RestoreTargets
  BY <1>9
     DEF RestoreTargets, Step, Proceed, Restores, MayMove, outputVars, boundVars, OtherTypes
<1>10. CASE EnableOutput
  BY <1>10
     DEF EnableOutput, Step, EnableIfSafe, MayMove, Fail, outputVars, boundVars, OtherTypes
<1>11. CASE SafeStop
  BY <1>11
     DEF SafeStop, Inhibit, InhibitLatches, InhibitExpires, SaveTargets, outputVars,
         boundVars, OtherTypes
<1>12. CASE CommitRollback
  BY <1>12
     DEF CommitRollback, SaveTargets, Holds, outputVars, boundVars, OtherTypes
<1>13. CASE RollBack
  BY <1>13, ResetMeans, Places
     DEF RollBack, Rest, OtherTypes, boundVars
<1>14. CASE NoFallback
  BY <1>14
     DEF NoFallback, Holds, outputVars, boundVars, OtherTypes
<1>15. CASE AsyncSave
  BY <1>15
     DEF AsyncSave, outputVars, boundVars, OtherTypes
<1>16. CASE ArmSchedules
  BY <1>16
     DEF ArmSchedules, Call, outputVars, boundVars, OtherTypes
<1>17. CASE StopBegins
  <2>1. PICK ok \in BOOLEAN : Inhibit(ok)
    BY <1>17 DEF StopBegins
  <2>2. /\ schedules' \in {"none", "held", "armed"}
        /\ dirty' \in SUBSET {"targets", "plan"}
    BY <2>1, InhibitKeepsTypes
  <2> QED
    BY <1>17, <2>2 DEF StopBegins, Call, OtherTypes
<1>18. CASE StopSaves
  BY <1>18
     DEF StopSaves, SaveTargets, outputVars, boundVars, OtherTypes
<1>19. CASE StopRestarts
  BY <1>19, ResetMeans, Places
     DEF StopRestarts, Rest, OtherTypes, boundVars
<1>20. CASE OtaStarts
  BY <1>20
     DEF OtaStarts, OtaRests, outputVars, boundVars, OtherTypes
<1>21. CASE OtaStopped
  BY <1>21
     DEF OtaStopped, OtaRests, Inhibit, InhibitLatches, InhibitExpires, outputVars,
         boundVars, OtherTypes
<1>22. CASE OtaSaves
  BY <1>22
     DEF OtaSaves, OtaRests, OtaCommit, SaveTargets, Release, outputVars, boundVars, OtherTypes
<1>23. CASE OtaCreates
  BY <1>23
     DEF OtaCreates, OtaRests, outputVars, boundVars, OtherTypes
<1>24. CASE OtaLoads
  BY <1>24
     DEF OtaLoads, OtaRests, Other, outputVars, boundVars, OtherTypes
<1>25. CASE OtaRestarts
  BY <1>25, ResetMeans, Places
     DEF OtaRestarts, Rest, OtherTypes, boundVars
<1>26. CASE OtaAborts
  BY <1>26
     DEF OtaAborts, OtaRests, AbortUpdate, Release, outputVars, boundVars, OtherTypes
<1>27. ASSUME NEW cause \in {"trusted", "untrusted"}, Reset(cause)
      PROVE  OtherTypes'
  <2>1. resets' \in 0..MaxResets
    BY <1>27 DEF Reset, OtherTypes
  <2>2. schedules' = "none" /\ dirty' = {}
    BY <1>27, ResetMeans DEF Reset, Rest
  <2> QED
    BY <1>27, <2>1, <2>2 DEF Reset, OtherTypes
<1>28. ASSUME NEW on \in BOOLEAN, Command(on)
      PROVE  OtherTypes'
  BY <1>28 DEF Command, Call, flashVars, bootVars, OtherTypes
<1> QED
  BY <1>1, <1>2, <1>3, <1>4, <1>5, <1>6, <1>7, <1>8, <1>9, <1>10, <1>11, <1>12, <1>13, <1>14,
     <1>15, <1>16, <1>17, <1>18, <1>19, <1>20, <1>21, <1>22, <1>23, <1>24, <1>25, <1>26, <1>27,
     <1>28
     DEF Next, AppMain, StopSteps, Ota

-----------------------------------------------------------------------------
(* The invariant is kept                                                   *)
\* The step of app_main, its mode and what is turned on go together.
LEMMA CourseStep ==
  ASSUME PlaceTypes, FlagTypes, Course, Slots, Next
  PROVE  Course'
<1>1. CASE Bootloader
  BY <1>1, Places
     DEF Bootloader, AfterBoot, Other, flashVars, bootVars, outputVars, Past, Pending,
         PlaceTypes, FlagTypes, Course, Slots
<1>2. CASE Plain
  BY <1>2, Places, ProceedMeans
     DEF Plain, Step, Fail, flashVars, bootVars, outputVars, Past, Pending, PlaceTypes,
         FlagTypes, Course, Slots
<1>3. CASE StartNvs
  BY <1>3, Places, ProceedMeans
     DEF StartNvs, Step, Fail, flashVars, bootVars, outputVars, Past, Pending, PlaceTypes,
         FlagTypes, Course, Slots
<1>4. CASE MotorStep
  BY <1>4, Places, ProceedMeans
     DEF MotorStep, Step, Fail, flashVars, bootVars, outputVars, Past, Pending, PlaceTypes,
         FlagTypes, Course, Slots
<1>5. CASE LoadSchedules
  BY <1>5, Places, ProceedMeans
     DEF LoadSchedules, Step, Fail, flashVars, bootVars, outputVars, Past, Pending, PlaceTypes,
         FlagTypes, Course, Slots
<1>6. CASE InhibitUntrusted
  BY <1>6, Places, ProceedMeans
     DEF InhibitUntrusted, Step, HoldSchedules, Inhibit, InhibitLatches, InhibitExpires,
         flashVars, bootVars, outputVars, Past, Pending, PlaceTypes, FlagTypes, Course, Slots
<1>7. CASE CommitZero
  BY <1>7, Places, ProceedMeans
     DEF CommitZero, Step, Fail, SaveTargets, flashVars, bootVars, outputVars, Past, Pending,
         PlaceTypes, FlagTypes, Course, Slots
<1>8. CASE Confirm
  BY <1>8, Places, ProceedMeans
     DEF Confirm, Step, Fail, flashVars, bootVars, outputVars, Past, Pending, PlaceTypes,
         FlagTypes, Course, Slots
<1>9. CASE RestoreTargets
  BY <1>9, Places, ProceedMeans
     DEF RestoreTargets, Step, Restores, MayMove, flashVars, bootVars, outputVars, Past,
         Pending, PlaceTypes, FlagTypes, Course, Slots
<1>10. CASE EnableOutput
  BY <1>10, Places
     DEF EnableOutput, Step, EnableIfSafe, MayMove, Fail, flashVars, bootVars, outputVars,
         Past, Pending, PlaceTypes, FlagTypes, Course, Slots
<1>11. CASE SafeStop
  BY <1>11, Places
     DEF SafeStop, Inhibit, InhibitLatches, InhibitExpires, SaveTargets, flashVars, bootVars,
         outputVars, Past, Pending, PlaceTypes, FlagTypes, Course, Slots
<1>12. CASE CommitRollback
  BY <1>12, Places
     DEF CommitRollback, SaveTargets, Holds, flashVars, bootVars, outputVars, Past, Pending,
         PlaceTypes, FlagTypes, Course, Slots
<1>13. CASE RollBack
  BY <1>13, ResetMeans, Places
     DEF RollBack, Rest, Past, flashVars, Pending, PlaceTypes, FlagTypes, Course, Slots
<1>14. CASE NoFallback
  BY <1>14, Places
     DEF NoFallback, Holds, flashVars, bootVars, outputVars, Past, Pending, PlaceTypes,
         FlagTypes, Course, Slots
<1>15. CASE AsyncSave
  BY <1>15, Places
     DEF AsyncSave, flashVars, bootVars, outputVars, Past, Pending, PlaceTypes, FlagTypes,
         Course, Slots
<1>16. CASE ArmSchedules
  BY <1>16, Places
     DEF ArmSchedules, Call, flashVars, bootVars, outputVars, Past, Pending, PlaceTypes,
         FlagTypes, Course, Slots
<1>17. CASE StopBegins
  BY <1>17, Places
     DEF StopBegins, Call, Inhibit, InhibitLatches, InhibitExpires, flashVars, bootVars,
         outputVars, Past, Pending, PlaceTypes, FlagTypes, Course, Slots
<1>18. CASE StopSaves
  BY <1>18, Places
     DEF StopSaves, SaveTargets, flashVars, bootVars, outputVars, Past, Pending, PlaceTypes,
         FlagTypes, Course, Slots
<1>19. CASE StopRestarts
  BY <1>19, ResetMeans, Places
     DEF StopRestarts, Rest, Past, flashVars, Pending, PlaceTypes, FlagTypes, Course, Slots
<1>20. CASE OtaStarts
  BY <1>20, Places
     DEF OtaStarts, OtaRests, flashVars, bootVars, outputVars, Past, Pending, PlaceTypes,
         FlagTypes, Course, Slots
<1>21. CASE OtaStopped
  BY <1>21, Places
     DEF OtaStopped, OtaRests, Inhibit, InhibitLatches, InhibitExpires, flashVars, bootVars,
         outputVars, Past, Pending, PlaceTypes, FlagTypes, Course, Slots
<1>22. CASE OtaSaves
  BY <1>22, Places
     DEF OtaSaves, OtaRests, OtaCommit, SaveTargets, Release, flashVars, bootVars, outputVars,
         Past, Pending, PlaceTypes, FlagTypes, Course, Slots
<1>23. CASE OtaCreates
  BY <1>23, Places
     DEF OtaCreates, OtaRests, flashVars, bootVars, outputVars, Past, Pending, PlaceTypes,
         FlagTypes, Course, Slots
<1>24. CASE OtaLoads
  BY <1>24, Places
     DEF OtaLoads, OtaRests, Other, flashVars, bootVars, outputVars, Past, Pending, PlaceTypes,
         FlagTypes, Course, Slots
<1>25. CASE OtaRestarts
  BY <1>25, ResetMeans, Places
     DEF OtaRestarts, Rest, Past, flashVars, Pending, PlaceTypes, FlagTypes, Course, Slots
<1>26. CASE OtaAborts
  BY <1>26, Places
     DEF OtaAborts, OtaRests, AbortUpdate, Release, flashVars, bootVars, outputVars, Past,
         Pending, PlaceTypes, FlagTypes, Course, Slots
<1>27. ASSUME NEW cause \in {"trusted", "untrusted"}, Reset(cause)
      PROVE  Course'
  BY <1>27, ResetMeans, Places DEF Reset, Rest, Past, flashVars, Pending, PlaceTypes,
                                   FlagTypes, Course, Slots
<1>28. ASSUME NEW on \in BOOLEAN, Command(on)
      PROVE  Course'
  BY <1>28, Places DEF Command, Call, MayMove, Past, flashVars, bootVars, outputVars, Pending,
                       PlaceTypes, FlagTypes, Course, Slots
<1> QED
  BY <1>1, <1>2, <1>3, <1>4, <1>5, <1>6, <1>7, <1>8, <1>9, <1>10, <1>11, <1>12, <1>13, <1>14,
     <1>15, <1>16, <1>17, <1>18, <1>19, <1>20, <1>21, <1>22, <1>23, <1>24, <1>25, <1>26, <1>27,
     <1>28
     DEF Next, AppMain, StopSteps, Ota

\* One image is confirmed at any time, and only a confirmed one is replaced.
LEMMA SlotsStep ==
  ASSUME SlotTypes, PlaceTypes, Course, Slots, Next
  PROVE  Slots'
<1>1. CASE Bootloader
  BY <1>1, Places
     DEF Bootloader, AfterBoot, Other, flashVars, bootVars, Past, Pending, Partitions,
         SlotTypes, PlaceTypes, Course, Slots
<1>2. CASE Plain
  BY <1>2, Places, ProceedMeans
     DEF Plain, Step, Fail, flashVars, bootVars, Past, Pending, Partitions, Other, SlotTypes,
         PlaceTypes, Course, Slots
<1>3. CASE StartNvs
  BY <1>3, Places, ProceedMeans
     DEF StartNvs, Step, Fail, flashVars, bootVars, Past, Pending, Partitions, Other,
         SlotTypes, PlaceTypes, Course, Slots
<1>4. CASE MotorStep
  BY <1>4, Places, ProceedMeans
     DEF MotorStep, Step, Fail, flashVars, bootVars, Past, Pending, Partitions, Other,
         SlotTypes, PlaceTypes, Course, Slots
<1>5. CASE LoadSchedules
  BY <1>5, Places, ProceedMeans
     DEF LoadSchedules, Step, Fail, flashVars, bootVars, Past, Pending, Partitions, Other,
         SlotTypes, PlaceTypes, Course, Slots
<1>6. CASE InhibitUntrusted
  BY <1>6, Places, ProceedMeans
     DEF InhibitUntrusted, Step, HoldSchedules, Inhibit, InhibitLatches, InhibitExpires,
         flashVars, bootVars, Past, Pending, Partitions, Other, SlotTypes, PlaceTypes,
         Course, Slots
<1>7. CASE CommitZero
  BY <1>7, Places, ProceedMeans
     DEF CommitZero, Step, Fail, SaveTargets, flashVars, bootVars, Past, Pending, Partitions,
         Other, SlotTypes, PlaceTypes, Course, Slots
<1>8. CASE Confirm
  <2>1. mode = "booting" /\ mode' # "reset" /\ UNCHANGED <<running, chosen>>
    BY <1>8 DEF Confirm, Step, Proceed, Fail
  <2>2. \/ image' = image /\ (at' = at \/ ~Pending)
        \/ image' = [image EXCEPT ![running] = "valid"]
    BY <1>8 DEF Confirm, Step, Proceed, Fail, Healthy
  <2>3. CASE image' = image /\ (at' = at \/ ~Pending)
    BY <2>1, <2>3, Places DEF Slots, Pending, Past
  <2>4. CASE image' = [image EXCEPT ![running] = "valid"]
    <3>1. image'[running] = "valid" /\ \A p \in Partitions : image'[p] \in {"valid", image[p]}
      BY <2>4 DEF SlotTypes
    <3>2. \A p \in Partitions : image[p] # "new"
      BY <2>1 DEF Slots
    <3> QED
      BY <2>1, <3>1, <3>2 DEF Slots, Pending, Partitions, Other
  <2> QED
    BY <2>2, <2>3, <2>4
<1>9. CASE RestoreTargets
  BY <1>9, Places, ProceedMeans
     DEF RestoreTargets, Step, Restores, MayMove, flashVars, bootVars, Past, Pending,
         Partitions, Other, SlotTypes, PlaceTypes, Course, Slots
<1>10. CASE EnableOutput
  BY <1>10, Places
     DEF EnableOutput, Step, EnableIfSafe, MayMove, Fail, flashVars, bootVars, Past, Pending,
         Partitions, Other, SlotTypes, PlaceTypes, Course, Slots
<1>11. CASE SafeStop
  BY <1>11, Places
     DEF SafeStop, Inhibit, InhibitLatches, InhibitExpires, SaveTargets, flashVars, bootVars,
         Past, Pending, Partitions, Other, SlotTypes, PlaceTypes, Course, Slots
<1>12. CASE CommitRollback
  BY <1>12, Places
     DEF CommitRollback, SaveTargets, Holds, flashVars, bootVars, Past, Pending, Partitions,
         Other, SlotTypes, PlaceTypes, Course, Slots
<1>13. CASE RollBack
  <2>1. at' = "init" /\ mode' = "reset" /\ UNCHANGED <<running, chosen>>
    BY <1>13, ResetMeans DEF RollBack, Rest
  <2>2. ~(Past("confirm"))'
    BY <2>1, Places DEF Past
  <2>3. /\ image[Other(running)] = "valid" /\ Other(running) \in Partitions
        /\ image' = [image EXCEPT ![running] = "invalid"]
    BY <1>13 DEF RollBack, SlotTypes, Partitions, Other
  <2>4. image'[Other(running)] = "valid" /\ image'[running] = "invalid"
    BY <2>3 DEF SlotTypes, Partitions, Other
  <2>5. \A p \in Partitions : image'[p] # "new"
    BY <2>3, <2>4 DEF SlotTypes, Partitions, Other
  <2>6. \A p \in Partitions : image'[p] = "valid" \/ image'[Other(p)] = "valid"
    BY <2>4 DEF SlotTypes, Partitions, Other
  <2> QED
    BY <2>1, <2>2, <2>5, <2>6 DEF Slots
<1>14. CASE NoFallback
  BY <1>14, Places
     DEF NoFallback, Holds, flashVars, bootVars, Past, Pending, Partitions, Other, SlotTypes,
         PlaceTypes, Course, Slots
<1>15. CASE AsyncSave
  BY <1>15, Places
     DEF AsyncSave, flashVars, bootVars, Past, Pending, Partitions, Other, SlotTypes,
         PlaceTypes, Course, Slots
<1>16. CASE ArmSchedules
  BY <1>16, Places
     DEF ArmSchedules, Call, flashVars, bootVars, Past, Pending, Partitions, Other, SlotTypes,
         PlaceTypes, Course, Slots
<1>17. CASE StopBegins
  BY <1>17, Places
     DEF StopBegins, Call, Inhibit, InhibitLatches, InhibitExpires, flashVars, bootVars,
         Past, Pending, Partitions, Other, SlotTypes, PlaceTypes, Course, Slots
<1>18. CASE StopSaves
  BY <1>18, Places
     DEF StopSaves, SaveTargets, flashVars, bootVars, Past, Pending, Partitions, Other,
         SlotTypes, PlaceTypes, Course, Slots
<1>19. CASE StopRestarts
  <2>1. at' = "init" /\ mode' = "reset" /\ UNCHANGED <<image, chosen>>
    BY <1>19, ResetMeans DEF StopRestarts, Rest, flashVars
  <2>2. ~(Past("confirm"))'
    BY <2>1, Places DEF Past
  <2> QED
    BY <2>1, <2>2 DEF Slots
<1>20. CASE OtaStarts
  BY <1>20, Places
     DEF OtaStarts, OtaRests, flashVars, bootVars, Past, Pending, Partitions, Other, SlotTypes,
         PlaceTypes, Course, Slots
<1>21. CASE OtaStopped
  BY <1>21, Places
     DEF OtaStopped, OtaRests, Inhibit, InhibitLatches, InhibitExpires, flashVars, bootVars,
         Past, Pending, Partitions, Other, SlotTypes, PlaceTypes, Course, Slots
<1>22. CASE OtaSaves
  BY <1>22, Places
     DEF OtaSaves, OtaRests, OtaCommit, SaveTargets, Release, flashVars, bootVars, Past,
         Pending, Partitions, Other, SlotTypes, PlaceTypes, Course, Slots
<1>23. CASE OtaCreates
  BY <1>23, Places
     DEF OtaCreates, OtaRests, flashVars, bootVars, Past, Pending, Partitions, Other,
         SlotTypes, PlaceTypes, Course, Slots
<1>24. CASE OtaLoads
  BY <1>24, Places
     DEF OtaLoads, OtaRests, Other, flashVars, bootVars, Past, Pending, Partitions, SlotTypes,
         PlaceTypes, Course, Slots
<1>25. CASE OtaRestarts
  <2>1. at' = "init" /\ mode' = "reset" /\ UNCHANGED <<image, chosen>>
    BY <1>25, ResetMeans DEF OtaRestarts, Rest, flashVars
  <2>2. ~(Past("confirm"))'
    BY <2>1, Places DEF Past
  <2> QED
    BY <2>1, <2>2 DEF Slots
<1>26. CASE OtaAborts
  BY <1>26, Places
     DEF OtaAborts, OtaRests, AbortUpdate, Release, flashVars, bootVars, Past, Pending,
         Partitions, Other, SlotTypes, PlaceTypes, Course, Slots
<1>27. ASSUME NEW cause \in {"trusted", "untrusted"}, Reset(cause)
      PROVE  Slots'
  <2>1. at' = "init" /\ mode' = "reset" /\ UNCHANGED <<image, chosen>>
    BY <1>27, ResetMeans DEF Reset, Rest, flashVars
  <2>2. ~(Past("confirm"))'
    BY <2>1, Places DEF Past
  <2> QED
    BY <2>1, <2>2 DEF Slots
<1>28. ASSUME NEW on \in BOOLEAN, Command(on)
      PROVE  Slots'
  BY <1>28, Places DEF Command, Call, MayMove, Past, flashVars, bootVars, Pending, Partitions,
                       Other, SlotTypes, PlaceTypes, Course, Slots
<1> QED
  BY <1>1, <1>2, <1>3, <1>4, <1>5, <1>6, <1>7, <1>8, <1>9, <1>10, <1>11, <1>12, <1>13, <1>14,
     <1>15, <1>16, <1>17, <1>18, <1>19, <1>20, <1>21, <1>22, <1>23, <1>24, <1>25, <1>26, <1>27,
     <1>28
     DEF Next, AppMain, StopSteps, Ota

\* What an update holds stays held until its image is confirmed.
LEMMA HeldStep ==
  ASSUME SlotTypes, PlaceTypes, Course, Slots, Held, Next
  PROVE  Held'
<1>1. CASE Bootloader
  <2>1. /\ mode = "reset" /\ mode' = "booting" /\ at = "init" /\ Rest
        /\ UNCHANGED <<plan, schedules, schedulesLatched, ota>>
    BY <1>1 DEF Bootloader, Course, outputVars
  <2>2. image' = [image EXCEPT ![chosen] = AfterBoot(chosen)] /\ chosen \in Partitions
    BY <1>1 DEF Bootloader, SlotTypes
  <2>3. \A p \in Partitions : image'[p] # "new"
    <3> TAKE p \in Partitions
    <3>1. CASE p = chosen
      BY <2>2, <3>1 DEF AfterBoot, SlotTypes
    <3>2. CASE p # chosen
      BY <2>2, <3>2 DEF SlotTypes, Slots
    <3> QED
      BY <3>1, <3>2
  <2>4. Pending' => image[chosen] = "new"
    <3>1. running' = IF image[chosen] \in {"new", "valid"} THEN chosen ELSE Other(chosen)
      BY <1>1 DEF Bootloader
    <3>2. CASE image[chosen] \in {"new", "valid"}
      BY <2>2, <3>1, <3>2 DEF AfterBoot, SlotTypes, Pending
    <3>3. CASE image[chosen] \notin {"new", "valid"}
      <4>1. image[Other(chosen)] = "valid" /\ Other(chosen) # chosen /\ Other(chosen) \in Partitions
        BY <2>2, <3>3 DEF Slots, Other, Partitions
      <4> QED
        BY <2>2, <3>1, <3>3, <4>1 DEF SlotTypes, Pending
    <3> QED
      BY <3>2, <3>3
  <2> QED
    BY <2>1, <2>2, <2>3, <2>4 DEF Held, Rest
<1>2. CASE Plain
  BY <1>2, Places, ProceedMeans
     DEF Plain, Step, Fail, flashVars, bootVars, outputVars, Past, Pending, Partitions, Other,
         SlotTypes, PlaceTypes, Course, Slots, Held
<1>3. CASE StartNvs
  BY <1>3, Places, ProceedMeans
     DEF StartNvs, Step, Fail, flashVars, bootVars, outputVars, Past, Pending, Partitions,
         Other, SlotTypes, PlaceTypes, Course, Slots, Held
<1>4. CASE MotorStep
  BY <1>4, Places, ProceedMeans
     DEF MotorStep, Step, Fail, flashVars, bootVars, outputVars, Past, Pending, Partitions,
         Other, SlotTypes, PlaceTypes, Course, Slots, Held
<1>5. CASE LoadSchedules
  BY <1>5, Places, ProceedMeans
     DEF LoadSchedules, Step, Fail, flashVars, bootVars, outputVars, Past, Pending, Partitions,
         Other, SlotTypes, PlaceTypes, Course, Slots, Held
<1>6. CASE InhibitUntrusted
  BY <1>6, Places, ProceedMeans
     DEF InhibitUntrusted, Step, HoldSchedules, Inhibit, InhibitLatches, InhibitExpires,
         flashVars, bootVars, outputVars, Past, Pending, Partitions, Other, SlotTypes,
         PlaceTypes, Course, Slots, Held
<1>7. CASE CommitZero
  BY <1>7, Places, ProceedMeans
     DEF CommitZero, Step, Fail, SaveTargets, flashVars, bootVars, outputVars, Past, Pending,
         Partitions, Other, SlotTypes, PlaceTypes, Course, Slots, Held
<1>8. CASE Confirm
  BY <1>8, Places, ProceedMeans
     DEF Confirm, Step, Fail, flashVars, bootVars, outputVars, Past, Pending, Partitions,
         Other, SlotTypes, PlaceTypes, Course, Slots, Held
<1>9. CASE RestoreTargets
  BY <1>9, Places, ProceedMeans
     DEF RestoreTargets, Step, Restores, MayMove, flashVars, bootVars, outputVars, Past,
         Pending, Partitions, Other, SlotTypes, PlaceTypes, Course, Slots, Held
<1>10. CASE EnableOutput
  BY <1>10, Places
     DEF EnableOutput, Step, EnableIfSafe, MayMove, Fail, flashVars, bootVars, outputVars,
         Past, Pending, Partitions, Other, SlotTypes, PlaceTypes, Course, Slots, Held
<1>11. CASE SafeStop
  BY <1>11, Places
     DEF SafeStop, Inhibit, InhibitLatches, InhibitExpires, SaveTargets, flashVars, bootVars,
         outputVars, Past, Pending, Partitions, Other, SlotTypes, PlaceTypes, Course, Slots,
         Held
<1>12. CASE CommitRollback
  BY <1>12, Places
     DEF CommitRollback, SaveTargets, Holds, flashVars, bootVars, outputVars, Past, Pending,
         Partitions, Other, SlotTypes, PlaceTypes, Course, Slots, Held
<1>13. CASE RollBack
  BY <1>13, ResetMeans, Places
     DEF RollBack, Rest, Past, flashVars, Pending, Partitions, Other, SlotTypes, PlaceTypes,
         Course, Slots, Held
<1>14. CASE NoFallback
  BY <1>14, Places
     DEF NoFallback, Holds, flashVars, bootVars, outputVars, Past, Pending, Partitions, Other,
         SlotTypes, PlaceTypes, Course, Slots, Held
<1>15. CASE AsyncSave
  BY <1>15, Places
     DEF AsyncSave, flashVars, bootVars, outputVars, Past, Pending, Partitions, Other,
         SlotTypes, PlaceTypes, Course, Slots, Held
<1>16. CASE ArmSchedules
  BY <1>16, Places
     DEF ArmSchedules, Call, flashVars, bootVars, outputVars, Past, Pending, Partitions, Other,
         SlotTypes, PlaceTypes, Course, Slots, Held
<1>17. CASE StopBegins
  BY <1>17, Places
     DEF StopBegins, Call, Inhibit, InhibitLatches, InhibitExpires, flashVars, bootVars,
         outputVars, Past, Pending, Partitions, Other, SlotTypes, PlaceTypes, Course, Slots,
         Held
<1>18. CASE StopSaves
  BY <1>18, Places
     DEF StopSaves, SaveTargets, flashVars, bootVars, outputVars, Past, Pending, Partitions,
         Other, SlotTypes, PlaceTypes, Course, Slots, Held
<1>19. CASE StopRestarts
  BY <1>19, ResetMeans, Places
     DEF StopRestarts, Rest, Past, flashVars, Pending, Partitions, Other, SlotTypes,
         PlaceTypes, Course, Slots, Held
<1>20. CASE OtaStarts
  BY <1>20, Places
     DEF OtaStarts, OtaRests, flashVars, bootVars, outputVars, Past, Pending, Partitions,
         Other, SlotTypes, PlaceTypes, Course, Slots, Held
<1>21. CASE OtaStopped
  <2>1. /\ mode = "main" /\ at = "done" /\ UNCHANGED <<image, running, mode, at>>
    BY <1>21 DEF OtaStopped, OtaRests, bootVars, Course
  <2>2. /\ Past("scheduler") /\ Past("planner") /\ Past("confirm")
    BY <2>1, Places DEF Past
  <2>3. /\ plan' \in {plan, "held"}
        /\ schedulesLatched' = schedulesLatched \/ schedulesLatched' = TRUE
    BY <1>21, <2>2 DEF OtaStopped, Inhibit, InhibitLatches, InhibitExpires
  <2>4. ota' = "saving" => schedulesLatched' /\ plan' = "held"
    BY <1>21, <2>2 DEF OtaStopped, Inhibit, InhibitLatches, InhibitExpires
  <2>5. ota' \in {"saving", "idle"}
    BY <1>21 DEF OtaStopped
  <2>6. ~Pending'
    BY <2>1, <2>2 DEF Slots, Pending
  <2> QED
    BY <2>1, <2>3, <2>4, <2>5, <2>6 DEF Held
<1>22. CASE OtaSaves
  BY <1>22, Places
     DEF OtaSaves, OtaRests, OtaCommit, SaveTargets, Release, flashVars, bootVars, outputVars,
         Past, Pending, Partitions, Other, SlotTypes, PlaceTypes, Course, Slots, Held
<1>23. CASE OtaCreates
  BY <1>23, Places
     DEF OtaCreates, OtaRests, flashVars, bootVars, outputVars, Past, Pending, Partitions,
         Other, SlotTypes, PlaceTypes, Course, Slots, Held
<1>24. CASE OtaLoads
  BY <1>24, Places
     DEF OtaLoads, OtaRests, Other, flashVars, bootVars, outputVars, Past, Pending, Partitions,
         SlotTypes, PlaceTypes, Course, Slots, Held
<1>25. CASE OtaRestarts
  BY <1>25, ResetMeans, Places
     DEF OtaRestarts, Rest, Past, flashVars, Pending, Partitions, Other, SlotTypes, PlaceTypes,
         Course, Slots, Held
<1>26. CASE OtaAborts
  BY <1>26, Places
     DEF OtaAborts, OtaRests, AbortUpdate, Release, flashVars, bootVars, outputVars, Past,
         Pending, Partitions, Other, SlotTypes, PlaceTypes, Course, Slots, Held
<1>27. ASSUME NEW cause \in {"trusted", "untrusted"}, Reset(cause)
      PROVE  Held'
  BY <1>27, ResetMeans, Places DEF Reset, Rest, Past, flashVars, Pending, Partitions, Other,
                                   SlotTypes, PlaceTypes, Course, Slots, Held
<1>28. ASSUME NEW on \in BOOLEAN, Command(on)
      PROVE  Held'
  BY <1>28, Places DEF Command, Call, MayMove, Past, flashVars, bootVars, outputVars, Pending,
                       Partitions, Other, SlotTypes, PlaceTypes, Course, Slots, Held
<1> QED
  BY <1>1, <1>2, <1>3, <1>4, <1>5, <1>6, <1>7, <1>8, <1>9, <1>10, <1>11, <1>12, <1>13, <1>14,
     <1>15, <1>16, <1>17, <1>18, <1>19, <1>20, <1>21, <1>22, <1>23, <1>24, <1>25, <1>26, <1>27,
     <1>28
     DEF Next, AppMain, StopSteps, Ota

\* What a boot, a rollback or a stop has made zero stays zero.
LEMMA ForgottenStep ==
  ASSUME PlaceTypes, FlagTypes, Course, Slots, Held, Forgotten, Next
  PROVE  Forgotten'
<1>1. CASE Bootloader
  BY <1>1, Places
     DEF Bootloader, AfterBoot, Other, flashVars, bootVars, outputVars, Past, Pending,
         PlaceTypes, FlagTypes, Course, Slots, Held, Forgotten
<1>2. CASE Plain
  BY <1>2, Places, ProceedMeans
     DEF Plain, Step, Fail, flashVars, bootVars, outputVars, Past, Pending, PlaceTypes,
         FlagTypes, Course, Slots, Held, Forgotten
<1>3. CASE StartNvs
  BY <1>3, Places, ProceedMeans
     DEF StartNvs, Step, Fail, flashVars, bootVars, outputVars, Past, Pending, PlaceTypes,
         FlagTypes, Course, Slots, Held, Forgotten
<1>4. CASE MotorStep
  BY <1>4, Places, ProceedMeans
     DEF MotorStep, Step, Fail, flashVars, bootVars, outputVars, Past, Pending, PlaceTypes,
         FlagTypes, Course, Slots, Held, Forgotten
<1>5. CASE LoadSchedules
  BY <1>5, Places, ProceedMeans
     DEF LoadSchedules, Step, Fail, flashVars, bootVars, outputVars, Past, Pending, PlaceTypes,
         FlagTypes, Course, Slots, Held, Forgotten
<1>6. CASE InhibitUntrusted
  <2>1. /\ mode = "booting" /\ at = "inhibit" /\ Order[at'] = 10 /\ at' \in DOMAIN Order
        /\ UNCHANGED <<mode, reason, stop, kept, wanted, latched>>
    BY <1>6, Places, ProceedMeans DEF InhibitUntrusted, Step
  <2>2. stop = "idle"
    BY <2>1, Places DEF Course, Past
  <2>3. reason = "untrusted" => error' \/ (schedulesLatched' /\ plan' = "held")
    <3> SUFFICES ASSUME reason = "untrusted" PROVE error' \/ (schedulesLatched' /\ plan' = "held")
      OBVIOUS
    <3>1. PICK ok \in BOOLEAN : Inhibit(ok) /\ error' = ~ok
      BY <1>6 DEF InhibitUntrusted, HoldSchedules
    <3>2. Past("scheduler") /\ Past("planner")
      BY <2>1, Places DEF Past
    <3> QED
      BY <3>1, <3>2 DEF Inhibit, InhibitLatches, InhibitExpires
  <2>4. ~(Past("zero"))'
    BY <2>1, Places DEF Past
  <2> QED
    BY <2>1, <2>2, <2>3, <2>4 DEF Forgotten
<1>7. CASE CommitZero
  BY <1>7, Places, ProceedMeans
     DEF CommitZero, Step, Fail, SaveTargets, flashVars, bootVars, outputVars, Past, Pending,
         PlaceTypes, FlagTypes, Course, Slots, Held, Forgotten
<1>8. CASE Confirm
  BY <1>8, Places, ProceedMeans
     DEF Confirm, Step, Fail, flashVars, bootVars, outputVars, Past, Pending, PlaceTypes,
         FlagTypes, Course, Slots, Held, Forgotten
<1>9. CASE RestoreTargets
  <2>1. /\ mode = "booting" /\ at = "restore" /\ Order[at'] = 14
        /\ UNCHANGED <<mode, reason, stop, kept, latched, plan, schedulesLatched, error>>
    BY <1>9, Places, ProceedMeans DEF RestoreTargets, Step, flashVars
  <2>2. reason = "untrusted" \/ latched => ~wanted'
    BY <1>9 DEF RestoreTargets, Restores, MayMove
  <2>3. Past("inhibit") /\ Past("zero")
    BY <2>1, Places DEF Past
  <2> QED
    BY <2>1, <2>2, <2>3 DEF Forgotten
<1>10. CASE EnableOutput
  BY <1>10, Places
     DEF EnableOutput, Step, EnableIfSafe, MayMove, Fail, flashVars, bootVars, outputVars,
         Past, Pending, PlaceTypes, FlagTypes, Course, Slots, Held, Forgotten
<1>11. CASE SafeStop
  BY <1>11, Places
     DEF SafeStop, Inhibit, InhibitLatches, InhibitExpires, SaveTargets, flashVars, bootVars,
         outputVars, Past, Pending, PlaceTypes, FlagTypes, Course, Slots, Held, Forgotten
<1>12. CASE CommitRollback
  BY <1>12, Places
     DEF CommitRollback, SaveTargets, Holds, flashVars, bootVars, outputVars, Past, Pending,
         PlaceTypes, FlagTypes, Course, Slots, Held, Forgotten
<1>13. CASE RollBack
  BY <1>13, ResetMeans, Places
     DEF RollBack, Rest, Past, flashVars, Pending, PlaceTypes, FlagTypes, Course, Slots, Held,
         Forgotten
<1>14. CASE NoFallback
  BY <1>14, Places
     DEF NoFallback, Holds, flashVars, bootVars, outputVars, Past, Pending, PlaceTypes,
         FlagTypes, Course, Slots, Held, Forgotten
<1>15. CASE AsyncSave
  BY <1>15, Places
     DEF AsyncSave, flashVars, bootVars, outputVars, Past, Pending, PlaceTypes, FlagTypes,
         Course, Slots, Held, Forgotten
<1>16. CASE ArmSchedules
  BY <1>16, Places
     DEF ArmSchedules, Call, flashVars, bootVars, outputVars, Past, Pending, PlaceTypes,
         FlagTypes, Course, Slots, Held, Forgotten
<1>17. CASE StopBegins
  <2>1. /\ Past("watch") /\ Past("callbacks") /\ Past("inhibit") /\ Past("scheduler")
        /\ Past("planner") /\ Past("zero")
    BY <1>17, Places DEF StopBegins, Past, PlaceTypes
  <2>2. latched' = TRUE /\ wanted' = FALSE /\ UNCHANGED <<kept, mode, at, reason, error>>
    BY <1>17 DEF StopBegins, bootVars
  <2>3. PICK zero \in BOOLEAN, inhibited \in BOOLEAN :
          Inhibit(inhibited) /\ stop' = IF StopSucceeds(zero, inhibited) THEN "saving" ELSE "unheld"
    BY <1>17 DEF StopBegins
  <2>4. inhibited \/ (schedulesLatched /\ plan = "held")
          => schedulesLatched' /\ plan' = "held"
    BY <2>1, <2>3 DEF Inhibit, InhibitLatches, InhibitExpires
  <2>5. stop' \in {"saving", "unheld"} /\ (stop' = "saving" => inhibited)
    BY <2>1, <2>3 DEF StopSucceeds
  <2> QED
    BY <2>1, <2>2, <2>4, <2>5 DEF Forgotten, Past
<1>18. CASE StopSaves
  BY <1>18, Places
     DEF StopSaves, SaveTargets, flashVars, bootVars, outputVars, Past, Pending, PlaceTypes,
         FlagTypes, Course, Slots, Held, Forgotten
<1>19. CASE StopRestarts
  BY <1>19, ResetMeans, Places
     DEF StopRestarts, Rest, Past, flashVars, Pending, PlaceTypes, FlagTypes, Course, Slots,
         Held, Forgotten
<1>20. CASE OtaStarts
  BY <1>20, Places
     DEF OtaStarts, OtaRests, flashVars, bootVars, outputVars, Past, Pending, PlaceTypes,
         FlagTypes, Course, Slots, Held, Forgotten
<1>21. CASE OtaStopped
  BY <1>21, Places
     DEF OtaStopped, OtaRests, Inhibit, InhibitLatches, InhibitExpires, flashVars, bootVars,
         outputVars, Past, Pending, PlaceTypes, FlagTypes, Course, Slots, Held, Forgotten
<1>22. CASE OtaSaves
  BY <1>22, Places
     DEF OtaSaves, OtaRests, OtaCommit, SaveTargets, Release, flashVars, bootVars, outputVars,
         Past, Pending, PlaceTypes, FlagTypes, Course, Slots, Held, Forgotten
<1>23. CASE OtaCreates
  BY <1>23, Places
     DEF OtaCreates, OtaRests, flashVars, bootVars, outputVars, Past, Pending, PlaceTypes,
         FlagTypes, Course, Slots, Held, Forgotten
<1>24. CASE OtaLoads
  BY <1>24, Places
     DEF OtaLoads, OtaRests, Other, flashVars, bootVars, outputVars, Past, Pending, PlaceTypes,
         FlagTypes, Course, Slots, Held, Forgotten
<1>25. CASE OtaRestarts
  BY <1>25, ResetMeans, Places
     DEF OtaRestarts, Rest, Past, flashVars, Pending, PlaceTypes, FlagTypes, Course, Slots,
         Held, Forgotten
<1>26. CASE OtaAborts
  BY <1>26, Places
     DEF OtaAborts, OtaRests, AbortUpdate, Release, flashVars, bootVars, outputVars, Past,
         Pending, PlaceTypes, FlagTypes, Course, Slots, Held, Forgotten
<1>27. ASSUME NEW cause \in {"trusted", "untrusted"}, Reset(cause)
      PROVE  Forgotten'
  BY <1>27, ResetMeans, Places DEF Reset, Rest, Past, flashVars, Pending, PlaceTypes,
                                   FlagTypes, Course, Slots, Held, Forgotten
<1>28. ASSUME NEW on \in BOOLEAN, Command(on)
      PROVE  Forgotten'
  BY <1>28, Places DEF Command, Call, MayMove, Past, flashVars, bootVars, outputVars, Pending,
                       PlaceTypes, FlagTypes, Course, Slots, Held, Forgotten
<1> QED
  BY <1>1, <1>2, <1>3, <1>4, <1>5, <1>6, <1>7, <1>8, <1>9, <1>10, <1>11, <1>12, <1>13, <1>14,
     <1>15, <1>16, <1>17, <1>18, <1>19, <1>20, <1>21, <1>22, <1>23, <1>24, <1>25, <1>26, <1>27,
     <1>28
     DEF Next, AppMain, StopSteps, Ota

\* No step beside an update leaves a target that its restart forgets.
LEMMA ResumableStep ==
  ASSUME PlaceTypes, FlagTypes, Course, Resumable, Next
  PROVE  Resumable'
<1>1. CASE Bootloader
  BY <1>1, Places
     DEF Bootloader, AfterBoot, Other, flashVars, bootVars, outputVars, Past, PlaceTypes,
         FlagTypes, Course, Resumable
<1>2. CASE Plain
  BY <1>2, Places, ProceedMeans
     DEF Plain, Step, Fail, flashVars, bootVars, outputVars, Past, PlaceTypes, FlagTypes,
         Course, Resumable
<1>3. CASE StartNvs
  BY <1>3, Places, ProceedMeans
     DEF StartNvs, Step, Fail, flashVars, bootVars, outputVars, Past, PlaceTypes, FlagTypes,
         Course, Resumable
<1>4. CASE MotorStep
  BY <1>4, Places, ProceedMeans
     DEF MotorStep, Step, Fail, flashVars, bootVars, outputVars, Past, PlaceTypes, FlagTypes,
         Course, Resumable
<1>5. CASE LoadSchedules
  BY <1>5, Places, ProceedMeans
     DEF LoadSchedules, Step, Fail, flashVars, bootVars, outputVars, Past, PlaceTypes,
         FlagTypes, Course, Resumable
<1>6. CASE InhibitUntrusted
  BY <1>6, Places, ProceedMeans
     DEF InhibitUntrusted, Step, HoldSchedules, Inhibit, InhibitLatches, InhibitExpires,
         flashVars, bootVars, outputVars, Past, PlaceTypes, FlagTypes, Course, Resumable
<1>7. CASE CommitZero
  BY <1>7, Places, ProceedMeans
     DEF CommitZero, Step, Fail, SaveTargets, flashVars, bootVars, outputVars, Past,
         PlaceTypes, FlagTypes, Course, Resumable
<1>8. CASE Confirm
  BY <1>8, Places, ProceedMeans
     DEF Confirm, Step, Fail, flashVars, bootVars, outputVars, Past, PlaceTypes, FlagTypes,
         Course, Resumable
<1>9. CASE RestoreTargets
  BY <1>9, Places, ProceedMeans
     DEF RestoreTargets, Step, Restores, MayMove, flashVars, bootVars, outputVars, Past,
         PlaceTypes, FlagTypes, Course, Resumable
<1>10. CASE EnableOutput
  BY <1>10, Places
     DEF EnableOutput, Step, EnableIfSafe, MayMove, Fail, flashVars, bootVars, outputVars,
         Past, PlaceTypes, FlagTypes, Course, Resumable
<1>11. CASE SafeStop
  BY <1>11, Places
     DEF SafeStop, Inhibit, InhibitLatches, InhibitExpires, SaveTargets, flashVars, bootVars,
         outputVars, Past, PlaceTypes, FlagTypes, Course, Resumable
<1>12. CASE CommitRollback
  BY <1>12, Places
     DEF CommitRollback, SaveTargets, Holds, flashVars, bootVars, outputVars, Past, PlaceTypes,
         FlagTypes, Course, Resumable
<1>13. CASE RollBack
  BY <1>13, ResetMeans, Places
     DEF RollBack, Rest, Past, flashVars, PlaceTypes, FlagTypes, Course, Resumable
<1>14. CASE NoFallback
  BY <1>14, Places
     DEF NoFallback, Holds, flashVars, bootVars, outputVars, Past, PlaceTypes, FlagTypes,
         Course, Resumable
<1>15. CASE AsyncSave
  BY <1>15, Places
     DEF AsyncSave, flashVars, bootVars, outputVars, Past, PlaceTypes, FlagTypes, Course,
         Resumable
<1>16. CASE ArmSchedules
  BY <1>16, Places
     DEF ArmSchedules, Call, flashVars, bootVars, outputVars, Past, PlaceTypes, FlagTypes,
         Course, Resumable
<1>17. CASE StopBegins
  BY <1>17, Places
     DEF StopBegins, Call, Inhibit, InhibitLatches, InhibitExpires, flashVars, bootVars,
         outputVars, Past, PlaceTypes, FlagTypes, Course, Resumable
<1>18. CASE StopSaves
  BY <1>18, Places
     DEF StopSaves, SaveTargets, flashVars, bootVars, outputVars, Past, PlaceTypes, FlagTypes,
         Course, Resumable
<1>19. CASE StopRestarts
  BY <1>19, ResetMeans, Places
     DEF StopRestarts, Rest, Past, flashVars, PlaceTypes, FlagTypes, Course, Resumable
<1>20. CASE OtaStarts
  BY <1>20, Places
     DEF OtaStarts, OtaRests, flashVars, bootVars, outputVars, Past, PlaceTypes, FlagTypes,
         Course, Resumable
<1>21. CASE OtaStopped
  BY <1>21, Places
     DEF OtaStopped, OtaRests, Inhibit, InhibitLatches, InhibitExpires, flashVars, bootVars,
         outputVars, Past, PlaceTypes, FlagTypes, Course, Resumable
<1>22. CASE OtaSaves
  BY <1>22, Places
     DEF OtaSaves, OtaRests, OtaCommit, SaveTargets, Release, flashVars, bootVars, outputVars,
         Past, PlaceTypes, FlagTypes, Course, Resumable
<1>23. CASE OtaCreates
  BY <1>23, Places
     DEF OtaCreates, OtaRests, flashVars, bootVars, outputVars, Past, PlaceTypes, FlagTypes,
         Course, Resumable
<1>24. CASE OtaLoads
  BY <1>24, Places
     DEF OtaLoads, OtaRests, Other, flashVars, bootVars, outputVars, Past, PlaceTypes,
         FlagTypes, Course, Resumable
<1>25. CASE OtaRestarts
  BY <1>25, ResetMeans, Places
     DEF OtaRestarts, Rest, Past, flashVars, PlaceTypes, FlagTypes, Course, Resumable
<1>26. CASE OtaAborts
  BY <1>26, Places
     DEF OtaAborts, OtaRests, AbortUpdate, Release, flashVars, bootVars, outputVars, Past,
         PlaceTypes, FlagTypes, Course, Resumable
<1>27. ASSUME NEW cause \in {"trusted", "untrusted"}, Reset(cause)
      PROVE  Resumable'
  BY <1>27, ResetMeans, Places DEF Reset, Rest, Past, flashVars, PlaceTypes, FlagTypes, Course,
                                   Resumable
<1>28. ASSUME NEW on \in BOOLEAN, Command(on)
      PROVE  Resumable'
  BY <1>28, Places DEF Command, Call, MayMove, Past, flashVars, bootVars, outputVars,
                       PlaceTypes, FlagTypes, Course, Resumable
<1> QED
  BY <1>1, <1>2, <1>3, <1>4, <1>5, <1>6, <1>7, <1>8, <1>9, <1>10, <1>11, <1>12, <1>13, <1>14,
     <1>15, <1>16, <1>17, <1>18, <1>19, <1>20, <1>21, <1>22, <1>23, <1>24, <1>25, <1>26, <1>27,
     <1>28
     DEF Next, AppMain, StopSteps, Ota

\* The initialisation of the fans is a step of its own, and a reset undoes it.
LEMMA FansStep ==
  ASSUME MotorInitTypeOK, Unfolding, Next
  PROVE  MotorInitTypeOK' /\ Unfolding'
<1>1. ASSUME UNCHANGED motorInitVars
      PROVE  MotorInitTypeOK' /\ Unfolding'
  BY <1>1 DEF motorInitVars, MotorInitTypeOK, Unfolding, LeftoversReachable, Reached, Stoppable
<1>2. ASSUME MotorsOff'
      PROVE  MotorInitTypeOK' /\ Unfolding'
  <2>1. /\ lifecycle' = "uninitialized" /\ owned' = 0 /\ working' = 0 /\ unclean' = FALSE
        /\ objects' = [m \in Motors |-> {}]
    BY <1>2 DEF MotorsOff
  <2>2. objects' \in [Motors -> SUBSET Pieces] /\ \A m \in Motors : objects'[m] = {}
    BY <2>1
  <2>3. owned' \in 0..MotorCount /\ working' \in -1..MotorCount
    BY <2>1, MotorInitAssumption
  <2> QED
    BY <2>1, <2>2, <2>3 DEF MotorInitTypeOK, Unfolding, LeftoversReachable
<1>3. StartMotors \/ MotorsOff' \/ UNCHANGED motorInitVars
  <2>1. CASE Bootloader \/ AppMain
    <3>1. CASE MotorStep
      BY <3>1 DEF MotorStep
    <3>2. CASE RollBack
      BY <3>2, ResetMeans DEF RollBack, Rest
    <3>3. CASE Bootloader \/ Plain \/ StartNvs \/ LoadSchedules \/ InhibitUntrusted \/ CommitZero
      BY <3>3 DEF Bootloader, Plain, StartNvs, LoadSchedules, InhibitUntrusted, CommitZero
    <3>4. CASE Confirm \/ RestoreTargets \/ EnableOutput \/ SafeStop \/ CommitRollback
               \/ NoFallback
      BY <3>4 DEF Confirm, RestoreTargets, EnableOutput, SafeStop, CommitRollback, NoFallback
    <3> QED
      BY <2>1, <3>1, <3>2, <3>3, <3>4 DEF AppMain
  <2>2. ASSUME NEW cause, Reset(cause)
        PROVE  MotorsOff'
    BY <2>2, ResetMeans DEF Reset, Rest
  <2>3. CASE AsyncSave \/ ArmSchedules \/ StopBegins \/ \E on \in BOOLEAN : Command(on)
    BY <2>3 DEF AsyncSave, ArmSchedules, StopBegins, Command
  <2>4. CASE StopSteps
    <3>1. CASE StopRestarts
      BY <3>1, ResetMeans DEF StopRestarts, Rest
    <3> QED
      BY <2>4, <3>1 DEF StopSteps, StopSaves
  <2>5. CASE OtaStarts \/ Ota
    <3>1. CASE OtaRestarts
      BY <3>1, ResetMeans DEF OtaRestarts, Rest
    <3> QED
      BY <2>5, <3>1 DEF Ota, OtaRests, OtaStarts, OtaStopped, OtaSaves, OtaCreates, OtaLoads,
                       OtaAborts
  <2> QED
    BY <2>1, <2>2, <2>3, <2>4, <2>5 DEF Next
<1> QED
  BY <1>1, <1>2, <1>3, UnfoldingStep

-----------------------------------------------------------------------------
(* Theorems                                                                *)
LEMMA BootInvInit == Init => BootInv
<1> SUFFICES ASSUME Init PROVE BootInv
  OBVIOUS
<1>1. /\ mode = "reset" /\ at = "init" /\ ota = "idle" /\ stop = "idle" /\ Rest /\ MotorsOff
      /\ ~interlock /\ ~wanted /\ ~schedulesLatched
  BY DEF Init, Rest
<1>2. \A step \in DOMAIN Order : ~Past(step)
  BY <1>1, Places DEF Past
<1>3. image = [p \in Partitions |-> IF p = 0 THEN "valid" ELSE "none"] /\ running = 0
  BY DEF Init
<1>4. Unfolding
  BY <1>1, UnfoldingStarts
<1>5. Course
  BY <1>1 DEF Course
<1>6. Slots
  BY <1>1, <1>2, <1>3, Places DEF Slots, Partitions, Other
<1>7. Held /\ Forgotten /\ Resumable
  BY <1>1, <1>2, <1>3, Places DEF Held, Forgotten, Resumable, Partitions
<1> QED
  BY InitTypes, <1>4, <1>5, <1>6, <1>7 DEF BootInv

LEMMA BootInvStep == BootInv /\ [Next]_vars => BootInv'
<1> SUFFICES ASSUME BootInv, [Next]_vars PROVE BootInv'
  OBVIOUS
<1>1. /\ SlotTypes /\ StoreTypes /\ PlaceTypes /\ FlagTypes /\ OtherTypes /\ MotorInitTypeOK
      /\ Unfolding /\ Course /\ Slots /\ Held /\ Forgotten /\ Resumable
  BY TypeGroups DEF BootInv
<1>2. CASE Next
  <2>1. FlagTypes' /\ PlaceTypes' /\ SlotTypes' /\ OtherTypes'
    BY <1>1, <1>2, FlagTypesStep, PlaceTypesStep, SlotTypesStep, OtherTypesStep
  <2>2. StoreTypes'
    BY <1>1, <1>2, <2>1, StoreTypesStep
  <2>3. MotorInitTypeOK' /\ Unfolding'
    BY <1>1, <1>2, FansStep
  <2>4. TypeOK'
    BY <2>1, <2>2, <2>3 DEF TypeOK, SlotTypes, StoreTypes, PlaceTypes, FlagTypes, OtherTypes
  <2>5. Course' /\ Slots' /\ Held' /\ Forgotten' /\ Resumable'
    BY <1>1, <1>2, CourseStep, SlotsStep, HeldStep, ForgottenStep, ResumableStep
  <2> QED
    BY <2>3, <2>4, <2>5 DEF BootInv
<1>3. CASE UNCHANGED vars
  <2>1. MotorInitTypeOK' /\ Unfolding'
    BY <1>1, <1>3 DEF vars, motorInitVars, MotorInitTypeOK, Unfolding, LeftoversReachable,
                      Reached, Stoppable
  <2>2. TypeOK'
    BY <1>1, <1>3, <2>1
       DEF vars, flashVars, bootVars, outputVars, boundVars, TypeOK, SlotTypes, StoreTypes,
           PlaceTypes, FlagTypes, OtherTypes
  <2>3. Course' /\ Slots' /\ Held'
    BY <1>1, <1>3
       DEF vars, flashVars, bootVars, outputVars, motorInitVars, Course, Slots, Held, Past,
           Pending, Rest, MotorsOff
  <2>4. Forgotten' /\ Resumable'
    BY <1>1, <1>3
       DEF vars, flashVars, bootVars, outputVars, Forgotten, Resumable, Past
  <2> QED
    BY <2>1, <2>2, <2>3, <2>4 DEF BootInv
<1> QED
  BY <1>2, <1>3

LEMMA BootInvariance == Spec => []BootInv
BY BootInvInit, BootInvStep, PTL DEF Spec

\* The variables of app_main.c, motor_control_init and an update have their types
\* in every boot.
THEOREM TypeCorrectness == Spec => []TypeOK
<1>1. BootInv => TypeOK
  BY DEF BootInv
<1> QED
  BY <1>1, BootInvariance, PTL

\* What a failed teardown of release_owned_motors leaves is below the count that
\* the fail-safe stop uses, for any number of fans.
THEOREM TeardownSafety == Spec => []LeftoversReachable
<1>1. BootInv => LeftoversReachable
  BY DEF BootInv, Unfolding
<1> QED
  BY <1>1, BootInvariance, PTL

\* An image under test drives no fan (app_main.c:726-752), however many resets and
\* failures come before it is confirmed.
THEOREM SelfTestSafety == Spec => []UntestedImageHeld
<1>1. BootInv => UntestedImageHeld
  <2> SUFFICES ASSUME BootInv, Pending, mode # "reset"
               PROVE  ~interlock /\ ~wanted /\ plan # "armed" /\ schedules # "armed"
    BY DEF UntestedImageHeld
  <2>1. at \in DOMAIN Order /\ ~Past("confirm")
    BY DEF BootInv, TypeOK, Slots
  <2>2. ~Past("restore") /\ at # "done"
    BY <2>1, Places DEF Past
  <2> QED
    BY <2>2 DEF BootInv, Course, Held
<1> QED
  BY <1>1, BootInvariance, PTL

\* After an untrusted reset app_main enables the output only when no boot, this one or
\* a later one, would resume motion.
THEOREM ForgetSafety == Spec => UntrustedBootForgets
<1> DEFINE Turns == ~interlock /\ interlock' /\ at = "enable" /\ reason = "untrusted"
           Forgets == Turns => FlashIsQuiet /\ ~wanted /\ schedules # "armed"
<1>1. BootInv /\ [Next]_vars => Forgets
  <2> SUFFICES ASSUME BootInv, [Next]_vars, Turns
               PROVE  FlashIsQuiet /\ ~wanted /\ schedules # "armed"
    OBVIOUS
  <2>1. mode = "booting"
    <3>1. mode # "main" /\ ota = "idle" /\ mode # "reset"
      BY DEF BootInv, Course
    <3>2. interlock' # interlock
      OBVIOUS
    <3>3. EnableOutput
      <4>1. ~(Bootloader \/ Plain \/ StartNvs \/ MotorStep \/ LoadSchedules
              \/ InhibitUntrusted \/ CommitZero \/ Confirm \/ RestoreTargets \/ SafeStop
              \/ CommitRollback \/ NoFallback \/ AsyncSave \/ ArmSchedules \/ StopBegins
              \/ StopSaves)
        BY <3>2 DEF Bootloader, Plain, StartNvs, MotorStep, LoadSchedules, InhibitUntrusted,
                    CommitZero, Confirm, RestoreTargets, SafeStop, CommitRollback, NoFallback,
                    AsyncSave, ArmSchedules, StopBegins, StopSaves, outputVars
      <4>2. ~(RollBack \/ StopRestarts \/ \E cause \in {"trusted", "untrusted"} : Reset(cause))
        BY ResetMeans DEF RollBack, StopRestarts, Reset, Rest
      <4>3. ~(OtaStarts \/ Ota \/ \E on \in BOOLEAN : Command(on))
        BY <3>1 DEF OtaStarts, Ota, OtaStopped, OtaSaves, OtaCreates, OtaLoads, OtaRestarts,
                    OtaAborts, Command
      <4>4. ~UNCHANGED vars
        BY <3>2 DEF vars, outputVars
      <4> QED
        BY <4>1, <4>2, <4>3, <4>4 DEF Next, AppMain, StopSteps
    <3> QED
      BY <3>3 DEF EnableOutput, Step
  <2>2. Past("inhibit") /\ Past("zero")
    BY Places DEF Past
  <2> QED
    BY <2>1, <2>2 DEF BootInv, Forgotten, Course, FlashIsQuiet
<1>2. Spec => [][Forgets]_vars
  <2> HIDE DEF Forgets
  <2> QED
    BY <1>1, BootInvariance, PTL DEF Spec
<1> QED
  BY <1>2 DEF UntrustedBootForgets

\* A rollback and the restart after a stop, which the next boot trusts, find nothing
\* in flash that would bring motion back.
THEOREM RollbackSafety == Spec => SafeRestartsForget
<1> DEFINE Forgets == RollBack \/ StopRestarts => FlashIsQuiet
<1>1. BootInv => Forgets
  <2>1. ASSUME BootInv, RollBack
        PROVE  FlashIsQuiet
    BY <2>1 DEF RollBack, BootInv, Course, Held, Forgotten, FlashIsQuiet
  <2>2. ASSUME BootInv, StopRestarts
        PROVE  FlashIsQuiet
    BY <2>2 DEF StopRestarts, BootInv, Forgotten, FlashIsQuiet
  <2> QED
    BY <2>1, <2>2
<1>2. Spec => [][Forgets]_vars
  <2> HIDE DEF Forgets
  <2> QED
    BY <1>1, BootInvariance, PTL DEF Spec
<1> QED
  BY <1>2 DEF SafeRestartsForget

\* The restart of an update finds the targets of the moment in flash, unless a stop is
\* clearing them (ota_prepare_callback, app_main.c:290-300).
THEOREM ResumeSafety == Spec => UpdateKeepsTargets
<1> DEFINE Keeps == ota = "installed" /\ mode' = "reset" =>
                      kept = wanted \/ stop # "idle" \/ unsaved
<1>1. BootInv => Keeps
  BY DEF BootInv, Resumable
<1>2. Spec => [][Keeps]_vars
  <2> HIDE DEF Keeps
  <2> QED
    BY <1>1, BootInvariance, PTL DEF Spec
<1> QED
  BY <1>2 DEF UpdateKeepsTargets

-----------------------------------------------------------------------------
(* The trial of an image                                                   *)
\* The image on trial is the newest one, and runs until the reset that ends it.
OneTrial ==
  \A p \in Partitions :
    image[p] = "pending" => chosen = p /\ (mode # "reset" => running = p)

TrialInv == SlotTypes /\ PlaceTypes /\ Course /\ Slots /\ OneTrial

SlotsChange == Bootloader \/ (Confirm /\ Pending) \/ RollBack \/ OtaLoads

\* All else that a step does to the slots is to end the boot.
LEMMA SlotsKept ==
  ASSUME TrialInv, [Next]_vars, ~SlotsChange
  PROVE  /\ UNCHANGED <<image, chosen, running>>
         /\ mode' = "reset" \/ (mode # "reset" /\ mode' # "reset")
<1> USE DEF TrialInv
<1>1. CASE Plain \/ StartNvs \/ MotorStep \/ LoadSchedules \/ InhibitUntrusted \/ CommitZero
  BY <1>1 DEF Plain, StartNvs, MotorStep, LoadSchedules, InhibitUntrusted, CommitZero, Step,
              Proceed, Fail, flashVars
<1>2. CASE Confirm
  BY <1>2 DEF Confirm, Healthy, SlotsChange, Step, Proceed, Fail
<1>3. CASE RestoreTargets \/ EnableOutput \/ SafeStop \/ CommitRollback \/ NoFallback
  BY <1>3 DEF RestoreTargets, EnableOutput, SafeStop, CommitRollback, NoFallback, Step, Proceed,
              Fail, Holds, flashVars
<1>4. CASE AsyncSave \/ ArmSchedules \/ StopBegins \/ StopSaves
  BY <1>4 DEF AsyncSave, ArmSchedules, StopBegins, StopSaves, Course, flashVars, bootVars
<1>5. CASE OtaStarts \/ OtaStopped \/ OtaSaves \/ OtaCreates \/ OtaAborts
  BY <1>5 DEF OtaStarts, OtaStopped, OtaSaves, OtaCreates, OtaAborts, OtaRests, Course,
              flashVars, bootVars
<1>6. CASE StopRestarts \/ OtaRestarts
  BY <1>6, ResetMeans DEF StopRestarts, OtaRestarts, Rest, flashVars
<1>7. ASSUME NEW cause \in {"trusted", "untrusted"}, Reset(cause)
      PROVE  UNCHANGED <<image, chosen, running>> /\ mode' = "reset"
  BY <1>7, ResetMeans DEF Reset, Rest, flashVars
<1>8. ASSUME NEW on \in BOOLEAN, Command(on)
      PROVE  UNCHANGED <<image, chosen, running, mode>> /\ mode # "reset"
  BY <1>8 DEF Command, flashVars, bootVars
<1>9. CASE UNCHANGED vars
  BY <1>9 DEF vars, flashVars, bootVars
<1> QED
  BY <1>1, <1>2, <1>3, <1>4, <1>5, <1>6, <1>7, <1>8, <1>9
     DEF Next, AppMain, StopSteps, Ota, SlotsChange

\* A slot that changes its state leaves the set of the one and joins that of the
\* other.
LEMMA ImagesMove ==
  ASSUME SlotTypes, NEW p \in Partitions, NEW state,
         image' = [image EXCEPT ![p] = state], NEW CONSTANT s
  PROVE  ImagesIn(s)' = IF s = state THEN ImagesIn(s) \cup {p} ELSE ImagesIn(s) \ {p}
<1>1. /\ image'[p] = state
      /\ \A q \in Partitions : q # p => image'[q] = image[q]
  BY DEF SlotTypes
<1> QED
  BY <1>1 DEF ImagesIn

LEMMA BootloaderTrial ==
  ASSUME TrialInv, Bootloader
  PROVE  OneTrial' /\ (Trial!BootOnTrial \/ Trial!BootConfirmed)
<1> USE DEF TrialInv
<1>1. /\ mode = "reset" /\ mode' = "booting" /\ chosen' = running'
      /\ running' = IF image[chosen] \in {"new", "valid"} THEN chosen ELSE Other(chosen)
      /\ image' = [image EXCEPT ![chosen] = AfterBoot(chosen)]
  BY DEF Bootloader
<1>2. /\ chosen \in Partitions /\ Other(chosen) \in Partitions /\ Other(chosen) # chosen
      /\ \A p \in Partitions : p = chosen \/ p = Other(chosen)
      /\ image'[chosen] = AfterBoot(chosen) /\ image'[Other(chosen)] = image[Other(chosen)]
  BY <1>1 DEF SlotTypes, Partitions, Other
<1>3. image[Other(chosen)] \notin {"new", "pending"}
  BY <1>2 DEF Slots, OneTrial
<1>4. OneTrial'
  <2>1. image'[chosen] = "pending" => running' = chosen
    BY <1>1, <1>2 DEF AfterBoot
  <2> QED
    BY <1>1, <1>2, <1>3, <2>1 DEF OneTrial
<1>5. CASE image[chosen] = "new"
  <2>1. image' = [image EXCEPT ![chosen] = "pending"] /\ running' = chosen
    BY <1>1, <1>5 DEF AfterBoot
  <2>2. /\ ImagesIn("valid")' = ImagesIn("valid") \ {chosen}
        /\ ImagesIn("new")' = ImagesIn("new") \ {chosen}
        /\ ImagesIn("pending")' = ImagesIn("pending") \cup {chosen}
    BY <1>2, <2>1, ImagesMove
  <2>3. chosen \in ImagesIn("new") /\ chosen \notin ImagesIn("valid") /\ ImagesIn("pending") = {}
    BY <1>2, <1>3, <1>5 DEF ImagesIn
  <2>4. Trial!BootOnTrial
    BY <1>1, <2>1, <2>2, <2>3 DEF Trial!BootOnTrial
  <2> QED
    BY <1>4, <2>4
<1>6. CASE image[chosen] # "new"
  <2>1. image[running'] = "valid" /\ running' \in Partitions
    BY <1>1, <1>2, <1>6 DEF Slots
  <2>2. ImagesIn("new") = {} /\ ImagesIn("new")' = {}
    BY <1>2, <1>3, <1>6 DEF ImagesIn, AfterBoot
  <2>3. ImagesIn("pending")' = {}
    BY <1>2, <1>3, <1>6 DEF ImagesIn, AfterBoot
  <2>4. ImagesIn("valid")' = ImagesIn("valid")
    BY <1>2, <1>6 DEF ImagesIn, AfterBoot
  <2>5. running' \in ImagesIn("valid")
    BY <2>1 DEF ImagesIn
  <2>6. Trial!BootConfirmed
    BY <1>1, <2>2, <2>3, <2>4, <2>5 DEF Trial!BootConfirmed
  <2> QED
    BY <1>4, <2>6
<1> QED
  BY <1>5, <1>6

\* What becomes of the image on trial while it runs.
LEMMA VerdictTrial ==
  ASSUME TrialInv, (Confirm /\ Pending) \/ RollBack
  PROVE  OneTrial' /\ (Trial!Accept \/ Trial!GiveUp \/ UNCHANGED Trial!trialVars)
<1> USE DEF TrialInv
<1>1. Pending /\ mode # "reset" /\ running \in Partitions /\ UNCHANGED <<chosen, running>>
  BY DEF Confirm, RollBack, Course, Step, SlotTypes
<1>2. ImagesIn("pending") = {running} /\ running \notin ImagesIn("valid") \cup ImagesIn("new")
  BY <1>1 DEF ImagesIn, OneTrial, Pending
<1>3. CASE Confirm /\ Pending
  <2>1. mode' # "reset" /\ (image' = image \/ image' = [image EXCEPT ![running] = "valid"])
    BY <1>3 DEF Confirm, Healthy, Step, Proceed, Fail
  <2>2. CASE image' = image
    BY <1>1, <2>1, <2>2 DEF OneTrial, Trial!trialVars, ImagesIn
  <2>3. CASE image' = [image EXCEPT ![running] = "valid"]
    <3>1. /\ ImagesIn("valid")' = ImagesIn("valid") \cup {running}
          /\ ImagesIn("new")' = ImagesIn("new") \ {running}
          /\ ImagesIn("pending")' = ImagesIn("pending") \ {running}
      BY <1>1, <2>3, ImagesMove
    <3>2. Trial!Accept
      BY <1>1, <1>2, <2>1, <3>1 DEF Trial!Accept
    <3>3. OneTrial'
      BY <1>2, <3>1 DEF OneTrial, ImagesIn
    <3> QED
      BY <3>2, <3>3
  <2> QED
    BY <2>1, <2>2, <2>3
<1>4. CASE RollBack
  <2>1. mode' = "reset" /\ image' = [image EXCEPT ![running] = "invalid"]
    BY <1>4, ResetMeans DEF RollBack, Rest
  <2>2. /\ ImagesIn("valid")' = ImagesIn("valid") \ {running}
        /\ ImagesIn("new")' = ImagesIn("new") \ {running}
        /\ ImagesIn("pending")' = ImagesIn("pending") \ {running}
    BY <1>1, <2>1, ImagesMove
  <2>3. Other(running) \in ImagesIn("valid")
    BY <1>4 DEF RollBack, ImagesIn, SlotTypes, Partitions, Other
  <2>4. Trial!GiveUp
    BY <1>1, <1>2, <2>1, <2>2, <2>3 DEF Trial!GiveUp
  <2>5. OneTrial'
    BY <1>2, <2>2 DEF OneTrial, ImagesIn
  <2> QED
    BY <2>4, <2>5
<1> QED
  BY <1>3, <1>4

\* An update touches the slot that does not run, and only while the one that runs
\* is confirmed.
LEMMA LoadTrial ==
  ASSUME TrialInv, OtaLoads
  PROVE  /\ OneTrial'
         /\ \/ \E p \in Partitions : Trial!Erase(p) \/ Trial!Install(p)
            \/ UNCHANGED Trial!trialVars
<1> USE DEF TrialInv
<1>0. PICK p \in Partitions : p = Other(running)
  BY DEF SlotTypes, Partitions, Other
<1>1. /\ mode = "main" /\ at = "done" /\ UNCHANGED <<mode, running>>
      /\ p # running /\ running \in Partitions
  BY <1>0 DEF OtaLoads, OtaRests, bootVars, Course, SlotTypes, Partitions, Other
<1>2. image[running] = "valid"
  BY <1>1, Places DEF Slots, Past, Pending
<1>3. ImagesIn("pending") = {}
  BY <1>1, <1>2 DEF ImagesIn, OneTrial
<1>4. Trial!RunsConfirmed
  BY <1>1, <1>2, <1>3 DEF Trial!RunsConfirmed, ImagesIn
<1>5. CASE UNCHANGED <<image, chosen>>
  BY <1>1, <1>5 DEF OneTrial, Trial!trialVars, ImagesIn
<1>6. CASE image' = [image EXCEPT ![p] = "none"]
  <2>1. /\ ImagesIn("valid")' = ImagesIn("valid") \ {p}
        /\ ImagesIn("new")' = ImagesIn("new") \ {p}
        /\ ImagesIn("pending")' = ImagesIn("pending") \ {p}
    <3>1. SlotTypes /\ p \in Partitions
      OBVIOUS
    <3> HIDE DEF TrialInv
    <3> QED
      BY <1>6, <3>1, ImagesMove
  <2>2. Trial!Erase(p)
    BY <1>1, <1>3, <1>4, <2>1 DEF Trial!Erase
  <2>3. OneTrial'
    BY <1>3, <2>1 DEF OneTrial, ImagesIn
  <2> QED
    BY <1>1, <2>2, <2>3
<1>7. CASE image[p] = "none" /\ image' = [image EXCEPT ![p] = "new"]
  <2>1. /\ ImagesIn("valid")' = ImagesIn("valid") \ {p}
        /\ ImagesIn("new")' = ImagesIn("new") \cup {p}
        /\ ImagesIn("pending")' = ImagesIn("pending") \ {p}
    <3>1. SlotTypes /\ p \in Partitions
      OBVIOUS
    <3> HIDE DEF TrialInv
    <3> QED
      BY <1>7, <3>1, ImagesMove
  <2>2. p \notin ImagesIn("valid") /\ ImagesIn("new") = {}
    <3>1. \A q \in Partitions : q = p \/ q = running
      BY <1>0, <1>1 DEF Partitions, Other
    <3> QED
      BY <1>2, <1>7, <3>1 DEF ImagesIn
  <2>3. Trial!Install(p)
    BY <1>1, <1>3, <1>4, <2>1, <2>2 DEF Trial!Install
  <2>4. OneTrial'
    BY <1>3, <2>1 DEF OneTrial, ImagesIn
  <2> QED
    BY <1>1, <2>3, <2>4
<1> QED
  BY <1>0, <1>5, <1>6, <1>7 DEF OtaLoads

\* Every step is one of ImageTrial, or leaves the images and the boot as they are.
LEMMA TrialStep ==
  ASSUME TrialInv, [Next]_vars
  PROVE  OneTrial' /\ [Trial!TrialNext]_(Trial!trialVars)
<1>1. CASE Bootloader
  BY <1>1, BootloaderTrial DEF Trial!TrialNext
<1>2. CASE (Confirm /\ Pending) \/ RollBack
  BY <1>2, VerdictTrial DEF Trial!TrialNext
<1>3. CASE OtaLoads
  BY <1>3, LoadTrial DEF Trial!TrialNext
<1>4. CASE ~SlotsChange
  <2>1. /\ UNCHANGED <<image, chosen, running>>
        /\ mode' = "reset" \/ (mode # "reset" /\ mode' # "reset")
    BY <1>4, SlotsKept
  <2>2. OneTrial'
    BY <2>1 DEF TrialInv, OneTrial
  <2>3. ImagesIn("valid")' = ImagesIn("valid") /\ ImagesIn("new")' = ImagesIn("new")
        /\ ImagesIn("pending")' = ImagesIn("pending")
    BY <2>1 DEF ImagesIn
  <2>4. CASE mode' = "reset"
    <3>1. Trial!Halt
      BY <2>3, <2>4 DEF Trial!Halt
    <3> QED
      BY <2>2, <3>1 DEF Trial!TrialNext
  <2>5. CASE mode # "reset" /\ mode' # "reset"
    BY <2>1, <2>2, <2>3, <2>5 DEF Trial!trialVars
  <2> QED
    BY <2>1, <2>4, <2>5
<1> QED
  BY <1>1, <1>2, <1>3, <1>4 DEF SlotsChange

LEMMA TrialInvariance == Spec => []TrialInv
<1>1. Init => OneTrial
  <2> SUFFICES ASSUME Init PROVE OneTrial
    OBVIOUS
  <2>1. image = [p \in Partitions |-> IF p = 0 THEN "valid" ELSE "none"]
    BY DEF Init
  <2> QED
    BY <2>1 DEF OneTrial
<1>2. BootInv /\ OneTrial => TrialInv
  BY TypeGroups DEF BootInv, TrialInv
<1>3. TrialInv /\ [Next]_vars => OneTrial'
  BY TrialStep
<1> QED
  BY <1>1, <1>2, <1>3, BootInvariance, PTL DEF Spec

\* The updates, the self-test, the rollback and the bootloader give every image the
\* one trial that ImageTrial promises, for any number of updates, stops and resets.
THEOREM Refinement == Spec => ImplementsImageTrial
<1>1. Init => Trial!TrialInit
  <2> SUFFICES ASSUME Init PROVE Trial!TrialInit
    OBVIOUS
  <2>1. image = [p \in Partitions |-> IF p = 0 THEN "valid" ELSE "none"] /\ mode = "reset"
    BY DEF Init, Rest
  <2>2. 0 \in ImagesIn("valid") /\ ImagesIn("new") = {} /\ ImagesIn("pending") = {}
    BY <2>1 DEF ImagesIn, Partitions
  <2> QED
    BY <2>1, <2>2 DEF Trial!TrialInit
<1>2. TrialInv /\ [Next]_vars => [Trial!TrialNext]_(Trial!trialVars)
  BY TrialStep
<1> QED
  BY <1>1, <1>2, TrialInvariance, PTL DEF Spec, ImplementsImageTrial, Trial!TrialSpec

\* In every state a confirmed image is in flash, and the one that runs is confirmed
\* or on its trial.
THEOREM FallbackSafety == Spec => []Trial!Bootable
<1>1. TrialInv => Trial!Bootable
  <2> SUFFICES ASSUME TrialInv PROVE Trial!Bootable
    OBVIOUS
  <2>1. ImagesIn("valid") # {}
    <3>1. 0 \in Partitions /\ Other(0) \in Partitions
      BY DEF Partitions, Other
    <3> QED
      BY <3>1 DEF TrialInv, Slots, ImagesIn
  <2>2. mode # "reset" => running \in ImagesIn("valid") \cup ImagesIn("pending")
    BY DEF TrialInv, SlotTypes, Slots, ImagesIn
  <2> QED
    BY <2>1, <2>2 DEF Trial!Bootable
<1> QED
  BY <1>1, TrialInvariance, PTL

===============================================================================
