--------------------------------- MODULE Boot ---------------------------------
(***************************************************************************)
(* app_main.c and ota_manager.c over the boots of a node: the order in     *)
(* which app_main starts the system, the start-up fail-safe, the           *)
(* confirmation of a pending image, restored motion, updates, and resets   *)
(* at any step.  The bootloader, with rollback enabled, is external.       *)
(*                                                                         *)
(* Two blobs in flash can bring motion back: the manual targets (kept) and *)
(* the schedules (plan).  A target is TRUE when some fan's is not zero.    *)
(* Stops and saves are steps here; SafetySupervisor and SyncSave have      *)
(* their interiors.                                                        *)
(***************************************************************************)
EXTENDS MotorInit

CONSTANTS
  MaxResets,   \* bound on power cycles and crashes
  MaxUpdates,  \* bound on updates
  MaxCalls     \* bound on commands and stops

ASSUME BootAssumption == {MaxResets, MaxUpdates, MaxCalls} \subseteq Nat

VARIABLES
  image, chosen, running,  \* otadata: state of each slot, newest slot; the slot that runs
  kept, plan,              \* flash: targets, and schedules ("none", "held", "armed")
  reason,                  \* esp_reset_reason
  at, mode,                \* step of app_main, and what becomes of it
  error,                   \* error of an earlier half of a step
  interlock, latched,      \* output enabled; global inhibit
  schedulesLatched,        \* inhibit of the schedules until the next boot
  wanted, schedules,       \* RAM: manual targets, and schedules
  dirty,                   \* debounced saves under way: "targets", "plan"
  maintained,              \* s_maintenance_depth # 0
  ota,                     \* the update: position
  stop,                    \* a stop of the supervisor: position
  unsaved,                 \* history: a stop could not save the targets it cleared
  resets, updates, calls   \* bounds

flashVars == <<image, chosen, kept, plan>>
bootVars == <<running, reason, at, mode, error>>
outputVars == <<interlock, latched, schedulesLatched, wanted, schedules, dirty, maintained>>
boundVars == <<resets, updates, calls>>
vars == <<flashVars, bootVars, outputVars, ota, stop, unsaved, boundVars, motorInitVars>>

Partitions == {0, 1}
Other(p) == 1 - p

\* The steps of app_main that can fail, or that a reset must not find half done.
Order ==
  [init |-> 1, configure |-> 2, callbacks |-> 3, nvs |-> 4, motors |-> 5, scheduler |-> 6,
   saver |-> 7, planner |-> 8, inhibit |-> 9, zero |-> 10, watch |-> 11, confirm |-> 12,
   restore |-> 13, enable |-> 14, done |-> 15]

Past(step) == Order[at] > Order[step]

Following == CHOOSE step \in DOMAIN Order : Order[step] = Order[at] + 1

Rest ==
  /\ at = "init" /\ mode = "reset" /\ error = FALSE
  /\ interlock = FALSE /\ latched = FALSE /\ wanted = FALSE /\ schedules = "none"
  /\ schedulesLatched = FALSE /\ dirty = {} /\ maintained = FALSE
  /\ ota = "idle" /\ stop = "idle" /\ unsaved = FALSE
  /\ MotorsOff

\* A node with one confirmed image, by whatever reset it boots.
Init ==
  /\ image = [p \in Partitions |-> IF p = 0 THEN "valid" ELSE "none"]
  /\ chosen = 0 /\ running = 0
  /\ kept \in BOOLEAN /\ plan \in {"none", "held", "armed"}
  /\ reason \in {"trusted", "untrusted"}
  /\ Rest
  /\ resets = 0 /\ updates = 0 /\ calls = 0

-----------------------------------------------------------------------------
(* Resets and the bootloader                                               *)
\* RAM is lost: every task ends where it is.
ResetTo(cause) ==
  /\ reason' = cause
  /\ at' = "init" /\ mode' = "reset" /\ error' = FALSE
  /\ interlock' = FALSE /\ latched' = FALSE /\ wanted' = FALSE /\ schedules' = "none"
  /\ schedulesLatched' = FALSE /\ dirty' = {} /\ maintained' = FALSE
  /\ ota' = "idle" /\ stop' = "idle" /\ unsaved' = FALSE
  /\ lifecycle' = "uninitialized" /\ owned' = 0
  /\ objects' = [m \in Motors |-> {}] /\ working' = 0 /\ unclean' = FALSE

\* A power cycle is trusted, a panic, watchdog or brownout is not.
Reset(cause) ==
  /\ resets < MaxResets
  /\ resets' = resets + 1
  /\ ResetTo(cause)
  /\ UNCHANGED <<flashVars, running, updates, calls>>

\* An image that was booted once and not confirmed is aborted.
AfterBoot(p) ==
  CASE image[p] = "new" -> "pending"
    [] image[p] = "pending" -> "aborted"
    [] OTHER -> image[p]

Bootloader ==
  /\ mode = "reset"
  /\ running' = IF image[chosen] \in {"new", "valid"} THEN chosen ELSE Other(chosen)
  /\ image' = [image EXCEPT ![chosen] = AfterBoot(chosen)]
  /\ chosen' = running'
  /\ mode' = "booting"
  /\ UNCHANGED <<kept, plan, reason, at, error, outputVars, ota, stop, unsaved, boundVars,
                 motorInitVars>>

Pending == image[running] = "pending"

-----------------------------------------------------------------------------
(* Flash                                                                   *)
\* A save that fails, or is given up, may have been written or be written still.
SaveTargets(ok) == /\ kept' \in (IF ok THEN {wanted'} ELSE {kept, wanted'})
                   /\ ok => Past("saver") /\ lifecycle = "ready"

\* The wait for a moment without a reservation may expire, and a scheduler that is
\* not initialised has nothing to inhibit.
InhibitExpires == UNCHANGED <<schedulesLatched, schedules, plan, dirty>>

\* A save of the inhibit that is not acknowledged is asked for once more, if the task
\* that writes it has been started.
InhibitLatches(ok) ==
  /\ Past("scheduler")
  /\ schedulesLatched' = TRUE /\ schedules' = "held"
  /\ \/ /\ Past("planner")
        /\ plan' \in (IF ok THEN {"held"} ELSE {plan, "held"})
        /\ dirty' = IF ok THEN dirty ELSE dirty \cup {"plan"}
     \/ /\ ~Past("planner") /\ ~ok
        /\ UNCHANGED <<plan, dirty>>

\* scheduler_try_inhibit_all
Inhibit(ok) == InhibitLatches(ok) \/ (~ok /\ InhibitExpires)

\* Faulty variant: motors that stream zero are enough.
IgnoresSchedules(zero, inhibited) == zero

\* Whether a stop has no error before it saves; early stops have no schedules.
StopSucceeds(zero, inhibited) == zero /\ (Past("callbacks") => inhibited)

\* Each saving task writes what RAM has when it writes.
AsyncSave ==
  /\ mode # "reset"
  /\ \/ /\ "targets" \in dirty
        /\ kept' = wanted /\ dirty' = dirty \ {"targets"} /\ UNCHANGED plan
     \/ /\ "plan" \in dirty
        /\ plan' = schedules /\ dirty' = dirty \ {"plan"} /\ UNCHANGED kept
  /\ UNCHANGED <<image, chosen, bootVars, interlock, latched, schedulesLatched, wanted,
                 schedules, maintained, ota, stop, unsaved, boundVars, motorInitVars>>

-----------------------------------------------------------------------------
(* app_main                                                                *)
Step(step) == mode = "booting" /\ at = step

Fail == mode' = "stopping" /\ UNCHANGED at

Proceed == at' = Following /\ UNCHANGED mode

\* Steps that only start something; init asserts the interlock first of all.
Plain ==
  /\ \E step \in {"init", "configure", "callbacks", "saver", "planner", "watch"} : Step(step)
  /\ Proceed \/ Fail
  /\ UNCHANGED <<flashVars, running, reason, error, outputVars, ota, stop, unsaved,
                 boundVars, motorInitVars>>

\* NVS without free pages, or of a newer version, is erased.
StartNvs ==
  /\ Step("nvs")
  /\ Proceed \/ Fail
  /\ \/ kept' = FALSE /\ plan' = "none"
     \/ UNCHANGED <<kept, plan>>
  /\ UNCHANGED <<image, chosen, running, reason, error, outputVars, ota, stop, unsaved,
                 boundVars, motorInitVars>>

MotorStep ==
  /\ Step("motors")
  /\ \/ StartMotors /\ UNCHANGED <<at, mode, latched>>
     \/ /\ lifecycle = "ready"
        /\ Proceed
        /\ UNCHANGED <<motorInitVars, latched>>
     \/ /\ lifecycle \in {"failed", "unavailable"}
        /\ latched' = (lifecycle = "failed")
        /\ Fail
        /\ UNCHANGED motorInitVars
  /\ UNCHANGED <<flashVars, running, reason, error, interlock, schedulesLatched, wanted,
                 schedules, dirty, maintained, ota, stop, unsaved, boundVars>>

LoadSchedules ==
  /\ Step("scheduler")
  /\ \/ Proceed /\ schedules' = plan
     \/ Fail /\ UNCHANGED schedules
  /\ UNCHANGED <<flashVars, running, reason, error, interlock, latched, schedulesLatched,
                 wanted, dirty, maintained, ota, stop, unsaved, boundVars, motorInitVars>>

\* Faulty variant: the inhibit in RAM is enough.
KeepSchedules ==
  /\ schedulesLatched' = TRUE /\ schedules' = "held"
  /\ UNCHANGED <<plan, error, dirty>>

\* A failure is judged after the zero commit.
HoldSchedules == \E ok \in BOOLEAN : Inhibit(ok) /\ error' = ~ok

InhibitUntrusted ==
  /\ Step("inhibit")
  /\ Proceed
  /\ IF reason = "untrusted" THEN HoldSchedules
     ELSE UNCHANGED <<schedulesLatched, schedules, plan, error, dirty>>
  /\ UNCHANGED <<image, chosen, kept, running, reason, interlock, latched, wanted, maintained,
                 ota, stop, unsaved, boundVars, motorInitVars>>

CommitZero ==
  /\ Step("zero")
  /\ UNCHANGED outputVars
  /\ \/ /\ reason = "trusted"
        /\ Proceed
        /\ UNCHANGED kept
     \/ /\ reason = "untrusted"
        /\ \E ok \in BOOLEAN :
             /\ SaveTargets(ok)
             /\ IF ok /\ ~error THEN Proceed ELSE Fail
  /\ UNCHANGED <<image, chosen, plan, running, reason, error, ota, stop, unsaved, boundVars,
                 motorInitVars>>

\* Faulty variant: what was not disproved counts as healthy.
PassesAnyway == TRUE

\* Only an image that must be confirmed has its health window; a stop of the
\* supervisor is no fault of it.
Healthy == ~Pending

Confirm ==
  /\ Step("confirm")
  /\ \/ /\ Healthy
        /\ Proceed
        /\ UNCHANGED image
     \/ /\ Pending
        /\ \/ Proceed /\ image' = [image EXCEPT ![running] = "valid"]
           \/ Fail /\ UNCHANGED image
  /\ UNCHANGED <<chosen, kept, plan, running, reason, error, outputVars, ota, stop, unsaved,
                 boundVars, motorInitVars>>

MayMove == ~latched /\ ~maintained

\* Faulty variant: the reason of the reset is not looked at.
RestoresAlways == TRUE

Restores == reason = "trusted"

\* The targets of another set of fans, or that cannot be read, are not restored.
RestoreTargets ==
  /\ Step("restore")
  /\ Proceed
  /\ wanted' \in {FALSE, Restores /\ MayMove /\ kept}
  /\ UNCHANGED <<flashVars, running, reason, error, interlock, latched, schedulesLatched,
                 schedules, dirty, maintained, ota, stop, unsaved, boundVars, motorInitVars>>

EnableIfSafe == interlock' = (MayMove /\ stop = "idle")

EnableOutput ==
  /\ Step("enable")
  /\ EnableIfSafe
  /\ IF interlock' THEN at' = "done" /\ mode' = "main" ELSE Fail
  /\ UNCHANGED <<flashVars, running, reason, error, latched, schedulesLatched, wanted,
                 schedules, dirty, maintained, ota, stop, unsaved, boundVars, motorInitVars>>

-----------------------------------------------------------------------------
(* startup_failure_safe                                                    *)
\* The stop works as far as app_main has come: without its callbacks it asks for
\* neither the schedules nor a save, and without motors it fails.
SafeStop ==
  /\ mode = "stopping"
  /\ interlock' = FALSE
  /\ latched' = (latched \/ Stoppable)
  /\ wanted' = (wanted /\ ~(Stoppable /\ Pending))
  /\ \E zero, inhibited, saved \in BOOLEAN :
       /\ zero => Stoppable
       /\ IF Past("callbacks") THEN Inhibit(inhibited)
          ELSE UNCHANGED <<schedulesLatched, schedules, plan, dirty>>
       /\ IF Past("callbacks") /\ Pending THEN SaveTargets(saved) ELSE UNCHANGED kept
       /\ error' = ~(StopSucceeds(zero, inhibited) /\ (Past("callbacks") /\ Pending => saved))
  /\ mode' = IF Pending THEN "persisting" ELSE "failed"
  /\ UNCHANGED <<image, chosen, running, reason, at, maintained, ota, stop, unsaved,
                 boundVars, motorInitVars>>

\* Faulty variant: the rollback is tried until it succeeds.
TriesAgain == UNCHANGED mode

\* The node rests, failed safe, for service.
Holds == mode' = "held"

CommitRollback ==
  /\ mode = "persisting"
  /\ UNCHANGED outputVars
  /\ \/ /\ ~error
        /\ SaveTargets(TRUE)  \* whatever the stop has saved
        /\ mode' = "rolling"
     \/ /\ \/ error /\ UNCHANGED kept
           \/ ~error /\ SaveTargets(FALSE)
        /\ Holds
  /\ UNCHANGED <<image, chosen, plan, running, reason, at, error, ota, stop, unsaved,
                 boundVars, motorInitVars>>

\* esp_ota_mark_app_invalid_rollback_and_reboot, which wants another valid image.
RollBack ==
  /\ mode = "rolling"
  /\ image[Other(running)] = "valid"
  /\ image' = [image EXCEPT ![running] = "invalid"]
  /\ ResetTo("trusted")
  /\ UNCHANGED <<chosen, kept, plan, running, boundVars>>

NoFallback ==
  /\ mode = "rolling"
  /\ Holds
  /\ UNCHANGED <<flashVars, running, reason, at, error, outputVars, ota, stop, unsaved,
                 boundVars, motorInitVars>>

AppMain ==
  \/ Plain \/ StartNvs \/ MotorStep \/ LoadSchedules \/ InhibitUntrusted \/ CommitZero
  \/ Confirm \/ RestoreTargets \/ EnableOutput
  \/ SafeStop \/ CommitRollback \/ RollBack \/ NoFallback

-----------------------------------------------------------------------------
(* Commands and stops of the running node                                  *)
Call == calls < MaxCalls /\ calls' = calls + 1 /\ UNCHANGED <<resets, updates>>

\* The dispatcher refuses commands until an update has released its claim.
Command(on) ==
  /\ mode = "main" /\ ota = "idle"
  /\ MayMove /\ stop = "idle"
  /\ Call
  /\ wanted' = on
  /\ dirty' = dirty \cup {"targets"}
  /\ interlock' = TRUE
  /\ UNCHANGED <<flashVars, bootVars, latched, schedulesLatched, schedules, maintained, ota,
                 stop, unsaved, motorInitVars>>

\* A new entry, or an end of the inhibit, which the latch refuses.
ArmSchedules ==
  /\ mode = "main" /\ ota = "idle"
  /\ schedules = "none" \/ (schedules = "held" /\ ~schedulesLatched)
  /\ Call
  /\ schedules' = "armed"
  /\ dirty' = dirty \cup {"plan"}
  /\ UNCHANGED <<flashVars, bootVars, interlock, latched, schedulesLatched, wanted, maintained,
                 ota, stop, unsaved, motorInitVars>>

\* A durable stop that clears targets, of the supervisor or of the main loop.
StopBegins ==
  /\ stop = "idle" /\ mode # "reset" /\ Past("watch")
  /\ Call
  /\ interlock' = FALSE /\ latched' = TRUE /\ wanted' = FALSE
  /\ \E zero, inhibited \in BOOLEAN :
       Inhibit(inhibited) /\ stop' = IF StopSucceeds(zero, inhibited) THEN "saving" ELSE "unheld"
  /\ UNCHANGED <<image, chosen, kept, bootVars, maintained, ota, unsaved, motorInitVars>>

StopSaves ==
  /\ stop \in {"saving", "unheld"}
  /\ UNCHANGED outputVars
  /\ \E ok \in BOOLEAN :
       /\ SaveTargets(ok)
       /\ unsaved' = (unsaved \/ ~ok)
       /\ stop' \in (IF ok /\ stop = "saving" THEN {"idle", "restarting"} ELSE {"idle"})
  /\ UNCHANGED <<image, chosen, plan, bootVars, ota, boundVars, motorInitVars>>

\* Only after a stop without errors.
StopRestarts ==
  /\ stop = "restarting"
  /\ ResetTo("trusted")
  /\ UNCHANGED <<flashVars, running, boundVars>>

-----------------------------------------------------------------------------
(* Updates                                                                 *)
OtaRests == UNCHANGED <<bootVars, stop, unsaved, motorInitVars>>

\* ota_manager_start claims the update; the first half of the verified stop.
OtaStarts ==
  /\ mode = "main" /\ ota = "idle" /\ updates < MaxUpdates
  /\ updates' = updates + 1
  /\ ota' = "stopping"
  /\ interlock' = FALSE /\ maintained' = TRUE
  /\ UNCHANGED <<flashVars, latched, schedulesLatched, wanted, schedules, dirty, resets, calls>>
  /\ OtaRests

\* When the inhibit or the proof of zero fails, the stop becomes a global one and
\* stays in maintenance.
OtaStopped ==
  /\ ota = "stopping"
  /\ \E inhibited, zero \in BOOLEAN :
       /\ Inhibit(inhibited)
       /\ latched' = (latched \/ ~(inhibited /\ zero))
       /\ ota' = IF inhibited /\ zero THEN "saving" ELSE "idle"
  /\ UNCHANGED <<image, chosen, kept, interlock, wanted, maintained, boundVars>>
  /\ OtaRests

\* Faulty variant: the save is only asked for.
RequestsSave(ok) == UNCHANGED kept

OtaCommit(ok) == SaveTargets(ok)

Release == maintained' = FALSE /\ interlock' = (~latched /\ stop = "idle")

OtaSaves ==
  /\ ota = "saving"
  /\ UNCHANGED wanted
  /\ \/ /\ OtaCommit(TRUE)
        /\ ota' = "creating"
        /\ UNCHANGED <<maintained, interlock>>
     \/ /\ SaveTargets(FALSE)
        /\ ota' = "idle"
        /\ Release
  /\ UNCHANGED <<image, chosen, plan, latched, schedulesLatched, schedules, dirty, boundVars>>
  /\ OtaRests

OtaCreates ==
  /\ ota = "creating"
  /\ ota' \in {"loading", "aborting"}
  /\ UNCHANGED <<flashVars, outputVars, boundVars>>
  /\ OtaRests

\* The slot is erased before it is written and chosen when it is complete; a
\* transport that has expired makes even that a failure.
OtaLoads ==
  /\ ota = "loading"
  /\ \/ ota' = "aborting" /\ UNCHANGED <<image, chosen>>
     \/ /\ image[Other(running)] # "none"
        /\ image' = [image EXCEPT ![Other(running)] = "none"]
        /\ UNCHANGED <<chosen, ota>>
     \/ /\ image[Other(running)] = "none"
        /\ image' = [image EXCEPT ![Other(running)] = "new"]
        /\ chosen' = Other(running)
        /\ ota' \in {"installed", "aborting"}
  /\ UNCHANGED <<kept, plan, outputVars, boundVars>>
  /\ OtaRests

OtaRestarts ==
  /\ ota = "installed"
  /\ ResetTo("trusted")
  /\ UNCHANGED <<flashVars, running, boundVars>>

\* Faulty variant: only the output is turned on again.
AbortHalfway == ota' = "idle" /\ interlock' = FALSE /\ UNCHANGED maintained

AbortUpdate == ota' = "idle" /\ Release

OtaAborts ==
  /\ ota = "aborting"
  /\ AbortUpdate
  /\ UNCHANGED <<flashVars, latched, schedulesLatched, wanted, schedules, dirty, boundVars>>
  /\ OtaRests

-----------------------------------------------------------------------------
Ota == OtaStopped \/ OtaSaves \/ OtaCreates \/ OtaLoads \/ OtaRestarts \/ OtaAborts

StopSteps == StopSaves \/ StopRestarts

Next ==
  \/ Bootloader \/ AppMain
  \/ \E cause \in {"trusted", "untrusted"} : Reset(cause)
  \/ AsyncSave
  \/ \E on \in BOOLEAN : Command(on)
  \/ ArmSchedules \/ StopBegins \/ StopSteps
  \/ OtaStarts \/ Ota

Spec == Init /\ [][Next]_vars

\* The bootloader runs after every reset; app_main, a stop under way and the task
\* of an update keep running.
FairSpec ==
  Spec /\ WF_vars(Bootloader) /\ WF_vars(AppMain) /\ WF_vars(StopSteps) /\ WF_vars(Ota)

-----------------------------------------------------------------------------
(* Properties                                                              *)
TypeOK ==
  /\ image \in [Partitions -> {"none", "new", "pending", "aborted", "invalid", "valid"}]
  /\ chosen \in Partitions /\ running \in Partitions
  /\ kept \in BOOLEAN /\ plan \in {"none", "held", "armed"}
  /\ reason \in {"trusted", "untrusted"}
  /\ at \in DOMAIN Order
  /\ mode \in {"reset", "booting", "main", "stopping", "failed", "persisting", "rolling", "held"}
  /\ {error, interlock, latched, schedulesLatched, wanted, maintained, unsaved} \subseteq BOOLEAN
  /\ schedules \in {"none", "held", "armed"} /\ dirty \subseteq {"targets", "plan"}
  /\ ota \in {"idle", "stopping", "saving", "creating", "loading", "installed", "aborting"}
  /\ stop \in {"idle", "saving", "unheld", "restarting"}
  /\ resets \in 0..MaxResets /\ updates \in 0..MaxUpdates /\ calls \in 0..MaxCalls
  /\ MotorInitTypeOK

\* Nothing in flash would bring motion back.
FlashIsQuiet == ~kept /\ plan # "armed"

\* README.md:17-20, app_main.c:731-748: after a panic, watchdog or brownout the
\* output is enabled only when neither a target nor a schedule could be resumed,
\* now or by any later boot.
UntrustedBootForgets ==
  [][(~interlock /\ interlock' /\ at = "enable" /\ reason = "untrusted")
       => FlashIsQuiet /\ ~wanted /\ schedules # "armed"]_vars

\* app_main.c:498-508, safety_supervisor.c:425-438: a rollback of a failed image and
\* the restart after a stop count as trusted resets, so both happen only with zero
\* targets and held schedules in flash.
SafeRestartsForget ==
  [][(RollBack \/ StopRestarts) => FlashIsQuiet]_vars

\* An image that has not passed its self-test never drives a fan: the output is off,
\* no target is restored, and its schedules are held since before it was
\* downloaded, whatever resets came between.
UntestedImageHeld ==
  Pending /\ mode # "reset" =>
    ~interlock /\ ~wanted /\ plan # "armed" /\ schedules # "armed"

ImagesIn(state) == {p \in Partitions : image[p] = state}

Trial == INSTANCE ImageTrial WITH
  good <- ImagesIn("valid"), candidate <- ImagesIn("new"), trial <- ImagesIn("pending"),
  runs <- IF mode = "reset" THEN {} ELSE {running}

\* However updates, failures, stops and resets follow each other, an image runs
\* unconfirmed in one boot only, and the node keeps a confirmed one to go back to.
ImplementsImageTrial == Trial!TrialSpec

\* An image under test is confirmed, rolled back or held for service.
PendingIsDecided == Pending ~> (~Pending \/ mode = "held")

\* app_main.c:290-300: the restart of an update, or a reset in its place, resumes the
\* targets of the moment, unless a stop that clears them is not finished or could not
\* save.
UpdateKeepsTargets ==
  [][(ota = "installed" /\ mode' = "reset") =>
       kept = wanted \/ stop # "idle" \/ unsaved]_vars

\* README.md:288-290: however an update ends, commands are taken again, and only a
\* latch keeps the output in maintenance.
UpdateEnds == (ota # "idle") ~> (ota = "idle" /\ (maintained => latched))

=============================================================================
