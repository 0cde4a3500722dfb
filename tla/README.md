# ESP32 DShot fan controller: TLA+ models and proofs

The firmware under `src/main/` drives up to four fan motors over DShot. Several
FreeRTOS tasks share its state: the ramp task, the MQTT event and dispatch
tasks, the scheduler, two save tasks, the tachometer tasks, the OTA task and the
safety supervisor. This directory models the parts whose correctness depends on
how those tasks interleave, fail and restart, checks the models with TLC on
small instances, and proves their main invariants with TLAPS for every value of
the constants. Paths and line numbers below refer to `src/main/` unless they say
otherwise. `PROJECT.json` maps every definition to the lines it stands for.

## 1. Inventory

| Component | State it keeps | Operations | Talks to |
| --- | --- | --- | --- |
| `motor_control` | per fan: target, position, throttle, applied and manual percentages, a control generation, RMT stream state, error count and latch, tach inhibit; globally: global, communication and RMT inhibits, maintenance depth, stop depth, ramp pause; `io_mutex` per fan, `s_stop_mutex` | requests (manual, automatic, restore), stops and inhibits, tach inhibit, safe-zero proof, ramp iteration | RMT driver; called by every other task; notifies the supervisor of RMT faults |
| `controller_policy` | none | speed scaling, throttle of a percentage, parsing, migration predicates | pure helper |
| DShot encoder | encoder state in interrupt context | frame and checksum | RMT driver |
| `safety_supervisor` | interlock line, stop depth, safety generation, recursive stop mutex, restart timer, pending reboot, watchdog and lease state | stop transaction, enable transaction, command fence, OTA preparation, supervision pass | motor_control, scheduler, fan_state_store, GPIO, `esp_restart` |
| `command_executor` | none of its own | executes one typed command between `output_command_begin` and `_end` | supervisor, motor_control, scheduler, mqtt_manager |
| `mqtt_manager` | client handle, connection generation, ready flag, pending subscriptions, fragment buffer, command queue with pending slots | event handler, dispatch task, commit fence, start, restart | broker, command_executor, supervisor |
| `scheduler` | entries, active slots, reservations, inhibit with its runtime latch, save generations | set, cancel, start and end of entries, override, inhibit, save | motor_control through callbacks, NVS |
| `fan_state_store` | save generations, notification bits, semaphore | debounced and synchronous saves, restore with legacy migration | motor_control snapshot, NVS |
| `tach_monitor`, `tach_actions` | fault generations, latches; one pending action per fan | sample, confirm a stall, stop, serialised CLEAR | supervisor, motor_control, scheduler, fan_state_store |
| `ota_manager`, `ota_download`, `ota_transport` | claim of the single update, status | start, prepare, download, abort, reboot | supervisor through callbacks, HTTPS, flash |
| `wifi_manager` | connection state, retry timer, back-off | station events, reconnect, wait for an address | driver, app_main |
| `state_publisher` | request bits, requests from before its task | request, publish over the session of the moment | motor_control snapshot, mqtt_manager |
| `command_router`, `app_config` | none that controls anything | parsing, validation | all |
| `app_main` | health, image confirmation | boot order, callbacks, start-up fail-safe, rollback confirmation | all |

Behaviour that is hard to test: two mutexes per stop with work between them
(motor_control, safety_supervisor); values read before a lock is given and used
after it (rollback of a failed RMT call, generations of the save tasks, the
enable transaction); three signals for one acknowledgement (notification,
generation, binary semaphore); caller timeouts beside late answers; partial
failure of a six-step stop; reservations held over calls into another module;
resets between any two flash writes; and one retry timer shared by several checks.
`PROJECT.json` lists each hazard at its line with the property that covers it, or
with the reason why none does.

What makes each component correct, in one line:

- motor_control: an inhibit holds zero, a stop silences what it has stopped, what
  is reported is what is streamed, an RMT fault is always served.
- save protocol: what is acknowledged is durable; no caller waits for ever; every
  edit gets to flash.
- safety_supervisor: no enable crosses a stop, a failed stop latches, a reboot
  finds a safe state in flash, a lost task or stuck stream ends in a reboot.
- mqtt_manager: no command of an old session takes effect; a full queue loses the
  session and never one command out of the middle.
- scheduler: a latched inhibit is final until reset; a manual target wins over a
  scheduled one; every scheduled target has an end, and every due entry its turn.
- tachometer: a confirmed fault stops the fan it names and a CLEAR ends exactly
  the faults it has seen.
- OTA and boot: one update at a time; an unconfirmed image is rolled back or held,
  and drives no fan; an untrusted reset restores no motion.
- connectivity: a change is published or on its way to be; what the broker retains
  comes to agree with the fans.

## 2. Plan

The order in which the system was taken: `MotorControl` (with `ControllerPolicy`),
`SyncSave` with its abstract specification `DurableSave`, `SafetySupervisor`,
`MqttManager` with its abstract specification `CommandSession`, `TachSafety`,
`Scheduler`, `Boot` over `MotorInit` with its abstract specification `ImageTrial`, and
`Connectivity` over `Wifi` and `Publisher`.
A component is checked beside a small stand-in of its neighbours: each module
says in its header which other module has their interior.

What would come next, most important first:

1. `RmtOutput`: the RMT calls of `apply_motor` one at a time under the encoder
   interrupt.
2. Pure operators against reference definitions: the pulse delta and threshold
   arithmetic of `tach_monitor.c`, the DShot checksum, the migration predicates, the
   topics of `command_router.c`.
3. Clock values: the lease and heartbeat arithmetic of `safety_supervisor.c`, the
   back-off of `wifi_manager.c`.

## 3. Modules

### MotorControl and ControllerPolicy

`MotorControl` is `motor_control.c` after a successful initialisation (`MotorInit`
has the initialisation). Its
variables are the fields of `motor_context_t` (functions over fans), the module
statics, the owners of both kinds of mutex, and for each task its position and
the locals it carries across a lock. A `portENTER_CRITICAL` section is one step.
A step that only takes a lock is one; the RMT calls of `apply_motor`, which touch
only state under `io_mutex`, are one step that chooses the call that fails
(`ApplyFinish`). So one stop is `ClaimStop`, `StopZero`, then per fan
`ApplyBegin`, `ApplyFinish`, `StopApplied`, then `StopEnd`; a ramp iteration is
`RampTick`, per fan `RampAdvance`, `ApplyBegin`, `ApplyFinish`, `RampApplied`.
`TakeRmtFault` and `StopForRmtFault` are the reaction of the supervision task,
so that the fault notification has its consumer. `ControllerPolicy` holds the
arithmetic with the integer division of C.

Abstractions: time (whether an unchanged value is due for a refresh is a free
choice), callbacks, logs, diagnostic counters. `control_generation` is a natural
number: the 2^32 wrap between a snapshot and its use is out of reach.

### SyncSave and DurableSave

`fan_state_store.c` and `scheduler.c` hold the same protocol twice; the constant
`SaveAfterDebounce` is their one difference (the scheduler writes after every
debounce, the fan store only for an asynchronous request). `SyncSave` has the
three signals separately: notification bits, generations under `s_lock`, and the
binary semaphore `token`, and every caller step between them. The wait of an
`Impatient` caller may expire at any step; `AwaitTimeout` leaves the generation
behind. A flash write may fail; `Reset` may come between any two steps, loses RAM
and keeps `nvs`. The blob is a version number. `DurableSave` is the promise: edit,
ask, commit, acknowledge, refuse, reset. `asked` and `promised` are history
variables of `SyncSave` that serve the refinement.

### SafetySupervisor

The stop transaction of `safety_supervisor.c` is one `job` per task and the
places `drive`, `halt`, `settle`, `automatic`, `commit`, `verify`, `judge`,
`persist`, `end`, in the order of `stop_all_internal`; every one of its calls may
fail. The enable transaction is `EnableBegin`, `Recheck`, `TurnOn`, `Confirm`,
`LeaveEnable`; a manual command comes before it under the same recursive mutex.
`OtaStart`, `OtaSave`, `OtaAbort`, `OtaReboot` are the callbacks of `app_main.c`.
`Heartbeats`, `RmtFaults`, `MqttQueue` are the three checks of a supervision pass.
`motor_control` is present by what its calls do to inhibits, manual target and
requested motion; the stores by what `DurableSave` promises, with debounced saves
at any moment.

Abstractions: the safety generation appears as the set `current` of tasks that
have read its latest value; the GPIO write of a stop is one step under the mutex;
the release of the maintenance inhibit and of the stop depth is one step; a
debounced save is one step; a restore that a latched schedule refuses is the same
as a new edit; passes that are not due for a restart attempt are left out, so
`due` returns with every pass; an interlock configured off the board, power cuts
and watchdog panics are left out. What goes wrong for good in a behaviour
(`trouble`: a stuck stream, a silent task) is chosen at the start.

### MqttManager and CommandSession

Three tasks. The event task of ESP-MQTT (`evt`) opens and ends sessions
(`EnterConnected`, `SubscribeAll`, `EnterDisconnected`), takes SUBACKs and commands,
and enqueues each command with a pending record. The dispatch task (`disp`)
receives, checks the session, runs the command, and passes the commit fence:
`begin`, `revalidate`, `commit`, then answers and publishes. The loop of
`app_main` (`app`) polls the health of the command plane, disconnects an unhealthy
session and replaces a client whose task has died. `commit` and `life` are the
owners of `s_command_commit_mutex` and `s_lifecycle_mutex`. A handler is cut where
the code gives up a lock or calls the MQTT client, because other tasks run there.
The client and the broker are external: `link`, `asked`, `answers`, `sent`. The
lock that ESP-MQTT holds while it runs a handler is there as `evt = "idle"` in the
guard of an API call; it is what could close a cycle with the two mutexes.

`CommandSession` is the promise of `mqtt_manager.h`: a command between begin and
end belongs to the session in force, and a session ends only when no command holds
the fence.

Abstractions: a DATA event is the one that completes a message; the one-shot
initial publication and the counters of the health snapshot are left out; a
timeout is a free choice at the poll that sees it; what a command does is in the
other modules.

### TachSafety

`tach_monitor.c` and `tach_actions.c` with every module they stop. The sampling
task (`mon`) reads a fan outside the lock (`ReadSample`), judges it inside
(`JudgeCalm`, `JudgeSuspect`, `JudgeFault`), queues the event of a fault and
notifies. The action task (`worker`) wakes, takes the events of the notified fans,
locks `s_tach_action_mutex`, compares alarm and generation, and responds: stop one
fan (`InhibitFan`, `CancelFan`, `SaveFan`), stop all (`StopMotors`,
`InhibitAutomatic`, `Persist`), or publish only; a response that fails escalates to
the global stop. CLEAR is `ClearBegin`, `ClearFence`, `ClearAlarm`,
`ReleaseInhibit`, `ClearEnd` of the command task. Manual commands, schedule entries
(a start holds its reservation between `StartEntry` and `CommitEntry`), the ramp and
debounced saves run beside them: they are what could turn a stopped fan on again.

Abstractions: a sample is calm, low or invalid; percentages are on or off; whether
debounce or timeout has elapsed at a further bad sample is a free choice; the cause
of an event is left out, since the generation identifies the fault; the calls into
motor_control, scheduler and store are one step each, with the failures they can
report. An infinite run has finitely many faults: `MaxFaults` bounds them, and with
them the generations, which are 32 bits wide in the code.

### Scheduler

`scheduler.c` with the callers whose order matters. The scheduler task (`task`) takes
one fan after the other: `TakeEnd`, `RestoreEnded`, `CommitEnd`, then `TakeStart`,
`ApplyStart`, `CommitStart`. The dispatcher (`op`) runs one command at a time: a manual
target, an entry set or disabled, or the override with its walk over all fans
(`ReserveNext`, `WalkTimeout`, `SwitchOverride`, `RestoreNext`, `CommitOverride`). The
action task of the tachometers (`fault`) cancels the entry of a fan, and a stop (`stop`)
halts the motors and then inhibits every schedule or gives up. `s_mutex` is held for
one step; `operation_pending` (`pending`) is what holds a fan between two steps. The
motors are there by their inhibits and two targets; `source` is a history variable
that says what a requested target came from.

Abstractions: time is two comparisons, `due` and `over`, so that intervals, durations
and the latching of the first trigger are arbitrary; a wait for a fan may be given
up whenever somebody has it; saves are in `SyncSave`.

### MotorInit, Boot and ImageTrial

`MotorInit` is `motor_control_init`: per fan a mutex, a channel, an encoder and two
flags, an error after any of them, and the release in the opposite order, each part of
which may fail. `Boot` extends it to a life of the node: `app_main` step by step
(`Order` names the steps), `startup_failure_safe`, the rollback, the bootloader, an
update, and the two blobs in flash that can bring motion back. `Reset` may come between any
two steps, by a power cycle (trusted) or a panic (untrusted). A stop, a save and an
inhibit work as far as the boot has come (`Past`), and each may fail. A failed or
abandoned save may have been written, or be written later. An inhibit that fails has either
expired before it changed anything, or has latched the schedules in RAM and asked for their
save once more.

`ImageTrial` is the promise about the two images: one that was never confirmed runs once,
on trial, and is accepted or given up; only while a confirmed image runs is the other slot
erased or installed. `Boot` maps its slots to it (`Trial`): valid images are `good`, a new
one is `candidate`, a pending one is `trial`, and `runs` is empty during a reset.

Abstractions: the interior of stops and saves; health checks are one choice to pass or
to fail; entries are "none", "held" or "armed" as a whole; the bootloader is external.

### Wifi, Publisher and Connectivity

`Wifi` has the driver's events, their handlers in the event task, and the retry timer
whose callback runs in a task of its own. `Publisher` has the request bits, the ones from
before the task is known, and the task with its snapshot of one fan and the
publication that may be lost; `told` and `retained` are what subscribers and the broker
got. `Connectivity` adds the main task after the output is enabled: it starts both,
starts the client when there is an address, polls the session and asks for
everything in each period.

Abstractions: the back-off, the `degraded` flag and counters; SNTP; two values per fan;
metadata, metrics and health; steps of a ramp below 5 %, which `motor_control.c` does
not report; the outbox of the client. The topics of one fan are published or fail as one.
`MqttManager` has the interior of a session and the replacement of a dead client.

Some definitions have a neighbour marked "Faulty variant": the same definition as
a plausible mistake would have it. No specification uses them; replacing the
original with its variant makes the property named in `PROJECT.json` fail, which
shows that the property is about that line.

## 4. Runs

| Run | Question | States | Bounds and why they are enough |
| --- | --- | --- | --- |
| `motor_stop` | Do inhibits hold, stopped fans stay silent, RMT faults get served? | 2 801 244 | two fans (a stop walks past one that a request can still reach), two callers with two calls each, every variant of `stop_all`, two failing calls (the limit of one fan, or one each) |
| `motor_api` | Is a safe-zero answer one moment; does a global stop end in silence? | 151 202 | every public operation in any order, three calls, one failure; one fan, since both questions are about one fan beside the ramp; counters at their limit |
| `motor_applied` | Is `applied_percentage` the active stream? (finding) | 153 | the least instance: one request, one failure |
| `sync_save` | Is what is acknowledged durable, and does every wait end? | 252 162 | a patient and an impatient caller, three calls, one edit, one failed write, one reset: enough for a token or a notification of an abandoned call to meet the next call. The fan variant (`SaveAfterDebounce = FALSE`) is the harder one; the proofs cover both |
| `supervisor_safe` | What do overlapping stops, enables and updates leave? | 2 103 614 | a stopper beside command, update and supervision tasks, two calls, two failures, a heart may be lost |
| `supervisor_live` | Does a lost task or a stuck stream end in a reboot? | 53 629 | one trouble for good, two failures beside it |
| `supervisor_starved` | The same with both troubles (finding) | 15 886 | one failure |
| `mqtt_session` | What may a command of an old or incomplete session do? | 144 147 | two topics, queue of two, three commands (one is lost), two connections, one failure |
| `tach_stop` | Does every confirmed fault stop what it should, and nothing else? | 462 566 | one fan with all three actions, three faults, three commands, one failed call: a fault, its CLEAR and the next fault overlap |
| `scheduler_turns` | Who owns a reservation, a target, the inhibit? | 291 498 | two fans, two competing entries on the first, a command, a cancellation, a plain or communication stop and its escalation |
| `boot_life` | What reaches flash before a restart or before output; does an image on trial run once? | 290 558 | two fans, two resets, two updates, three calls: an update, a panic in its first boot, and the boot after it |
| `connectivity_link` | Is every change on its way; does the broker come to know the fans? | 169 409 | two fans, a change, a drop of the link or of its address, a lost session |

`ErrorMax` and `DepthMax` stand for UINT16_MAX and UINT32_MAX: saturation and the
refusal at the limit are in the models, at a limit that is reached. `RmtErrorLimit`
is 2, the least value of `Kconfig:171-174`. `MaxCalls`, `MaxFaults`, `MaxValue`,
`MaxFailures` and `MaxResets` only limit how many operations, failures and resets
a behaviour has. `Targets` is {40}, above `MinSpin` = 30, in `motor_stop` and
`motor_api`, and {20}, below it, in `motor_applied`. Deadlock checking is off where the bounded calls run out, the
node restarts, is held for service, or rests without a network.

What the properties say:

- `InhibitHoldsZero`: no request, ramp step or rollback brings motion back under
  an inhibit. `StoppedFansStaySilent`: a stopped fan does not emit again while the stop
  goes on. `RmtFaultIsServed`: a fault always has a pending consequence.
  `ZeroProofIsCoherent`: a positive safe-zero answer describes one moment.
  `GlobalStopSilences`: a global stop ends in silence, whatever failed on the way.
- `ImplementsDurableSave`, `SaveReturns`, `AsyncReachesFlash`: the save protocol.
- `InterlockOffDuringStop`, `TurnedOnOnlyWhenClear`: the line and the stop.
  `ClearedTargetsStayCleared`: no command slips a target under a stop that saves
  zero. `FailedStopLatches`: a temporary stop that reports an error has latched.
  `OtaHoldsMotors`: overlapping stops do not release an update's hold.
  `RestartIsSafe`: a fail-safe reboot finds both sources of motion off in flash.
  `LostHeartRestarts`, `RmtFaultReboots`: liveness.
- `ImplementsCommandSession`: the fence. `NoCommandAfterLoss`: after an overflow no
  command of that session is committed, since the missing one may have been OFF.
  `ReadyIsSubscribed`: ready means that this connection has every subscription.
  `CommandsVisible`: the supervisor sees the age of every unfinished command.
  `CommandFinishes`, `UnhealthyEnds`: liveness.
- `FaultIsServed`: no event is lost, overwritten unanswered or left half done.
  `StaleStopLatchesNothing`: no fan becomes inhibited for a fault that was cleared.
  `FaultStops`: a fault stops its fan or is cleared.
- `ReservationsOwned`: one owner per reservation, none lost by a walk that gives up.
  `ScheduledTargetHasOwner`: no fan runs the target of an entry that will not end.
  `RestoreReturnsManual`: nothing stale is put back. `InhibitIsABarrier`: a latched
  inhibit stays, a complete one leaves no entry active. `DueSlotRuns`: every due entry
  has its turn.
- `LeftoversReachable`: what a failed initialisation could not release keeps its
  handles and the lifecycle that stops use. `UntrustedBootForgets`,
  `SafeRestartsForget`: no boot resumes motion that a panic or a stop has ended.
  `UntestedImageHeld`: an image under test drives no fan; `PendingIsDecided`: it is
  confirmed, rolled back or held. `ImplementsImageTrial`: it runs once, and is given up
  only for a confirmed one. `UpdateKeepsTargets`, `UpdateEnds`: updates.
- `ChangeIsPending`: a change that subscribers were not told of is on its way.
  `StatesReachTheBroker`: once links hold, the broker comes to retain the state of
  every fan.

## 5. Fairness

FreeRTOS runs a task that can run: weak fairness for the local steps of a task.
A task that waits on a mutex competes with others, but every mutex is given after
bounded work, waiters are served by priority, and the ramp task sleeps between
iterations: strong fairness for taking a mutex (`ApplyBegin`, `StopZero`, `Claim`,
the steps of a stop). Nothing obliges a caller to make a call, an RMT call or a
flash write to fail, or a wait to expire. In `MqttManager` a poll that finds a
timeout expired comes again and again as long as the subscription is missing
(strong fairness of `Poll(TRUE)`, `Inspect(TRUE)`), and a client that has been asked
to disconnect does. In `TachSafety` the action task gets its mutex because every
CLEAR gives it back. `GlobalStopSilences` assumes that the
ramp is not paused for ever.

`SafetySupervisor`: a pass of the supervision loop comes again and again while the node
runs (weak), and a started stop, enable or update gets on although it shares a mutex
(strong). `Scheduler`: weak fairness of the task, dispatcher, responder and stop, and of
the clock that ends an active entry (`Expire`). `Boot`: weak fairness of the bootloader,
of the steps of `app_main`, of a stop and of the update task; nothing forces a reset, an
update or a failure. `Connectivity`: weak fairness of tasks and driver; strong fairness of
what is retried for ever, so that `esp_wifi_connect`, the start of the client and the
publication of a fan do not fail each time they are tried.

## 6. Proofs

| Theorem | Module | Says |
| --- | --- | --- |
| `TypeCorrectness` | `MotorControlProofs` | `Spec => []TypeOK`: types, counter limits, no fan index out of range |
| `InhibitSafety` | `MotorControlProofs` | `Spec => []InhibitHoldsZero` |
| `ThrottleSafety` | `MotorControlProofs` | `Spec => []ThrottleTracksPosition`: a throttle stands for its position and is never a reserved DShot command |
| `SilenceSafety` | `MotorControlProofs` | `Spec => []StoppedFansStaySilent` |
| `FaultSafety` | `MotorControlProofs` | `Spec => []RmtFaultIsServed` |
| `ZeroProofSafety` | `MotorControlProofs` | `Spec => []ZeroProofIsCoherent` |
| `Durability` | `SyncSaveProofs` | `Spec => []AcknowledgedIsDurable`: what was acknowledged is in flash, and flash is no newer than memory |
| `Refinement` | `SyncSaveProofs` | `Spec => ImplementsDurableSave` |
| `WakeUpSafety` | `SyncSaveProofs` | `Spec => []WakeUpIsDue`: a caller that waits is saved for or finds its answer, whatever became of the notification and token of a caller that gave up |
| `TypeCorrectness` | `MqttManagerProofs` | `Spec => []TypeOK`: types, and the queue never beyond its depth |
| `FenceSafety` | `MqttManagerProofs` | `Spec => []CommandFence`: a command that holds the fence belongs to the session in force |
| `LossSafety` | `MqttManagerProofs` | `Spec => []NoCommandAfterLoss` |
| `SubscriptionSafety` | `MqttManagerProofs` | `Spec => []ReadyIsSubscribed` |
| `VisibilitySafety` | `MqttManagerProofs` | `Spec => []CommandsVisible` |
| `Refinement` | `MqttManagerProofs` | `Spec => ImplementsCommandSession` |
| `TypeCorrectness` | `TachSafetyProofs` | `Spec => []TypeOK`: types, and the owner of `s_tach_action_mutex` on every way out |
| `NoStaleStop` | `TachSafetyProofs` | `Spec => StaleStopLatchesNothing` |
| `ResponseSafety` | `TachSafetyProofs` | `Spec => []FaultIsServed` |
| `TypeCorrectness` | `SchedulerProofs` | `Spec => []TypeOK` |
| `ReservationSafety` | `SchedulerProofs` | `Spec => []ReservationsOwned` |
| `BarrierSafety` | `SchedulerProofs` | `Spec => []InhibitIsABarrier` |
| `OwnerSafety` | `SchedulerProofs` | `Spec => []ScheduledTargetHasOwner` |
| `RestoreSafety` | `SchedulerProofs` | `Spec => []RestoreReturnsManual` |
| `TypeCorrectness` | `SafetySupervisorProofs` | `Spec => []TypeOK`, and that `s_stop_depth` counts the stops under way |
| `LineSafety` | `SafetySupervisorProofs` | `Spec => []InterlockOffDuringStop` |
| `TargetSafety` | `SafetySupervisorProofs` | `Spec => []ClearedTargetsStayCleared` |
| `EnableSafety` | `SafetySupervisorProofs` | `Spec => TurnedOnOnlyWhenClear` |
| `UpdateSafety` | `SafetySupervisorProofs` | `Spec => []OtaHoldsMotors` |
| `RebootSafety` | `SafetySupervisorProofs` | `Spec => []RestartIsSafe` |
| `LatchSafety` | `SafetySupervisorProofs` | `Spec => FailedStopLatches` |
| `TypeCorrectness` | `BootProofs` | `Spec => []TypeOK`, with `MotorInit` |
| `TeardownSafety` | `BootProofs` | `Spec => []LeftoversReachable` |
| `SelfTestSafety` | `BootProofs` | `Spec => []UntestedImageHeld` |
| `ForgetSafety` | `BootProofs` | `Spec => UntrustedBootForgets` |
| `RollbackSafety` | `BootProofs` | `Spec => SafeRestartsForget` |
| `ResumeSafety` | `BootProofs` | `Spec => UpdateKeepsTargets` |
| `Refinement` | `BootProofs` | `Spec => ImplementsImageTrial` |
| `FallbackSafety` | `BootProofs` | `Spec => []Trial!Bootable`: a confirmed image is always there, and the one that runs is confirmed or on its trial |
| `TypeCorrectness` | `ConnectivityProofs` | `Spec => []TypeOK`, with `Wifi` and `Publisher` |
| `RetrySafety` | `ConnectivityProofs` | `Spec => []RetryIsLeft`: a station that is down has an attempt ahead, in the timer, its task or an event |
| `AddressSafety` | `ConnectivityProofs` | `Spec => []AddressIsKnown`: with no event left to handle, `s_has_ip` is right |
| `ChangeSafety` | `ConnectivityProofs` | `Spec => []ChangeIsPending` |

They hold for any number of fans, tasks, entries, topics, calls, faults, connections,
updates, changes, drops, versions and resets, and any queue depth, under the assumptions
`MotorAssumption`, `MinSpinAssumption`, `SaveAssumption`, `MqttAssumption`,
`TachAssumption`, `SchedulerAssumption`, `SupervisorAssumption`, `BootAssumption`,
`MotorInitAssumption`, `WifiAssumption`, `PublisherAssumption` and
`ConnectivityAssumption`, which TLC evaluates in the runs of those modules.

`InhibitHoldsZero` is not inductive: between a failed RMT call and its rollback a
task carries an old position. `SafeInv` adds `NoStaleRollback`: while such a
window is open, the attempted generation is at most the fan's generation, and if
they are equal and an inhibit is in force, the carried position is zero. So a
rollback that is not superseded writes zero under an inhibit. Two more conjuncts
say which operations latch nothing and which belong to the ramp task. Most steps
are quiet (they zero or leave alone what matters); `QuietStep` deals with all of
them at once, the rest have a lemma each.

The other three theorems of motor_control share `StopInv`. Each step is one of a single
task (`OneTaskMoves`). `Holders` says which `io_mutex` a task holds at its place,
`Positions` that a stop past its zeroing owns `s_stop_mutex`, `Counted` that
`s_stop_depth` counts the stops, so that none moves a fan meanwhile. `Motionless(S)` is
the core: every fan is at rest and no rollback of a task in `S` that would still take
place moves one; it survives every step while no fan may move, and the zeroing of a stop
brings it about for all other tasks, since it outdates their generations. `Served` and
`Silence` strengthen the two properties by it.

`AcknowledgedIsDurable` needs `SaveInv`: the mutex admits one caller and it owns
the latest requested generation (`Exclusive`); the save task runs behind the
requests (`Behind`); a snapshot taken for the current generation is no older than
what the caller asked (`Carried`), and flash only moves forward (`Forward`).
The refinement proof has one step per action: most leave the variables of
`DurableSave` alone, `SaveSync` is `Ask`, a successful `WriteFlash` is `Commit`,
`Leave` is `Acknowledge` or `Refuse`, `LockTimeout` is `Refuse`.

`WakeUpIsDue` needs to know that the task looks at the requests again before it waits:
`Saving` says how (a notification, or a place before the comparison of generations), and
`Waking` that a caller whose generation is not complete is saved for, while one whose
generation is complete finds the token or the task about to give it.

MqttManager: `Owners` says who has `s_command_commit_mutex` at each place of the
event and dispatch tasks. With it `CommandFence` is inductive: whoever changes the
session holds that mutex or finds it free, so a command in its commit keeps the
session it has just compared. The refinement follows, one step per action: taking
the mutex and comparing is `Begin`, every way a session ends is `Invalidate`.
`LossInv` says that while a client is connected the session that lost a message is
older than the session in force, because the overflow itself counts the generation
up; a command in its commit is of the session in force.

TachSafety: `AlarmInv` says that an alarm of a stopping configuration is latched (so
that no healthy sample ends it), has a nonzero generation, and is the one about to be
queued. `ResponseInv` says that the event the action task responds to stays current,
which needs the mutex (CLEAR is excluded) and the latch, and that the steps of the
response already made are still in force. From there `NoStaleStop` is one step.
`ServeInv` strengthens `FaultIsServed`: an inhibited fan has no manual target, so
that what a save writes after the stop is zero; and an alarm raised between the two
halves of a CLEAR is still outstanding, so that the release of the inhibit loses
nothing.

`ReadyIsSubscribed` needs `SubInv`: the lifecycle of the client (`Lifecycle`), every
outstanding SUBACK tied to a request of this connection (`Tied`), and what the handler
has set up at each of its places (`Setup`). `CommandsVisible` needs `VisInv`: one user of
a pending slot (`OneUser`), and a mark for each command between queue and answer
(`Marked`).

Scheduler: `Barrier` ties the latch, the inhibit and the places of the override that
have read them. Over it come, one layer each, what a refused start leaves stopped
(`RefusedIsStopped`), what an accepted start still stands on (`StartStands`), the hold of
a stop and of a tachometer fault on the fans they are about (`StopHolds`, `FaultHolds`),
and what may have replaced a target (`TaskReplaced`, `OpReplaced`). With these
`ScheduledTargetHasOwner` is inductive; `Kept` does the same for the manual target that
an end puts back, except for fans that a communication stop has given up (`Pardoned`).

SafetySupervisor: `s_stop_depth` is the cardinality of the stops under way (`Counted`), so
an enable that finds it zero finds no stop. `Fenced` says that whoever holds the mutex
with the latest safety generation has missed no stop; the maintenance counter is at least
the number of its holders (`Holding`); what a stop has zeroed stays so until its save
(`Quenched`, `Committed`), because a command needs the mutex; and a stop that has met
an error has latched before it ends (`Escalated`).

Boot: `Unfolding` ties the progress of `motor_control_init` to the place of `app_main`,
`Course` the boot's trust and health to its place. `Slots` says that one of the two images
is valid at every moment, so that a rollback finds one. `Held`, `Forgotten` and
`Resumable` say which writes are still outstanding: a pending save may land at any moment
until the restart, and each invariant names the value it carries. For the refinement of
`ImageTrial`, `OneTrial` says that a pending image is the newest one and runs until the
reset that ends its trial; with `Slots` and `Course` every step is then one of the promise
or none: `Bootloader` is `BootOnTrial` or `BootConfirmed`, `Confirm` is `Accept`,
`RollBack` is `GiveUp`, `OtaLoads` is `Erase` or `Install`, and what ends a boot is `Halt`.

Connectivity: the handler believes what it was last told, so the invariants speak of the
event queue. `Says` is that the last of the events to be handled that matters is a good one,
`Quiet` that none is bad. `Retrying`, `AddressGained` and `AddressLost` say that either the
queue will bring the right belief or the belief is right and the queue leaves it so; lemmas
on a posted and a handled event (`PostEvent`, `HandleFirst`) carry them over every step. For the
publisher, `SnapshotTaken` says that a snapshot in the hands of the task is of a fan whose
request it has taken, and if the fan has changed since, it has been requested anew; so a
publication that succeeds may forget the request.

Proved and not run: the type invariants; `ThrottleTracksPosition` and `Trial!Bootable`;
`CommandFence`, `AcknowledgedIsDurable`, `WakeUpIsDue`, `RetryIsLeft` and `AddressIsKnown`,
each of which is the safety beneath a refinement or a liveness property that a run checks
(`ImplementsCommandSession`, `ImplementsDurableSave`, `SaveReturns`,
`StatesReachTheBroker`). Only model-checked: the liveness properties, since fairness and ENABLED are
beyond what TLAPS handles here. Every invariant and action property of a passing run is
proved.

## 7. Findings

- `motor_applied`: `README.md:176` defines `applied_percentage` as the percentage
  of the active RMT stream. `record_apply_result` changes it only after success
  (`motor_control.c:185-187`), so once `rmt_disable` has stopped a stream and a
  later call fails, a nonzero value stays reported with nothing on the wire.
- `supervisor_starved`: every check of a pass shares one restart timer. A lost
  heartbeat beside a stuck RMT stream takes each attempt, its restart is
  suppressed because the stop fails, and the reboot that the comment at
  `safety_supervisor.c:563-567` calls the only recovery is never due.

What the models also show, and no comment contradicts:

- A power cycle between an untrusted boot and its zero commit makes the next boot a
  trusted one: the reset reason is not itself persisted (`UntrustedBootForgets` is about
  boots that get as far as to enable output).
- `ota_download_verified` asks its transport whether it has expired after
  `esp_ota_set_boot_partition` (`ota_download.c:125-132`), so an image that is installed
  can be reported as failed; `docs/hardware-validation.md:166-171` expects failures of a
  transfer to leave the boot partition unchanged. `OtaLoads` has both outcomes.
- The restart of an update is trusted: a stop that has cleared a target and could not
  save it, or is still at it, is undone by that restart (the exception in
  `UpdateKeepsTargets`).
- A communication stop whose `scheduler_try_inhibit_all` times out latches nothing in the
  scheduler (the exception `missed` in `RestoreReturnsManual`).
- Redundant given what is proved: `s_inhibited ||` in `process_schedule_end`, the second
  save of `startup_failure_safe` (`app_main.c:501-503`).

## 8. Not modelled

- Drivers below the RMT, GPIO, NVS, Wi-Fi and MQTT client calls, the encoder in its
  interrupt, the bootloader: external, present by what the code sees of them.
- Formatting and parsing (`command_router`, the JSON of `state_publisher`), configuration
  (`app_config`), topics: pure functions of their input with tests of their own.
- Fragments of a message (`mqtt_manager.c`): a connection delivers them contiguously, so
  the guards of the assembly find nothing to refuse; a DATA event is the complete message.
- The transfer in `ota_download` and `ota_transport`: one step with its outcomes.
- Values of clocks: heartbeat and lease ages, debounce, retry and Wi-Fi back-off are free
  choices of when they expire. A start of the back-off timer that fails would end the
  retries; `wifi_manager.c` logs it, and `Wifi` leaves it out.
- Pulse baselines and RPM arithmetic of `tach_monitor.c`.
- "online" and "offline" publications, of which one late or lost is not repaired before
  the next session; metrics and health reports.
- Host-side scripts, tools, schemas and test evidence outside `src/main/`.
