---------------------------- MODULE MotorControl ----------------------------
(***************************************************************************)
(* motor_control.c after motor_control_init has returned ESP_OK: the ramp  *)
(* task and every task that calls the public operations, interleaved at    *)
(* the granularity the code gives them.  A portENTER_CRITICAL section is   *)
(* one step; io_mutex (one per fan) and s_stop_mutex are held across       *)
(* steps.  The RMT calls of apply_motor touch only state that io_mutex     *)
(* guards, so they are one step with every outcome the calls can have.     *)
(*                                                                         *)
(* Time, event callbacks, log lines and diagnostic counters are left out.  *)
(* Whether an unchanged value is due for a refresh is a free choice.       *)
(***************************************************************************)
EXTENDS ControllerPolicy, FiniteSets

CONSTANTS
  N,              \* s_fan_count
  Callers,        \* tasks that call the public operations
  Supervisor,     \* the caller that consumes the RMT fault notification
  Ramp,           \* motor_ramp_task
  NoTask,         \* owner of a free mutex
  RampStep,       \* s_ramp_step_pct
  RmtErrorLimit,  \* CONFIG_RMT_ERROR_LIMIT
  ErrorMax,       \* saturation of rmt_error_consecutive (UINT16_MAX)
  DepthMax,       \* largest s_stop_depth and s_maintenance_depth (UINT32_MAX)
  Targets,        \* percentages that callers request
  CallKinds,      \* the public operations that callers use
  StopCalls,      \* the variants of stop_all_internal that callers use
  MaxCalls,       \* bound on the operations started by callers
  MaxFaults       \* bound on the RMT calls that fail

Fans  == 1..N
Tasks == Callers \cup {Ramp}

Inhibits == {"NONE", "GLOBAL", "MAINTENANCE", "COMMUNICATION", "RMT", "TACH_ALL"}

Ops == [kind : {"none", "ramp", "stop", "single", "zero"}, inhibit : Inhibits,
        clear : BOOLEAN, rollback : BOOLEAN]

Op(kind) ==
  [kind |-> kind, inhibit |-> "NONE", clear |-> FALSE, rollback |-> FALSE]

StopOp(inhibit, clear) ==
  [kind |-> "stop", inhibit |-> inhibit, clear |-> clear, rollback |-> FALSE]

\* The arguments the public wrappers of stop_all_internal pass: only
\* motor_control_stop_all_verified rolls back, and it latches no inhibit.
StopVariants ==
  {o \in Ops : o.kind = "stop" /\ (o.rollback => o.inhibit = "NONE")}

PublicCalls == {"stop_all", "stop_one", "tach", "manual", "automatic", "restore",
                "maintenance", "pause", "safe_zero"}

ASSUME MotorAssumption ==
  /\ N \in Nat \ {0}
  /\ Supervisor \in Callers
  /\ Ramp \notin Callers
  /\ NoTask \notin Tasks
  /\ IsFiniteSet(Callers)
  /\ RampStep \in 1..20
  /\ RmtErrorLimit \in Nat \ {0}
  /\ ErrorMax \in Nat /\ ErrorMax >= RmtErrorLimit
  /\ DepthMax \in Nat \ {0}
  /\ Targets \subseteq Pct
  /\ CallKinds \subseteq PublicCalls
  /\ StopCalls \subseteq StopVariants
  /\ MaxCalls \in Nat
  /\ MaxFaults \in Nat

VARIABLES
  \* motor_context_t, guarded by s_motor_lock
  target, current, throttle, applied, manual, generation, errors, latched,
  tach_inhibited,
  \* motor_context_t, guarded by io_mutex
  rmt,
  \* module state, guarded by s_motor_lock
  stop_depth, maintenance_depth, global_inhibited, communication_inhibited,
  rmt_inhibited, rmt_fault_pending, ramp_paused,
  \* mutexes
  io_owner, stop_owner,
  \* locals of each task: position, operation, loop index, what apply_motor
  \* read, whether the stop is free of errors, and what a rollback needs
  pc, op, fan, request, stop_ok, previous, attempted, changed,
  \* bounds
  calls, faults

motorVars == <<target, current, throttle, applied, manual, generation, errors,
               latched, tach_inhibited>>
inhibitVars == <<stop_depth, maintenance_depth, global_inhibited,
                 communication_inhibited, rmt_inhibited, rmt_fault_pending>>
mutexVars == <<io_owner, stop_owner>>
localVars == <<op, fan, request, stop_ok, previous, attempted, changed>>

vars == <<motorVars, rmt, inhibitVars, ramp_paused, mutexVars, pc, localVars,
          calls, faults>>

\* last_dshot is UINT32_MAX before the first transmission, which init has
\* completed; the composite word is the throttle, telemetry is never requested.
RmtState == [active : BOOLEAN, enabled : BOOLEAN,
             payload : 0..DshotMax, last : 0..DshotMax]

\* What apply_motor read; locals are cleared when they go out of scope.
NoRequest == [dshot |-> 0, pct |-> 0]

Init ==
  /\ target = [f \in Fans |-> 0]
  /\ current = [f \in Fans |-> 0]
  /\ throttle = [f \in Fans |-> 0]
  /\ applied = [f \in Fans |-> 0]
  /\ manual = [f \in Fans |-> 0]
  /\ generation = [f \in Fans |-> 0]
  /\ errors = [f \in Fans |-> 0]
  /\ latched = [f \in Fans |-> FALSE]
  /\ tach_inhibited = [f \in Fans |-> FALSE]
  /\ rmt = [f \in Fans |-> [active |-> TRUE, enabled |-> TRUE,
                            payload |-> 0, last |-> 0]]
  /\ stop_depth = 0
  /\ maintenance_depth = 0
  /\ global_inhibited = FALSE
  /\ communication_inhibited = FALSE
  /\ rmt_inhibited = FALSE
  /\ rmt_fault_pending = FALSE
  /\ ramp_paused = FALSE
  /\ io_owner = [f \in Fans |-> NoTask]
  /\ stop_owner = NoTask
  /\ pc = [t \in Tasks |-> IF t = Ramp THEN "boot" ELSE "idle"]
  /\ op = [t \in Tasks |-> Op("none")]
  /\ fan = [t \in Tasks |-> 1]
  /\ request = [t \in Tasks |-> NoRequest]
  /\ stop_ok = [t \in Tasks |-> TRUE]
  /\ previous = [t \in Tasks |-> [f \in Fans |-> 0]]
  /\ attempted = [t \in Tasks |-> [f \in Fans |-> 0]]
  /\ changed = FALSE
  /\ calls = 0
  /\ faults = 0

Goto(t, to) == pc' = [pc EXCEPT ![t] = to]

\* A caller starts an operation.
Call(t, kind) ==
  /\ kind \in CallKinds
  /\ pc[t] = "idle"
  /\ calls < MaxCalls
  /\ calls' = calls + 1

-----------------------------------------------------------------------------
(***************************************************************************)
(* apply_motor: take io_mutex and read the request; run the RMT calls,     *)
(* record the result and give io_mutex.                                    *)
(***************************************************************************)
\* Faulty variant: the mutex is only looked at.
LookWithoutLocking(t, f) == io_owner[f] = NoTask /\ UNCHANGED io_owner

\* Taking the io_mutex of fan f, which must be free.
TakeIo(t, f) == io_owner[f] = NoTask /\ io_owner' = [io_owner EXCEPT ![f] = t]

ApplyBegin(t) ==
  LET f == fan[t]
      reserved == throttle[f] \in Reserved
  IN /\ pc[t] = "apply"
     /\ TakeIo(t, f)
     /\ throttle' = [throttle EXCEPT ![f] = IF reserved THEN 0 ELSE @]
     /\ request' = [request EXCEPT ![t] =
          IF reserved THEN NoRequest
          ELSE [dshot |-> throttle[f], pct |-> EffectivePct(current[f])]]
     /\ Goto(t, "rmt")
     /\ UNCHANGED <<target, current, applied, manual, generation, errors,
                    latched, tach_inhibited, rmt, inhibitVars, ramp_paused,
                    stop_owner, op, fan, stop_ok, previous, attempted,
                    changed, calls, faults>>

\* The RMT calls of apply_motor on fan f for throttle d, with the result ok: the
\* stream already carries d and no refresh is due; rmt_disable fails;
\* rmt_tx_wait_all_done or rmt_encoder_reset fails; rmt_enable or rmt_transmit
\* fails (e: whether the channel could be disabled again); all calls succeed.
RmtSequence(f, d, ok) ==
  LET r == rmt[f]
      After(s) == rmt' = [rmt EXCEPT ![f] = s]
  IN \/ ok  /\ r.last = d /\ r.active /\ r.enabled /\ rmt' = rmt
     \/ ~ok /\ r.enabled /\ rmt' = rmt
     \/ ~ok /\ r.active /\ After([r EXCEPT !.enabled = FALSE])
     \/ ~ok /\ \E e \in BOOLEAN :
                 After([r EXCEPT !.enabled = e, !.active = FALSE, !.payload = d])
     \/ ok  /\ After([active |-> TRUE, enabled |-> TRUE, payload |-> d, last |-> d])

RecordApplyResult(f, ok, pct) ==
  LET count == IF ok THEN 0 ELSE IF errors[f] < ErrorMax THEN errors[f] + 1 ELSE errors[f]
      trip  == ~ok /\ count >= RmtErrorLimit
  IN /\ errors' = [errors EXCEPT ![f] = count]
     /\ applied' = [applied EXCEPT ![f] = IF ok THEN pct ELSE @]
     /\ latched' = [latched EXCEPT ![f] = @ \/ trip]
     /\ target' = [target EXCEPT ![f] = IF trip THEN 0 ELSE @]
     /\ generation' = [generation EXCEPT ![f] = IF trip THEN @ + 1 ELSE @]
     /\ rmt_inhibited' = (rmt_inhibited \/ trip)
     /\ rmt_fault_pending' = (rmt_fault_pending \/ trip)

\* Every io_mutex that task t holds is free again.
GiveIo(t) == io_owner' = [f \in Fans |-> IF io_owner[f] = t THEN NoTask ELSE io_owner[f]]

ApplyFinish(t) ==
  LET f == fan[t]
  IN /\ pc[t] = "rmt"
     /\ \E ok \in BOOLEAN :
          /\ ok \/ faults < MaxFaults
          /\ faults' = IF ok THEN faults ELSE faults + 1
          /\ RmtSequence(f, request[t].dshot, ok)
          /\ RecordApplyResult(f, ok, request[t].pct)
          /\ Goto(t, IF op[t].kind = "single" THEN "idle"
                     ELSE IF ok THEN "applied" ELSE "failed")
     /\ GiveIo(t)
     /\ request' = [request EXCEPT ![t] = NoRequest]
     /\ UNCHANGED <<current, throttle, manual, tach_inhibited, stop_depth,
                    maintenance_depth, global_inhibited, communication_inhibited,
                    ramp_paused, stop_owner, op, fan, stop_ok, previous,
                    attempted, changed, calls>>

\* Faulty variant: the generation is not compared.
RollsBackRegardless(t, f) == FALSE

\* A concurrent operation has advanced the generation since task t's own write.
Superseded(t, f) == generation[f] # attempted[t][f]

\* If undo, fan f returns to the position it had before task t's write.
RollBack(t, f, undo) ==
  /\ current' = [current EXCEPT ![f] = IF undo THEN previous[t][f] ELSE @]
  /\ throttle' = [throttle EXCEPT ![f] =
                    IF undo THEN PctToDshot(previous[t][f]) ELSE @]
  /\ generation' = [generation EXCEPT ![f] = IF undo THEN @ + 1 ELSE @]

-----------------------------------------------------------------------------
(***************************************************************************)
(* stop_all_internal: claim (s_stop_depth), wait for s_stop_mutex, zero    *)
(* every motor in one critical section, apply fan by fan, release.         *)
(***************************************************************************)
\* Faulty variant: the maintenance counter is not checked.
StopDepthOnly(o) == stop_depth < DepthMax

\* Neither nesting counter that the stop increments is at its limit.
DepthAvailable(o) ==
  /\ stop_depth < DepthMax
  /\ o.inhibit = "MAINTENANCE" => maintenance_depth < DepthMax

ClaimStop(t, o) ==
  /\ DepthAvailable(o)
  /\ stop_depth' = stop_depth + 1
  /\ maintenance_depth' = IF o.inhibit = "MAINTENANCE" THEN maintenance_depth + 1
                          ELSE maintenance_depth
  /\ op' = [op EXCEPT ![t] = o]
  /\ Goto(t, "stopMutex")
  /\ UNCHANGED <<motorVars, rmt, global_inhibited, communication_inhibited,
                 rmt_inhibited, ramp_paused, mutexVars, fan, request, stop_ok, previous, attempted, changed, faults>>

StopAll(t, o) == Call(t, "stop_all") /\ ClaimStop(t, o) /\ UNCHANGED rmt_fault_pending

StopZero(t) ==
  LET o == op[t]
  IN /\ pc[t] = "stopMutex"
     /\ stop_owner = NoTask
     /\ stop_owner' = t
     /\ global_inhibited' = (global_inhibited \/ o.inhibit = "GLOBAL")
     /\ communication_inhibited' = (communication_inhibited \/ o.inhibit = "COMMUNICATION")
     /\ rmt_inhibited' = (rmt_inhibited \/ o.inhibit = "RMT")
     /\ previous' = [previous EXCEPT ![t] = current]
     /\ target' = [f \in Fans |-> 0]
     /\ current' = [f \in Fans |-> 0]
     /\ throttle' = [f \in Fans |-> 0]
     /\ manual' = [f \in Fans |-> IF o.clear THEN 0 ELSE manual[f]]
     /\ tach_inhibited' = [f \in Fans |-> tach_inhibited[f] \/ o.inhibit = "TACH_ALL"]
     /\ generation' = [f \in Fans |-> generation[f] + 1]
     /\ attempted' = [attempted EXCEPT ![t] = [f \in Fans |-> generation[f] + 1]]
     /\ fan' = [fan EXCEPT ![t] = 1]
     /\ stop_ok' = [stop_ok EXCEPT ![t] = TRUE]
     /\ Goto(t, "apply")
     /\ UNCHANGED <<applied, errors, latched, rmt, stop_depth, maintenance_depth,
                    rmt_fault_pending, ramp_paused, io_owner, op, request,
                    changed, calls, faults>>

StopApplied(t) ==
  LET f == fan[t]
  IN /\ pc[t] \in {"applied", "failed"}
     /\ op[t].kind = "stop"
     /\ stop_ok' = [stop_ok EXCEPT ![t] = @ /\ pc[t] = "applied"]
     /\ RollBack(t, f, pc[t] = "failed" /\ op[t].rollback /\ ~Superseded(t, f))
     /\ fan' = [fan EXCEPT ![t] = @ + 1]
     /\ Goto(t, IF f < N THEN "apply" ELSE "stopEnd")
     /\ UNCHANGED <<target, applied, manual, errors, latched, tach_inhibited, rmt,
                    inhibitVars, ramp_paused, mutexVars, op, request, previous, attempted, changed, calls, faults>>

GiveStopMutex == stop_owner' = NoTask

StopEnd(t) ==
  /\ pc[t] = "stopEnd"
  /\ stop_depth' = IF stop_depth > 0 THEN stop_depth - 1 ELSE stop_depth
  /\ GiveStopMutex
  /\ op' = [op EXCEPT ![t] = Op("none")]
  /\ fan' = [fan EXCEPT ![t] = 1]
  /\ stop_ok' = [stop_ok EXCEPT ![t] = TRUE]
  /\ previous' = [previous EXCEPT ![t] = [f \in Fans |-> 0]]
  /\ attempted' = [attempted EXCEPT ![t] = [f \in Fans |-> 0]]
  /\ Goto(t, IF t = Ramp THEN "suspended" ELSE "idle")
  /\ UNCHANGED <<motorVars, rmt, maintenance_depth, global_inhibited,
                 communication_inhibited, rmt_inhibited, rmt_fault_pending,
                 ramp_paused, io_owner, request, changed, calls, faults>>

-----------------------------------------------------------------------------
(***************************************************************************)
(* motor_ramp_task.  Registration with the task watchdog may fail: the     *)
(* task then latches the global inhibit and suspends itself for good.      *)
(***************************************************************************)
RampRegistered ==
  /\ pc[Ramp] = "boot"
  /\ op' = [op EXCEPT ![Ramp] = Op("ramp")]
  /\ Goto(Ramp, "loop")
  /\ UNCHANGED <<motorVars, rmt, inhibitVars, ramp_paused, mutexVars, fan, request,
                 stop_ok, previous, attempted, changed, calls, faults>>

RampFatal ==
  /\ pc[Ramp] = "boot"
  /\ ClaimStop(Ramp, StopOp("GLOBAL", TRUE))
  /\ UNCHANGED <<rmt_fault_pending, calls>>

\* The task suspends itself again whenever something resumes it.
RampSuspended == pc[Ramp] = "suspended" /\ UNCHANGED vars

\* A paused iteration only feeds the watchdog and the heartbeat.
RampTick ==
  /\ pc[Ramp] = "loop"
  /\ Goto(Ramp, IF ramp_paused THEN "loop" ELSE "step")
  /\ fan' = [fan EXCEPT ![Ramp] = 1]
  /\ UNCHANGED <<motorVars, rmt, inhibitVars, ramp_paused, mutexVars, op, request,
                 stop_ok, previous, attempted, changed, calls, faults>>

\* current moved towards target by at most RampStep.
Stepped(c, g) ==
  IF g - c > RampStep THEN c + RampStep
  ELSE IF c - g > RampStep THEN c - RampStep
  ELSE g

\* Faulty variant: a fan at its target is not applied.
ApplyOnlyChanges(move) == IF move THEN "apply" ELSE "applied"

\* A fan that has reached its target is applied all the same, for refresh.
AfterAdvance(move) == "apply"

RampAdvance ==
  LET f == fan[Ramp]
      c == Stepped(current[f], target[f])
      move == current[f] # target[f]
  IN /\ pc[Ramp] = "step"
     /\ changed' = move
     /\ previous' = [previous EXCEPT ![Ramp][f] = current[f]]
     /\ current' = [current EXCEPT ![f] = IF move THEN c ELSE @]
     /\ throttle' = [throttle EXCEPT ![f] = IF move THEN PctToDshot(c) ELSE @]
     /\ generation' = [generation EXCEPT ![f] = IF move THEN @ + 1 ELSE @]
     /\ attempted' = [attempted EXCEPT ![Ramp][f] =
                        IF move THEN generation[f] + 1 ELSE generation[f]]
     /\ Goto(Ramp, AfterAdvance(move))
     /\ UNCHANGED <<target, applied, manual, errors, latched, tach_inhibited, rmt,
                    inhibitVars, ramp_paused, mutexVars, op, fan, request, stop_ok, calls, faults>>

\* After the last fan the iteration records its heartbeat and sleeps.
RampApplied ==
  LET f == fan[Ramp]
  IN /\ pc[Ramp] \in {"applied", "failed"}
     /\ op[Ramp].kind = "ramp"
     /\ RollBack(Ramp, f, changed /\ pc[Ramp] = "failed" /\ ~Superseded(Ramp, f))
     /\ fan' = [fan EXCEPT ![Ramp] = IF f < N THEN @ + 1 ELSE 1]
     /\ previous' = [previous EXCEPT ![Ramp][f] = 0]
     /\ attempted' = [attempted EXCEPT ![Ramp][f] = 0]
     /\ changed' = FALSE
     /\ Goto(Ramp, IF f < N THEN "step" ELSE "loop")
     /\ UNCHANGED <<target, applied, manual, errors, latched, tach_inhibited, rmt,
                    inhibitVars, ramp_paused, mutexVars, op, request, stop_ok, calls, faults>>

-----------------------------------------------------------------------------
(***************************************************************************)
(* Operations on one fan that zero it and apply: stop_one and              *)
(* set_tach_inhibit(f, true).                                              *)
(***************************************************************************)
ZeroOne(t, f, clear) ==
  /\ target' = [target EXCEPT ![f] = 0]
  /\ current' = [current EXCEPT ![f] = 0]
  /\ throttle' = [throttle EXCEPT ![f] = 0]
  /\ manual' = [manual EXCEPT ![f] = IF clear THEN 0 ELSE @]
  /\ generation' = [generation EXCEPT ![f] = @ + 1]
  /\ op' = [op EXCEPT ![t] = Op("single")]
  /\ fan' = [fan EXCEPT ![t] = f]
  /\ Goto(t, "apply")
  /\ UNCHANGED <<applied, errors, latched, rmt, inhibitVars, ramp_paused, mutexVars,
                 request, stop_ok, previous, attempted, changed, faults>>

StopOne(t, f, clear) ==
  Call(t, "stop_one") /\ ZeroOne(t, f, clear) /\ UNCHANGED tach_inhibited

SetTachInhibit(t, f) ==
  /\ Call(t, "tach")
  /\ tach_inhibited' = [tach_inhibited EXCEPT ![f] = TRUE]
  /\ ZeroOne(t, f, TRUE)

ClearTachInhibit(t, f) ==
  /\ tach_inhibited[f]
  /\ Call(t, "tach")
  /\ tach_inhibited' = [tach_inhibited EXCEPT ![f] = FALSE]
  /\ UNCHANGED <<target, current, throttle, applied, manual, generation, errors,
                 latched, rmt, inhibitVars, ramp_paused, mutexVars, pc, localVars,
                 faults>>

-----------------------------------------------------------------------------
(***************************************************************************)
(* Operations that are one critical section.  A call that is refused or    *)
(* that finds its effect in place changes nothing and is not a step.       *)
(***************************************************************************)
\* Faulty variant: a stop in progress does not refuse requests.
AllowedDuringStop(f) ==
  /\ ~global_inhibited /\ maintenance_depth = 0 /\ ~rmt_inhibited
  /\ ~latched[f] /\ ~tach_inhibited[f]

\* s_motors[f] may move at all: the conditions every request shares.
MotionAllowed(f) ==
  /\ stop_depth = 0
  /\ ~global_inhibited
  /\ maintenance_depth = 0
  /\ ~rmt_inhibited
  /\ ~latched[f]
  /\ ~tach_inhibited[f]

AutomaticAllowed(f) == MotionAllowed(f) /\ ~communication_inhibited

RequestManual(t, f, p) ==
  /\ Call(t, "manual")
  /\ MotionAllowed(f)
  /\ communication_inhibited' = FALSE
  /\ manual' = [manual EXCEPT ![f] = p]
  /\ target' = [target EXCEPT ![f] = p]
  /\ UNCHANGED <<current, throttle, applied, generation, errors, latched,
                 tach_inhibited, rmt, stop_depth, maintenance_depth,
                 global_inhibited, rmt_inhibited, rmt_fault_pending, ramp_paused,
                 mutexVars, pc, localVars, faults>>

\* request_automatic and request_scheduled write the same state; the latter
\* also hands the displaced manual target to the scheduler.
RequestAutomatic(t, f, p) ==
  /\ Call(t, "automatic")
  /\ AutomaticAllowed(f)
  /\ target' = [target EXCEPT ![f] = p]
  /\ UNCHANGED <<current, throttle, applied, manual, generation, errors, latched,
                 tach_inhibited, rmt, inhibitVars, ramp_paused, mutexVars, pc,
                 localVars, faults>>

RestoreAll(t, ps) ==
  /\ Call(t, "restore")
  /\ \A f \in Fans : AutomaticAllowed(f)
  /\ manual' = ps
  /\ target' = ps
  /\ UNCHANGED <<current, throttle, applied, generation, errors, latched,
                 tach_inhibited, rmt, inhibitVars, ramp_paused, mutexVars, pc,
                 localVars, faults>>

ClearMaintenance(t) ==
  /\ Call(t, "maintenance")
  /\ maintenance_depth > 0
  /\ maintenance_depth' = maintenance_depth - 1
  /\ UNCHANGED <<motorVars, rmt, stop_depth, global_inhibited,
                 communication_inhibited, rmt_inhibited, rmt_fault_pending,
                 ramp_paused, mutexVars, pc, localVars, faults>>

SetRampPaused(t, paused) ==
  /\ paused # ramp_paused
  /\ Call(t, "pause")
  /\ ramp_paused' = paused
  /\ UNCHANGED <<motorVars, rmt, inhibitVars, mutexVars, pc, localVars, faults>>

\* The supervisor consumes the notification, then stops with the RMT inhibit.
\* Faulty variant: the notification is consumed without a stop.
FaultDropped == "idle"

AfterTake == "faultTaken"

TakeRmtFault ==
  /\ pc[Supervisor] = "idle"
  /\ rmt_fault_pending
  /\ rmt_fault_pending' = FALSE
  /\ Goto(Supervisor, AfterTake)
  /\ UNCHANGED <<motorVars, rmt, stop_depth, maintenance_depth, global_inhibited,
                 communication_inhibited, rmt_inhibited, ramp_paused, mutexVars,
                 localVars, calls, faults>>

StopForRmtFault ==
  /\ pc[Supervisor] = "faultTaken"
  /\ ClaimStop(Supervisor, StopOp("RMT", FALSE))
  /\ UNCHANGED <<rmt_fault_pending, calls>>

-----------------------------------------------------------------------------
(***************************************************************************)
(* motor_control_holds_safe_zero: take every io_mutex in fan order (each   *)
(* with a timeout), judge all fans in one critical section, give them.     *)
(***************************************************************************)
ZeroProofBegin(t) ==
  /\ Call(t, "safe_zero")
  /\ op' = [op EXCEPT ![t] = Op("zero")]
  /\ fan' = [fan EXCEPT ![t] = 1]
  /\ Goto(t, "zeroLock")
  /\ UNCHANGED <<motorVars, rmt, inhibitVars, ramp_paused, mutexVars, request,
                 stop_ok, previous, attempted, changed, faults>>

ZeroProofLock(t) ==
  /\ pc[t] = "zeroLock"
  /\ fan[t] <= N
  /\ TakeIo(t, fan[t])
  /\ fan' = [fan EXCEPT ![t] = @ + 1]
  /\ UNCHANGED <<motorVars, rmt, inhibitVars, ramp_paused, stop_owner, pc, op,
                 request, stop_ok, previous, attempted, changed, calls,
                 faults>>

ZeroProofTimeout(t) ==
  /\ pc[t] = "zeroLock"
  /\ fan[t] <= N
  /\ io_owner[fan[t]] # NoTask
  /\ GiveIo(t)
  /\ op' = [op EXCEPT ![t] = Op("none")]
  /\ fan' = [fan EXCEPT ![t] = 1]
  /\ Goto(t, "idle")
  /\ UNCHANGED <<motorVars, rmt, inhibitVars, ramp_paused, stop_owner, request,
                 stop_ok, previous, attempted, changed, calls, faults>>

HoldsZero(f) ==
  /\ rmt[f] = [active |-> TRUE, enabled |-> TRUE, payload |-> 0, last |-> 0]
  /\ target[f] = 0 /\ current[f] = 0 /\ applied[f] = 0 /\ throttle[f] = 0
  /\ errors[f] = 0 /\ ~latched[f]

ZeroProofJudge(t) ==
  /\ pc[t] = "zeroLock"
  /\ fan[t] = N + 1
  /\ fan' = [fan EXCEPT ![t] = 1]
  /\ Goto(t, IF \A f \in Fans : HoldsZero(f) THEN "zeroHeld" ELSE "zeroDenied")
  /\ UNCHANGED <<motorVars, rmt, inhibitVars, ramp_paused, mutexVars, op, request,
                 stop_ok, previous, attempted, changed, calls, faults>>

ZeroProofEnd(t) ==
  /\ pc[t] \in {"zeroHeld", "zeroDenied"}
  /\ GiveIo(t)
  /\ op' = [op EXCEPT ![t] = Op("none")]
  /\ Goto(t, "idle")
  /\ UNCHANGED <<motorVars, rmt, inhibitVars, ramp_paused, stop_owner, fan, request,
                 stop_ok, previous, attempted, changed, calls, faults>>

-----------------------------------------------------------------------------
ApplyStep(t) == ApplyBegin(t) \/ ApplyFinish(t)
StopStep(t) == StopZero(t) \/ StopApplied(t) \/ StopEnd(t)
RampTask ==
  \/ RampRegistered \/ RampFatal \/ RampSuspended
  \/ RampTick \/ RampAdvance \/ RampApplied
ZeroProofStep(t) ==
  ZeroProofLock(t) \/ ZeroProofTimeout(t) \/ ZeroProofJudge(t) \/ ZeroProofEnd(t)

CallerStart(t) ==
  \/ \E o \in StopCalls : StopAll(t, o)
  \/ \E f \in Fans, clear \in BOOLEAN : StopOne(t, f, clear)
  \/ \E f \in Fans : SetTachInhibit(t, f) \/ ClearTachInhibit(t, f)
  \/ \E f \in Fans, p \in Targets : RequestManual(t, f, p) \/ RequestAutomatic(t, f, p)
  \/ \E ps \in [Fans -> Targets] : RestoreAll(t, ps)
  \/ ClearMaintenance(t)
  \/ \E paused \in BOOLEAN : SetRampPaused(t, paused)
  \/ ZeroProofBegin(t)

Next ==
  \/ \E t \in Tasks : ApplyStep(t) \/ StopStep(t)
  \/ RampTask
  \/ \E t \in Callers : CallerStart(t) \/ ZeroProofStep(t)
  \/ TakeRmtFault \/ StopForRmtFault

Spec == Init /\ [][Next]_vars

-----------------------------------------------------------------------------
(***************************************************************************)
(* Properties.                                                             *)
(***************************************************************************)
PcValues == {"boot", "idle", "loop", "step", "apply", "rmt", "applied", "failed",
             "stopMutex", "stopEnd", "suspended", "faultTaken", "zeroLock", "zeroHeld",
             "zeroDenied"}

MotorTypes ==
  /\ target \in [Fans -> Pct]
  /\ current \in [Fans -> Pct]
  /\ throttle \in [Fans -> 0..DshotMax]
  /\ applied \in [Fans -> Pct]
  /\ manual \in [Fans -> Pct]
  /\ generation \in [Fans -> Nat]
  /\ errors \in [Fans -> 0..ErrorMax]
  /\ latched \in [Fans -> BOOLEAN]
  /\ tach_inhibited \in [Fans -> BOOLEAN]

OutputTypes ==
  /\ rmt \in [Fans -> RmtState]
  /\ io_owner \in [Fans -> Tasks \cup {NoTask}]
  /\ request \in [Tasks -> [dshot : 0..DshotMax, pct : Pct]]

InhibitTypes ==
  /\ stop_depth \in 0..DepthMax
  /\ maintenance_depth \in 0..DepthMax
  /\ global_inhibited \in BOOLEAN
  /\ communication_inhibited \in BOOLEAN
  /\ rmt_inhibited \in BOOLEAN
  /\ rmt_fault_pending \in BOOLEAN
  /\ ramp_paused \in BOOLEAN
  /\ stop_owner \in Tasks \cup {NoTask}

TaskTypes ==
  /\ pc \in [Tasks -> PcValues]
  /\ op \in [Tasks -> Ops]
  /\ fan \in [Tasks -> 1..(N + 1)]
  /\ stop_ok \in [Tasks -> BOOLEAN]
  /\ previous \in [Tasks -> [Fans -> Pct]]
  /\ attempted \in [Tasks -> [Fans -> Nat]]
  /\ changed \in BOOLEAN

BoundTypes == calls \in 0..MaxCalls /\ faults \in 0..MaxFaults

\* A task that works on one fan works on a fan that exists.
FanIndexed(t) == pc[t] \in {"step", "apply", "rmt", "applied", "failed"}

\* Every variable has its type, and s_motors is never indexed out of range.
TypeOK ==
  /\ MotorTypes /\ OutputTypes /\ InhibitTypes /\ TaskTypes /\ BoundTypes
  /\ \A t \in Tasks : FanIndexed(t) => fan[t] \in Fans

\* What fan f's ESC receives: an enabled channel repeats its payload.
Emitted(f) == IF rmt[f].active /\ rmt[f].enabled THEN rmt[f].payload ELSE 0

\* A maintenance stop has been claimed and has not yet zeroed the motors.
MaintenanceClaimed ==
  \E t \in Tasks : pc[t] = "stopMutex" /\ op[t].inhibit = "MAINTENANCE"

\* An inhibit that a stop has completed its zeroing for is in force on fan f.
ZeroHeld(f) ==
  \/ global_inhibited
  \/ communication_inhibited
  \/ tach_inhibited[f]
  \/ maintenance_depth > 0 /\ ~MaintenanceClaimed

\* While an inhibit is in force the fan's target and position stay zero: no
\* request is accepted and no ramp iteration or verified stop that was caught
\* in flight by the inhibit rolls its old position back in.  A fan whose RMT
\* fault is latched keeps a zero target.
InhibitHoldsZero ==
  \A f \in Fans :
    /\ ZeroHeld(f) => target[f] = 0 /\ current[f] = 0 /\ throttle[f] = 0
    /\ latched[f] => target[f] = 0

\* The throttle written for a fan is always the one its position stands for,
\* and is never a reserved DShot command, although ramp iterations, stops and the
\* rollback of either after a failed transmission write both for the same fan.
ThrottleTracksPosition ==
  \A f \in Fans : throttle[f] = PctToDshot(current[f]) /\ throttle[f] \notin Reserved

\* Positions of a stop that has zeroed the motors and not yet returned.
AfterZeroing == {"apply", "rmt", "applied", "failed", "stopEnd"}

\* While a stop is under way, every fan it has already zeroed without an error
\* emits zero and reports zero, whatever the ramp task and other callers do
\* between its fans.
StoppedFansStaySilent ==
  \A t \in Tasks :
    op[t].kind = "stop" /\ stop_ok[t] /\ pc[t] \in AfterZeroing
      => \A f \in Fans : f < fan[t] => Emitted(f) = 0 /\ applied[f] = 0

\* README.md:176 calls applied_percentage the "percentage represented by the
\* active RMT stream" without a condition on errors.
AppliedIsActiveStream ==
  \A f \in Fans : applied[f] # 0 => Emitted(f) = PctToDshot(applied[f])

\* An RMT inhibit is never left without consequence: until every target and
\* position is zero, the notification is pending, or the supervisor has taken
\* it and is about to stop, or a stop is waiting for the stop mutex.
RmtFaultIsServed ==
  rmt_inhibited =>
    \/ rmt_fault_pending
    \/ pc[Supervisor] = "faultTaken"
    \/ \E t \in Tasks : pc[t] = "stopMutex"
    \/ \A f \in Fans : target[f] = 0 /\ current[f] = 0

\* A positive answer of motor_control_holds_safe_zero is one coherent
\* observation: as long as the caller holds the mutexes it judged under, every
\* fan emits zero and no apply is in flight.
ZeroProofIsCoherent ==
  \A t \in Callers :
    pc[t] = "zeroHeld" =>
      /\ \A f \in Fans : Emitted(f) = 0 /\ applied[f] = 0
      /\ \A u \in Tasks : pc[u] # "rmt"

-----------------------------------------------------------------------------
(***************************************************************************)
(* Fairness.  A task that can run does run; mutexes are handed on because  *)
(* the ramp task sleeps at least one tick between iterations and the RMT   *)
(* calls have bounded timeouts.  Nothing obliges a caller to start a call. *)
(***************************************************************************)
Fairness ==
  /\ \A t \in Tasks : /\ SF_vars(ApplyBegin(t)) /\ WF_vars(ApplyFinish(t))
                      /\ SF_vars(StopZero(t))
                      /\ WF_vars(StopApplied(t)) /\ WF_vars(StopEnd(t))
  /\ WF_vars(RampTask)
  /\ \A t \in Callers : WF_vars(ZeroProofStep(t))
  /\ WF_vars(TakeRmtFault) /\ WF_vars(StopForRmtFault)

FairSpec == Spec /\ Fairness

\* A globally inhibited controller falls silent for good on every output even
\* when the stop's own RMT calls failed, because each ramp iteration retries;
\* only a pause that lasts keeps it from doing so.
GlobalStopSilences ==
  <>[](~ramp_paused) =>
    (global_inhibited ~> [](\A f \in Fans : Emitted(f) = 0))

=============================================================================
