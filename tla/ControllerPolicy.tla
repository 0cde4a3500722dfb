-------------------------- MODULE ControllerPolicy --------------------------
(***************************************************************************)
(* The percentage arithmetic of controller_policy.c: how a requested       *)
(* percentage is lifted to the configured minimum spin and how it becomes  *)
(* a DShot throttle value.                                                 *)
(***************************************************************************)
EXTENDS Integers

CONSTANT MinSpin   \* s_min_spin_pct, validated by motor_control_init

ASSUME MinSpinAssumption == MinSpin \in 1..100

\* Percentages as the firmware stores them after validation.
Pct == 0..100

\* DShot throttle values: zero stops the motor, 1..47 are reserved commands.
DshotMax == 2047
Reserved == 1..47

EffectivePct(p) == IF p = 0 THEN 0 ELSE IF p < MinSpin THEN MinSpin ELSE p

PctToDshot(p) ==
  IF EffectivePct(p) = 0 THEN 0
  ELSE 48 + (EffectivePct(p) * (DshotMax - 48)) \div 100

=============================================================================
