CONSTANTS
  MinSpin = 30
  N = 1
  Callers = {c1}
  Supervisor = c1
  Ramp = ramp
  NoTask = none
  RampStep = 20
  RmtErrorLimit = 2
  ErrorMax = 2
  DepthMax = 2
  Targets = {20}
  CallKinds = {"manual"}
  StopCalls <- FewStops
  MaxCalls = 1
  MaxFaults = 1

SPECIFICATION Spec

INVARIANT AppliedIsActiveStream
