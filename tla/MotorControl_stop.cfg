CONSTANTS
  MinSpin = 30
  N = 2
  Callers = {c1, c2}
  Supervisor = c1
  Ramp = ramp
  NoTask = none
  RampStep = 20
  RmtErrorLimit = 2
  ErrorMax = 2
  DepthMax = 2
  Targets = {40}
  CallKinds = {"stop_all", "manual"}
  StopCalls <- AllStops
  MaxCalls = 2
  MaxFaults = 2

SPECIFICATION Spec

INVARIANTS
  InhibitHoldsZero
  StoppedFansStaySilent
  RmtFaultIsServed
