CONSTANTS
  MinSpin = 30
  N = 1
  Callers = {c1}
  Supervisor = c1
  Ramp = ramp
  NoTask = none
  RampStep = 20
  RmtErrorLimit = 2
  ErrorMax = 2
  DepthMax = 2
  Targets = {40}
  CallKinds = {"stop_all", "stop_one", "tach", "manual", "automatic", "restore",
               "maintenance", "pause", "safe_zero"}
  StopCalls <- FewStops
  MaxCalls = 3
  MaxFaults = 1

SPECIFICATION FairSpec

INVARIANT ZeroProofIsCoherent
PROPERTY GlobalStopSilences
