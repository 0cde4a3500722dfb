SPECIFICATION Spec
CONSTANTS
  Dispatcher = dispatcher
  Supervisor = supervisor
  OtaTask = ota
  Stoppers = {tach}
  Stops <- MixedStops
  NoTask = NoTask
  Troubles <- LostHeart
  MaxCalls = 2
  MaxFaults = 2
CHECK_DEADLOCK FALSE
INVARIANTS InterlockOffDuringStop ClearedTargetsStayCleared OtaHoldsMotors RestartIsSafe
PROPERTIES TurnedOnOnlyWhenClear FailedStopLatches
