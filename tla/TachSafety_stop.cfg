SPECIFICATION FairSpec
CONSTANTS
  FanCount = 1
  Actions = {"alarm", "fan", "all"}
  Nobody = Nobody
  MaxFaults = 3
  MaxCalls = 3
  MaxFailures = 1
CHECK_DEADLOCK FALSE
INVARIANTS FaultIsServed
PROPERTIES StaleStopLatchesNothing FaultStops
