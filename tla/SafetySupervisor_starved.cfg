SPECIFICATION FairSpec
CONSTANTS
  Dispatcher = dispatcher
  Supervisor = supervisor
  OtaTask = ota
  Stoppers = {}
  Stops <- NoStops
  NoTask = NoTask
  Troubles <- BothTroubles
  MaxCalls = 1
  MaxFaults = 1
CHECK_DEADLOCK FALSE
PROPERTIES RmtFaultReboots
