SPECIFICATION FairSpec
CONSTANTS
  Dispatcher = dispatcher
  Supervisor = supervisor
  OtaTask = ota
  Stoppers = {}
  Stops <- NoStops
  NoTask = NoTask
  Troubles <- OneTrouble
  MaxCalls = 1
  MaxFaults = 2
CHECK_DEADLOCK FALSE
PROPERTIES RmtFaultReboots LostHeartRestarts
