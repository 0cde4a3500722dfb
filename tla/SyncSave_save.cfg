SPECIFICATION FairSpec
CONSTANTS
  Savers = {s1, s2}
  NoSaver = NoSaver
  NoValue = NoValue
  SaveAfterDebounce = FALSE
  Impatient = {s2}
  MaxValue = 1
  MaxCalls = 3
  MaxFailures = 1
  MaxResets = 1
CHECK_DEADLOCK FALSE
PROPERTIES ImplementsDurableSave SaveReturns AsyncReachesFlash
