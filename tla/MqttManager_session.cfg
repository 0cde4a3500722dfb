SPECIFICATION FairSpec
CONSTANTS
  Topics = {t1, t2}
  Depth = 2
  NoTask = NoTask
  NoSlot = NoSlot
  NoSession = NoSession
  MaxCommands = 3
  MaxConnects = 2
  MaxFaults = 1
CHECK_DEADLOCK FALSE
INVARIANTS NoCommandAfterLoss ReadyIsSubscribed CommandsVisible
PROPERTIES ImplementsCommandSession CommandFinishes UnhealthyEnds
