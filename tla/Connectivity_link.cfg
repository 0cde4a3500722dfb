SPECIFICATION FairSpec
CONSTANTS
  FanCount = 2
  MaxChanges = 1
  MaxDrops = 1
  MaxLosses = 1
CHECK_DEADLOCK FALSE
INVARIANT ChangeIsPending
PROPERTY StatesReachTheBroker
