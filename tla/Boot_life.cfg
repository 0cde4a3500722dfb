SPECIFICATION FairSpec
CONSTANTS
  MotorCount = 2
  MaxResets = 2
  MaxUpdates = 2
  MaxCalls = 3
CHECK_DEADLOCK FALSE
INVARIANTS LeftoversReachable UntestedImageHeld
PROPERTIES UntrustedBootForgets SafeRestartsForget PendingIsDecided UpdateKeepsTargets UpdateEnds ImplementsImageTrial
