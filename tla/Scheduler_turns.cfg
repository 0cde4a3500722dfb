SPECIFICATION FairSpec
CONSTANTS
  FanCount = 2
  SlotCount = 2
  ManualTargets = {30}
  EntryTargets = {20}
  Restored <- FirstFan
  Loaded <- Competing
  StopKinds = {"PLAIN", "COMMUNICATION"}
  MaxCommands = 1
  MaxStops = 1
PROPERTY DueSlotRuns
INVARIANT ReservationsOwned
INVARIANT ScheduledTargetHasOwner
INVARIANT RestoreReturnsManual
INVARIANT InhibitIsABarrier
