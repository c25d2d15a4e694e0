CONSTANTS
  LastRoundId = 2
  MaxInFlight = 2
SPECIFICATION LossySpec
INVARIANT NeverForfeits
CHECK_DEADLOCK FALSE
