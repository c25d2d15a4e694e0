CONSTANTS
  NumPlayers = 1
  MaxRounds = 2
  MaxBalance = 1
  MaxPot = 1
  Amounts = {1}
  MinStake = 1
  MaxStakePerRound = 1
  MaxFaults = 0
SPECIFICATION LateSpec
INVARIANT LockHasExit
CHECK_DEADLOCK FALSE
