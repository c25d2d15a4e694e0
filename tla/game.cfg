CONSTANTS
  NumPlayers = 2
  MaxRounds = 2
  MaxBalance = 1
  MaxPot = 2
  Amounts = {1}
  MinStake = 1
  MaxStakePerRound = 1
  MaxFaults = 1
SPECIFICATION MCSpec
INVARIANTS
  TypeOK
  EscrowBacked
  BudgetHolds
  ClaimsWithinPot
  SwapGateOpens
  KeeperMinersHomeFirst
  KeeperLockHasExit
PROPERTIES
  KeeperRoundsFinish
  KeeperLocksReleased
CONSTRAINT SecondRoundForOne
CHECK_DEADLOCK FALSE
