CONSTANTS
  GRID_SIZE = 2
  NumPlayers = 2
  MaxRounds = 2
  MaxTime = 3
  MaxEscrow = 0
  Amounts = {1}
  Outs = {3, 7}
  Draws <- TwoSquareDraws
  NoDraw = NoDraw
  SwapMode = "jupiter"
  MockRate = 7
  LAMPORTS_PER_SOL = 2
  DefaultParams <- SparseBase
  ParamChoices <- Sparse
SPECIFICATION QuietSpec
INVARIANTS
  Serialized
  StakesBooked
  LedgerExact
PROPERTIES
  DrawFinal
  RefundsKept
  ImplementsLedger
  ImplementsBook
CHECK_DEADLOCK FALSE
