CONSTANTS
  GRID_SIZE = 2
  NumPlayers = 2
  MaxRounds = 1
  MaxTime = 2
  MaxEscrow = 0
  Amounts = {1}
  Outs = {3}
  Draws <- TwoSquareDraws
  NoDraw = NoDraw
  SwapMode = "jupiter"
  MockRate = 7
  LAMPORTS_PER_SOL = 2
  DefaultParams <- SparseBase
  ParamChoices <- Settings
SPECIFICATION Spec
INVARIANTS
  TypeOK
  VaultBacksLedger
  HalfToJackpot
CHECK_DEADLOCK FALSE
