CONSTANTS
  GRID_SIZE = 2
  NumPlayers = 2
  MaxRounds = 2
  MaxTime = 2
  MaxEscrow = 2
  Amounts = {1}
  Outs = {3}
  Draws <- TwoSquareDraws
  NoDraw = NoDraw
  SwapMode = "mock"
  MockRate = 7
  LAMPORTS_PER_SOL = 2
  DefaultParams <- SparseBase
  ParamChoices <- Sparse
SPECIFICATION Spec
INVARIANTS
  PotVaultSolvent
CHECK_DEADLOCK FALSE
