CONSTANTS
  GRID_SIZE = 3
  NumPlayers = 2
  MaxRounds = 1
  MaxTime = 2
  MaxEscrow = 0
  Amounts = {1, 2}
  Outs = {0, 1, 3, 7}
  Draws <- ThreeSquareDraws
  NoDraw = NoDraw
  SwapMode = "mock"
  MockRate = 7
  LAMPORTS_PER_SOL = 2
  DefaultParams <- Base
  ParamChoices <- TwoBands
SPECIFICATION QuietSpec
INVARIANTS
  ClaimsCovered
CHECK_DEADLOCK FALSE
