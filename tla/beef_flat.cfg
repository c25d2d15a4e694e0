CONSTANTS
  NumPlayers = 2
  MaxRounds = 2
  Amounts = {1, 2}
  MaxTime = 0
  MaxPot = 3
  Gifts = {2}
  hard_cap = 10
  treasury_bps = 2000
  BeefParams <- FlatChoices
  FirstParams <- Flat
  Unstamped = Unstamped
SPECIFICATION Spec
INVARIANTS
  SupplyMetered
  StakesFit
  SharesBacked
CHECK_DEADLOCK FALSE
