CONSTANTS
  NumPlayers = 2
  MaxRounds = 2
  Amounts = {1}
  MaxTime = 2
  MaxPot = 2
  Gifts = {}
  hard_cap = 10
  treasury_bps = 2000
  BeefParams <- GrowingChoices
  FirstParams <- Growing
  Unstamped = Unstamped
SPECIFICATION Spec
INVARIANT VaultCoversOwed
CHECK_DEADLOCK FALSE
