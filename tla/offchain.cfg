CONSTANTS
  Sol = 10
  Rates = {100, 40}
  Pots = {20}
  FeeBps = 1000
  MinSol = 5
  KeepSol = 2
  Cadence = 2
  Stock = 200
  MaxSettled = 3
  MaxMoves = 2
  MaxTrouble = 2
  Cells = 2
  LastRound = 4
  MaxReplays = 1
  LastRoundId = 2
  MaxInFlight = 2
  VerifyTries = 2
  BaselineTries = 2
  StakeTries = 3
  MaxCalls = 3
SPECIFICATION Spec
INVARIANTS
  SignersPassed
  NoStraggler
  GoldLandsRight
  NeverForfeits
  NoPhantomSession
  OneStakePerCall
PROPERTIES
  BuiltAndTaken
  RoundsPaid
  FloorTracks
  NeverPaidNothing
  BoardHandedBack
  AlwaysOffered
CHECK_DEADLOCK FALSE
