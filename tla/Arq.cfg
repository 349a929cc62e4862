SPECIFICATION FairSpec
CONSTANTS
  MaxFrames = 2
  MaxReports = 1
  Retrans = {0, 1}
  Boosts = {1}
  DefBoost = 1
  BoostCap = 2
  Rto = 1
  BoostDue = 1
  SlidWin = 16
  NackMax = 2
  MinCalc = 3
  RtoSns = 3
  FirstMax = 4
  SnMod = 64
  AlgStates = {TRUE, FALSE}
  Reliable = FALSE
  AllowOom = TRUE
INVARIANTS InSendOrder ConfirmedGone CopiesBounded
PROPERTY ListDrains
CHECK_DEADLOCK FALSE
