SPECIFICATION FairSpec
CONSTANTS
  MaxLives = 2
  MaxRebuilds = 1
  MaxFlight = 2
  MaxAcks = 2
  MaxDelay = 2
  SyncPeriod = 3
INVARIANTS StableSession ResetsSpaced
PROPERTY Synced
