SPECIFICATION Spec
CONSTANTS
  Win = 8
  Block = 2
  Reserves = {2}
  OutLimit = 2
  SnMod = 64
  SnJump = 3
  FecSpan = 2
  MaxPackets = 6
  PauseLoss = FALSE
  Sns = {0,1,2,3,4,5,6,7,8,9,10,11,12}
INVARIANTS RepeatsCaught LateTolerance ConfirmedArrived
