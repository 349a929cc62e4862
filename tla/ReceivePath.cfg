SPECIFICATION Spec
CONSTANTS
  BufSize = 2
  SnMod = 16
  None = None
  FirstSn = 0
  FirstBorder = 0
  MaxPackets = 4
  MaxRestore = 2
  MaxResets = 2
  SnJump = 3
  TurnOverStep = 6
  Block = 8
  AllowOom = TRUE
INVARIANTS AtMostOnce AcceptedAccounted
PROPERTIES OrderedDelivery
