SPECIFICATION FairSpec
CONSTANTS
  BufSize = 3
  SnMod = 12
  Lag = 2
  None = None
  Packets <- MCPackets
INVARIANTS SlotPlacement TimerArmed
PROPERTIES StepsInOrder BufferedLeaves
