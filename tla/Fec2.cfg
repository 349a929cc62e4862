SPECIFICATION Spec
CONSTANTS
  Cap = 8
  SnBits = 5
  FirstSn = 26
  Books = {2, 4, 5}
  Steps = {4}
  MaxSends = 9
  MaxFaults = 3
INVARIANTS ParityHonest RestoredWasSent NoIdleParity
CHECK_DEADLOCK FALSE
