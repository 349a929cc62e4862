SPECIFICATION TestersSpec
CONSTANTS
  MaxInst = 1
  Objects = {"a", "b"}
  TesterKinds = {"measure", "file"}
  IdBits = 1
  MaxFlight = 2
  Failures = {"early", "thread"}
INVARIANT InstancesOwned
PROPERTY Settles
CHECK_DEADLOCK FALSE
