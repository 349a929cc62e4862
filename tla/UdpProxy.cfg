SPECIFICATION Spec
CONSTANTS
  Clients = {c1, c2}
  Listeners = {"l1"}
  Pwds = {"p1"}
  Lists <- MCLists
  KeysOf <- MCKeysOf
  Kinds = {"udp", "icmp"}
  Fds = {1, 2}
  Timeout = 1
  MaxQueue = 1
  HeldTypes = {"data"}
  EpollFails = {"game"}
INVARIANTS SocketsAccounted NoRevokedSession QueuedArmed DownlinkKeyed
CHECK_DEADLOCK FALSE
SYMMETRY ClientSymmetry
