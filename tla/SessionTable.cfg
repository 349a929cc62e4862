SPECIFICATION Spec
CONSTANTS
    Addrs <- MCAddrs
    Keys = {1}
    AddrKey <- MCAddrKey
    Flows <- MCFlows
    MaxSession = 2
    Ttl = 2
    MaxDepth = 2
INVARIANTS NoDangling PoolIsMap OneSessionPerStream
PROPERTY IdleClosed
