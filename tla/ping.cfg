\* Two clients of one address, one after the other or at once.
CONSTANTS
    s1 = s1
    s2 = s2
    s3 = s3
    Nil = Nil
    Sessions = {s1, s2, s3}
    AddrOf <- MCAddrs
    PortOf <- MCPorts
    MaxStarts = 2
    MaxPings = 1
SPECIFICATION Spec
INVARIANTS ConnectionsAreOfSessions PingsReachTheirStream
CHECK_DEADLOCK FALSE
PROPERTY StoppingSessionsAreJoined
