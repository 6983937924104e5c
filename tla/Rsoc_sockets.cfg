CONSTANTS
    Sockets = {s1, s2}
    Fds = {4, 8, 12}
    MaxAddrs = 2
SPECIFICATION FairSpec
INVARIANTS
    TypeOK
    OwnsDescriptor
    OnlyConnectionsLost
PROPERTY ConnReturns
CHECK_DEADLOCK FALSE
