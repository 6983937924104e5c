CONSTANTS
    Sockets = {s1, s2}
    Fds = {4, 8, 12}
    MaxAddrs = 2
SPECIFICATION Spec
PROPERTY AddressedIsSent
CHECK_DEADLOCK FALSE
