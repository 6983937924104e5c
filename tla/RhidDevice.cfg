CONSTANTS
    Buttons = {b1, b2}
    Values = {v1}
    IdByte = id
    ReportIds = {0, 1}
    CallId = 0
    RingSize = 2
    MaxSent = 3
    MaxFaults = 1
SPECIFICATION FairSpec
INVARIANTS
    TypeOK
    OneReadOutstanding
    TornOnceAtMost
PROPERTIES
    StreamSpec
    ArrivedIsShown
