CONSTANTS
    drive = drive
    shoot = shoot
    change = change
    fire = fire
    All = all
    Free = free
    StateNames = {drive, shoot}
    ActionNames = {change, fire}
    Requests <- MCRequests
    StateCount = 2
    ByteBits = 2
    ActionCount = 2
    Events = {e1}
    MaxEvents = 2
    MaxCalls = 6
SPECIFICATION FairSpec
INVARIANTS
    TypeOK
    BitsAccounted
    InAnnouncedState
PROPERTY StopEndsLoop
