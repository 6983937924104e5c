CONSTANTS
    UsageLimit = 8
    MaxCaps = 3
    MaxButtons = 5
    MaxValues = 1
    Devices <- MCDevices
SPECIFICATION Spec
INVARIANTS
    TypeOK
    ButtonsShown
    OverrunExactly
CHECK_DEADLOCK FALSE
