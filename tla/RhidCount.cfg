CONSTANTS
    JumpCount = 5
    MaxDevices = 16
    MaxFaults = 2
SPECIFICATION FairSpec
INVARIANTS
    TypeOK
    CountIsExact
    CountNeverExceeds
PROPERTY CallReturns
