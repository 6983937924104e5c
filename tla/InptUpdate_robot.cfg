CONSTANTS
    MaxBtns = 2
    Levels = {0, 1}
    States <- MCStates
    Actions <- MCActions
SPECIFICATION FairSpec
INVARIANTS
    TypeOK
    LevelMatchesState
    EdgesRunOnce
    ValueAnnounced
    ModeFollowsButton
PROPERTIES
    EdgeProtocol
    LongPressIsHeld
