CONSTANTS
    MaxTail = 4
    MaxRounds = 2
SPECIFICATION Spec
INVARIANT TypeOK
PROPERTIES
    BumpsAreNewer
    TimeoutsAreNewer
    SplitsAreNewer
CHECK_DEADLOCK FALSE
