SPECIFICATION FairSpec
CONSTANTS
    MaxReconfigures = 2
    MaxFailures = 2
INVARIANTS
    NewestConfigWins
PROPERTIES
    EventuallyUsable
CHECK_DEADLOCK FALSE
