SPECIFICATION FairSpec
CONSTANTS
    Topics = {temperature}
    BATCH_MAX_SIZE = 2
    MaxEvents = 1
    MaxLog = 2
    MaxLives = 2
    MaxSignals = 1
INVARIANTS
    TypeOK
    Accounting
    LossBounded
    ReplayBounded
PROPERTIES
    StopsWhenWoken
    EventuallyHanded
    ImplementsDelivery
CHECK_DEADLOCK FALSE
