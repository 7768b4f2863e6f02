SPECIFICATION FairSpec
CONSTANT MaxMessages = 3

    
PROPERTIES
    EventuallyDisposed
    ShutdownCompletes
CHECK_DEADLOCK FALSE
