SPECIFICATION Spec
CONSTANTS
    MaxReconfigures = 1
    MaxFailures = 1
INVARIANT PublisherSurvives
CHECK_DEADLOCK FALSE
