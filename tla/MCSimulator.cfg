SPECIFICATION FairSpec
CONSTANTS
    lab = lab
    hall = hall
    Buildings = {lab, hall}
    Sensors <- MCSensors
    ANOMALY_INJECTION_ENABLED = TRUE
    OverrideTypes = {{"occupancy", "temperature"}}
    MaxTicks = 2
    MaxRequests = 3
INVARIANTS
    TypeOK
    OverrideHonoured
    TicksAddUp
    LoopLives
PROPERTIES
    EndsEarlyOnlyIfReplaced
    OverrideEnds
CHECK_DEADLOCK FALSE
