SPECIFICATION Spec
CONSTANTS
  s1 = s1
  s2 = s2
  r1 = r1
  Sensors = {s1, s2}
  Topology <- MCTopology
  Rules = {r1}
  Bodies <- MCBodies
  NewSensors <- MCNewSensors
  LogCap = 2
  LogTrim = 1
  LogKeep = 2
  MaxRequests = 3
  MaxCrashes = 1
  MaxFailures = 1
INVARIANTS TypeOK AnsweredIsDurable DeletedStaysDeleted QuietPublisherLives
PROPERTIES ImplementsDurable
CHECK_DEADLOCK FALSE
