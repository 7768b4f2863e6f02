CONSTANTS
  e1 = e1
  e2 = e2
  t1 = t1
  room = room
  Sensors = {e1, e2, t1}
  RoomIds = {room}
  Type <- MCType
  Room <- MCRoom
  Configs <- MCConfigs
  RuleValues <- MCRuleValues
  OSCILLATION_FRACTION <- MCFraction
  ROLLING_WINDOW = 3
  OSC_WINDOW = 3
  ANOMALY_WINDOW = 3
  TEMP_MIN = 5
  TEMP_MAX = 45
  TEMP_ZSCORE_THRESHOLD = 3
  ENERGY_SPIKE_FACTOR = 3
  OCCUPANCY_MAX = 500
  MaxReadings = 4
  MaxLag = 1
  MaxDisturbances = 1
SPECIFICATION PipelineSpec
INVARIANTS CalmIsNotFlagged AlarmsHaveCause SpikesAreFound
CHECK_DEADLOCK FALSE
