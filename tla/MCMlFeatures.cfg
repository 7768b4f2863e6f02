CONSTANTS
  Lags = {1, 2, 4}
  Windows = {2, 3}
  Levels = {0, 3, 10}
  MaxSlots = 5
  MaxSteps = 1
SPECIFICATION Spec
INVARIANT FeaturesMatch
