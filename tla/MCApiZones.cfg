CONSTANTS
  a = a
  b = b
  c = c
  d = d
  Requests = {r1, r2}
  Rooms = {a, b, c, d}
  Tables <- MCTables
  Contents <- MCContents
  Spikes <- MCSpikes
  TTL = 2
  MaxQuery = 1
SPECIFICATION Spec
SYMMETRY Symmetric
INVARIANTS StalenessBounded SpikeIsContained
