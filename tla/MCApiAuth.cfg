CONSTANTS
  Requests = {r1, r2}
  MaxKey = 3
SPECIFICATION FairSpec
INVARIANTS TypeOK PublishedKeyIsFound
PROPERTIES RetiredKeyDies EveryCallAnswered
