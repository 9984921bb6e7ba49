\* A log of up to four records and two metrics, in pages of one or two.
CONSTANTS
  NoKey = NoKey
  MaxTick = 3
  Metrics = {0, 1}
  Counts = {1, 2}
  MaxWrites = 4
  MaxPages = 5
SPECIFICATION Spec
INVARIANTS
  TypeOK
  PagerExact
CHECK_DEADLOCK FALSE
