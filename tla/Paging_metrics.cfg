\* The next position of a metric whose last page is full.
CONSTANTS
  NoKey = NoKey
  MaxTick = 3
  Metrics = {0, 1}
  Counts = {1, 2}
  MaxWrites = 4
  MaxPages = 5
SPECIFICATION Spec
INVARIANT MetricPagesRepeatNothing
CHECK_DEADLOCK FALSE
