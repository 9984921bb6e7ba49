\* One handler at a time, no failures.
CONSTANTS
  t1 = t1
  t2 = t2
  m1 = m1
  Tasks = {t1}
  Mods = {m1}
  MaxRequests = 2
  MaxTrouble = 0
SPECIFICATION Spec
INVARIANT WhitelistKept
CHECK_DEADLOCK FALSE
