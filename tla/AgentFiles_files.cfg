\* Two handlers in flight, three requests, one failure or crash.
CONSTANTS
  t1 = t1
  t2 = t2
  m1 = m1
  Tasks = {t1, t2}
  Mods = {m1}
  MaxRequests = 3
  MaxTrouble = 1
SPECIFICATION Spec
INVARIANTS
  TypeOK
  SettingsKept
  ModsKept
  Readable
SYMMETRY Symmetry
CHECK_DEADLOCK FALSE
