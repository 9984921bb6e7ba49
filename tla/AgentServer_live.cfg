\* Two handlers, every request, no failures: every request is answered.
CONSTANTS
  t1 = t1
  t2 = t2
  t3 = t3
  v1 = v1
  v2 = v2
  p1 = p1
  p2 = p2
  Tasks = {t1, t2}
  Main = Main
  Versions = {v1, v2}
  NewScheme = {}
  Saves = {s1}
  Pids = {p1}
  Ops <- AllOps
  Faults <- NoFaults
  NoTask = NoTask
  NoVersion = NoVersion
  NoSave = NoSave
  Latest = Latest
  NoPid = NoPid
SPECIFICATION FairSpec
INVARIANTS
  MapListsCompleteInstalls
PROPERTIES
  EveryRequestAnswered
