\* A version of the new naming scheme and a restart.
CONSTANTS
  t1 = t1
  t2 = t2
  t3 = t3
  v1 = v1
  v2 = v2
  p1 = p1
  p2 = p2
  Tasks = {t1, t2}
  Main = Main
  Versions = {v1, v2}
  NewScheme = {v2}
  Saves = {s1}
  Pids = {p1, p2}
  Ops <- ProcessOps
  Faults <- ShutdownFault
  NoTask = NoTask
  NoVersion = NoVersion
  NoSave = NoSave
  Latest = Latest
  NoPid = NoPid
SYMMETRY Symmetry
SPECIFICATION Spec
PROPERTY ScanFindsInstalled
