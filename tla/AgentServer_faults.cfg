\* Two handlers, every changing request, every failure and restarts.
CONSTANTS
  t1 = t1
  t2 = t2
  t3 = t3
  v1 = v1
  v2 = v2
  p1 = p1
  p2 = p2
  Tasks = {t1, t2}
  Main = Main
  Versions = {v1, v2}
  NewScheme = {v2}
  Saves = {s1}
  Pids = {p1, p2}
  Ops <- ChangingOps
  Faults <- AllFaults
  NoTask = NoTask
  NoVersion = NoVersion
  NoSave = NoSave
  Latest = Latest
  NoPid = NoPid
SYMMETRY Symmetry
SPECIFICATION Spec
INVARIANTS
  IInv
  OneProcess
  NoLostChild
  InstalledWhileRunning
  QuietWhileReplacing
  OverwriteNeedsTwoVersions
  RestartVersionPresent
  ReplyProtocol
PROPERTIES
  UpgradeRestarts
  ImplementsLifecycle
