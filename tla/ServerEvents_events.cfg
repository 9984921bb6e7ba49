\* Two lines with trouble or four without, two connections, a bus of one event and topics of
\* two: all can lag, and all orders of two events in one queue occur.
CONSTANTS
  c1 = c1
  c2 = c2
  Scripts <- AllScripts
  Watched = {"systemlog"}
  Conns = {c1, c2}
  BusCapacity = 1
  Capacity = 2
  MaxTrouble <- Troubles
SPECIFICATION Spec
INVARIANTS
  TypeOK
  NothingVanishes
  DiscordInOrder
  ViewerSeesEachOnce
SYMMETRY Symmetry
CHECK_DEADLOCK FALSE
