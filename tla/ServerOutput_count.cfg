\* Two players, four moves, a pipe of three lines, a three-bit counter.
CONSTANTS
  MaxPlayers = 2
  MaxMoves = 4
  MaxUnread = 3
  Width = 3
SPECIFICATION FairSpec
INVARIANTS
  TypeOK
  CountExact
PROPERTY
  CountHeals
CHECK_DEADLOCK FALSE
