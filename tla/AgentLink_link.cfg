\* Two connections, one failure or one late pong, one call among others, a
\* topic that keeps one request.
CONSTANTS
  r1 = r1
  r2 = r2
  MaxConns = 2
  Calls = {r1}
  MaxTrouble = 1
  Capacity = 1
  Prefetch = 1
SPECIFICATION FairSpec
INVARIANTS
  TypeOK
  NoFalseDead
  ServedOnce
PROPERTIES
  EventuallyConnected
  PublishedIsServed
