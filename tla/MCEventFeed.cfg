SPECIFICATION FairSpec
CONSTANTS
  Sources = {alice, dlq}
  Dlq = dlq
  RingSize = 2
  SeenMax = 3
  SeenKeep = 3
  FlowMax = 2
  MaxEvents = 4
  MaxConns = 3
  MaxScans = 2
  MaxErrors = 1
INVARIANTS
  TypeOK
  ShownOnce
PROPERTIES
  CatchesUp
  EarlyEventsArrive
CHECK_DEADLOCK FALSE
