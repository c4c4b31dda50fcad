SPECIFICATION FairSpec
CONSTANTS
  Sources = {alice, dlq}
  Dlq = dlq
  RingSize = 2
  SeenMax = 3
  SeenKeep = 3
  FlowMax = 2
  MaxEvents = 3
  MaxConns = 1
  MaxScans = 2
  MaxErrors = 0
PROPERTIES
  EveryEventArrives
CHECK_DEADLOCK FALSE
