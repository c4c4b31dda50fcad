SPECIFICATION FairSpec
CONSTANTS
  a = a
  b = b
  c = c
  Node = {a, b, c}
  Worker = {w1, w2}
  NoWorker = NoWorker
  Requests <- MCSmall
  Attempts = 2
  MaxStalled = 1
  Concurrency = 1
  FaultKinds = {"apiCrash", "workerCrash", "lockLoss", "shutdown"}
  MaxFaults = 2
CHECK_DEADLOCK FALSE
PROPERTIES
  Progress
