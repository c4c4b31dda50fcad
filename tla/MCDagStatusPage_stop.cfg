SPECIFICATION FollowSpec
CONSTANTS
  a = a
  b = b
  c = c
  Node = {a, b, c}
  Worker = {w1, w2}
  NoWorker = NoWorker
  Requests <- MCRequests
  Attempts = 1
  MaxStalled = 0
  Concurrency = 1
  FaultKinds = {}
  MaxFaults = 0
  MaxErrors = 0
CHECK_DEADLOCK FALSE
INVARIANTS
  StoppedIsFinal
