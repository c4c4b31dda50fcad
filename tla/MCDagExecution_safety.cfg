SPECIFICATION Spec
CONSTANTS
  a = a
  b = b
  c = c
  Node = {a, b, c}
  Worker = {w1, w2}
  NoWorker = NoWorker
  Requests <- MCRequests
  Attempts = 2
  MaxStalled = 1
  Concurrency = 1
  FaultKinds = {"apiCrash", "workerCrash", "lockLoss", "shutdown"}
  MaxFaults = 2
SYMMETRY WorkerSymmetry
CHECK_DEADLOCK FALSE
INVARIANTS
  TypeOK
  CounterExact
  EnqueuedOnce
  InputsReadable
  FailureBlocks
  DeadLetteredOnce
PROPERTIES
  TakenBackOnlyByStale
  ImplementsContract
