SPECIFICATION FairSpec
CONSTANTS
  Queues = {alice, bob}
  NoQueue = NoQueue
  Windows <- MCWindows
  Grace = 2
  ScanEvery = 2
  Horizon = 3
  MaxDirectives = 2
  MaxWorkers = 6
  MaxGets = 2
  MaxScans = 2
INVARIANTS
  ChaosTypeOK
  OneWorkerPerQueue
  ActsOnce
  PausedIsKnown
PROPERTIES
  QueuesServedAgain
