SPECIFICATION FairSpec
CONSTANTS
  Queues = {alice, bob}
  NoQueue = NoQueue
  Windows <- MCWindows
  Grace = 2
  ScanEvery = 2
  Horizon = 3
  MaxDirectives = 1
  MaxWorkers = 4
  MaxGets = 1
  MaxScans = 1
PROPERTIES
  PausesEnd
