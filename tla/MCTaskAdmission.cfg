SPECIFICATION Spec
CONSTANTS
  Request = {r1, r2, r3}
  Key = {k1}
  NoKey = NoKey
  NoTask = NoTask
  Threshold = 1
  Concurrency = 1
  MaxInFlight = 3
  MaxExpiries = 1
  MaxStalls = 1
SYMMETRY RequestSymmetry
CHECK_DEADLOCK FALSE
INVARIANTS
  AdmissionTypeOK
  OneTaskPerKey
  OriginalResponse
  ProcessingOwned
