SPECIFICATION Spec
CONSTANTS
  s1 = s1
  s2 = s2
  Job = {s1, s2, t1, t2}
  NoJob = NoJob
  FlowJob = {s1, s2}
  Operator = {o1, o2}
  Attempts = 1
  MaxStalled = 1
  MaxFaults = 2
  Steps <- MCSteps
SYMMETRY Symmetry
CHECK_DEADLOCK FALSE
INVARIANTS
  ChainTypeOK
  NothingLost
  CopiesExplained
  StepsInOrder
  ShownChain
