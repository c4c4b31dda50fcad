SPECIFICATION Spec
CONSTANTS
  N1 = N1
  N2 = N2
  N3 = N3
  N4 = N4
  Id = {N1, N2, N3, N4}
  IdNumber <- MCIdNumber
  SampleIds <- MCSampleIds
  ApiRequests <- MCApiRequests
CHECK_DEADLOCK FALSE
INVARIANTS
  SortTypeOK
  Layered
  AcceptsExactlyValid
  EditorAccepted
  DrawnBack
