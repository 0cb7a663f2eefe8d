CONSTANTS
  Symbols = {s1, s2, s3}
  Ids = {i1}
  Plans = {p1}
  None = None
  MaxOpen = 1
  MaxAttempts = 2
  Limit = 1
  ScanAttempts = 1
  MaxWaiting = 1
  Routes = {"manual", "repair"}
SPECIFICATION Spec
INVARIANT RetriesMoveOn
PROPERTIES LockReleased
CHECK_DEADLOCK FALSE
