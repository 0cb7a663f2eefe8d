CONSTANTS
  Symbols = {s1}
  Ids = {i1, i2}
  Plans = {p1}
  None = None
  MaxOpen = 1
  MaxAttempts = 2
  Limit = 1
  ScanAttempts = 2
  MaxWaiting = 1
  Routes = {"loop", "probe", "acceptance"}
SYMMETRY Sym
SPECIFICATION Spec
INVARIANT ProbeNeverLive
  
CHECK_DEADLOCK FALSE
