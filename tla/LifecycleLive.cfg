SPECIFICATION FairSpec
CONSTANTS
  PaperIds = {p1, p2}
  LiveIds = {}
  Managers = {loop}
  Operators = {op1}
  Unit = 2
  MinFill = 2
  MaxCrashes = 1
  NoId = NoId
  NoCaller = NoCaller
  NoRow = NoRow
PROPERTIES StopEnforced RestoredIsReconciled
