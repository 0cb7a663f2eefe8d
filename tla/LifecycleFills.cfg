SPECIFICATION Spec
CONSTANTS
  PaperIds = {}
  LiveIds = {l1}
  Managers = {loop}
  Operators = {op1}
  Unit = 4
  MinFill = 1
  MaxCrashes = 1
  NoId = NoId
  NoCaller = NoCaller
  NoRow = NoRow
INVARIANTS TypeOK NothingLost BooksCoverExchange
