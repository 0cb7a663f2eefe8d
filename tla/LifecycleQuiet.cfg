SPECIFICATION Spec
CONSTANTS
  PaperIds = {p1}
  LiveIds = {l1}
  Managers = {loop, api}
  Operators = {}
  Unit = 2
  MinFill = 2
  MaxCrashes = 1
  NoId = NoId
  NoCaller = NoCaller
  NoRow = NoRow
 
PROPERTIES LedgerSpec
