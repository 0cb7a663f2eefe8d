SPECIFICATION Spec
CONSTANTS
  s1 = s1
  auto = auto
  op = op
  manager = manager
  none = none
  Strategies = {s1}
  Openers = {auto}
  Guarded = {auto}
  Manager = manager
  Operators = {op}
  Viewers = {}
  Forced = {}
  NoOne = none
  Faults <- MCOrderFaults
  MaxCrashes = 1
INVARIANTS StaysProtected NakedIsFrozen
