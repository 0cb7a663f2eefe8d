SPECIFICATION Spec
CONSTANTS
  s1 = s1
  s2 = s2
  acceptance = acceptance
  viewer = viewer
  manager = manager
  none = none
  Strategies = {s1, s2}
  Openers = {acceptance}
  Guarded = {}
  Manager = manager
  Operators = {}
  Viewers = {viewer}
  Forced = {viewer}
  NoOne = none
  Faults <- MCLostOrPartial
  MaxCrashes = 0
SYMMETRY MCSymmetry
PROPERTIES AmissBlocksEntry
