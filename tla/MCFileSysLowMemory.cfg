SPECIFICATION Spec
CONSTANTS
  NSectors = 8
  MapSplit = 6
  Name = {a, b, c}
  BadName = {bad}
  Size = {0, 1}
  DirSize = 2
  File = {f1, f2}
  MaxFails = 1
  MaxCrashes = 0
  ShortReads = TRUE
SYMMETRY Interchangeable
INVARIANT
  AckedSurvive
