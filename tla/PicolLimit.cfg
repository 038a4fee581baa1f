CONSTANTS
  Frames = {f1, f2, f3, f4}
  Top = Top
  NULL = NULL
  MAXRECURSION = 1
  MaxDepth = 4
SPECIFICATION Spec
INVARIANTS TopLevelHasNoParent
