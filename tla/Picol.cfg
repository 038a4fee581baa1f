CONSTANTS
  Frames = {f1, f2, f3}
  Top = Top
  NULL = NULL
  MAXRECURSION = 1
  MaxDepth = 3
  Names = {x}
  MaxInt = 2
SPECIFICATION VarsSpec
SYMMETRY FramesAlike
INVARIANTS OwnFrame FramesAreCalls FramesLive
PROPERTIES ErrorsAreSeen WritesAreRead
