CONSTANTS
  Conns = {c1, c2}
  NIL = NIL
  Key <- OwnPort
  NumLines = 3
  SegLines = 2
  BufLen = 2
  Chunks <- LineAtATime
  MaxTyped = 2
  MaxReply = 3
  MaxPuts = 1
  Pipelining = FALSE
  EarlyFin = FALSE
  Overlap = FALSE
  Unwatched = FALSE
  Aborts = FALSE
  MainQuit = FALSE
SPECIFICATION Spec
INVARIANTS TypeOK PoolExact OutputInOrder NoLockout
PROPERTIES QuitIsFinal ExitHonoured OutputShown
