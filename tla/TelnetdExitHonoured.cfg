CONSTANTS
  Conns = {c1}
  NIL = NIL
  Key <- OwnPort
  NumLines = 3
  SegLines = 2
  BufLen = 3
  Chunks <- Pasted
  MaxTyped = 2
  MaxReply = 0
  MaxPuts = 0
  Pipelining = TRUE
  EarlyFin = FALSE
  Overlap = FALSE
  Unwatched = FALSE
  Aborts = FALSE
  MainQuit = FALSE
SPECIFICATION Spec
PROPERTIES ExitHonoured
