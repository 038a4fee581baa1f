CONSTANTS
  Conns = {c1, c2, c3}
  NIL = NIL
  Key <- OwnPort
  NumLines = 3
  SegLines = 2
  BufLen = 3
  Chunks <- Pasted
  MaxTyped = 1
  MaxReply = 0
  MaxPuts = 1
  Pipelining = TRUE
  EarlyFin = TRUE
  Overlap = TRUE
  Unwatched = TRUE
  Aborts = TRUE
  MainQuit = TRUE
SPECIFICATION Spec
INVARIANTS AtMostOneServed
