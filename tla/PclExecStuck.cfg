CONSTANTS
  Cmds = {c1}
  Blocks = {b1, b2}
  NIL = NIL
  Overrun = TRUE
  WebEvals = FALSE
  HeapFull = TRUE
  MaxPresses = 0
SPECIFICATION StuckSpec
PROPERTIES NetworkOutlivesEval
