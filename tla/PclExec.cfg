CONSTANTS
  Cmds = {c1, c2}
  Blocks = {b1, b2}
  NIL = NIL
  Overrun = FALSE
  WebEvals = TRUE
  HeapFull = FALSE
  MaxPresses = 1
SPECIFICATION Spec
INVARIANTS TypeOK EvaluatedLineIsHeld NoDoubleFree MailboxReleased NoStrayPclEvent
PROPERTIES CommandAnswered RebootHonoured ServiceSpec
