CONSTANTS
  PageSz = 4
  WordSz = 2
  GpioPage = 5
  EthPage = 7
  Clients = {k1}
  NIL = NIL
  SegSz = 8
  Puts <- EveryLength
  Gets = {}
  MaxStarts = 1
  MaxFaults = 0
  Enabled = TRUE
  Reorders = FALSE
  Impatient = FALSE
SPECIFICATION Spec
INVARIANTS AcceptedImageIsInstalled
