CONSTANTS
  PageSz = 4
  WordSz = 2
  GpioPage = 5
  EthPage = 7
  Clients = {k1, k2}
  NIL = NIL
  SegSz = 8
  Puts <- PutsByNetwork
  Gets = {"stored", "image0", "refused", "unknown"}
  MaxStarts = 3
  MaxFaults = 3
  Enabled = TRUE
  Reorders = FALSE
  Impatient = FALSE
SPECIFICATION Spec
INVARIANTS AcceptedImageIsInstalled WrittenIsRead ConfigKept InstalledImageIsWhole
PROPERTIES ScriptIsLoaded
