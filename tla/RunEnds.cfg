SPECIFICATION LiveSpec
CONSTANTS
  Cases <- MCLive
  KeySource = "rpc_unlocked"
  NoNonce = NoNonce
  None = None
  MaxPolls = 2
  MaxFaults = 50
  FaultKinds = {"connect", "read_timeout"}
  MaxLag = 1
  MaxPerBlock = 2
  MayFail = TRUE
  Conforms = TRUE
  MaxDrops = 0
  MaxOthers = 1
PROPERTIES
  RunEnds
