SPECIFICATION Spec
CONSTANTS
  Cases <- MCSubmissions
  KeySource = "private_key"
  NoNonce = NoNonce
  None = None
  MaxPolls = 1
  MaxFaults = 2
  FaultKinds = {"connect", "read_timeout", "bad_response", "reset"}
  MaxLag = 0
  MaxPerBlock = 1
  MayFail = FALSE
  Conforms = FALSE
  MaxDrops = 0
  MaxOthers = 1
INVARIANTS
  RejectionIsReal
PROPERTIES
  MismatchOnlyFromForeignTransfer
