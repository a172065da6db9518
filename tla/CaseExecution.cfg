SPECIFICATION Spec
CONSTANTS
  Cases <- MCThree
  KeySource = "rpc_unlocked"
  NoNonce = NoNonce
  None = None
  MaxPolls = 2
  MaxFaults = 2
  FaultKinds = {"connect", "read_timeout", "bad_response", "reset"}
  MaxLag = 1
  MaxPerBlock = 1
  MayFail = TRUE
  Conforms = TRUE
  MaxDrops = 1
  MaxOthers = 0
INVARIANTS
  TypeOK
  NoDoubleExecution
  PassedCasesRan
  StorageIsOfReceiptBlock
  ContextIsOfReceiptBlock
  CallsOwnContract
  NoFalseMismatch
