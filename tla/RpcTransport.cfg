SPECIFICATION LiveSpec
CONSTANTS
  Methods <- MCMethods
  Effectful <- MCMethods
  Args = {"p"}
  Answers = {"result", "error"}
  NoAnswer = NoAnswer
  MaxCalls = 2
  MaxFaults = 6
  FaultKinds <- AllFaultKinds
INVARIANTS
  TypeOK
  RawSentOnce
  AnswerIsGenuine
PROPERTIES
  EveryCallReturns
  TwoFailuresAreSurvived
  ImplementsRemoteCall
CHECK_DEADLOCK FALSE
