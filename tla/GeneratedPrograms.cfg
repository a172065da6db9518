\* Every family's programs, run to their end; a finished case stutters.
SPECIFICATION Spec
CONSTANTS
  ByteBits = 8
  WordBytes = 3
  GasModulus = 2
  Tests <- MCTests
  AdminAccount <- MCAdminAccount
  PrivateKey = 5
  AuthorityKey = 9
  Recipient = 12303291
  ProbeBytes = 2048
  CurveP = 7
  CurveN = 13
  CurveG <- MCCurveG
  LastContract = 12648430
  AbsentTarget = 1048737
  PresentTarget = 2097330
  FeatureSets <- MCFeatureSets
  Genesis <- MCGenesis
  Block <- MCBlock
  ChainId = 2021
  GasPrice = 1000
  DefaultGas = 1000000
  MemoryLimit = 450
  ShiftRolls <- MCShiftRolls
  ShiftAmounts <- MCShiftAmounts
  ShiftRounds = 5
  ClzRounds = 52
  Kibibyte = 5
  UnrollLimit = 6
  MemorySteps <- MCMemorySteps
  Mebibyte = 10
  MaxCodeSize = 300
  LargeRuntime = 260
  CreateSalt = 42
  LongCalldata = 1024
  ExactLimit = 6
  MockContract = 12648430
  MockChild = 14540253
INVARIANTS TypeOK NeverRefused AuthorizationsTakeEffect DeploysWhatItDeclares WitnessHolds WitnessTellsFeature
           EveryCasePassesInMock MockAgreesWithChain
