SPECIFICATION Spec
CONSTANTS
  Runs <- MCRuns
  ProfileOf <- MCProfileOf
  Cases <- MCCases
INVARIANT TypeOK
INVARIANT RecordsKept
PROPERTY AbortHasCause
