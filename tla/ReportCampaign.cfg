SPECIFICATION Spec
CONSTANTS
  Families <- MCFamilies
  Subsets <- MCSubsets
  Durable <- MCDurable
  MayFail = TRUE
  MayAbort = TRUE
  MayKill = TRUE
  MaxJobs = 3
INVARIANT TypeOK
INVARIANT CleanExitIsFresh
INVARIANT CleanExitHasEvidence
INVARIANT CleanJobSucceeds
INVARIANT AlignedGapsAreStrays
