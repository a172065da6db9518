SPECIFICATION Spec
CONSTANTS
  Families <- MCFamilies
  Torn = Torn
  MaxRevisions = 2
  MaxTargets = 3
  MayKill = TRUE
INVARIANT TypeOK
INVARIANT FailureLeavesArtifacts
INVARIANT CompleteCopyRepairs
PROPERTY CheckOnlyChangesNothing
