SPECIFICATION Spec
CONSTANTS
  Families <- MCFamilies
  Torn = Torn
  MaxRevisions = 1
  MaxTargets = 1
  MayKill = FALSE
INVARIANT SuccessMeansRegenerated
