SPECIFICATION Spec
CONSTANTS
  Families <- MCFamilies
  Subsets <- MCSubsets
  Durable <- MCDurable
  MayFail = FALSE
  MayAbort = FALSE
  MayKill = FALSE
  MaxJobs = 2
INVARIANT CampaignWritesSummary
