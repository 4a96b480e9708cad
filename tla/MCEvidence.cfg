\* Every pair of reports of two entries each, and two attempts of a run.
CONSTANTS
  TrivyEntries <- MCTrivy
  GrypeEntries <- MCGrype
  ConfigEntries <- MCConfig
  Requirements <- MCRequirements
  MaxEntries = 2
  Documents <- MCDocuments
  MaxAttempt = 2
SPECIFICATION Spec
INVARIANTS
  NothingIsLostInTheMerge
  GroupsBelongTogether
  BundleTellsTheTruth
CHECK_DEADLOCK FALSE
