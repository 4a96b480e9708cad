SPECIFICATION FairSpec
CONSTANTS
  MaxRun = 2
  Limit = 1
  Bundles <- MCBundles
  RuntimeJobs <- Jobs
  MaxFaults = 2
  MaxManual = 1
INVARIANTS Inv RowsAgree CompleteIsProven
PROPERTY EveryRunIsSeen
CHECK_DEADLOCK FALSE
