\* The divergence of ingest_workflow_run's comment: not a passing configuration.
SPECIFICATION FairSpec
CONSTANTS
  MaxRun = 2
  Limit = 1
  Bundles <- PoisonBundles
  RuntimeJobs <- Jobs
  MaxFaults = 0
  MaxManual = 0
PROPERTY EveryBundleIsRecorded
CHECK_DEADLOCK FALSE
