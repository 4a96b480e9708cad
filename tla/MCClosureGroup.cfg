CONSTANTS
  Findings = {f1, f2}
  MaxItems = 3
  MaxRuns = 4
  MaxMerges = 0
  MaxCuts = 0
  Reports <- Seen
  Fits <- Complete
SPECIFICATION Spec
INVARIANTS
  OneOpenItemPerGroup
CHECK_DEADLOCK FALSE
