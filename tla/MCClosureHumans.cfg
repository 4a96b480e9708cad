CONSTANTS
  Findings = {f1}
  MaxItems = 1
  MaxRuns = 3
  MaxMerges = 1
  MaxCuts = 1
  Reports <- Seen
  Fits <- ThirdPartial
SPECIFICATION Spec
PROPERTIES
  FlagWaitsForAPerson
  ClosedByAHuman
CHECK_DEADLOCK FALSE
