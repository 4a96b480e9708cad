CONSTANTS
  Findings = {f1, f2}
  MaxItems = 1
  MaxRuns = 4
  MaxMerges = 1
  MaxCuts = 0
  Reports <- Return
  Fits <- OneByOne
SPECIFICATION Spec
INVARIANTS
  WaitsForAnotherScan
SYMMETRY FindingSymmetry
CHECK_DEADLOCK FALSE
