\* What the run tracker leaves out: not a passing configuration.
SPECIFICATION Spec
CONSTANTS
  i1 = i1
  i2 = i2
  Items <- TwoItems
  TitleOf <- OneTitle
  Resolvable <- Second
  MaxIssues = 3
  MaxFaults = 2
  MaxMoves = 3
  MaxAsks = 1
INVARIANT NoOrphanIsHidden
CHECK_DEADLOCK FALSE
