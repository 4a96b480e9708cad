SPECIFICATION FairSpec
CONSTANTS
  i1 = i1
  i2 = i2
  Items <- TwoItems
  TitleOf <- OneTitle
  Resolvable <- Second
  MaxIssues = 3
  MaxFaults = 2
  MaxMoves = 3
  MaxAsks = 1
INVARIANTS Inv OrphansWillBeAdopted LabelTellsState EachLabelCountsOnce
PROPERTY HumansAreHeard
CHECK_DEADLOCK FALSE
