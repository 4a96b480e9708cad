\* A push, seen with its merge or with its close by one poll; run with -continue.
CONSTANTS
  PRs = {p1}
  MaxHeads = 2
  Retries = 1
  MaxRaises = 0
  NoPr = NoPr
SPECIFICATION Spec
INVARIANTS LevelIsEarned DepthIsOfCurrentHead
CHECK_DEADLOCK FALSE
