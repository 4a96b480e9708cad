\* A second pull request after a human retry.
CONSTANTS
  PRs = {p1, p2}
  MaxHeads = 2
  Retries = 1
  MaxRaises = 0
  NoPr = NoPr
SPECIFICATION Spec
INVARIANT LevelIsOfTheTrackedPr
CHECK_DEADLOCK FALSE
