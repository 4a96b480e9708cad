\* A review ends, whatever Devin answers.
CONSTANTS
  PRs = {p1}
  MaxHeads = 1
  Retries = 1
  MaxRaises = 1
  NoPr = NoPr
SPECIFICATION FairSpec
INVARIANTS
  MessagesAreCounted
PROPERTIES
  ReviewEnds
CHECK_DEADLOCK FALSE
