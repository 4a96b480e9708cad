\* One pull request with two heads; an abandoned item is the end.
CONSTANTS
  PRs = {p1}
  MaxHeads = 2
  Retries = 1
  MaxRaises = 0
  NoPr = NoPr
SPECIFICATION Spec
INVARIANTS
  IndInv
  EvidenceIsOfTheHead
  ReadyIsEarned
PROPERTIES
  OfferIsOfThePolledHead
CHECK_DEADLOCK FALSE
