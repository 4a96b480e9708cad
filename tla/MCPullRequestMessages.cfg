\* comment_issue fails after the retry message was sent.
CONSTANTS
  PRs = {p1}
  MaxHeads = 1
  Retries = 1
  MaxRaises = 1
  NoPr = NoPr
SPECIFICATION Spec
INVARIANT MessagesWithinRetries
CHECK_DEADLOCK FALSE
