\* An operator launch that fails at Devin, and a human retry of an item whose
\* session has finished; run with -continue.
CONSTANTS
  Items = {i1}
  Sessions = {s1, s2, s3}
  AutoItems = {}
  Cap = 0
  Budget = 0
  MaxConcurrent = 1
  MaxFailures = 2
  Retries = 1
  MaxInterrupts = 0
  LostAnswers = FALSE
  MaxPosts = 1
  NoSession = NoSession
  NoItem = NoItem
SPECIFICATION Spec
PROPERTIES RetryGetsFreshSession FailedLaunchRevokesApproval
