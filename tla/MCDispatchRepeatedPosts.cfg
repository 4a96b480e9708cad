\* A create call that the client repeats after a lost answer.
CONSTANTS
  Items = {i1}
  Sessions = {s1, s2, s3}
  AutoItems = {}
  Cap = 0
  Budget = 0
  MaxConcurrent = 1
  MaxFailures = 2
  Retries = 1
  MaxInterrupts = 0
  LostAnswers = TRUE
  MaxPosts = 2
  NoSession = NoSession
  NoItem = NoItem
SPECIFICATION Spec
INVARIANT OneActiveSession
