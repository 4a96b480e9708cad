\* The live-run settings: one slot, and a budget of one session's cap.
CONSTANTS
  Items = {i1, i2}
  Sessions = {s1, s2}
  AutoItems = {i1, i2}
  Cap = 1
  Budget = 1
  MaxConcurrent = 1
  MaxFailures = 2
  Retries = 1
  MaxInterrupts = 0
  LostAnswers = FALSE
  MaxPosts = 1
  NoSession = NoSession
  NoItem = NoItem
SPECIFICATION Spec
INVARIANT SpendWithinBudget
