\* Two work items of the same severity compete for a budget of one cap.
CONSTANTS
  Items = {i1, i2}
  Sessions = {s1, s2}
  AutoItems = {i1, i2}
  Cap = 1
  Budget = 1
  MaxConcurrent = 2
  MaxFailures = 1
  Retries = 1
  MaxInterrupts = 0
  LostAnswers = TRUE
  MaxPosts = 2
  NoSession = NoSession
  NoItem = NoItem
SYMMETRY FullSymmetry
SPECIFICATION Spec
PROPERTIES
  CreationWithinBudget
