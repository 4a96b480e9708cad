\* Two work items of the same severity compete for one slot; no ACUs.
CONSTANTS
  Items = {i1, i2}
  Sessions = {s1, s2}
  AutoItems = {i1, i2}
  Cap = 0
  Budget = 0
  MaxConcurrent = 1
  MaxFailures = 1
  Retries = 1
  MaxInterrupts = 1
  LostAnswers = TRUE
  MaxPosts = 2
  NoSession = NoSession
  NoItem = NoItem
SYMMETRY FullSymmetry
SPECIFICATION Spec
INVARIANTS
  BindingIsRecorded
PROPERTIES
  CreationWithinCapacity
