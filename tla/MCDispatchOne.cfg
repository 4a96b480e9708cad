\* One work item in depth: four sessions, so that two create calls may each be
\* repeated; two interruptions, no ACUs.
CONSTANTS
  Items = {i1}
  Sessions = {s1, s2, s3, s4}
  AutoItems = {}
  Cap = 0
  Budget = 0
  MaxConcurrent = 1
  MaxFailures = 2
  Retries = 1
  MaxInterrupts = 2
  LostAnswers = TRUE
  MaxPosts = 2
  NoSession = NoSession
  NoItem = NoItem
SYMMETRY SessionSymmetry
SPECIFICATION Spec
INVARIANTS
  IndInv
  OneCallAtWork
  OnlyRepeatsWorkBeside
  NothingIsStranded
PROPERTIES
  ImplementsLease
  EndedSessionStaysReleased
  OnlyHumansRelease
