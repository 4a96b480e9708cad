\* Progress of one work item: two sessions, one interruption.
CONSTANTS
  Items = {i1}
  Sessions = {s1, s2}
  AutoItems = {}
  Cap = 0
  Budget = 0
  MaxConcurrent = 1
  MaxFailures = 2
  Retries = 1
  MaxInterrupts = 1
  LostAnswers = TRUE
  MaxPosts = 2
  NoSession = NoSession
  NoItem = NoItem

SPECIFICATION FairSpec
PROPERTIES
  ReservationsEnd
  EndedSessionIsNoticed
