CONSTANTS
  Findings = {f1, f2}
  MaxItems = 2
  MaxRuns = 3
  MaxMerges = 1
  MaxCuts = 1
  Reports <- Mixed
  Fits <- SecondPartial
SPECIFICATION Spec
INVARIANTS
  Inv
  LastSeenIsLatest
  StandingEvidence
  VerifiedMembersAreClosed
  EvidenceIsNotMissed
PROPERTIES
  ClosureUsesLatestWord
CHECK_DEADLOCK FALSE
SYMMETRY FindingSymmetry
