\* Two openings of a version-4 file at once, and the dashboard beside one; run
\* with -continue.
CONSTANTS
  MaxLost = 1
  PageSize = 4
  MaxPages = 5
  Kinds = {"dep"}
  Notes = {"note"}
  Files <- MCFiles
  Syncers = {s1, s2}
  MaxSyncs = 0
  MaxEvents = 0
  MaxFaults = 0
  MaxSurprises = 0
  Evidence <- MCEvidences
  MainRuns <- MCMainRuns
  CompareTo = {0, 1, 2}
  Urls = {"pr 1", "pr 2"}
  Fork = "Hunter-1298/superset"
  Main = "main"
  Whitelist = {"which branch?"}
  Processes = {p1, p2}
  Together = TRUE
  Abandoned = FALSE
  MaxOpens = 3
SPECIFICATION Spec
INVARIANT ReadsItsSchema
PROPERTY VersionNeverFalls
CHECK_DEADLOCK FALSE
