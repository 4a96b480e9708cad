\* Two playbooks may carry one title: the syncs then overwrite each other's for ever.
CONSTANTS
  MaxLost = 1
  PageSize = 4
  MaxPages = 5
  Kinds = {"dep", "vex"}
  Notes = {"note"}
  Files <- MCFiles
  Syncers = {s1, s2}
  MaxSyncs = 3
  MaxEvents = 1
  MaxFaults = 1
  MaxSurprises = 1
  Evidence <- MCEvidences
  MainRuns <- MCMainRuns
  CompareTo = {0, 1, 2}
  Urls = {"pr 1", "pr 2"}
  Fork = "Hunter-1298/superset"
  Main = "main"
  Whitelist = {"which branch?"}
  Processes = {p1, p2, p3}
  Together = TRUE
  Abandoned = FALSE
  MaxOpens = 0
SPECIFICATION Spec
INVARIANT SecondSyncIsSilent
CHECK_DEADLOCK FALSE
