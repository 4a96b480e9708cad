\* The docstring of the fourth rule (rules.py:6): violated when one scanner
\* reports a vulnerability twice, the second time without a fixed version.
CONSTANTS
  TrivyEntries <- MCTrivy
  GrypeEntries <- MCGrype
  ConfigEntries <- MCConfig
  Requirements <- MCRequirements
  MaxEntries = 2
  Documents <- MCDocuments
  MaxAttempt = 2
SPECIFICATION Spec
INVARIANT
  NoFixFromAnyReporter
CHECK_DEADLOCK FALSE
