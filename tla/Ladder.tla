------------------------------- MODULE Ladder -------------------------------
(***************************************************************************)
(* The verification ladder: which rungs of L0-L6 the check runs of a head  *)
(* prove.  A check run is a record of its job's name, the leg of a matrix  *)
(* or "", whether it has completed, and its conclusion.                    *)
(***************************************************************************)
EXTENDS Naturals, Sequences, FiniteSets, SequencesExt

\* DEFAULT_LADDER: the checks each rung needs; no check exists for "none".
Rungs ==
  << {"check-python-deps", "build-image"}, {"lean-smoke"}, {"unit-tests"}, {"app-runs", "none"},
     {"test-postgres", "test-mysql", "test-sqlite"}, {"playwright-tests"}, {"none"} >>

\* matching_runs: the job itself, or any leg of its matrix.
MatchingRuns(check, runs) == {r \in ToSet(runs) : r.name = check}

ComponentStatus(check, runs) ==
  LET matched   == MatchingRuns(check, runs)
      succeeded == {r \in matched : r.conclusion = "success"}
      silent    == {r \in matched : r.conclusion \in {"skipped", "neutral"}}
  IN  IF \E r \in matched : ~r.completed THEN "pending"
      ELSE IF matched \ (succeeded \cup silent) # {} THEN "failed"
      ELSE IF succeeded = {} THEN "unavailable"
      ELSE IF silent # {} THEN "partial" ELSE "passed"

RungStatus(statuses) ==
  IF "failed" \in statuses THEN "failed"
  ELSE IF "pending" \in statuses THEN "pending"
  ELSE IF statuses \subseteq {"unavailable"} THEN "unavailable"
  ELSE IF statuses = {"passed"} THEN "passed" ELSE "partial"

\* evaluate: the status of every rung.
Climbed(runs) ==
  [rung \in DOMAIN Rungs |-> RungStatus({ComponentStatus(c, runs) : c \in Rungs[rung]})]

Passed(runs) == {rung \in DOMAIN Rungs : Climbed(runs)[rung] = "passed"}

\* highest_passed, 0 without one: a rung below it may have failed.
HighestPassed(runs) ==
  IF Passed(runs) = {} THEN 0 ELSE CHOOSE r \in Passed(runs) : \A o \in Passed(runs) : o <= r
=============================================================================
