------------------------------ MODULE Negative ------------------------------
(***************************************************************************)
(* The negative suite: a broken branch behind a draft PR, the fork's       *)
(* workflow on its head, and NegativeRunner, which waits for the checks a  *)
(* case expects, compares them with a table (and, for a worse dependency,  *)
(* the scans with those of main), leaves a verdict and cleans up.          *)
(***************************************************************************)
EXTENDS Client, Ladder

CONSTANTS
  MaxSurprises,  \* jobs that end otherwise than the case expects
  Evidence,      \* scan-evidence of the PR's head
  MainRuns,      \* security-scan runs of main, newest first: alternatives
  CompareTo      \* --compare-run-id: alternatives, 0 without

\* Evidence is missing, rejected, or has its counts.
Countable(found) ==
  \/ found.state \in {"none", "invalid"}
  \/ found.state = "valid" /\ {found.total, found.high} \subseteq Nat

ASSUME NegativeAssumption ==
  /\ \A found \in Evidence : Countable(found)
  /\ \A runs \in MainRuns :
       DOMAIN runs \subseteq Nat /\ \A i \in DOMAIN runs : Countable(runs[i].evidence)

Scans == {"scan-lean-raw", "scan-lean-policy", "scan-ci-raw"}
Jobs == Scans \cup {"build-image", "forbid-ignore-files", "vex-lint", "policy-gate",
                    "lean-smoke", "app-runs", "scan-manifest"}
Template == "scan-${{ matrix.target }}-${{ matrix.mode }}"

\* CASES: the jobs a case expects, and the conclusions it allows.
NotSuccess == {"failure", "skipped", "cancelled"}
Allow(jobs, conclusions) == [j \in jobs |-> conclusions]

Cases ==
  [ broken_build |->
      Allow({"forbid-ignore-files", "vex-lint"}, {"success"}) @@ Allow({"build-image"}, {"failure"})
        @@ Allow({"scan-manifest"}, NotSuccess) @@ Allow(Jobs, {"skipped"}),
    broken_runtime |->
      Allow(Scans \cup {"build-image"}, {"success"}) @@ Allow({"lean-smoke", "app-runs"}, {"failure"})
        @@ Allow({"scan-manifest"}, NotSuccess),
    dependency_regression |-> Allow(Jobs, {"success"}),
    ignore_file |->
      Allow(Scans \cup {"forbid-ignore-files"}, {"failure"}) @@ Allow({"scan-manifest"}, NotSuccess),
    unapproved_vex |->
      Allow({"vex-lint", "scan-lean-policy"}, {"failure"}) @@ Allow({"scan-lean-raw"}, {"success"})
        @@ Allow({"policy-gate", "scan-manifest"}, NotSuccess) ]

VARIABLES
  case, evidence, mainRuns, compareTo,  \* what the run is about
  checks,     \* GitHub: the check runs of the head
  stage,      \* the stage of the workflow
  surprises,
  pr, branch, \* GitHub: the draft PR is "none", "open" or "closed"; the branch exists
  pc, report, \* the runner, and its CaseReport
  outage      \* ghost: the call that failed for good, "none" without one

nvars == <<case, evidence, mainRuns, compareTo, checks, stage, surprises, pr, branch, pc,
           report, outage>>

NoReport == [failures |-> {}, passed |-> FALSE, base |-> 0, posted |-> FALSE]

NInit ==
  /\ case \in DOMAIN Cases
  /\ IF case = "dependency_regression"
     THEN evidence \in Evidence /\ mainRuns \in MainRuns /\ compareTo \in CompareTo
     ELSE evidence = [state |-> "none"] /\ mainRuns = <<>> /\ compareTo = 0
  /\ checks = <<>> /\ stage = 0 /\ surprises = 0
  /\ pr = "none" /\ branch = TRUE
  /\ pc = "pushed" /\ report = NoReport /\ outage = "none"

(***************************************************************************)
(* The workflow on the head.                                               *)
(***************************************************************************)

Check(name, completed, conclusion) ==
  [name |-> name, completed |-> completed, conclusion |-> conclusion]

Stages == << {"build-image", "forbid-ignore-files", "vex-lint"},
             Scans \cup {"lean-smoke", "app-runs"}, {"policy-gate"}, {"scan-manifest"} >>

Needs(job) ==
  CASE job \in Stages[1] -> {}
    [] job \in Stages[2] -> {"build-image"}
    [] job = "policy-gate" -> {"scan-lean-policy"}
    [] job = "scan-manifest" -> {"policy-gate", "lean-smoke", "app-runs"}

Succeeded(job) == \E i \in DOMAIN checks : checks[i].name = job /\ checks[i].conclusion = "success"
Runnable(job) == \A n \in Needs(job) : Succeeded(n)

Wanted(job) == IF job \in DOMAIN Cases[case] THEN Cases[case][job] ELSE {"success"}
Surprise(job, conclusion) == conclusion \notin Wanted(job)

\* A stage starts: its jobs are in progress, or skipped; a scan matrix without
\* an image is one check run under the name of its template.
StartStage ==
  LET jobs     == Stages[stage + 1]
      runnable == {j \in jobs : Runnable(j)}
      skipped  == {IF j \in Scans THEN Template ELSE j : j \in jobs \ runnable}
  IN  /\ stage < Len(Stages) /\ \A i \in DOMAIN checks : checks[i].completed
      /\ stage' = stage + 1
      /\ checks' = checks \o SetToSeq({Check(j, FALSE, "none") : j \in runnable}
                                        \cup {Check(j, TRUE, "skipped") : j \in skipped})
      /\ UNCHANGED <<case, evidence, mainRuns, compareTo, surprises, pr, branch, pc, report, outage>>

\* The jobs of a stage end, in one order.
EndJob ==
  LET running == {i \in DOMAIN checks : ~checks[i].completed}
      i       == Min(running)
  IN  /\ running # {}
      /\ \E conclusion \in {"success", "failure", "cancelled"} :
           /\ surprises' = surprises + (IF Surprise(checks[i].name, conclusion) THEN 1 ELSE 0)
           /\ surprises' <= MaxSurprises
           /\ checks' = [checks EXCEPT ![i] = Check(@.name, TRUE, conclusion)]
      /\ UNCHANGED <<case, evidence, mainRuns, compareTo, stage, pr, branch, pc, report, outage>>

\* A job of the same name runs once more, for another workflow or attempt.
RunAgain ==
  /\ surprises < MaxSurprises /\ stage = Len(Stages)
  /\ \E i \in DOMAIN checks :
       checks[i].completed /\ checks' = Append(checks, Check(checks[i].name, FALSE, "none"))
  /\ surprises' = surprises + 1
  /\ UNCHANGED <<case, evidence, mainRuns, compareTo, stage, pr, branch, pc, report, outage>>

\* It runs for the PR; once the PR is being closed nobody reads it any more.
Workflow ==
  /\ pr # "none" /\ pc \in {"polling", "judged"}
  /\ StartStage \/ EndJob \/ RunAgain

(***************************************************************************)
(* Judging the check runs.                                                 *)
(***************************************************************************)

\* expand_matrix: a skipped matrix reports for all of its legs, under any other
\* conclusion for none.
ReportsOn(r, job) ==
  r.name = job \/ (r = Check(Template, TRUE, "skipped") /\ job \in Scans)

Earliest(seq, places) == IF places = {} THEN {} ELSE {seq[Min(places)]}

\* The first completed run of a job is the one that counts.
Found(job, runs) ==
  LET reporting == {i \in DOMAIN runs : ReportsOn(runs[i], job)}
      done      == {i \in reporting : runs[i].completed}
  IN  Earliest(runs, IF done # {} THEN done ELSE reporting)

\* A mutant: a job that reported nothing is not held against the case.
EvaluateReported(runs) ==
  {job \in DOMAIN Cases[case] : \E r \in Found(job, runs) :
     ~(r.completed /\ r.conclusion \in Cases[case][job])}

\* The expectations that the runs do not meet.
Evaluate(runs) ==
  {job \in DOMAIN Cases[case] : ~\E r \in Found(job, runs) :
     r.completed /\ r.conclusion \in Cases[case][job]}

AllExpectedCompleted(runs) ==
  \A job \in DOMAIN Cases[case] :
    \E i \in DOMAIN runs : runs[i].completed /\ ReportsOn(runs[i], job)

(***************************************************************************)
(* Comparing a regression with main.                                       *)
(***************************************************************************)

\* _baseline_evidence: the named run and no other, or the latest successful
\* one that has evidence.
Usable(r) == r.conclusion = "success" /\ r.evidence.state # "none"
Baseline ==
  IF compareTo # 0
  THEN {r \in Earliest(mainRuns, {i \in DOMAIN mainRuns : mainRuns[i].id = compareTo}) :
          r.conclusion = "success"}
  ELSE Earliest(mainRuns, {i \in DOMAIN mainRuns : Usable(mainRuns[i])})

\* _compare_counts: what is wrong with the comparison.
CompareCounts ==
  IF evidence.state = "none" THEN {"no evidence"}
  ELSE IF ~\E base \in Baseline : base.evidence.state # "none" THEN {"no baseline"}
  ELSE LET base == CHOOSE b \in Baseline : TRUE
       IN  IF "invalid" \in {evidence.state, base.evidence.state} THEN {"evidence rejected"}
           ELSE {f \in {"total", "high"} : evidence[f] <= base.evidence[f]}
                  \cup (IF evidence.enforced THEN {"gate passed"} ELSE {})

(***************************************************************************)
(* NegativeRunner.run.                                                     *)
(***************************************************************************)

WorldUnchanged == UNCHANGED <<case, evidence, mainRuns, compareTo, checks, stage, surprises>>

\* Before the try: a failure here leaves the branch behind.
OpenPr ==
  /\ pc = "pushed"
  /\ \E o \in Request :
       /\ pr' = IF o.landed > 0 THEN "open" ELSE pr
       /\ IF o.answered THEN pc' = "polling" /\ UNCHANGED outage
                        ELSE pc' = "raised" /\ outage' = "create"
  /\ WorldUnchanged /\ UNCHANGED <<branch, report>>

\* Any call in the try may fail for good: no report, and on to the cleanup.
Raise ==
  /\ pc \in {"polling", "judged"}
  /\ \E o \in Request : ~o.answered
  /\ pc' = "closing" /\ outage' = "reading"
  /\ WorldUnchanged /\ UNCHANGED <<pr, branch, report>>

\* One poll: judge once everything expected has completed, or when time is up.
Poll ==
  LET runs     == Paginate(checks).items
      compared == case = "dependency_regression" /\ Evaluate(runs) = {}
      failures == IF compared THEN CompareCounts ELSE Evaluate(runs)
  IN  /\ pc = "polling" /\ Paginate(checks).whole
      /\ \E expired \in BOOLEAN :
           IF AllExpectedCompleted(runs) \/ expired
           THEN /\ pc' = "judged"
                /\ report' = [report EXCEPT !.failures = failures, !.passed = failures = {},
                     !.base = IF compared /\ Baseline # {}
                              THEN (CHOOSE b \in Baseline : TRUE).id ELSE 0]
           ELSE UNCHANGED <<pc, report>>
      /\ WorldUnchanged /\ UNCHANGED <<pr, branch, outage>>

Comment ==
  /\ pc = "judged"
  /\ pc' = "closing" /\ report' = [report EXCEPT !.posted = TRUE]
  /\ WorldUnchanged /\ UNCHANGED <<pr, branch, outage>>

\* finally: the PR is closed, and the branch deleted even if that failed.
ClosePr ==
  /\ pc = "closing"
  /\ \E o \in Request :
       /\ pr' = IF o.landed > 0 THEN "closed" ELSE pr
       /\ outage' = IF o.answered THEN outage ELSE "close"
  /\ pc' = "deleting"
  /\ WorldUnchanged /\ UNCHANGED <<branch, report>>

DeleteBranch ==
  /\ pc = "deleting"
  /\ \E o \in RequestOnce :
       /\ branch' = (branch /\ o.landed = 0)
       /\ outage' = IF o.answered THEN outage ELSE "delete"
       /\ pc' = IF o.answered /\ outage = "none" THEN "returned" ELSE "raised"
  /\ WorldUnchanged /\ UNCHANGED <<pr, report>>

NNext ==
  \/ Workflow
  \/ OpenPr \/ Raise \/ Poll \/ Comment \/ ClosePr \/ DeleteBranch

NSpec == NInit /\ [][NNext]_nvars

(***************************************************************************)
(* What a verdict is worth.                                                *)
(***************************************************************************)

\* negative.py:1 "prove the fork's security-scan workflow catches what it
\* must": a PASS is only given when every job the case names reported an
\* allowed conclusion, when the ladder, judging the same runs its own way,
\* proves no rung of a job that had to fail, and when a regression was worse
\* than a successful run of main and failed the enforced gate.
MustFail == {j \in DOMAIN Cases[case] : "success" \notin Cases[case][j]}

PassMeansCaught ==
  report.passed =>
    /\ \A j \in DOMAIN Cases[case] : \E i \in DOMAIN checks :
         /\ ReportsOn(checks[i], j) /\ checks[i].completed
         /\ checks[i].conclusion \in Cases[case][j]
    /\ \A rung \in Passed(checks) : Rungs[rung] \cap MustFail = {}
    /\ case = "dependency_regression" =>
         /\ ~evidence.enforced
         /\ \E i \in DOMAIN mainRuns :
              /\ mainRuns[i].id = report.base /\ mainRuns[i].conclusion = "success"
              /\ compareTo \in {0, report.base}
              /\ evidence.high > mainRuns[i].evidence.high

\* "always clean up" (negative.py:384): when the runner has ended, no PR is open
\* and the branch is gone.  A failed create leaves both behind.
AlwaysCleansUp == pc \in {"returned", "raised"} => pr # "open" /\ ~branch
=============================================================================
