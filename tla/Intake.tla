------------------------------- MODULE Intake -------------------------------
(***************************************************************************)
(* Scan intake: the controller's poll and the `ingest` command, two        *)
(* processes on one database, bring the security-scan runs of GitHub into  *)
(* it.  A process lists the runs without an intake row, downloads each     *)
(* bundle, checks it, writes the scan run in one transaction and its       *)
(* intake row in another; it may die between any two of these, and an      *)
(* exception drops the rest of its batch.                                  *)
(*                                                                         *)
(* A run is its number in the order GitHub created it.  A bundle is what   *)
(* its evidence claims and what is true of it:                             *)
(*   artifacts   how many unexpired evidence artifacts the run has         *)
(*   digest      the downloaded zip is the one GitHub reports              *)
(*   loads       it unpacks, and every checksum, image and shape is right  *)
(*   wrong       the claims that differ from GitHub's or the expected ones *)
(*   descends    the source descends from the baseline                     *)
(*   claimed     the job_results entry of each runtime job                 *)
(*   record      what the attached verdict of each runtime job says        *)
(*   conclusion  the workflow's conclusion is success                      *)
(*   others      every other job recorded, and every scanner, succeeded    *)
(*   subject     its scan jobs fit together (ingest_run's own conditions)  *)
(***************************************************************************)
EXTENDS Integers, Sequences, FiniteSets, FiniteSetsExt

CONSTANTS MaxRun, Limit, Bundles, RuntimeJobs, MaxFaults, MaxManual

ASSUME IntakeAssumption ==
  /\ MaxRun \in Nat /\ Limit \in Nat \ {0}
  /\ MaxFaults \in Nat /\ MaxManual \in Nat

\* A verdict is absent, about an image that is not the manifest's, a failed or a
\* passing one.
Verdicts == {"none", "other", "fail", "pass"}

ASSUME BundlesAssumption ==
  \A b \in Bundles : \A j \in RuntimeJobs : b.record[j] \in Verdicts

Runs == 1 .. MaxRun
Processes == {"poll", "cli"}
Steps == {"next", "unpack", "persist", "record", "reject"}

VARIABLES
  bundle,    \* of each run that completed, <<bundle>>; <<>> while it runs
  intake,    \* ScanIntake.status of each run, "none" without a row
  scan,      \* ScanRun.status of each run, "none" without a row
  batch,     \* the runs each process still has to ingest, the oldest first
  at,        \* where each process stands with the oldest run of its batch
  faults,    \* outages and crashes so far
  manual,    \* `ingest --run-id` calls so far
  misled     \* ghost: the runs judged by an answer that was not the bundle's

vars == <<bundle, intake, scan, batch, at, faults, manual, misled>>

Completed == {r \in Runs : bundle[r] # <<>>}

Init ==
  /\ bundle = [r \in Runs |-> <<>>]
  /\ intake = [r \in Runs |-> "none"]
  /\ scan = [r \in Runs |-> "none"]
  /\ batch = [p \in Processes |-> {}]
  /\ at = [p \in Processes |-> "next"]
  /\ faults = 0 /\ manual = 0
  /\ misled = {}

(***************************************************************************)
(* What a bundle must prove.                                               *)
(***************************************************************************)

\* Mutant: the image the runtime job started is not compared.
RecordProblemsAnyImage(b, j) ==
  {problem \in {"claim"} : b.claimed[j] = "success" /\ b.record[j] = "fail"}

\* runtime_record_problems
RecordProblems(b, j) ==
  {problem \in {"image", "claim"} :
     IF problem = "image" THEN b.record[j] = "other"
     ELSE b.claimed[j] = "success" /\ b.record[j] = "fail"}

\* validate_bundle, with load_baseline; `descends` is what compare answered.
Acceptable(b, descends) ==
  /\ b.loads
  /\ b.wrong = {}
  /\ descends
  /\ \A j \in RuntimeJobs : /\ b.claimed[j] # "none"
                            /\ b.record[j] # "none"
                            /\ RecordProblems(b, j) = {}

\* proven_job_results
ProvenResult(b, j) ==
  IF b.claimed[j] = "success" /\ (b.record[j] = "none" \/ RecordProblems(b, j) # {})
  THEN "unproven" ELSE b.claimed[j]

\* run_meta_for and ingest_run: whether every job of the run succeeded.
Status(b) ==
  IF b.conclusion /\ b.others /\ \A j \in RuntimeJobs : ProvenResult(b, j) = "success"
  THEN "complete" ELSE "incomplete"

(***************************************************************************)
(* GitHub.                                                                 *)
(***************************************************************************)

Complete(r) ==
  /\ bundle[r] = <<>>
  /\ \E b \in Bundles : bundle' = [bundle EXCEPT ![r] = <<b>>]
  /\ UNCHANGED <<intake, scan, batch, at, faults, manual, misled>>

(***************************************************************************)
(* The processes.                                                          *)
(***************************************************************************)

\* Mutant: seen runs count against the limit, so a backlog is never reached.
UnseenOfNewest ==
  LET newest == {r \in Completed : Cardinality({s \in Completed : s > r}) < Limit}
  IN  {r \in newest : intake[r] = "none"}

\* unseen_runs: the newest runs without a row.
Unseen ==
  LET unseen == {r \in Completed : intake[r] = "none"}
  IN  {r \in unseen : Cardinality({s \in unseen : s > r}) < Limit}

Free(p) == batch[p] = {}

\* unseen_runs reverses its list: a batch is worked off oldest run first.
Run(p) == Min(batch[p])
Bundle(p) == Head(bundle[Run(p)])

Poll(p) ==
  /\ Free(p)
  /\ Unseen # {}
  /\ batch' = [batch EXCEPT ![p] = Unseen]
  /\ UNCHANGED <<bundle, intake, scan, at, faults, manual, misled>>

\* cmd_ingest with a run id: find_run finds runs that are still running too.
IngestRunId ==
  /\ Free("cli")
  /\ manual < MaxManual
  /\ \E r \in Runs : batch' = [batch EXCEPT !["cli"] = {r}]
  /\ manual' = manual + 1
  /\ UNCHANGED <<bundle, intake, scan, at, faults, misled>>

GoesTo(p, step) ==
  /\ at' = [at EXCEPT ![p] = step]
  /\ UNCHANGED batch

Done(p) ==
  /\ at' = [at EXCEPT ![p] = "next"]
  /\ batch' = [batch EXCEPT ![p] = @ \ {Run(p)}]

\* An exception leaves the list comprehension: the rest of the batch is dropped.
Raises(p) ==
  /\ at' = [at EXCEPT ![p] = "next"]
  /\ batch' = [batch EXCEPT ![p] = {}]

\* The row is read again before each run; then the run's own state and artifacts.
Look(p) ==
  /\ ~Free(p) /\ at[p] = "next"
  /\ \/ intake[Run(p)] # "none" /\ Done(p) /\ UNCHANGED misled
     \/ /\ intake[Run(p)] = "none" /\ Run(p) \notin Completed
        /\ GoesTo(p, "reject")
        /\ misled' = misled \cup {Run(p)}
     \/ /\ intake[Run(p)] = "none" /\ Run(p) \in Completed
        /\ GoesTo(p, IF Bundle(p).artifacts = 1 THEN "unpack" ELSE "reject")
        /\ UNCHANGED misled
  /\ UNCHANGED <<bundle, intake, scan, faults, manual>>

\* The other process is unpacking the same artifact into the same directory.
Torn(p) ==
  \E q \in Processes \ {p} : ~Free(q) /\ Run(q) = Run(p) /\ at[q] = "unpack"

\* The zip's digest, validate_bundle and _upper_bounds, on the unpacked tree.
Check(p) ==
  /\ ~Free(p) /\ at[p] = "unpack"
  /\ \/ /\ GoesTo(p, IF Bundle(p).digest /\ Acceptable(Bundle(p), Bundle(p).descends)
                     THEN "persist" ELSE "reject")
        /\ UNCHANGED misled
     \/ Torn(p) /\ GoesTo(p, "reject") /\ misled' = misled \cup {Run(p)}
  /\ UNCHANGED <<bundle, intake, scan, faults, manual>>

\* compare or get_file does not answer: it counts as no ancestry or no
\* pyproject.toml, which is a reason to reject like any other.
CheckUnanswered(p) ==
  /\ ~Free(p) /\ at[p] = "unpack" /\ faults < MaxFaults
  /\ GoesTo(p, "reject")
  /\ faults' = faults + 1
  /\ misled' = misled \cup {Run(p)}
  /\ UNCHANGED <<bundle, intake, scan, manual>>

\* Mutant: a ValueError of ingest_run is logged and the run recorded as ingested.
PersistSwallows(p) ==
  /\ ~Free(p) /\ at[p] = "persist"
  /\ \/ (scan[Run(p)] # "none" \/ ~Bundle(p).subject) /\ UNCHANGED scan
     \/ /\ scan[Run(p)] = "none" /\ Bundle(p).subject
        /\ scan' = [scan EXCEPT ![Run(p)] = Status(Bundle(p))]
  /\ GoesTo(p, "record")
  /\ UNCHANGED <<bundle, intake, faults, manual, misled>>

\* ingest_run in its write transaction; a run already there is left as it is.
Persist(p) ==
  /\ ~Free(p) /\ at[p] = "persist"
  /\ \/ scan[Run(p)] # "none" /\ GoesTo(p, "record") /\ UNCHANGED scan
     \/ /\ scan[Run(p)] = "none" /\ Bundle(p).subject
        /\ scan' = [scan EXCEPT ![Run(p)] = Status(Bundle(p))]
        /\ GoesTo(p, "record")
     \/ scan[Run(p)] = "none" /\ ~Bundle(p).subject /\ Raises(p) /\ UNCHANGED scan
  /\ UNCHANGED <<bundle, intake, faults, manual, misled>>

\* _record: external_run_id is unique, so the second of two rows raises.
Record(p) ==
  /\ ~Free(p) /\ at[p] \in {"record", "reject"}
  /\ \/ /\ intake[Run(p)] = "none"
        /\ intake' = [intake EXCEPT ![Run(p)] =
                        IF at[p] = "record" THEN "ingested" ELSE "rejected"]
        /\ Done(p)
     \/ intake[Run(p)] # "none" /\ Raises(p) /\ UNCHANGED intake
  /\ UNCHANGED <<bundle, scan, faults, manual, misled>>

\* A lost answer where no reason is recorded, a locked database, or a crash.
Fail(p) ==
  /\ ~Free(p) /\ faults < MaxFaults
  /\ Raises(p)
  /\ faults' = faults + 1
  /\ UNCHANGED <<bundle, intake, scan, manual, misled>>

Works(p) == Poll(p) \/ Look(p) \/ Check(p) \/ Persist(p) \/ Record(p)

Next ==
  \/ \E r \in Runs : Complete(r)
  \/ IngestRunId
  \/ \E p \in Processes : Works(p) \/ CheckUnanswered(p) \/ Fail(p)

Spec == Init /\ [][Next]_vars

\* The controller ticks for ever; nobody has to run the command.
FairSpec ==
  /\ Spec
  /\ WF_vars(Poll("poll")) /\ WF_vars(Look("poll")) /\ WF_vars(Check("poll"))
  /\ WF_vars(Persist("poll")) /\ WF_vars(Record("poll"))

(***************************************************************************)
(* Properties.                                                             *)
(***************************************************************************)

TypeOK ==
  /\ bundle \in [Runs -> {<<>>} \cup {<<b>> : b \in Bundles}]
  /\ intake \in [Runs -> {"none", "ingested", "rejected"}]
  /\ scan \in [Runs -> {"none", "complete", "incomplete"}]
  /\ batch \in [Processes -> SUBSET Runs]
  /\ at \in [Processes -> Steps]
  /\ faults \in 0 .. MaxFaults /\ manual \in 0 .. MaxManual
  /\ misled \subseteq Runs

\* Types, and a process that still has work to do on a run holds a batch for
\* it; it checks and persists only runs that completed.
Inv ==
  /\ TypeOK
  /\ \A p \in Processes :
       /\ at[p] # "next" => ~Free(p)
       /\ at[p] \in {"unpack", "persist", "record"} => Run(p) \in Completed
       /\ at[p] = "record" => scan[Run(p)] # "none"

\* The two transactions agree: an ingested row has its scan run, and a rejected
\* one has none, unless the two processes judged the run apart.
RowsAgree ==
  \A r \in Runs :
    /\ intake[r] = "ingested" => scan[r] # "none"
    /\ intake[r] = "rejected" /\ scan[r] # "none" => r \in misled

\* A complete scan run, the only kind that can close anything, rests on a
\* bundle that is GitHub's own, says what GitHub says, and carries a passing
\* verdict about the manifest's image for every runtime job; every other job that
\* it records succeeded.
CompleteIsProven ==
  \A r \in Runs : scan[r] = "complete" =>
    LET b == Head(bundle[r]) IN
    /\ b.artifacts = 1 /\ b.digest /\ b.loads /\ b.wrong = {} /\ b.descends
    /\ b.conclusion /\ b.others /\ b.subject
    /\ \A j \in RuntimeJobs : b.claimed[j] = "success" /\ b.record[j] = "pass"

Sound(b) == b.artifacts = 1 /\ b.digest /\ Acceptable(b, b.descends)

\* A run that ingest_run refuses to write, so that it never gets a row.
Refused(r) == r \in Completed /\ Sound(Head(bundle[r])) /\ ~Head(bundle[r]).subject

\* Every completed run gets its intake row, however many newer ones are
\* recorded before it, and unless an answer misled the check, evidence that
\* holds up is ingested; only a refused run may stand in the way.
EveryRunIsSeen ==
  \A r \in Runs :
    r \in Completed ~>
      \/ intake[r] = "ingested"
      \/ intake[r] = "rejected" /\ (r \in misled \/ ~Sound(Head(bundle[r])))
      \/ \E s \in Runs : Refused(s)

\* Whatever shape its bundle has, a completed run gets its row: what the comment
\* in ingest_workflow_run says, and a refused run does not.
EveryBundleIsRecorded ==
  \A r \in Runs : r \in Completed ~> intake[r] # "none"
=============================================================================
