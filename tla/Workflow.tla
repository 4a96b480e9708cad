------------------------------ MODULE Workflow ------------------------------
(***************************************************************************)
(* One run of the security-scan workflow on GitHub Actions and the bundle  *)
(* it leaves for the controller.  The build job pushes an image per        *)
(* target, the scan jobs leave an evidence directory each, the gate judges *)
(* the policy scan, the runtime jobs start the images and leave a verdict; *)
(* the manifest job checks all of it, writes manifest.json and then        *)
(* SHA256SUMS, and the intake checks what was uploaded.  A person may run  *)
(* the failed jobs again: the artifacts of the others stay.                *)
(*                                                                         *)
(* The workflow is not in this repository, only the scan script and what   *)
(* ci.py and evidence.py read of the jobs.                                 *)
(***************************************************************************)
EXTENDS Integers, Sequences, FiniteSets

CONSTANTS Documents,     \* files in the directory of approved VEX documents
          MaxAttempt     \* bound: attempts of the run

ScanJobs == {"lean-raw", "lean-policy", "ci-raw"}
RuntimeJobs == {"lean-smoke", "app-runs"}
Modes == {"report", "enforce"}
Nothing == <<>>

VARIABLES
  attempt,    \* run_attempt
  built,      \* which build the images are of; their digests follow it
  gateMode,   \* SCAN_GATE_MODE of the attempt
  approved,   \* the approved documents in the source
  dir,        \* of each scan job, its evidence directory
  gateFile,   \* gate.json
  record,     \* of each runtime job, its verdict file
  result,     \* of each runtime job, its GitHub result
  bundle,     \* manifest.json with what it lists
  sums,       \* SHA256SUMS is written
  uploaded    \* the intake can read the bundle

wvars == <<attempt, built, gateMode, approved, dir, gateFile, record, result,
           bundle, sums, uploaded>>

jobvars == <<attempt, built, gateMode, approved, dir, gateFile, record, result>>
bundlevars == <<bundle, sums, uploaded>>

WInit ==
  /\ attempt = 1 /\ built = 1
  /\ gateMode \in Modes
  /\ approved \in {D \in SUBSET Documents : Cardinality(D) <= 1}
  /\ dir = [j \in ScanJobs |-> Nothing]
  /\ gateFile = Nothing
  /\ record = [j \in RuntimeJobs |-> Nothing]
  /\ result = [j \in RuntimeJobs |-> "none"]
  /\ bundle = Nothing /\ sums = FALSE /\ uploaded = FALSE

(***************************************************************************)
(* Approved documents.                                                     *)
(***************************************************************************)

\* validate_openvex: the context, and every statement names a vulnerability,
\* a product and a status that suppresses.
OpenVex(d) == d.context /\ d.statements # {} /\ \A s \in d.statements : s.suppresses

\* approval_of: the approval names an issue and a person.
Approval(d) == d.issue # "none" /\ d.by # "none"

\* _lint_document.
LintDocument(d) ==
  IF ~OpenVex(d) THEN {"openvex"}
  ELSE {"justification" : s \in {s \in d.statements : ~s.justified}}
       \cup {p \in {"author", "timestamp"} : ~d[p]}
       \cup (IF ~Approval(d) THEN {"approval"}
             ELSE {p \in {"repo", "approver", "approved_at"} :
                     \/ p = "repo" /\ d.issue # "fork"
                     \/ p = "approver" /\ d.by # "allowed"
                     \/ p = "approved_at" /\ ~d.approved_at})

\* lint_approved_vex.
Lint ==
  UNION {IF d.file = "placeholder" THEN {}
         ELSE IF d.file # "json" THEN {"file"}
         ELSE LintDocument(d) : d \in approved}

(***************************************************************************)
(* The jobs.                                                               *)
(***************************************************************************)

Target(j) == IF j \in {"ci-raw", "app-runs"} THEN "ci" ELSE "lean"
Mode(j) == IF j = "lean-policy" THEN "policy" ELSE "raw"

\* A scan job leaves a directory, or none when it fails (one whose checksums
\* are wrong counts as none); the image it was handed is that of the build, or
\* an old one by a tag that moved.  The policy scan keeps a copy of every
\* approved document, and ends without a directory if one names no approval.
ScanImage(j) ==
  LET docs == IF Mode(j) = "policy" THEN {d \in approved : d.file = "json"} ELSE {}
  IN  /\ bundle = Nothing /\ dir[j] = Nothing
      /\ \A d \in docs : Approval(d)
      /\ \E image \in {built, built - 1} :
           dir' = [dir EXCEPT ![j] = [image |-> image, target |-> Target(j),
                                      mode |-> Mode(j), docs |-> docs]]
  /\ UNCHANGED <<attempt, built, gateMode, approved, gateFile, record, result>>
  /\ UNCHANGED bundlevars

\* load_vex_documents.
DocumentLoads(d) == OpenVex(d) /\ Approval(d)

\* load_scan_job: no documents in a raw scan, all documents valid.
ScanJobLoads(e) ==
  /\ e # Nothing
  /\ e.mode = "raw" => e.docs = {}
  /\ \A d \in e.docs : DocumentLoads(d)

\* gate_job: a verdict on the policy directory, in the mode of the attempt.
GateJob ==
  /\ bundle = Nothing /\ gateFile = Nothing
  /\ ScanJobLoads(dir["lean-policy"])
  /\ gateFile' = [image |-> dir["lean-policy"].image, target |-> "lean", mode |-> gateMode]
  /\ UNCHANGED <<attempt, built, gateMode, approved, dir, record, result>>
  /\ UNCHANGED bundlevars

\* A runtime job starts an image and writes its verdict; it may fail before
\* it has written one, or after a verdict that passed.
RuntimeJob(j) ==
  /\ bundle = Nothing /\ result[j] = "none"
  /\ \E r \in {Nothing} \cup {r \in [image : {built, built - 1}, passed : BOOLEAN] :
                               r.passed \/ r.image = built},
        outcome \in {"success", "failure"} :
       /\ record' = [record EXCEPT ![j] = r]
       /\ result' = [result EXCEPT ![j] = outcome]
  /\ UNCHANGED <<attempt, built, gateMode, approved, dir, gateFile>>
  /\ UNCHANGED bundlevars

\* A person runs the failed jobs again, or all of them: those of the scan and
\* runtime jobs that are kept keep what they left.
Rerun ==
  /\ attempt < MaxAttempt
  /\ bundle # Nothing \/ \E j \in RuntimeJobs : result[j] = "failure"
  /\ attempt' = attempt + 1
  /\ gateMode' \in Modes
  /\ built' \in {built, built + 1}
  /\ \E kept \in SUBSET (ScanJobs \cup {j \in RuntimeJobs : result[j] = "success"}) :
       /\ dir' = [j \in ScanJobs |-> IF j \in kept THEN dir[j] ELSE Nothing]
       /\ record' = [j \in RuntimeJobs |-> IF j \in kept THEN record[j] ELSE Nothing]
       /\ result' = [j \in RuntimeJobs |-> IF j \in kept THEN result[j] ELSE "none"]
       /\ gateFile' = IF "lean-policy" \in kept THEN gateFile ELSE Nothing
  /\ bundle' = Nothing /\ sums' = FALSE /\ uploaded' = FALSE
  /\ UNCHANGED approved

(***************************************************************************)
(* write_scan_manifest.                                                    *)
(***************************************************************************)

\* Mutant: the digest of a scan is not compared with the one of the build.
ScanJobFitsAnyImage(j) ==
  ScanJobLoads(dir[j]) /\ dir[j].target = Target(j) /\ dir[j].mode = Mode(j)

ScanJobFits(j) ==
  /\ ScanJobLoads(dir[j])
  /\ dir[j].image = built
  /\ dir[j].target = Target(j) /\ dir[j].mode = Mode(j)

\* Each gate handed over is the verdict on its scan job in the run's mode.
GateFits ==
  gateFile # Nothing =>
    /\ gateFile.image = dir["lean-policy"].image
    /\ gateFile.target = "lean"
    /\ gateFile.mode = gateMode

\* A success must be backed by an attached verdict on the image of the build.
RuntimeFits(j, attached) ==
  result[j] = "success" =>
    j \in attached /\ record[j].image = built /\ record[j].passed

\* The jobs hand over what they attached; each attached directory has files.
\* A job recorded beside the runtime ones counts when it did not succeed.
WriteManifest ==
  /\ bundle = Nothing
  /\ \A j \in ScanJobs : ScanJobFits(j)
  /\ GateFits
  /\ \E attached \in SUBSET {j \in RuntimeJobs : record[j] # Nothing},
        others \in SUBSET {"another job"} :
       /\ \A j \in RuntimeJobs : RuntimeFits(j, attached)
       /\ bundle' = [ attempt |-> attempt, images |-> built, mode |-> gateMode,
                      scans |-> dir, gate |-> gateFile,
                      claimed |-> [j \in RuntimeJobs \cup others |->
                                     IF j \in RuntimeJobs THEN result[j] ELSE "failure"],
                      runtime |-> [j \in attached |-> record[j]] ]
  /\ UNCHANGED <<sums, uploaded>> /\ UNCHANGED jobvars

WriteSums ==
  /\ bundle # Nothing /\ ~sums
  /\ sums' = TRUE
  /\ UNCHANGED <<bundle, uploaded>> /\ UNCHANGED jobvars

\* The upload step runs whether or not the manifest job got to its end.
Upload ==
  /\ bundle # Nothing /\ ~uploaded
  /\ uploaded' = TRUE
  /\ UNCHANGED <<bundle, sums>> /\ UNCHANGED jobvars

WNext ==
  \/ \E j \in ScanJobs : ScanImage(j)
  \/ GateJob
  \/ \E j \in RuntimeJobs : RuntimeJob(j)
  \/ Rerun
  \/ WriteManifest \/ WriteSums \/ Upload

WSpec == WInit /\ [][WNext]_wvars

(***************************************************************************)
(* The intake of the bundle.                                               *)
(***************************************************************************)

\* load_runtime_record: a verdict names the image, and a failed step iff failed.
\* load_baseline: SHA256SUMS names the manifest, every scan loads and is of the
\* images the manifest names.
BundleLoads(b) ==
  /\ sums
  /\ \A j \in ScanJobs : ScanJobLoads(b.scans[j]) /\ b.scans[j].image = b.images

\* validate_bundle on the parts a workflow run decides.
Accepted(b) ==
  /\ BundleLoads(b)
  /\ b.attempt = attempt
  /\ \A j \in RuntimeJobs :
       /\ b.claimed[j] # "none"
       /\ j \in DOMAIN b.runtime
       /\ b.runtime[j].image = b.images
       /\ b.claimed[j] = "success" => b.runtime[j].passed

\* runtime_verified: every required job is recorded, and all recorded ones succeeded.
RuntimeVerified(b) == \A j \in RuntimeJobs \cup DOMAIN b.claimed : b.claimed[j] = "success"

(***************************************************************************)
(* Properties.                                                             *)
(***************************************************************************)

\* The manifest claims no more than its evidence: every scan, the gate's
\* verdict and every runtime verdict behind a success are of the images the
\* manifest names, whichever attempt left them.  The intake refuses a bundle
\* that was written to its end only for a runtime job that did not succeed and
\* whose verdict is missing or of another image.  And documents without a lint
\* problem never keep a scan from loading (write_scan_manifest,
\* validate_bundle, lint_approved_vex).
BundleTellsTheTruth ==
  /\ bundle # Nothing =>
       /\ \A j \in ScanJobs : bundle.scans[j].image = bundle.images
       /\ bundle.gate # Nothing =>
            bundle.gate.image = bundle.images /\ bundle.gate.mode = bundle.mode
       /\ RuntimeVerified(bundle) =>
            \A j \in RuntimeJobs : bundle.runtime[j] = [image |-> bundle.images, passed |-> TRUE]
  /\ uploaded /\ sums /\ ~Accepted(bundle) =>
       \E j \in RuntimeJobs :
         /\ bundle.claimed[j] # "success"
         /\ j \in DOMAIN bundle.runtime => bundle.runtime[j].image # bundle.images
  /\ Lint = {} =>
       \A j \in ScanJobs : dir[j] # Nothing => ScanJobLoads(dir[j])
=============================================================================
