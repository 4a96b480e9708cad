--------------------------- MODULE EvidenceProofs ---------------------------
(***************************************************************************)
(* What the bundle of a workflow run tells the controller, for any set of  *)
(* approved documents and any number of attempts and re-runs; and what     *)
(* becomes of the reports in it, for any entries of the scanners.          *)
(***************************************************************************)
EXTENDS Workflow, Findings, WellFoundedInduction, TLAPS

\* What the jobs leave: a scan job the documents of the source that name an
\* approval, and only the policy scan any; a runtime job that did not run, nothing.
JobsLeave ==
  /\ \A j \in ScanJobs : dir[j] # Nothing =>
       /\ \A d \in dir[j].docs : d \in approved /\ d.file = "json" /\ Approval(d)
       /\ dir[j].mode = "raw" => dir[j].docs = {}
  /\ record \in [RuntimeJobs -> {Nothing} \cup [image : Int, passed : BOOLEAN]]
  /\ result \in [RuntimeJobs -> {"none", "success", "failure"}]
  /\ \A j \in RuntimeJobs : result[j] = "none" => record[j] = Nothing

\* What a manifest rests on once it is written, whatever the jobs do afterwards.
Backed(b) ==
  /\ \A j \in ScanJobs : ScanJobLoads(b.scans[j]) /\ b.scans[j].image = b.images
  /\ b.gate # Nothing => b.gate.image = b.images /\ b.gate.mode = b.mode
  /\ \A j \in RuntimeJobs :
       /\ b.claimed[j] = "success" =>
            /\ j \in DOMAIN b.runtime
            /\ b.runtime[j] = [image |-> b.images, passed |-> TRUE]
       /\ b.claimed[j] = "none" => j \notin DOMAIN b.runtime

\* A bundle belongs to the attempt under way, and comes before its checksums.
BundleIsCurrent ==
  /\ sums => bundle # Nothing
  /\ bundle # Nothing => bundle.attempt = attempt /\ Backed(bundle)

IndInv ==
  /\ built \in Int
  /\ JobsLeave
  /\ BundleIsCurrent

-----------------------------------------------------------------------------
(* The inductive invariant *)

LEMMA Starts == WInit => IndInv
  BY DEF WInit, IndInv, JobsLeave, BundleIsCurrent, Nothing

\* A directory that a scan job leaves holds approved documents only.
LEMMA ScanImageKeeps ==
  ASSUME IndInv, NEW j \in ScanJobs, ScanImage(j)
  PROVE  IndInv'
  <1> DEFINE docs == IF Mode(j) = "policy" THEN {d \in approved : d.file = "json"} ELSE {}
  <1>1. /\ bundle = Nothing /\ \A d \in docs : Approval(d)
        /\ UNCHANGED <<attempt, built, gateMode, approved, gateFile, record, result>>
        /\ UNCHANGED <<bundle, sums, uploaded>>
    BY DEF ScanImage, bundlevars
  <1>2. PICK image \in {built, built - 1} :
          dir' = [dir EXCEPT ![j] = [image |-> image, target |-> Target(j),
                                     mode |-> Mode(j), docs |-> docs]]
    BY DEF ScanImage
  <1>3. /\ \A d \in docs : d \in approved /\ d.file = "json"
        /\ Mode(j) = "raw" => docs = {}
    OBVIOUS
  <1> HIDE DEF docs
  <1>4. ASSUME NEW k \in ScanJobs, dir'[k] # Nothing
        PROVE  /\ \A d \in dir'[k].docs : d \in approved' /\ d.file = "json" /\ Approval(d)
               /\ dir'[k].mode = "raw" => dir'[k].docs = {}
    <2>1. CASE dir'[k] = dir[k]
      BY <1>1, <1>4, <2>1 DEF IndInv, JobsLeave
    <2>2. CASE dir'[k] = [image |-> image, target |-> Target(j), mode |-> Mode(j),
                          docs |-> docs]
      BY <1>1, <1>3, <2>2
    <2>3. QED BY <1>2, <2>1, <2>2
  <1>5. JobsLeave'
    BY <1>1, <1>4 DEF IndInv, JobsLeave
  <1>6. QED BY <1>1, <1>5 DEF IndInv, BundleIsCurrent

LEMMA RuntimeJobKeeps ==
  ASSUME IndInv, NEW j \in RuntimeJobs, RuntimeJob(j)
  PROVE  IndInv'
  <1>1. /\ UNCHANGED <<attempt, built, gateMode, approved, dir, gateFile>>
        /\ UNCHANGED <<bundle, sums, uploaded>> /\ bundle = Nothing
    BY DEF RuntimeJob, bundlevars
  <1>2. PICK r \in {Nothing} \cup {r \in [image : {built, built - 1}, passed : BOOLEAN] :
                                     r.passed \/ r.image = built},
              outcome \in {"success", "failure"} :
          /\ record' = [record EXCEPT ![j] = r]
          /\ result' = [result EXCEPT ![j] = outcome]
    BY DEF RuntimeJob
  <1>3. r \in {Nothing} \cup [image : Int, passed : BOOLEAN]
    BY <1>2 DEF IndInv
  <1>4. /\ record' \in [RuntimeJobs -> {Nothing} \cup [image : Int, passed : BOOLEAN]]
        /\ result' \in [RuntimeJobs -> {"none", "success", "failure"}]
    BY <1>2, <1>3 DEF IndInv, JobsLeave
  <1>5. ASSUME NEW k \in RuntimeJobs, result'[k] = "none"
        PROVE  record'[k] = Nothing
    <2>1. k # j
      BY <1>2, <1>5 DEF IndInv, JobsLeave
    <2>2. result'[k] = result[k] /\ record'[k] = record[k]
      BY <1>2, <2>1 DEF IndInv, JobsLeave
    <2>3. QED BY <1>5, <2>2 DEF IndInv, JobsLeave
  <1>6. JobsLeave'
    BY <1>1, <1>4, <1>5 DEF IndInv, JobsLeave
  <1>7. QED BY <1>1, <1>6 DEF IndInv, BundleIsCurrent

\* What is run again is forgotten, with the bundle; what is kept is as it was.
LEMMA RerunKeeps ==
  ASSUME IndInv, Rerun
  PROVE  IndInv'
  <1>1. /\ built' \in Int /\ approved' = approved
        /\ bundle' = Nothing /\ sums' = FALSE
    BY DEF Rerun, IndInv
  <1>2. PICK kept \in SUBSET (ScanJobs \cup {j \in RuntimeJobs : result[j] = "success"}) :
          /\ dir' = [j \in ScanJobs |-> IF j \in kept THEN dir[j] ELSE Nothing]
          /\ record' = [j \in RuntimeJobs |-> IF j \in kept THEN record[j] ELSE Nothing]
          /\ result' = [j \in RuntimeJobs |-> IF j \in kept THEN result[j] ELSE "none"]
    BY DEF Rerun
  <1>3. JobsLeave'
    BY <1>1, <1>2 DEF IndInv, JobsLeave
  <1>4. QED BY <1>1, <1>3 DEF IndInv, BundleIsCurrent

\* write_scan_manifest refuses what does not fit together, so that what it
\* writes is backed by its evidence.
LEMMA ManifestIsBacked ==
  ASSUME IndInv, WriteManifest
  PROVE  bundle'.attempt = attempt /\ Backed(bundle')
  <1>1. PICK attached \in SUBSET {j \in RuntimeJobs : record[j] # Nothing},
             others \in SUBSET {"another job"} :
          /\ \A j \in RuntimeJobs : RuntimeFits(j, attached)
          /\ bundle' = [ attempt |-> attempt, images |-> built, mode |-> gateMode,
                         scans |-> dir, gate |-> gateFile,
                         claimed |-> [j \in RuntimeJobs \cup others |->
                                        IF j \in RuntimeJobs THEN result[j] ELSE "failure"],
                         runtime |-> [j \in attached |-> record[j]] ]
    BY DEF WriteManifest
  <1>2. /\ bundle'.attempt = attempt /\ bundle'.images = built /\ bundle'.mode = gateMode
        /\ bundle'.scans = dir /\ bundle'.gate = gateFile
        /\ \A j \in RuntimeJobs : bundle'.claimed[j] = result[j]
        /\ bundle'.runtime = [j \in attached |-> record[j]]
    BY <1>1
  <1>3. \A j \in ScanJobs : ScanJobLoads(dir[j]) /\ dir[j].image = built
    BY DEF WriteManifest, ScanJobFits
  <1>4. gateFile # Nothing => gateFile.image = built /\ gateFile.mode = gateMode
    BY <1>3 DEF WriteManifest, GateFits, ScanJobs
  <1>5. ASSUME NEW j \in RuntimeJobs
        PROVE  /\ result[j] = "success" =>
                    j \in attached /\ record[j] = [image |-> built, passed |-> TRUE]
               /\ result[j] = "none" => j \notin attached
    <2>1. CASE result[j] = "success"
      <3>1. j \in attached /\ record[j].image = built /\ record[j].passed
        BY <1>1, <2>1 DEF RuntimeFits
      <3>2. record[j] \in [image : Int, passed : BOOLEAN]
        BY <1>1, <3>1 DEF IndInv, JobsLeave
      <3>3. QED BY <2>1, <3>1, <3>2
    <2>2. CASE result[j] # "success"
      BY <1>1, <2>2 DEF IndInv, JobsLeave
    <2>3. QED BY <2>1, <2>2
  <1>6. QED BY <1>2, <1>3, <1>4, <1>5 DEF Backed

LEMMA Keeps ==
  ASSUME IndInv, [WNext]_wvars
  PROVE  IndInv'
  <1>1. ASSUME UNCHANGED <<attempt, built, approved, dir, record, result, bundle>>,
               sums' => bundle # Nothing
        PROVE  IndInv'
    BY <1>1 DEF IndInv, JobsLeave, BundleIsCurrent
  <1>2. CASE WriteManifest
    <2>1. bundle'.attempt = attempt' /\ Backed(bundle')
      BY <1>2, ManifestIsBacked DEF WriteManifest, jobvars
    <2>2. ~sums' /\ JobsLeave' /\ built' = built
      BY <1>2 DEF WriteManifest, jobvars, IndInv, JobsLeave, BundleIsCurrent
    <2>3. QED BY <2>1, <2>2 DEF IndInv, BundleIsCurrent
  <1>3. CASE GateJob \/ WriteSums \/ Upload \/ UNCHANGED wvars
    BY <1>1, <1>3 DEF GateJob, WriteSums, Upload, wvars, jobvars, bundlevars, IndInv,
                      BundleIsCurrent
  <1>4. QED BY <1>2, <1>3, ScanImageKeeps, RuntimeJobKeeps, RerunKeeps DEF WNext

-----------------------------------------------------------------------------
(* Theorems *)

\* The job runners of ci.py: every job result has the step outcomes behind it.
THEOREM WorkflowInvariant == WSpec => []IndInv
  BY Starts, Keeps, PTL DEF WSpec

\* An approved document without a lint problem is one the loader takes.
LEMMA LintedLoads ==
  ASSUME Lint = {}, NEW d \in approved, d.file = "json", Approval(d)
  PROVE  DocumentLoads(d)
  <1>1. LintDocument(d) = {}
    BY DEF Lint
  <1>2. OpenVex(d)
    BY <1>1 DEF LintDocument
  <1>3. QED BY <1>2 DEF DocumentLoads

\* BundleTellsTheTruth (write_scan_manifest, validate_bundle, lint_approved_vex):
\* the manifest claims no more than its evidence, the intake refuses it only for
\* a runtime job that did not succeed, and what lint passes always loads.
THEOREM TheBundleTellsTheTruth == WSpec => []BundleTellsTheTruth
  <1>1. ASSUME IndInv
        PROVE  BundleTellsTheTruth
    <2>1. ASSUME bundle # Nothing
          PROVE  /\ \A j \in ScanJobs : bundle.scans[j].image = bundle.images
                 /\ bundle.gate # Nothing =>
                      bundle.gate.image = bundle.images /\ bundle.gate.mode = bundle.mode
                 /\ RuntimeVerified(bundle) =>
                      \A j \in RuntimeJobs :
                        bundle.runtime[j] = [image |-> bundle.images, passed |-> TRUE]
      BY <1>1, <2>1 DEF IndInv, BundleIsCurrent, Backed, RuntimeVerified
    <2>2. ASSUME sums, ~Accepted(bundle)
          PROVE  \E j \in RuntimeJobs :
                   /\ bundle.claimed[j] # "success"
                   /\ j \in DOMAIN bundle.runtime => bundle.runtime[j].image # bundle.images
      <3>1. bundle.attempt = attempt /\ Backed(bundle)
        BY <1>1, <2>2 DEF IndInv, BundleIsCurrent
      <3>2. PICK j \in RuntimeJobs :
              ~(/\ bundle.claimed[j] # "none"
                /\ j \in DOMAIN bundle.runtime
                /\ bundle.runtime[j].image = bundle.images
                /\ bundle.claimed[j] = "success" => bundle.runtime[j].passed)
        BY <2>2, <3>1 DEF Accepted, BundleLoads, Backed
      <3>3. bundle.claimed[j] # "success"
        <4>1. SUFFICES ASSUME bundle.claimed[j] = "success"
                       PROVE  FALSE
          OBVIOUS
        <4>2. /\ j \in DOMAIN bundle.runtime
              /\ bundle.runtime[j] = [image |-> bundle.images, passed |-> TRUE]
          BY <3>1, <4>1 DEF Backed
        <4>3. QED BY <3>2, <4>1, <4>2
      <3>4. j \in DOMAIN bundle.runtime => bundle.runtime[j].image # bundle.images
        BY <3>1, <3>2, <3>3 DEF Backed
      <3>5. QED BY <3>3, <3>4
    <2>3. ASSUME Lint = {}, NEW j \in ScanJobs, dir[j] # Nothing
          PROVE  ScanJobLoads(dir[j])
      BY <1>1, <2>3, LintedLoads DEF IndInv, JobsLeave, ScanJobLoads
    <2>4. QED BY <2>1, <2>2, <2>3 DEF BundleTellsTheTruth
  <1>2. QED BY <1>1, WorkflowInvariant, PTL

-----------------------------------------------------------------------------
(* The reports and what is made of them *)

\* A set of numbers has its least member.
LEMMA Least ==
  ASSUME NEW S, S \subseteq Nat, S # {}
  PROVE  \E m \in S : \A n \in S : m <= n
  <1>1. IsWellFoundedOn(OpToRel(<, Nat), Nat)
    BY NatLessThanWellFounded
  <1>2. PICK m \in S : \A n \in Nat : <<n, m>> \in OpToRel(<, Nat) => ~(n \in S)
    BY <1>1, WFMin
  <1>3. ASSUME NEW n \in S
        PROVE  m <= n
    <2>1. <<n, m>> \notin OpToRel(<, Nat)
      BY <1>2
    <2>2. ~(n < m)
      BY <2>1 DEF OpToRel
    <2>3. QED BY <2>2
  <1>4. QED BY <1>3

-----------------------------------------------------------------------------
(* The loops over a report and over the records *)

\* What the filter has kept of the first entries of a report.
Kept(u, S, report, n) ==
  u = [m \in 0 .. n |->
         IF m = 0 THEN <<>>
         ELSE IF report[m] \in S THEN Append(u[m - 1], report[m]) ELSE u[m - 1]]

\* There is such a history: shown for the least number of entries without one.
LEMMA KeptExists ==
  ASSUME NEW S, NEW report, NEW n \in Nat
  PROVE  \E u : Kept(u, S, report, n)
  <1> DEFINE Lacking == {m \in Nat : ~\E u : Kept(u, S, report, m)}
  <1>1. SUFFICES ASSUME Lacking # {}
                 PROVE  FALSE
    OBVIOUS
  <1>2. PICK m \in Lacking : \A k \in Lacking : m <= k
    BY <1>1, Least
  <1>3. CASE m = 0
    <2>1. Kept([r \in 0 .. 0 |-> <<>>], S, report, m)
      BY <1>3 DEF Kept
    <2>2. QED BY <2>1
  <1>4. CASE m # 0
    <2>1. m \in Nat /\ m - 1 \in Nat /\ m - 1 \notin Lacking
      BY <1>2, <1>4
    <2>2. PICK u : Kept(u, S, report, m - 1)
      BY <2>1
    <2> DEFINE Step(w, k) == IF k = 0 THEN <<>>
                             ELSE IF report[k] \in S THEN Append(w[k - 1], report[k]) ELSE w[k - 1]
               v == [k \in 0 .. m |-> IF k = m THEN Step(u, m) ELSE u[k]]
    <2>3. ASSUME NEW k \in 0 .. m
          PROVE  v[k] = Step(v, k)
      <3>1. CASE k = m
        BY <2>1, <3>1
      <3>2. CASE k # m
        <4>1. k \in 0 .. (m - 1) /\ (k # 0 => k - 1 \in 0 .. (m - 1) /\ k - 1 # m)
          BY <2>1, <3>2
        <4>2. u[k] = Step(u, k)
          BY <2>2, <4>1 DEF Kept
        <4>3. v[k] = u[k] /\ (k # 0 => v[k - 1] = u[k - 1])
          BY <2>1, <3>2, <4>1
        <4>4. QED BY <4>2, <4>3
      <3>3. QED BY <3>1, <3>2
    <2>4. v = [k \in 0 .. m |-> Step(v, k)]
      BY <2>3
    <2>5. Kept(v, S, report, m)
      BY <2>4 DEF Kept
    <2>6. QED BY <2>5
  <1>5. QED BY <1>3, <1>4

\* The entries that pass a filter are entries of the set it looks for.
LEMMA OnlyOfThem ==
  ASSUME NEW S, NEW report, Len(report) \in Nat
  PROVE  Only(S, report) \in Seq(S)
  <1> DEFINE u == CHOOSE u : Kept(u, S, report, Len(report))
  <1>1. Kept(u, S, report, Len(report))
    BY KeptExists
  <1>2. Only(S, report) = u[Len(report)]
    BY DEF Only, Kept
  <1> HIDE DEF u
  <1> DEFINE Bad == {m \in 0 .. Len(report) : u[m] \notin Seq(S)}
  <1>3. SUFFICES ASSUME Bad # {}
                 PROVE  FALSE
    BY <1>2
  <1>4. PICK m \in Bad : \A k \in Bad : m <= k
    <2>1. Bad \subseteq Nat
      OBVIOUS
    <2> HIDE DEF Bad
    <2>2. QED BY <1>3, <2>1, Least
  <1>9. m \in 0 .. Len(report) /\ u[m] \notin Seq(S)
    BY <1>4
  <1>5. u[m] = IF m = 0 THEN <<>>
               ELSE IF report[m] \in S THEN Append(u[m - 1], report[m]) ELSE u[m - 1]
    BY <1>1 DEF Kept
  <1>6. CASE m = 0
    <2>1. u[m] = <<>>
      BY <1>5, <1>6
    <2>2. QED BY <1>9, <2>1
  <1>7. CASE m # 0
    <2>1. m - 1 \in 0 .. Len(report) /\ m - 1 \notin Bad
      BY <1>4, <1>7
    <2>2. u[m - 1] \in Seq(S)
      BY <2>1
    <2>3. \A w \in Seq(S), e \in S : Append(w, e) \in Seq(S)
      OBVIOUS
    <2>4. u[m] \in Seq(S)
      <3> HIDE DEF Bad
      <3>1. QED BY <1>5, <1>7, <2>2, <2>3
    <2>5. QED BY <1>9, <2>4
  <1>8. QED BY <1>6, <1>7

\* What normalize has merged of the first records.
Merging(u, records, n) ==
  u = [m \in 0 .. n |->
         IF m = 0 THEN [k \in {} |-> {}] ELSE WithRecord(u[m - 1], records[m])]

\* Such a history exists for as many records as there are.
LEMMA MergingExists ==
  ASSUME NEW records, NEW n \in Nat
  PROVE  \E u : Merging(u, records, n)
  <1> DEFINE Lacking == {m \in Nat : ~\E u : Merging(u, records, m)}
  <1>1. SUFFICES ASSUME Lacking # {}
                 PROVE  FALSE
    OBVIOUS
  <1>2. PICK m \in Lacking : \A k \in Lacking : m <= k
    BY <1>1, Least
  <1>3. CASE m = 0
    <2>1. Merging([r \in 0 .. 0 |-> [k \in {} |-> {}]], records, m)
      BY <1>3 DEF Merging
    <2>2. QED BY <2>1
  <1>4. CASE m # 0
    <2>1. m \in Nat /\ m - 1 \in Nat /\ m - 1 \notin Lacking
      BY <1>2, <1>4
    <2>2. PICK u : Merging(u, records, m - 1)
      BY <2>1
    <2> DEFINE Step(w, k) == IF k = 0 THEN [x \in {} |-> {}] ELSE WithRecord(w[k - 1], records[k])
               v == [k \in 0 .. m |-> IF k = m THEN Step(u, m) ELSE u[k]]
    <2>3. ASSUME NEW k \in 0 .. m
          PROVE  v[k] = Step(v, k)
      <3>1. CASE k = m
        BY <2>1, <3>1
      <3>2. CASE k # m
        <4>1. k \in 0 .. (m - 1) /\ (k # 0 => k - 1 \in 0 .. (m - 1) /\ k - 1 # m)
          BY <2>1, <3>2
        <4>2. u[k] = Step(u, k)
          BY <2>2, <4>1 DEF Merging
        <4>3. v[k] = u[k] /\ (k # 0 => v[k - 1] = u[k - 1])
          BY <2>1, <3>2, <4>1
        <4>4. QED BY <4>2, <4>3
      <3>3. QED BY <3>1, <3>2
    <2>4. v = [k \in 0 .. m |-> Step(v, k)]
      BY <2>3
    <2>5. Merging(v, records, m)
      BY <2>4 DEF Merging
    <2>6. QED BY <2>5
  <1>5. QED BY <1>3, <1>4

-----------------------------------------------------------------------------
(* normalize *)

\* Records of the parsers: a key tells a configuration from a vulnerability.
AreRecords(records) ==
  /\ Len(records) \in Nat
  /\ \A i \in 1 .. Len(records) :
       /\ records[i].config \in BOOLEAN
       /\ records[i].severity \in DOMAIN Rank
  /\ \A i, j \in 1 .. Len(records) :
       records[i].key = records[j].key => records[i].config = records[j].config

OfKey(records, n, k) == {i \in 1 .. n : records[i].key = k}

\* What the first n records have made of the one with key k.
Stands(f, records, n, k) ==
  /\ f = [ key |-> k, config |-> f.config, pkg |-> f.pkg, ecosystem |-> f.ecosystem,
           layer |-> f.layer, severity |-> f.severity, fixes |-> f.fixes, state |-> f.state ]
  /\ \A i \in OfKey(records, n, k) : f.config = records[i].config
  /\ DOMAIN f.state = {records[i].scanner : i \in OfKey(records, n, k)}
  /\ ~f.config =>
       /\ \E i \in OfKey(records, n, k) : f.severity = records[i].severity
       /\ \A i \in OfKey(records, n, k) : Rank[records[i].severity] <= Rank[f.severity]

AllStand(merged, records, n) ==
  /\ DOMAIN merged = {records[i].key : i \in 1 .. n}
  /\ \A k \in DOMAIN merged : Stands(merged[k], records, n, k)

LEMMA RanksAreNumbers ==
  ASSUME NEW s \in DOMAIN Rank
  PROVE  Rank[s] \in Nat
  BY DEF Rank

\* The whole of a finding after one more record of its key.
LEMMA MergedIs ==
  ASSUME NEW r, NEW f, NEW key, NEW config, NEW pkg, NEW ecosystem, NEW layer, NEW severity,
         NEW fixes, NEW state,
         f = [ key |-> key, config |-> config, pkg |-> pkg, ecosystem |-> ecosystem,
               layer |-> layer, severity |-> severity, fixes |-> fixes, state |-> state ]
  PROVE  Merged(f, r) =
           [ key |-> key, config |-> config, pkg |-> pkg, ecosystem |-> ecosystem,
             layer |-> layer,
             severity |-> IF ~config /\ Rank[r.severity] > Rank[severity]
                          THEN r.severity ELSE severity,
             fixes |-> Put(fixes, r.scanner, r.fixes), state |-> Put(state, r.scanner, r.state) ]
  <1> DEFINE a == Put(fixes, r.scanner, r.fixes)
             b == Put(state, r.scanner, r.state)
             c == IF ~config /\ Rank[r.severity] > Rank[severity] THEN r.severity ELSE severity
  <1>1. /\ f.fixes = fixes /\ f.state = state /\ f.severity = severity /\ f.config = config
    OBVIOUS
  <1>2. Merged(f, r) = [f EXCEPT !.fixes = a, !.state = b, !.severity = c]
    BY <1>1 DEF Merged
  <1> HIDE DEF a, b, c
  <1>3. [f EXCEPT !.fixes = a, !.state = b, !.severity = c] =
          [ key |-> key, config |-> config, pkg |-> pkg, ecosystem |-> ecosystem,
            layer |-> layer, severity |-> c, fixes |-> a, state |-> b ]
    <2> DEFINE g == [f EXCEPT !.fixes = a]
               h == [g EXCEPT !.state = b]
    <2>1. g = [ key |-> key, config |-> config, pkg |-> pkg, ecosystem |-> ecosystem,
                layer |-> layer, severity |-> severity, fixes |-> a, state |-> state ]
      OBVIOUS
    <2> HIDE DEF g
    <2>2. h = [ key |-> key, config |-> config, pkg |-> pkg, ecosystem |-> ecosystem,
                layer |-> layer, severity |-> severity, fixes |-> a, state |-> b ]
      BY <2>1
    <2> HIDE DEF h
    <2>3. [h EXCEPT !.severity = c] =
            [ key |-> key, config |-> config, pkg |-> pkg, ecosystem |-> ecosystem,
              layer |-> layer, severity |-> c, fixes |-> a, state |-> b ]
      BY <2>2
    <2>4. QED BY <2>3 DEF g, h
  <1>4. QED BY <1>2, <1>3 DEF a, b, c

\* A record joins the finding of its key and leaves the others alone.
LEMMA RecordJoins ==
  ASSUME NEW records, AreRecords(records), NEW merged, NEW n \in 1 .. Len(records),
         AllStand(merged, records, n - 1)
  PROVE  AllStand(WithRecord(merged, records[n]), records, n)
  <1> DEFINE r == records[n]
             old == IF r.key \in DOMAIN merged THEN merged[r.key] ELSE Opened(r)
             new == Merged(old, r)
             after == WithRecord(merged, records[n])
  <1>1. /\ n \in Nat /\ 1 .. n = (1 .. (n - 1)) \cup {n}
        /\ r.config \in BOOLEAN /\ r.severity \in DOMAIN Rank
    BY DEF AreRecords
  <1>2. after = [k \in DOMAIN merged \cup {r.key} |-> IF k = r.key THEN new ELSE merged[k]]
    BY DEF WithRecord, Put
  <1>3. DOMAIN after = {records[i].key : i \in 1 .. n}
    BY <1>1, <1>2 DEF AllStand
  <1>4. ASSUME NEW k \in DOMAIN after, k # r.key
        PROVE  Stands(after[k], records, n, k)
    <2>1. k \in DOMAIN merged /\ after[k] = merged[k]
      BY <1>2, <1>4
    <2>2. OfKey(records, n, k) = OfKey(records, n - 1, k)
      BY <1>1, <1>4 DEF OfKey
    <2>3. QED BY <2>1, <2>2 DEF AllStand, Stands
  <1>5. Stands(new, records, n, r.key)
    <2>1. OfKey(records, n, r.key) = OfKey(records, n - 1, r.key) \cup {n}
      BY <1>1 DEF OfKey
    <2>2. /\ old = [ key |-> r.key, config |-> old.config, pkg |-> old.pkg,
                     ecosystem |-> old.ecosystem, layer |-> old.layer,
                     severity |-> old.severity, fixes |-> old.fixes, state |-> old.state ]
          /\ old.config = r.config
          /\ DOMAIN old.state = {records[i].scanner : i \in OfKey(records, n - 1, r.key)}
          /\ \A i \in OfKey(records, n - 1, r.key) : records[i].config = r.config
          /\ ~r.config =>
               /\ \E i \in OfKey(records, n, r.key) : old.severity = records[i].severity
               /\ \A i \in OfKey(records, n - 1, r.key) :
                    Rank[records[i].severity] <= Rank[old.severity]
      <3>1. CASE r.key \in DOMAIN merged
        <4>1. Stands(old, records, n - 1, r.key)
          BY <3>1 DEF AllStand
        <4>2. PICK i \in OfKey(records, n - 1, r.key) : TRUE
          BY <3>1 DEF AllStand, OfKey
        <4>3. \A j \in OfKey(records, n - 1, r.key) : records[j].config = r.config
          BY <1>1 DEF AreRecords, OfKey
        <4>4. QED BY <2>1, <4>1, <4>2, <4>3 DEF Stands
      <3>2. CASE r.key \notin DOMAIN merged
        <4>1. OfKey(records, n - 1, r.key) = {}
          BY <3>2 DEF AllStand, OfKey
        <4>2. old = Opened(r)
          BY <3>2
        <4>3. n \in OfKey(records, n, r.key)
          BY <2>1
        <4>4. QED BY <4>1, <4>2, <4>3 DEF Opened
      <3>3. QED BY <3>1, <3>2
    <2> HIDE DEF old
    <2>3. /\ new = [ key |-> r.key, config |-> r.config, pkg |-> old.pkg,
                     ecosystem |-> old.ecosystem, layer |-> old.layer,
                     severity |-> new.severity, fixes |-> new.fixes, state |-> new.state ]
          /\ new.state = Put(old.state, r.scanner, r.state)
          /\ new.severity = IF ~r.config /\ Rank[r.severity] > Rank[old.severity]
                            THEN r.severity ELSE old.severity
      BY <2>2, MergedIs
    <2> HIDE DEF new
    <2>4. DOMAIN new.state = {records[i].scanner : i \in OfKey(records, n, r.key)}
      BY <2>1, <2>2, <2>3 DEF Put
    <2>5. ASSUME ~r.config
          PROVE  /\ \E i \in OfKey(records, n, r.key) : new.severity = records[i].severity
                 /\ \A i \in OfKey(records, n, r.key) :
                      Rank[records[i].severity] <= Rank[new.severity]
      <3>1. \A i \in OfKey(records, n, r.key) : records[i].severity \in DOMAIN Rank
        BY DEF AreRecords, OfKey
      <3>2. old.severity \in DOMAIN Rank
        BY <2>2, <2>5, <3>1
      <3>3. \A s \in DOMAIN Rank : Rank[s] \in Nat
        BY RanksAreNumbers
      <3>4. n \in OfKey(records, n, r.key)
        BY <2>1
      <3>5. QED BY <2>1, <2>2, <2>3, <2>5, <3>1, <3>2, <3>3, <3>4, <1>1
    <2>6. \A i \in OfKey(records, n, r.key) : new.config = records[i].config
      BY <2>1, <2>2, <2>3
    <2>7. new.config = r.config
      BY <2>3
    <2>8. QED BY <2>3, <2>4, <2>5, <2>6, <2>7 DEF Stands
  <1>6. QED BY <1>2, <1>3, <1>4, <1>5 DEF AllStand

\* All of normalize: each key has one finding, and its records stand in it.
LEMMA NormalizedStand ==
  ASSUME NEW records, AreRecords(records)
  PROVE  \E merged : /\ AllStand(merged, records, Len(records))
                     /\ Normalize(records) = {merged[k] : k \in DOMAIN merged}
  <1> DEFINE u == CHOOSE u : Merging(u, records, Len(records))
  <1>1. Len(records) \in Nat
    BY DEF AreRecords
  <1>2. Merging(u, records, Len(records))
    BY <1>1, MergingExists
  <1>3. Normalize(records) = {u[Len(records)][k] : k \in DOMAIN u[Len(records)]}
    BY DEF Normalize, Merging
  <1> HIDE DEF u
  <1> DEFINE Bad == {m \in 0 .. Len(records) : ~AllStand(u[m], records, m)}
  <1>4. SUFFICES ASSUME Bad # {}
                 PROVE  FALSE
    BY <1>1, <1>3
  <1>5. PICK m \in Bad : \A k \in Bad : m <= k
    <2>1. Bad \subseteq Nat
      OBVIOUS
    <2> HIDE DEF Bad
    <2>2. QED BY <1>4, <2>1, Least
  <1>6. u[m] = IF m = 0 THEN [k \in {} |-> {}] ELSE WithRecord(u[m - 1], records[m])
    BY <1>2 DEF Merging
  <1>7. CASE m = 0
    <2>1. DOMAIN u[m] = {} /\ 1 .. m = {}
      BY <1>6, <1>7
    <2>2. QED BY <2>1 DEF AllStand
  <1>8. CASE m # 0
    <2>1. m - 1 \in 0 .. Len(records) /\ m - 1 \notin Bad /\ m \in 1 .. Len(records)
      BY <1>1, <1>5, <1>8
    <2>2. AllStand(u[m - 1], records, m - 1)
      BY <2>1
    <2> DEFINE w == u[m - 1]
    <2>3. AllStand(WithRecord(w, records[m]), records, m)
      <3> HIDE DEF w
      <3>1. QED BY <2>1, <2>2, RecordJoins DEF w
    <2>4. QED BY <1>6, <1>8, <2>3
  <1>9. QED BY <1>7, <1>8

-----------------------------------------------------------------------------
(* The records of the parsers *)

\* A key tells a vulnerability from a configuration.
IsRecord(r) ==
  /\ r.config \in BOOLEAN
  /\ r.severity \in DOMAIN Rank
  /\ r.config <=> r.key[1] = "config"

LEMMA SeveritiesAreRanked ==
  ASSUME NEW word
  PROVE  Severity(word) \in DOMAIN Rank
  BY DEF Severity, Rank

LEMMA VulnIsRecord ==
  ASSUME NEW scanner, NEW ecosystem, NEW e
  PROVE  /\ IsRecord(RawVuln(scanner, ecosystem, e))
         /\ ~RawVuln(scanner, ecosystem, e).config
  <1>1. /\ RawVuln(scanner, ecosystem, e).config = FALSE
        /\ RawVuln(scanner, ecosystem, e).severity = Severity(e.severity)
        /\ RawVuln(scanner, ecosystem, e).key[1] = "vuln"
    BY DEF RawVuln
  <1>2. QED BY <1>1, SeveritiesAreRanked DEF IsRecord

\* A sequence of records, of vulnerabilities only or of any kind.
Parsed(records)  == records \in Seq({records[i] : i \in 1 .. Len(records)})
                    /\ \A i \in 1 .. Len(records) : IsRecord(records[i])
OnlyVulns(records) == \A i \in 1 .. Len(records) : ~records[i].config

LEMMA MappedIsSequence ==
  ASSUME NEW n \in Nat, NEW records, DOMAIN records = 1 .. n,
         records = [i \in 1 .. n |-> records[i]]
  PROVE  /\ records \in Seq({records[i] : i \in 1 .. n})
         /\ Len(records) = n
  OBVIOUS

\* Each parser returns records, whatever its report holds.
LEMMA TrivyParsed ==
  ASSUME NEW report, Len(report) \in Nat
  PROVE  Parsed(TrivyVulns(report)) /\ OnlyVulns(TrivyVulns(report))
  <1> DEFINE S == {e \in TrivyEntries : e.class \in {"lang-pkgs", "os-pkgs"}}
             packages == Only(S, report)
             ecosystem(i) == Lookup(TrivyTypes, packages[i].type,
                                    EcosystemFromPurl(packages[i].purl))
             parsed == [i \in DOMAIN packages |-> RawVuln("trivy", ecosystem(i), packages[i])]
  <1>1. TrivyVulns(report) = parsed
    BY DEF TrivyVulns
  <1>2. packages \in Seq(S)
    <2> HIDE DEF S
    <2>1. QED BY OnlyOfThem
  <1>3. DOMAIN packages = 1 .. Len(packages) /\ Len(packages) \in Nat
    <2> HIDE DEF packages
    <2>1. QED BY <1>2
  <1> HIDE DEF packages
  <1>4. ASSUME NEW i \in 1 .. Len(packages)
        PROVE  IsRecord(parsed[i]) /\ ~parsed[i].config
    <2>1. parsed[i] = RawVuln("trivy", ecosystem(i), packages[i])
      BY <1>3
    <2> HIDE DEF parsed, ecosystem
    <2>2. QED BY <2>1, VulnIsRecord
  <1>5. DOMAIN parsed = 1 .. Len(packages) /\ parsed = [i \in 1 .. Len(packages) |-> parsed[i]]
    BY <1>3
  <1> HIDE DEF parsed
  <1>6. /\ parsed \in Seq({parsed[i] : i \in 1 .. Len(packages)})
        /\ Len(parsed) = Len(packages)
    BY <1>3, <1>5, MappedIsSequence
  <1>7. QED BY <1>1, <1>4, <1>6 DEF Parsed, OnlyVulns

LEMMA GrypeParsed ==
  ASSUME NEW n \in Nat, NEW report, DOMAIN report = 1 .. n
  PROVE  Parsed(GrypeVulns(report)) /\ OnlyVulns(GrypeVulns(report))
  <1> DEFINE ecosystem(i) == Lookup(GrypeTypes, report[i].type, EcosystemFromPurl(report[i].purl))
             parsed == [i \in DOMAIN report |-> RawVuln("grype", ecosystem(i), report[i])]
  <1>1. GrypeVulns(report) = parsed
    BY DEF GrypeVulns
  <1>2. ASSUME NEW i \in 1 .. n
        PROVE  IsRecord(parsed[i]) /\ ~parsed[i].config
    <2>1. parsed[i] = RawVuln("grype", ecosystem(i), report[i])
      OBVIOUS
    <2> HIDE DEF parsed, ecosystem
    <2>2. QED BY <2>1, VulnIsRecord
  <1>3. DOMAIN parsed = 1 .. n /\ parsed = [i \in 1 .. n |-> parsed[i]]
    OBVIOUS
  <1> HIDE DEF parsed
  <1>4. parsed \in Seq({parsed[i] : i \in 1 .. n}) /\ Len(parsed) = n
    BY <1>3, MappedIsSequence
  <1>5. QED BY <1>1, <1>2, <1>4 DEF Parsed, OnlyVulns

LEMMA ConfigsParsed ==
  ASSUME NEW report, Len(report) \in Nat
  PROVE  /\ Parsed(ConfigFindings(report))
         /\ \A i \in 1 .. Len(ConfigFindings(report)) : ConfigFindings(report)[i].config
  <1> DEFINE S == {e \in ConfigEntries : e.status = "FAIL"}
             failures == Only(S, report)
             asRecord(e) ==
               [ key |-> <<"config", e.rule, ConfigLayer(e), <<e.file, e.line>> >>,
                 scanner |-> "trivy", config |-> TRUE, pkg |-> <<>>,
                 ecosystem |-> "config", layer |-> ConfigLayer(e),
                 severity |-> Severity(e.severity), fixes |-> {},
                 state |-> IF e.resolution THEN "fixed" ELSE "unknown" ]
             parsed == [i \in DOMAIN failures |-> asRecord(failures[i])]
  <1>1. ConfigFindings(report) = parsed
    BY DEF ConfigFindings
  <1>2. failures \in Seq(S)
    <2> HIDE DEF S
    <2>1. QED BY OnlyOfThem
  <1>3. DOMAIN failures = 1 .. Len(failures) /\ Len(failures) \in Nat
    <2> HIDE DEF failures
    <2>1. QED BY <1>2
  <1> HIDE DEF failures
  <1>4. ASSUME NEW i \in 1 .. Len(failures)
        PROVE  IsRecord(parsed[i]) /\ parsed[i].config
    <2>1. parsed[i] = asRecord(failures[i])
      BY <1>3
    <2> HIDE DEF parsed
    <2>2. parsed[i].config = TRUE /\ parsed[i].severity = Severity(failures[i].severity)
          /\ parsed[i].key[1] = "config"
      BY <2>1
    <2>3. QED BY <2>2, SeveritiesAreRanked DEF IsRecord
  <1>5. DOMAIN parsed = 1 .. Len(failures) /\ parsed = [i \in 1 .. Len(failures) |-> parsed[i]]
    BY <1>3
  <1> HIDE DEF parsed
  <1>6. /\ parsed \in Seq({parsed[i] : i \in 1 .. Len(failures)})
        /\ Len(parsed) = Len(failures)
    BY <1>3, <1>5, MappedIsSequence
  <1>7. QED BY <1>1, <1>4, <1>6 DEF Parsed

\* Two reports one after the other are read as one.
LEMMA JoinedParsed ==
  ASSUME NEW a, NEW b, Parsed(a), Parsed(b)
  PROVE  /\ Parsed(a \o b)
         /\ Len(a) \in Nat /\ Len(b) \in Nat
         /\ Len(a \o b) = Len(a) + Len(b)
         /\ DOMAIN a = 1 .. Len(a)
         /\ \A i \in 1 .. Len(a \o b) : (a \o b)[i] = IF i <= Len(a) THEN a[i] ELSE b[i - Len(a)]
         /\ OnlyVulns(a) /\ OnlyVulns(b) => OnlyVulns(a \o b)
  <1> DEFINE A == {a[i] : i \in 1 .. Len(a)}
             B == {b[i] : i \in 1 .. Len(b)}
  <1>1. a \in Seq(A) /\ b \in Seq(B)
    BY DEF Parsed
  <1>2. Len(a) \in Nat /\ Len(b) \in Nat /\ DOMAIN a = 1 .. Len(a)
    <2> HIDE DEF A, B
    <2>1. QED BY <1>1
  <1>3. /\ Len(a \o b) = Len(a) + Len(b)
        /\ \A i \in 1 .. (Len(a) + Len(b)) :
             (a \o b)[i] = IF i <= Len(a) THEN a[i] ELSE b[i - Len(a)]
        /\ DOMAIN (a \o b) = 1 .. (Len(a) + Len(b))
        /\ a \o b \in Seq(A \cup B)
    <2>1. a \in Seq(A \cup B) /\ b \in Seq(A \cup B)
      <3> HIDE DEF A, B
      <3>1. QED BY <1>1
    <2> HIDE DEF A, B
    <2>2. QED BY <2>1
  <1> DEFINE c == a \o b
  <1> HIDE DEF c, A, B
  <1>4. /\ Len(c) = Len(a) + Len(b) /\ c \in Seq(A \cup B)
        /\ \A i \in 1 .. Len(c) : c[i] = IF i <= Len(a) THEN a[i] ELSE b[i - Len(a)]
    BY <1>3 DEF c
  <1>5. \A i \in 1 .. Len(c) : i <= Len(a) => i \in 1 .. Len(a)
    BY <1>2, <1>4
  <1>6. \A i \in 1 .. Len(c) : ~(i <= Len(a)) => i - Len(a) \in 1 .. Len(b)
    BY <1>2, <1>4
  <1>7. \A i \in 1 .. Len(c) : IsRecord(c[i])
    BY <1>4, <1>5, <1>6 DEF Parsed
  <1>8. OnlyVulns(a) /\ OnlyVulns(b) => OnlyVulns(c)
    BY <1>4, <1>5, <1>6 DEF OnlyVulns
  <1>9. c \in Seq({c[i] : i \in 1 .. Len(c)})
    <2>1. Len(c) \in Nat /\ DOMAIN c = 1 .. Len(c) /\ c = [i \in 1 .. Len(c) |-> c[i]]
      BY <1>4
    <2>2. QED BY <2>1, MappedIsSequence
  <1>10. QED BY <1>2, <1>4, <1>7, <1>8, <1>9 DEF Parsed, c

LEMMA ParsedAreRecords ==
  ASSUME NEW records, Parsed(records)
  PROVE  AreRecords(records)
  <1>1. Len(records) \in Nat
    BY DEF Parsed
  <1>2. \A i \in 1 .. Len(records) : IsRecord(records[i])
    BY DEF Parsed
  <1>3. ASSUME NEW i \in 1 .. Len(records), NEW j \in 1 .. Len(records),
               records[i].key = records[j].key
        PROVE  records[i].config = records[j].config
    <2>1. records[i].config <=> records[j].config
      BY <1>2, <1>3 DEF IsRecord
    <2>2. records[i].config \in BOOLEAN /\ records[j].config \in BOOLEAN
      BY <1>2 DEF IsRecord
    <2>3. QED BY <2>1, <2>2
  <1>4. QED BY <1>1, <1>2, <1>3 DEF AreRecords, IsRecord

-----------------------------------------------------------------------------
(* The inductive invariant: what was ingested is what the reports say *)

Written ==
  /\ \A mode \in {"raw", "policy"} :
       /\ reports[mode].trivy \in Seq(TrivyEntries)
       /\ reports[mode].grype \in Seq(GrypeEntries)
  /\ reports.raw.config \in Seq(ConfigEntries)

FromTheReports ==
  /\ findings = {Classify(f, ok) : f \in Normalize(Vulns("raw") \o Configs)}
  /\ candidates = Candidates(findings)
  /\ gate = EnforceVerdict

FInv ==
  /\ reports # NoReports => Written
  /\ Ingested => reports # NoReports /\ FromTheReports
  /\ ~Ingested => findings = {} /\ candidates = {}

LEMMA ReportsAreSequences ==
  ASSUME NEW S, NEW n \in Nat, NEW s \in SeqOf(S, n)
  PROVE  s \in Seq(S)
  <1>1. PICK m \in 0 .. n : s \in [1 .. m -> S]
    BY DEF SeqOf
  <1>2. m \in Nat
    OBVIOUS
  <1>3. QED BY <1>1, <1>2

LEMMA OnlySubset ==
  ASSUME NEW S, NEW T, S \subseteq T, NEW report, report \in Seq(T)
  PROVE  Only(S, report) \in Seq(T)
  <1>1. Len(report) \in Nat
    OBVIOUS
  <1>2. Only(S, report) \in Seq(S)
    BY <1>1, OnlyOfThem
  <1>3. QED BY <1>2

\* The reports are written when nothing has been ingested.
LEMMA ScanKeeps ==
  ASSUME FInv, Scan
  PROVE  FInv'
  <1>1. /\ reports = NoReports /\ gate' = gate /\ findings' = findings /\ candidates' = candidates
    BY DEF Scan
  <1>2. ~Ingested /\ ~Ingested' /\ findings' = {} /\ candidates' = {}
    BY <1>1 DEF FInv, Ingested
  <1>3. Written'
    <2>1. PICK t \in SeqOf(TrivyEntries, MaxEntries), g \in SeqOf(GrypeEntries, MaxEntries),
               c \in SeqOf(ConfigEntries, 1),
               hidden \in SUBSET {e.id : e \in TrivyEntries \cup GrypeEntries} :
            reports' = [raw |-> [trivy |-> t, grype |-> g, config |-> c],
                        policy |->
                          [trivy |-> Only({e \in TrivyEntries :
                                             ({e.id} \cup e.aliases) \cap hidden = {}}, t),
                           grype |-> Only({e \in GrypeEntries :
                                             ({e.id} \cup e.aliases) \cap hidden = {}}, g)]]
      BY DEF Scan
    <2>2. t \in Seq(TrivyEntries) /\ g \in Seq(GrypeEntries) /\ c \in Seq(ConfigEntries)
      BY ReportsAreSequences, FindingsAssumption
    <2> DEFINE T == {e \in TrivyEntries : ({e.id} \cup e.aliases) \cap hidden = {}}
               G == {e \in GrypeEntries : ({e.id} \cup e.aliases) \cap hidden = {}}
    <2>3. T \subseteq TrivyEntries /\ G \subseteq GrypeEntries
      OBVIOUS
    <2>4. reports' = [raw |-> [trivy |-> t, grype |-> g, config |-> c],
                      policy |-> [trivy |-> Only(T, t), grype |-> Only(G, g)]]
      BY <2>1
    <2> HIDE DEF T, G
    <2>5. Only(T, t) \in Seq(TrivyEntries) /\ Only(G, g) \in Seq(GrypeEntries)
      BY <2>2, <2>3, OnlySubset
    <2>6. QED BY <2>2, <2>4, <2>5 DEF Written
  <1>4. QED BY <1>2, <1>3 DEF FInv

LEMMA IngestKeeps ==
  ASSUME FInv, Ingest
  PROVE  FInv'
  <1>1. reports # NoReports /\ reports' = reports /\ ok' = ok /\ Written
    BY DEF Ingest, FInv
  <1>2. /\ findings' = {Classify(f, ok) : f \in Normalize(Vulns("raw") \o Configs)}
        /\ candidates' = Candidates(findings')
        /\ gate' = EnforceVerdict
    BY DEF Ingest
  <1>3. EnforceVerdict' = EnforceVerdict /\ Vulns("raw")' = Vulns("raw") /\ Configs' = Configs
        /\ Written'
    BY <1>1 DEF EnforceVerdict, PolicyCount, Vulns, Configs, Written
  <1>4. gate' # "none"
    BY <1>2 DEF EnforceVerdict
  <1>5. FromTheReports'
    BY <1>1, <1>2, <1>3 DEF FromTheReports
  <1>6. QED BY <1>1, <1>3, <1>4, <1>5 DEF FInv, Ingested

\* The intake of the reports happens once, of reports that are written once.
THEOREM FindingsInvariant == FSpec => []FInv
  <1>1. FInit => FInv
    BY DEF FInit, FInv, Ingested
  <1>2. FInv /\ [FNext]_fvars => FInv'
    <2>1. CASE UNCHANGED fvars
      BY <2>1 DEF fvars, FInv, Ingested, Written, FromTheReports, EnforceVerdict, PolicyCount,
                  Vulns, Configs
    <2>2. QED BY <2>1, ScanKeeps, IngestKeeps DEF FNext
  <1>3. QED BY <1>1, <1>2, PTL DEF FSpec

-----------------------------------------------------------------------------
(* The merge *)

LEMMA VulnsParsed ==
  ASSUME Written, NEW mode \in {"raw", "policy"}
  PROVE  Parsed(Vulns(mode)) /\ OnlyVulns(Vulns(mode))
  <1>1. Len(reports[mode].trivy) \in Nat
    BY DEF Written
  <1>2. /\ Len(reports[mode].grype) \in Nat
        /\ DOMAIN reports[mode].grype = 1 .. Len(reports[mode].grype)
    BY DEF Written
  <1>3. Parsed(TrivyVulns(reports[mode].trivy)) /\ OnlyVulns(TrivyVulns(reports[mode].trivy))
    BY <1>1, TrivyParsed
  <1>4. Parsed(GrypeVulns(reports[mode].grype)) /\ OnlyVulns(GrypeVulns(reports[mode].grype))
    BY <1>2, GrypeParsed
  <1>5. QED BY <1>3, <1>4, JoinedParsed DEF Vulns

LEMMA RawParsed ==
  ASSUME Written
  PROVE  /\ Parsed(Vulns("raw")) /\ OnlyVulns(Vulns("raw")) /\ Parsed(Configs)
         /\ \A i \in 1 .. Len(Configs) : Configs[i].config
  <1>1. Len(reports.raw.config) \in Nat
    BY DEF Written
  <1>2. QED BY <1>1, VulnsParsed, ConfigsParsed DEF Configs

\* Ranks order the severities: the highest of a set is one of its members.
LEMMA HighestSeverity ==
  ASSUME NEW S \in SUBSET DOMAIN Rank, NEW s \in S, \A t \in S : Rank[t] <= Rank[s]
  PROVE  MaxSeverity(S) = s
  <1>1. ASSUME NEW t \in DOMAIN Rank, NEW u \in DOMAIN Rank, Rank[t] <= Rank[u], Rank[u] <= Rank[t]
        PROVE  t = u
    BY <1>1 DEF Rank
  <1> DEFINE m == CHOOSE m \in S : \A t \in S : Rank[t] <= Rank[m]
  <1>2. m \in S /\ \A t \in S : Rank[t] <= Rank[m]
    OBVIOUS
  <1> HIDE DEF m
  <1>3. m = s
    BY <1>1, <1>2
  <1>4. QED BY <1>3 DEF m, MaxSeverity

LEMMA ClassifyKeeps ==
  ASSUME NEW f, NEW success
  PROVE  Classify(f, success).finding = f
  BY DEF Classify

LEMMA KeyStands ==
  ASSUME NEW merged, NEW records, NEW n, AllStand(merged, records, n), NEW k \in DOMAIN merged
  PROVE  merged[k].key = k
  <1> DEFINE f == merged[k]
  <1>1. Stands(f, records, n, k)
    BY DEF AllStand
  <1> HIDE DEF f
  <1>2. f.key = k
    BY <1>1 DEF Stands
  <1>3. QED BY <1>2 DEF f

\* The gate counts a finding exactly when a record of it counts.
LEMMA GateCountsRecords ==
  ASSUME Written
  PROVE  EnforceVerdict = "pass" <=>
           \A i \in DOMAIN Vulns("policy") :
             Vulns("policy")[i].severity \notin {"HIGH", "CRITICAL"}
  <1> DEFINE policy == Vulns("policy")
             high == {"HIGH", "CRITICAL"}
  <1>1. Parsed(policy) /\ OnlyVulns(policy)
    BY VulnsParsed
  <1>2. AreRecords(policy)
    BY <1>1, ParsedAreRecords
  <1>3. PICK merged : /\ AllStand(merged, policy, Len(policy))
                      /\ Normalize(policy) = {merged[k] : k \in DOMAIN merged}
    BY <1>2, NormalizedStand
  <1>4. EnforceVerdict = "pass" <=> \A k \in DOMAIN merged : merged[k].severity \notin high
    BY <1>3 DEF EnforceVerdict, PolicyCount
  <1>5. DOMAIN policy = 1 .. Len(policy)
    BY <1>1 DEF Parsed
  <1> HIDE DEF policy
  <1>6. ASSUME NEW k \in DOMAIN merged
        PROVE  /\ \E i \in 1 .. Len(policy) : merged[k].severity = policy[i].severity
               /\ \A i \in 1 .. Len(policy) : policy[i].key = k =>
                    Rank[policy[i].severity] <= Rank[merged[k].severity]
    <2>1. Stands(merged[k], policy, Len(policy), k)
      BY <1>3 DEF AllStand
    <2>2. PICK i \in OfKey(policy, Len(policy), k) : TRUE
      BY <1>3 DEF AllStand, OfKey
    <2>3. ~merged[k].config
      BY <1>1, <2>1, <2>2 DEF Stands, OfKey, OnlyVulns
    <2>4. QED BY <2>1, <2>3 DEF Stands, OfKey
  <1>7. ASSUME NEW s \in DOMAIN Rank, NEW t \in DOMAIN Rank, s \in high, Rank[s] <= Rank[t]
        PROVE  t \in high
    BY <1>7 DEF Rank
  <1>8. ASSUME NEW i \in 1 .. Len(policy), policy[i].severity \in high
        PROVE  \E k \in DOMAIN merged : merged[k].severity \in high
    <2>1. policy[i].key \in DOMAIN merged
      BY <1>3 DEF AllStand
    <2> DEFINE s == policy[i].severity
               t == merged[policy[i].key].severity
    <2>2. Rank[s] <= Rank[t]
      BY <1>6, <2>1
    <2>3. s \in DOMAIN Rank /\ t \in DOMAIN Rank
      BY <1>2, <1>6, <2>1 DEF AreRecords
    <2> HIDE DEF s, t
    <2>4. s \in high
      BY <1>8 DEF s
    <2>5. t \in high
      BY <1>7, <2>2, <2>3, <2>4
    <2>6. QED BY <2>1, <2>5 DEF t
  <1> HIDE DEF high
  <1>9. (\A k \in DOMAIN merged : merged[k].severity \notin high) <=>
          \A i \in 1 .. Len(policy) : policy[i].severity \notin high
    BY <1>6, <1>8
  <1>10. QED BY <1>4, <1>5, <1>9 DEF policy, high

\* NothingIsLostInTheMerge (normalize, policy_counts): every report is in one
\* finding, as severe as its worst report; the gate counts what the reports say.
THEOREM NoReportIsLost == FSpec => []NothingIsLostInTheMerge
  <1>1. ASSUME FInv
        PROVE  NothingIsLostInTheMerge
    <2>1. SUFFICES ASSUME Ingested
                   PROVE  NothingIsLostInTheMerge
      BY DEF NothingIsLostInTheMerge
    <2>2. Written /\ FromTheReports
      BY <1>1, <2>1 DEF FInv
    <2> DEFINE raw == Vulns("raw")
               records == raw \o Configs
    <2>3. /\ Parsed(raw) /\ OnlyVulns(raw) /\ Parsed(Configs)
          /\ \A i \in 1 .. Len(Configs) : Configs[i].config
      BY <2>2, RawParsed
    <2>4. /\ Parsed(records) /\ DOMAIN raw = 1 .. Len(raw)
          /\ Len(raw) \in Nat /\ Len(Configs) \in Nat
          /\ Len(records) = Len(raw) + Len(Configs)
          /\ \A i \in 1 .. Len(records) :
               records[i] = IF i <= Len(raw) THEN raw[i] ELSE Configs[i - Len(raw)]
      <3> HIDE DEF raw
      <3>1. QED BY <2>3, JoinedParsed
    <2>5. AreRecords(records)
      BY <2>4, ParsedAreRecords
    <2>6. PICK merged : /\ AllStand(merged, records, Len(records))
                        /\ Normalize(records) = {merged[k] : k \in DOMAIN merged}
      BY <2>5, NormalizedStand
    <2>7. findings = {Classify(f, ok) : f \in {merged[k] : k \in DOMAIN merged}}
      BY <2>2, <2>6 DEF FromTheReports
    <2>8. ASSUME NEW c \in findings
          PROVE  c.finding.key \in DOMAIN merged /\ c = Classify(merged[c.finding.key], ok)
                 /\ c.finding = merged[c.finding.key]
      <3>1. PICK k \in DOMAIN merged : c = Classify(merged[k], ok)
        BY <2>7
      <3>2. c.finding = merged[k]
        BY <3>1, ClassifyKeeps
      <3>3. merged[k].key = k
        BY <2>6, KeyStands
      <3>4. QED BY <3>1, <3>2, <3>3
    <2> HIDE DEF raw, records
    <2>9. ASSUME NEW i \in 1 .. Len(raw)
          PROVE  i \in 1 .. Len(records) /\ records[i] = raw[i]
      BY <2>4
    <2>10. ASSUME NEW i \in DOMAIN raw
           PROVE  \E c \in findings : c.finding.key = raw[i].key
      <3>1. raw[i].key \in DOMAIN merged
        BY <2>4, <2>6, <2>9 DEF AllStand
      <3>2. Classify(merged[raw[i].key], ok) \in findings
        BY <2>7, <3>1
      <3>3. Classify(merged[raw[i].key], ok).finding.key = raw[i].key
        BY <2>6, <3>1, ClassifyKeeps, KeyStands
      <3>4. QED BY <3>2, <3>3
    <2>11. ASSUME NEW c \in findings, NEW d \in findings, c.finding.key = d.finding.key
           PROVE  c = d
      BY <2>8, <2>11
    <2>12. ASSUME NEW c \in findings, ~c.finding.config
           PROVE  LET of == {i \in DOMAIN raw : raw[i].key = c.finding.key}
                  IN  /\ ReportedBy(c.finding) = {raw[i].scanner : i \in of}
                      /\ c.finding.severity = MaxSeverity({raw[i].severity : i \in of})
      <3> DEFINE f == c.finding
                 k == f.key
                 of == {i \in DOMAIN raw : raw[i].key = k}
                 severities == {raw[i].severity : i \in of}
      <3>1. Stands(f, records, Len(records), k)
        BY <2>6, <2>8 DEF AllStand
      <3>2. \A i \in OfKey(records, Len(records), k) : ~records[i].config
        BY <2>12, <3>1 DEF Stands
      <3>3. OfKey(records, Len(records), k) = of
        <4>1. ASSUME NEW i \in OfKey(records, Len(records), k)
              PROVE  i \in of
          <5>1. i \in 1 .. Len(records) /\ records[i].key = k /\ ~records[i].config
            BY <3>2 DEF OfKey
          <5>2. i <= Len(raw)
            <6>1. SUFFICES ASSUME ~(i <= Len(raw))
                           PROVE  FALSE
              BY <2>4, <5>1
            <6>2. i - Len(raw) \in 1 .. Len(Configs) /\ records[i] = Configs[i - Len(raw)]
              BY <2>4, <5>1, <6>1
            <6>3. QED BY <2>3, <5>1, <6>2
          <5>3. QED BY <2>4, <5>1, <5>2
        <4>2. ASSUME NEW i \in of
              PROVE  i \in OfKey(records, Len(records), k)
          BY <2>4, <2>9 DEF OfKey
        <4>3. QED BY <4>1, <4>2
      <3>4. \A i \in of : records[i] = raw[i] /\ raw[i].severity \in DOMAIN Rank
        BY <2>4, <2>5, <2>9 DEF AreRecords
      <3>5. ReportedBy(f) = {raw[i].scanner : i \in of}
        <4>1. ReportedBy(f) = {records[i].scanner : i \in of}
          BY <3>1, <3>3 DEF Stands, ReportedBy
        <4> HIDE DEF of
        <4>2. QED BY <4>1, <3>4
      <3>6. /\ severities \in SUBSET DOMAIN Rank
            /\ f.severity \in severities
            /\ \A t \in severities : Rank[t] <= Rank[f.severity]
        <4>1. /\ \E i \in of : f.severity = records[i].severity
              /\ \A i \in of : Rank[records[i].severity] <= Rank[f.severity]
          BY <2>12, <3>1, <3>3 DEF Stands
        <4> HIDE DEF of
        <4>2. QED BY <4>1, <3>4
      <3>7. f.severity = MaxSeverity(severities)
        <4> HIDE DEF severities
        <4>1. QED BY <3>6, HighestSeverity
      <3>8. QED BY <3>5, <3>7
    <2>13. gate = "pass" <=>
             \A i \in DOMAIN Vulns("policy") :
               Vulns("policy")[i].severity \notin {"HIGH", "CRITICAL"}
      BY <2>2, GateCountsRecords DEF FromTheReports
    <2>14. QED BY <2>10, <2>11, <2>12, <2>13 DEF NothingIsLostInTheMerge, raw
  <1>2. QED BY <1>1, FindingsInvariant, PTL

-----------------------------------------------------------------------------
(* The groups *)

\* What a classified finding says of the one it was made from.
LEMMA ClassifiedAs ==
  ASSUME NEW f, NEW success, NEW c, c = Classify(f, success)
  PROVE  /\ c.finding = f
         /\ c.kind = "scanner_disagreement" => Disagreement(f, success)
         /\ c.kind = "dependency_upgrade" => f.ecosystem = "pypi"
         /\ c.kind \in {"scanner_disagreement", "helm_deploy_config", "dependency_upgrade",
                        "no_fix_reachability", "container_hardening", "unclassified"}
  <1>1. CASE Disagreement(f, success)
    BY <1>1 DEF Classify
  <1>2. CASE ~Disagreement(f, success) /\ DeployConfig(f)
    <2>1. ~FixablePython(f) /\ ~NoFixAnywhere(f) /\ (ContainerFix(f) => FALSE)
      BY <1>2 DEF DeployConfig, FixablePython, NoFixAnywhere, ContainerFix
    <2>2. QED BY <1>2, <2>1 DEF Classify
  <1>3. CASE ~Disagreement(f, success) /\ ~DeployConfig(f) /\ FixablePython(f)
    <2>1. f.ecosystem = "pypi" /\ ~NoFixAnywhere(f) /\ ~ContainerFix(f)
      BY <1>3 DEF FixablePython, NoFixAnywhere, ContainerFix
    <2>2. QED BY <1>3, <2>1 DEF Classify
  <1>4. CASE ~Disagreement(f, success) /\ ~DeployConfig(f) /\ ~FixablePython(f)
    BY <1>4 DEF Classify
  <1>5. QED BY <1>1, <1>2, <1>3, <1>4

\* Two findings of a group can be removed by one change.
LEMMA SameGroup ==
  ASSUME NEW c, NEW d, c.kind = d.kind, GroupKey(c) = GroupKey(d),
         c.kind \in {"scanner_disagreement", "helm_deploy_config", "dependency_upgrade",
                     "no_fix_reachability", "container_hardening"},
         c.kind = "dependency_upgrade" =>
           c.finding.ecosystem = "pypi" /\ d.finding.ecosystem = "pypi"
  PROVE  /\ c.kind \in {"dependency_upgrade", "no_fix_reachability", "scanner_disagreement"}
              => c.finding.pkg = d.finding.pkg /\ c.finding.ecosystem = d.finding.ecosystem
         /\ c.kind \in {"container_hardening", "helm_deploy_config"}
              => c.finding.layer = d.finding.layer
  <1>1. CASE c.kind = "dependency_upgrade"
    BY <1>1 DEF GroupKey
  <1>2. CASE c.kind = "no_fix_reachability"
    BY <1>2 DEF GroupKey
  <1>3. CASE c.kind = "scanner_disagreement"
    BY <1>3 DEF GroupKey
  <1>4. CASE c.kind = "container_hardening"
    BY <1>4 DEF GroupKey
  <1>5. CASE c.kind = "helm_deploy_config"
    BY <1>5 DEF GroupKey
  <1>6. QED BY <1>1, <1>2, <1>3, <1>4, <1>5

\* The groups partition what is groupable.
LEMMA OneHome ==
  ASSUME NEW classified, NEW c \in classified
  PROVE  LET homes == {w \in Candidates(classified) : c \in w.members}
         IN  IF c.kind = "unclassified" THEN homes = {} ELSE \E w \in homes : homes = {w}
  <1> DEFINE groupable == {d \in classified : d.kind # "unclassified"}
             bucket(b) == {d \in groupable : d.kind = b.kind /\ GroupKey(d) = GroupKey(b)}
             W(b) == [ kind |-> b.kind, key |-> GroupKey(b), members |-> bucket(b),
                       severity |-> MaxSeverity({d.finding.severity : d \in bucket(b)}),
                       risk |-> IF \E d \in bucket(b) : d.risk = "high"
                                THEN "high" ELSE "normal" ]
             homes == {w \in Candidates(classified) : c \in w.members}
  <1>1. Candidates(classified) = {W(b) : b \in groupable}
    BY DEF Candidates
  <1>2. \A b \in groupable : W(b).members = bucket(b)
    OBVIOUS
  <1>3. ASSUME NEW w \in homes
        PROVE  c \in groupable /\ w = W(c)
    <2>1. PICK b \in groupable : w = W(b)
      BY <1>1
    <2>2. c \in bucket(b)
      BY <1>2, <2>1
    <2>3. c \in groupable /\ c.kind = b.kind /\ GroupKey(c) = GroupKey(b)
      BY <2>2
    <2>4. bucket(c) = bucket(b)
      BY <2>3
    <2> HIDE DEF bucket
    <2>5. W(c) = W(b)
      BY <2>3, <2>4
    <2>6. QED BY <2>1, <2>3, <2>5
  <1>4. ASSUME c.kind # "unclassified"
        PROVE  W(c) \in homes
    <2>1. c \in groupable /\ c \in bucket(c)
      BY <1>4
    <2>2. W(c) \in Candidates(classified)
      BY <1>1, <2>1
    <2>3. c \in W(c).members
      BY <1>2, <2>1
    <2> HIDE DEF W
    <2>4. QED BY <2>2, <2>3
  <1>5. c.kind = "unclassified" => c \notin groupable
    OBVIOUS
  <1> HIDE DEF W, homes, groupable
  <1>6. IF c.kind = "unclassified" THEN homes = {} ELSE \E w \in homes : homes = {w}
    BY <1>3, <1>4, <1>5
  <1>7. QED BY <1>6 DEF homes

\* The members of a candidate agree on kind and group key.
LEMMA MembersOfOneBucket ==
  ASSUME NEW classified, NEW w \in Candidates(classified), NEW c \in w.members,
         NEW d \in w.members
  PROVE  /\ c \in classified /\ d \in classified /\ c.kind # "unclassified"
         /\ c.kind = d.kind /\ GroupKey(c) = GroupKey(d)
  <1> DEFINE groupable == {x \in classified : x.kind # "unclassified"}
             bucket(b) == {x \in groupable : x.kind = b.kind /\ GroupKey(x) = GroupKey(b)}
  <1> DEFINE W(b) == [ kind |-> b.kind, key |-> GroupKey(b), members |-> bucket(b),
                       severity |-> MaxSeverity({x.finding.severity : x \in bucket(b)}),
                       risk |-> IF \E x \in bucket(b) : x.risk = "high"
                                THEN "high" ELSE "normal" ]
  <1>1. Candidates(classified) = {W(b) : b \in groupable}
    BY DEF Candidates
  <1>2. \A b \in groupable : W(b).members = bucket(b)
    OBVIOUS
  <1> HIDE DEF W
  <1>3. \E b \in groupable : w.members = bucket(b)
    BY <1>1, <1>2
  <1>4. QED BY <1>3

\* A scanner that is silent about a disagreement has no report of it.
LEMMA SilenceIsReal ==
  ASSUME Written, NEW merged, NEW k \in DOMAIN merged,
         AllStand(merged, Vulns("raw") \o Configs, Len(Vulns("raw") \o Configs)),
         NEW success, Disagreement(merged[k], success)
  PROVE  \E s \in Scanners :
           /\ s \in success
           /\ merged[k].ecosystem \in ScannerEcosystems[s]
           /\ \A i \in DOMAIN Vulns("raw") :
                Vulns("raw")[i].key = k => Vulns("raw")[i].scanner # s
  <1> DEFINE raw == Vulns("raw")
             records == raw \o Configs
             f == merged[k]
  <1>1. PICK t \in Scanners : ReportedBy(f) = {t} /\ Scanners \ {t} \subseteq success
    BY DEF Disagreement
  <1>2. PICK s \in Scanners : s # t
    BY DEF Scanners
  <1>3. s \in success /\ f.ecosystem \in ScannerEcosystems[s]
    BY <1>1, <1>2 DEF Disagreement, Comparable
  <1>4. DOMAIN f.state = {records[i].scanner : i \in OfKey(records, Len(records), k)}
    <2>1. Stands(f, records, Len(records), k)
      BY DEF AllStand
    <2> HIDE DEF f, records
    <2>2. QED BY <2>1 DEF Stands
  <1>5. /\ DOMAIN raw = 1 .. Len(raw) /\ Len(raw) \in Nat /\ Len(Configs) \in Nat
        /\ Len(records) = Len(raw) + Len(Configs)
        /\ \A i \in 1 .. Len(records) :
             records[i] = IF i <= Len(raw) THEN raw[i] ELSE Configs[i - Len(raw)]
    BY RawParsed, JoinedParsed
  <1> HIDE DEF f, raw, records
  <1>6. ASSUME NEW i \in DOMAIN raw, raw[i].key = k
        PROVE  raw[i].scanner # s
    <2>1. i \in 1 .. Len(records) /\ records[i] = raw[i]
      BY <1>5
    <2>2. i \in OfKey(records, Len(records), k)
      BY <1>6, <2>1 DEF OfKey
    <2>3. raw[i].scanner \in DOMAIN f.state
      BY <1>4, <2>1, <2>2
    <2>4. QED BY <1>1, <1>2, <2>3 DEF ReportedBy
  <1>7. QED BY <1>3, <1>6 DEF f, raw

\* GroupsBelongTogether (classify, group_key_for, group_findings): the groups
\* partition the classified findings into what one change can remove, and no
\* disagreement rests on a scanner whose job failed.
THEOREM GroupsAreOfOneChange == FSpec => []GroupsBelongTogether
  <1>1. ASSUME FInv
        PROVE  GroupsBelongTogether
    <2>1. CASE ~Ingested
      BY <1>1, <2>1 DEF FInv, GroupsBelongTogether
    <2>2. CASE Ingested
      <3>1. Written /\ FromTheReports
        BY <1>1, <2>2 DEF FInv
      <3> DEFINE records == Vulns("raw") \o Configs
      <3>2. AreRecords(records)
        BY <3>1, RawParsed, JoinedParsed, ParsedAreRecords
      <3>3. PICK merged : /\ AllStand(merged, records, Len(records))
                          /\ Normalize(records) = {merged[k] : k \in DOMAIN merged}
        BY <3>2, NormalizedStand
      <3>4. findings = {Classify(f, ok) : f \in {merged[k] : k \in DOMAIN merged}}
        BY <3>1, <3>3 DEF FromTheReports
      <3>5. ASSUME NEW c \in findings
            PROVE  \E k \in DOMAIN merged : c = Classify(merged[k], ok) /\ merged[k].key = k
        <4>1. PICK k \in DOMAIN merged : c = Classify(merged[k], ok)
          BY <3>4
        <4>2. QED BY <3>3, <4>1, KeyStands
      <3>6. ASSUME NEW c \in findings
            PROVE  LET homes == {w \in candidates : c \in w.members}
                   IN  IF c.kind = "unclassified" THEN homes = {} ELSE \E w \in homes : homes = {w}
        BY <3>1, OneHome DEF FromTheReports
      <3>7. ASSUME NEW w \in candidates, NEW c \in w.members, NEW d \in w.members
            PROVE  /\ c.kind = d.kind
                   /\ c.kind \in {"dependency_upgrade", "no_fix_reachability", "scanner_disagreement"}
                        => c.finding.pkg = d.finding.pkg /\ c.finding.ecosystem = d.finding.ecosystem
                   /\ c.kind \in {"container_hardening", "helm_deploy_config"}
                        => c.finding.layer = d.finding.layer
        <4>1. /\ c \in findings /\ d \in findings /\ c.kind # "unclassified"
              /\ c.kind = d.kind /\ GroupKey(c) = GroupKey(d)
          BY <3>1, MembersOfOneBucket DEF FromTheReports
        <4>2. \A x \in {c, d} :
                /\ x.kind = "dependency_upgrade" => x.finding.ecosystem = "pypi"
                /\ x.kind \in {"scanner_disagreement", "helm_deploy_config", "dependency_upgrade",
                               "no_fix_reachability", "container_hardening", "unclassified"}
          <5>1. SUFFICES ASSUME NEW x \in findings
                         PROVE  /\ x.kind = "dependency_upgrade" => x.finding.ecosystem = "pypi"
                                /\ x.kind \in {"scanner_disagreement", "helm_deploy_config",
                                              "dependency_upgrade", "no_fix_reachability",
                                              "container_hardening", "unclassified"}
            BY <4>1
          <5>2. PICK k \in DOMAIN merged : x = Classify(merged[k], ok)
            BY <3>5
          <5>3. QED BY <5>2, ClassifiedAs
        <4>3. QED BY <4>1, <4>2, SameGroup
      <3>8. ASSUME NEW c \in findings, c.kind = "scanner_disagreement"
            PROVE  \E s \in Scanners :
                     /\ s \in ok
                     /\ c.finding.ecosystem \in ScannerEcosystems[s]
                     /\ \A i \in DOMAIN Vulns("raw") :
                          Vulns("raw")[i].key = c.finding.key => Vulns("raw")[i].scanner # s
        <4>1. PICK k \in DOMAIN merged : c = Classify(merged[k], ok) /\ merged[k].key = k
          BY <3>5
        <4>2. c.finding = merged[k] /\ Disagreement(merged[k], ok)
          BY <3>8, <4>1, ClassifiedAs
        <4>3. c.finding.key = k
          BY <4>1, <4>2
        <4>4. QED BY <3>1, <3>3, <4>2, <4>3, SilenceIsReal
      <3>9. QED BY <3>6, <3>7, <3>8 DEF GroupsBelongTogether
    <2>3. QED BY <2>1, <2>2
  <1>2. QED BY <1>1, FindingsInvariant, PTL
=============================================================================
