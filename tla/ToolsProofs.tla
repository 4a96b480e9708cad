---------------------------- MODULE ToolsProofs -----------------------------
(***************************************************************************)
(* Three parts of the program that work on their own: the decision about a *)
(* session, for every snapshot, amount of spending and answer of GitHub;   *)
(* the verdict of the negative suite, for any evidence and number of       *)
(* surprises; and the database file, for any number of processes, openings *)
(* and crashes.                                                            *)
(***************************************************************************)
EXTENDS Assess, Negative, Schema, FiniteSetTheorems, WellFoundedInduction,
        SequenceTheorems, TLAPS

-----------------------------------------------------------------------------
\* The decision about a session.

(* assess.py:90: the verdict on a delivered report depends on the report and on
   GitHub, not on the clock, the warning or a question.                     *)
THEOREM MeritsOnly ==
  ASSUME NEW s, NEW f, NEW g, NEW question, NEW other
  PROVE  JudgedOnItsMerits(s, f, g, question, other)
<1> SUFFICES ASSUME IsFinalReport(s), f.cap = g.cap, f.valid = g.valid,
                    f.verified = g.verified, f.allowed = g.allowed
             PROVE  Decision(s, f, question) = Decision(s, g, other)
  BY DEF JudgedOnItsMerits
<1>1. HardStop(s, f) = HardStop(s, g)
  BY DEF HardStop
<1>2. Judged(s, f) = Judged(s, g)
  BY DEF Judged
<1> QED
  BY <1>1, <1>2 DEF Decision

(* DevinStatus, SessionSnapshot.is_active: a session that cannot go on working is
   not polled for more, but for a suspension without a known reason.        *)
THEOREM DeadSessionsAreJudged ==
  ASSUME NEW s, NEW f, NEW question,
         s.status \in {"new", "claimed", "running", "exit", "error", "suspended", "resuming"}
  PROVE  DeadIsNotWaitedFor(s, f, question)
<1> SUFFICES ASSUME ~IsActive(s), Waits(Decision(s, f, question))
             PROVE  s.status = "suspended" /\ ~f.late /\ s.detail \notin BudgetStops \cup {"error"}
  BY DEF DeadIsNotWaitedFor
<1>1. ~HardStop(s, f)
  BY DEF Decision, Waits
<1>2. ~IsFinalReport(s)
  <2> SUFFICES ASSUME IsFinalReport(s) PROVE FALSE
    OBVIOUS
  <2>1. Decision(s, f, question) \in {"needs_human", "ready_for_verification"}
    BY <1>1 DEF Decision, Judged
  <2> QED BY <2>1 DEF Waits
<1>3. ~f.late
  BY <1>1, <1>2 DEF Decision, Waits
<1>4. s.status = "suspended"
  BY <1>2 DEF IsActive, IsFinalReport, IsDone
<1> QED
  BY <1>1, <1>3, <1>4 DEF HardStop, IsError

(* Dispatch's Verdicts: a session that is done is never waited for.         *)
THEOREM DoneSessionsAreJudged ==
  ASSUME NEW s, NEW f, NEW question
  PROVE  DoneIsJudged(s, f, question)
<1> SUFFICES ASSUME IsDone(s) PROVE ~Waits(Decision(s, f, question))
  BY DEF DoneIsJudged
<1>1. IsFinalReport(s)
  BY DEF IsFinalReport
<1>2. Decision(s, f, question) \in {"needs_human", "ready_for_verification"}
  BY <1>1 DEF Decision, Judged
<1> QED
  BY <1>2 DEF Waits

(* A pull request that was found is the only one, and verified.             *)
LEMMA PrIsVerified ==
  ASSUME NEW s, NEW lookup, PrOf(s, lookup) # NoPr
  PROVE  \E u \in ResolvedUrls(s) :
           ResolvedUrls(s) = {u} /\ Verified(lookup[u]) /\ PrOf(s, lookup) = lookup[u]
<1>1. PICK u \in ResolvedUrls(s) : ResolvedUrls(s) = {u} /\ Verified(lookup[u])
  BY DEF PrOf
<1>2. (CHOOSE v \in ResolvedUrls(s) : TRUE) = u
  BY <1>1
<1>3. PrOf(s, lookup) = lookup[u]
  BY <1>1, <1>2 DEF PrOf
<1> QED
  BY <1>1, <1>3

(* engine.py _apply_snapshot: checks are only awaited on a pull request that
   GitHub confirmed and whose files the policy allows.                      *)
THEOREM ReadyWasConfirmed ==
  ASSUME NEW s, NEW kind, NEW lookup, NEW cap \in Int, NEW late, NEW warned, NEW question,
         s.acus \in Int, s.urls \subseteq Urls
  PROVE  ReadyIsConfirmed(s, kind, lookup, cap, late, warned, question)
<1> DEFINE f == Facts(s, kind, lookup, cap, late, warned)
           found == PrOf(s, lookup)
<1> SUFFICES ASSUME Decision(s, f, question) = "ready_for_verification"
             PROVE  /\ s.acus <= cap /\ s.outcome = "pr_opened"
                    /\ \E u \in Urls :
                         /\ ResolvedUrls(s) = {u} /\ s.urls = {u}
                         /\ Verified(lookup[u])
                         /\ \A x \in lookup[u].files :
                              /\ x \cap {"ignore", "protected", "approved"} = {}
                              /\ kind = "no_fix_reachability" => x \cap {"proposed", "analysis"} # {}
                    /\ kind # "scanner_disagreement"
  BY DEF ReadyIsConfirmed
<1>1. ~HardStop(s, f) /\ Judged(s, f) = "ready_for_verification"
  BY DEF Decision, Replied, Working
<1>2. s.outcome = "pr_opened" /\ s.urls # {} /\ f.allowed
  BY <1>1 DEF Judged
<1>3. found # NoPr /\ ~PolicyViolated(found.files, kind)
  BY <1>2 DEF Facts
<1>4. f.cap = cap
  BY DEF Facts
<1>5. s.acus <= cap
  BY <1>1, <1>4 DEF HardStop
<1>6. PICK u \in ResolvedUrls(s) :
        ResolvedUrls(s) = {u} /\ Verified(lookup[u]) /\ found = lookup[u]
  BY <1>3, PrIsVerified
<1>7. s.urls = {u} /\ u \in Urls
  BY <1>2, <1>6 DEF ResolvedUrls
<1>8. \A x \in found.files : ~Forbidden(x)
  BY <1>3 DEF PolicyViolated
<1>9. \A x \in lookup[u].files :
        /\ x \cap {"ignore", "protected", "approved"} = {}
        /\ kind = "no_fix_reachability" => x \cap {"proposed", "analysis"} # {}
  BY <1>3, <1>6, <1>8 DEF Forbidden, PolicyViolated
<1>10. kind # "scanner_disagreement"
  BY <1>3 DEF PolicyViolated
<1> QED
  BY <1>2, <1>5, <1>6, <1>7, <1>9, <1>10

-----------------------------------------------------------------------------
(* The negative suite.  A verdict is given on what the runner read, and stays
   true of the check runs: those only grow in number, and a completed one is
   not touched again.                                                       *)

\* A set of natural numbers that is not empty has its least member.
LEMMA MinIsLeast ==
  ASSUME NEW S \in SUBSET Nat, S # {}
  PROVE  Min(S) \in S /\ \A n \in S : Min(S) <= n
  <1>1. \E x \in S : \A y \in S : ~(<<y, x>> \in OpToRel(<, Nat))
    BY NatLessThanWellFounded, WFMin
  <1>2. ASSUME NEW x \in S, NEW y \in S, ~(<<y, x>> \in OpToRel(<, Nat))
        PROVE  x <= y
    <2>1. x \in Nat /\ y \in Nat
      OBVIOUS
    <2>2. ~(y < x)
      BY <1>2, <2>1 DEF OpToRel
    <2>3. QED BY <2>1, <2>2
  <1>3. \E x \in S : \A y \in S : x <= y
    BY <1>1, <1>2
  <1>4. QED BY <1>3 DEF Min

\* The page of a size that begins after the first items of n.
LEMMA PageLength ==
  \A n, from, len \in Nat, size \in Nat \ {0} : \A end :
    /\ end = IF from + size <= n THEN from + size ELSE n
    /\ len = IF from + 1 <= end THEN end - (from + 1) + 1 ELSE 0
    => /\ len < size <=> n < from + size
       /\ from <= n /\ n < from + size => from + len = n
  OBVIOUS

\* A page is full where the listing goes on to its end, and the last one holds
\* the rest.
LEMMA PageHolds ==
  ASSUME NEW S, NEW items \in Seq(S), NEW from \in Nat, NEW page,
         page = SubSeq(items, from + 1, Min({from + PageSize, Len(items)}))
  PROVE  /\ Len(page) < PageSize <=> Len(items) < from + PageSize
         /\ from <= Len(items) /\ Len(items) < from + PageSize
              => from + Len(page) = Len(items)
  <1>1. Len(items) \in Nat /\ PageSize \in Nat \ {0}
    BY ClientAssumption
  <1>2. PICK end : end = Min({from + PageSize, Len(items)})
    OBVIOUS
  <1>3. end = IF from + PageSize <= Len(items) THEN from + PageSize ELSE Len(items)
    <2>1. {from + PageSize, Len(items)} \in SUBSET Nat /\ {from + PageSize, Len(items)} # {}
      BY <1>1
    <2>2. /\ end \in {from + PageSize, Len(items)}
          /\ \A n \in {from + PageSize, Len(items)} : end <= n
      BY <1>2, <2>1, MinIsLeast
    <2>3. QED BY <1>1, <2>2
  <1>4. /\ from + 1 \in Int /\ end \in Int
        /\ \A i \in from + 1 .. end : items[i] \in S
    BY <1>1, <1>3
  <1>5. /\ page \in Seq(S)
        /\ Len(page) = IF from + 1 <= end THEN end - (from + 1) + 1 ELSE 0
    <2>1. page = SubSeq(items, from + 1, end)
      BY <1>2
    <2>2. /\ SubSeq(items, from + 1, end) \in Seq(S)
          /\ Len(SubSeq(items, from + 1, end)) =
               IF from + 1 <= end THEN end - (from + 1) + 1 ELSE 0
      BY <1>4, SubSeqProperties
    <2>3. QED BY <2>1, <2>2
  <1>6. Len(page) \in Nat
    BY <1>5
  <1>7. QED BY <1>1, <1>3, <1>5, <1>6, PageLength, ZenonT(60)

\* _paginate: a listing that does not raise is the whole listing.
LEMMA PagesAreTheListing ==
  ASSUME NEW S, NEW items \in Seq(S), Paginate(items).whole
  PROVE  Paginate(items).items = items
  <1> DEFINE short == {p \in 1 .. MaxPages : Len(Page(items, p)) < PageSize}
  <1>1. short # {}
    BY DEF Paginate
  <1>2. PICK last : last = Min(short)
    OBVIOUS
  <1>3. /\ Paginate(items).items =
             SubSeq(items, 1, (last - 1) * PageSize + Len(Page(items, last)))
        /\ last \in short /\ \A p \in short : last <= p
    <2>1. short \in SUBSET Nat
      OBVIOUS
    <2>2. last \in short /\ \A p \in short : last <= p
      BY <1>1, <1>2, <2>1, MinIsLeast
    <2>3. QED BY <1>1, <1>2, <2>2 DEF Paginate
  <1>4. /\ MaxPages \in Nat \ {0} /\ PageSize \in Nat \ {0} /\ Len(items) \in Nat
        /\ last \in Nat \ {0} /\ Len(Page(items, last)) < PageSize
    BY <1>3, ClientAssumption
  <1>5. ASSUME NEW p \in Nat \ {0}
        PROVE  /\ (p - 1) * PageSize \in Nat
               /\ Page(items, p) = SubSeq(items, (p - 1) * PageSize + 1,
                                          Min({(p - 1) * PageSize + PageSize, Len(items)}))
    <2>1. (p - 1) * PageSize \in Nat /\ p * PageSize = (p - 1) * PageSize + PageSize
      BY <1>4
    <2>2. QED BY <2>1 DEF Page
  <1>6. (last - 1) * PageSize <= Len(items)
    <2>1. CASE last = 1
      BY <1>4, <2>1
    <2>2. CASE last # 1
      <3>1. last - 1 \in Nat \ {0} /\ last - 1 \in 1 .. MaxPages /\ last - 1 \notin short
        BY <1>3, <1>4, <2>2
      <3>2. PICK from : from = (last - 1 - 1) * PageSize
        OBVIOUS
      <3>3. from \in Nat /\ Page(items, last - 1) =
              SubSeq(items, from + 1, Min({from + PageSize, Len(items)}))
        BY <1>5, <3>1, <3>2
      <3>4. ~(Len(items) < from + PageSize)
        BY <3>1, <3>3, PageHolds
      <3>5. from + PageSize = (last - 1) * PageSize
        BY <1>4, <3>2
      <3>6. QED BY <1>4, <3>3, <3>4, <3>5
    <2>3. QED BY <2>1, <2>2
  <1>7. PICK from : from = (last - 1) * PageSize
    OBVIOUS
  <1>8. /\ from \in Nat /\ from <= Len(items)
        /\ Page(items, last) = SubSeq(items, from + 1, Min({from + PageSize, Len(items)}))
    BY <1>4, <1>5, <1>6, <1>7
  <1>9. Len(items) < from + PageSize
    BY <1>4, <1>8, PageHolds
  <1>10. from + Len(Page(items, last)) = Len(items)
    BY <1>8, <1>9, PageHolds
  <1>11. QED BY <1>3, <1>7, <1>10, SubSeqFull

Conclusions == {"none", "skipped", "success", "failure", "cancelled"}
CheckRuns == [name : Jobs \cup {Template}, completed : BOOLEAN, conclusion : Conclusions]

\* The scans of the head are worse than those of the run of main that the report
\* names, and the gate failed.
Worse ==
  /\ ~evidence.enforced
  /\ \E i \in DOMAIN mainRuns :
       /\ mainRuns[i].id = report.base /\ mainRuns[i].conclusion = "success"
       /\ compareTo \in {0, report.base}
       /\ evidence.high > mainRuns[i].evidence.high

Reported(j) ==
  \E i \in DOMAIN checks :
    /\ ReportsOn(checks[i], j) /\ checks[i].completed
    /\ checks[i].conclusion \in Cases[case][j]

Caught ==
  /\ \A j \in DOMAIN Cases[case] : Reported(j)
  /\ case = "dependency_regression" => Worse

NegativeInv ==
  /\ case = "dependency_regression" => evidence \in Evidence /\ mainRuns \in MainRuns
  /\ stage \in 0 .. Len(Stages)
  /\ checks \in Seq(CheckRuns)
  /\ DOMAIN report = {"failures", "passed", "base", "posted"}
  /\ report.passed => Caught

LEMMA NegativeInit == NInit => NegativeInv
  BY DEF NInit, NegativeInv, NoReport, Stages

\* Check runs are added, and end; one that has ended stays.
Longer ==
  \A i \in DOMAIN checks :
    i \in DOMAIN checks' /\ (checks[i].completed => checks'[i] = checks[i])

LEMMA WorkflowStepKeeps ==
  ASSUME NegativeInv, Longer, checks' \in Seq(CheckRuns), stage' \in 0 .. Len(Stages),
         UNCHANGED <<case, evidence, mainRuns, compareTo, report>>
  PROVE  NegativeInv'
  <1>1. \A j : Reported(j) => Reported(j)'
    BY DEF Reported, Longer, ReportsOn
  <1>2. Worse => Worse'
    BY DEF Worse
  <1>3. QED BY <1>1, <1>2 DEF NegativeInv, Caught

LEMMA JobsAreFinite == IsFiniteSet(Jobs \cup {Template})
  <1>1. /\ IsFiniteSet({"scan-lean-raw"} \cup {"scan-lean-policy"} \cup {"scan-ci-raw"})
        /\ IsFiniteSet({"build-image"} \cup {"forbid-ignore-files"} \cup {"vex-lint"})
        /\ IsFiniteSet({"policy-gate"} \cup {"lean-smoke"} \cup {"app-runs"})
        /\ IsFiniteSet({"scan-manifest"} \cup {Template})
    BY FS_Singleton, FS_Union
  <1>2. Jobs \cup {Template} =
             ({"scan-lean-raw"} \cup {"scan-lean-policy"} \cup {"scan-ci-raw"})
        \cup ({"build-image"} \cup {"forbid-ignore-files"} \cup {"vex-lint"})
        \cup ({"policy-gate"} \cup {"lean-smoke"} \cup {"app-runs"})
        \cup ({"scan-manifest"} \cup {Template})
    BY DEF Jobs, Scans
  <1>3. QED BY <1>1, <1>2, FS_Union

LEMMA SetToSeqIsSeq ==
  ASSUME NEW S, IsFiniteSet(S)
  PROVE  SetToSeq(S) \in Seq(S)
  <1>1. Cardinality(S) \in Nat /\ ExistsBijection(1 .. Cardinality(S), S)
    BY FS_CardinalityType
  <1>2. \E f \in [1 .. Cardinality(S) -> S] : IsInjective(f)
    BY <1>1 DEF ExistsBijection, Bijection, Injection
  <1>3. SetToSeq(S) \in [1 .. Cardinality(S) -> S]
    BY <1>2 DEF SetToSeq
  <1>4. QED BY <1>1, <1>3

\* Check runs that jobs make in one way.
LEMMA ChecksOf ==
  ASSUME NEW names \in SUBSET (Jobs \cup {Template}), NEW completed \in BOOLEAN,
         NEW conclusion \in Conclusions
  PROVE  /\ IsFiniteSet({Check(j, completed, conclusion) : j \in names})
         /\ {Check(j, completed, conclusion) : j \in names} \subseteq CheckRuns
  <1> DEFINE f == [j \in names |-> Check(j, completed, conclusion)]
             T == {Check(j, completed, conclusion) : j \in names}
  <1>1. IsFiniteSet(names)
    BY JobsAreFinite, FS_Subset
  <1>2. f \in Surjection(names, T)
    BY DEF Surjection
  <1>3. IsFiniteSet(T)
    BY <1>1, <1>2, FS_Surjection
  <1>4. T \subseteq CheckRuns
    BY DEF Check, CheckRuns
  <1>5. QED BY <1>3, <1>4

LEMMA StartStageKeeps ==
  ASSUME NegativeInv, StartStage
  PROVE  NegativeInv'
  <1>1. PICK runnable, skipped :
          /\ runnable = {j \in Stages[stage + 1] : Runnable(j)}
          /\ skipped = {IF j \in Scans THEN Template ELSE j : j \in Stages[stage + 1] \ runnable}
    OBVIOUS
  <1>2. PICK A, B : /\ A = {Check(j, FALSE, "none") : j \in runnable}
                    /\ B = {Check(j, TRUE, "skipped") : j \in skipped}
    OBVIOUS
  <1>3. /\ checks' = checks \o SetToSeq(A \cup B)
        /\ stage' = stage + 1 /\ stage < Len(Stages)
        /\ UNCHANGED <<case, evidence, mainRuns, compareTo, report>>
    BY <1>1, <1>2 DEF StartStage
  <1>4. stage \in 0 .. 3 /\ Len(Stages) = 4
    BY <1>3 DEF NegativeInv, Stages
  <1>5. runnable \in SUBSET (Jobs \cup {Template}) /\ skipped \in SUBSET (Jobs \cup {Template})
    <2>1. Stages[stage + 1] \subseteq Jobs
      BY <1>4 DEF Stages, Jobs
    <2>2. QED BY <1>1, <2>1
  <1>6. IsFiniteSet(A \cup B) /\ A \cup B \subseteq CheckRuns
    <2>1. IsFiniteSet(A) /\ A \subseteq CheckRuns
      BY <1>2, <1>5, ChecksOf DEF Conclusions
    <2>2. IsFiniteSet(B) /\ B \subseteq CheckRuns
      BY <1>2, <1>5, ChecksOf DEF Conclusions
    <2>3. QED BY <2>1, <2>2, FS_Union
  <1>7. PICK more : more = SetToSeq(A \cup B)
    OBVIOUS
  <1>8. more \in Seq(CheckRuns) /\ checks \in Seq(CheckRuns)
    BY <1>6, <1>7, SetToSeqIsSeq DEF NegativeInv
  <1>9. checks' = checks \o more
    BY <1>3, <1>7
  <1>10. checks' \in Seq(CheckRuns) /\ Longer
    BY <1>8, <1>9, ConcatProperties DEF Longer
  <1>11. QED BY <1>3, <1>4, <1>10, WorkflowStepKeeps

LEMMA EndJobKeeps ==
  ASSUME NegativeInv, EndJob
  PROVE  NegativeInv'
  <1>1. PICK i : i = Min({k \in DOMAIN checks : ~checks[k].completed})
    OBVIOUS
  <1>2. i \in DOMAIN checks /\ ~checks[i].completed
    <2>1. /\ {k \in DOMAIN checks : ~checks[k].completed} \in SUBSET Nat
          /\ {k \in DOMAIN checks : ~checks[k].completed} # {}
      BY DEF EndJob, NegativeInv
    <2>2. QED BY <1>1, <2>1, MinIsLeast
  <1>3. PICK conclusion \in {"success", "failure", "cancelled"} :
          checks' = [checks EXCEPT ![i] = Check(checks[i].name, TRUE, conclusion)]
    BY <1>1 DEF EndJob
  <1>4. PICK ended : ended = Check(checks[i].name, TRUE, conclusion)
    OBVIOUS
  <1>5. ended \in CheckRuns /\ checks \in Seq(CheckRuns)
    <2>1. checks \in Seq(CheckRuns)
      BY DEF NegativeInv
    <2>2. checks[i] \in CheckRuns
      BY <1>2, <2>1
    <2>3. QED BY <1>4, <2>1, <2>2 DEF CheckRuns, Check, Conclusions
  <1>6. checks' = [checks EXCEPT ![i] = ended]
    BY <1>3, <1>4
  <1>7. checks' \in Seq(CheckRuns) /\ Longer
    BY <1>2, <1>5, <1>6 DEF Longer
  <1>8. QED BY <1>7, WorkflowStepKeeps DEF EndJob, NegativeInv

LEMMA RunAgainKeeps ==
  ASSUME NegativeInv, RunAgain
  PROVE  NegativeInv'
  <1>1. PICK i \in DOMAIN checks :
          checks' = Append(checks, Check(checks[i].name, FALSE, "none"))
    BY DEF RunAgain
  <1>2. PICK started : started = Check(checks[i].name, FALSE, "none")
    OBVIOUS
  <1>3. started \in CheckRuns /\ checks \in Seq(CheckRuns)
    <2>1. checks \in Seq(CheckRuns)
      BY DEF NegativeInv
    <2>2. checks[i] \in CheckRuns
      BY <2>1
    <2>3. QED BY <1>2, <2>1, <2>2 DEF CheckRuns, Check, Conclusions
  <1>4. checks' = Append(checks, started)
    BY <1>1, <1>2
  <1>5. checks' \in Seq(CheckRuns) /\ Longer
    BY <1>3, <1>4, AppendProperties DEF Longer
  <1>6. QED BY <1>5, WorkflowStepKeeps DEF RunAgain, NegativeInv

\* What counts for a job reports on it.
LEMMA FoundReports ==
  ASSUME NEW runs \in Seq(CheckRuns), NEW job, NEW r \in Found(job, runs)
  PROVE  \E i \in DOMAIN runs : r = runs[i] /\ ReportsOn(r, job)
  <1>1. PICK places : /\ places \subseteq {i \in DOMAIN runs : ReportsOn(runs[i], job)}
                      /\ r \in Earliest(runs, places)
    BY DEF Found
  <1>2. places \in SUBSET Nat /\ places # {} /\ r = runs[Min(places)]
    BY <1>1 DEF Earliest
  <1>3. Min(places) \in places
    BY <1>2, MinIsLeast
  <1>4. QED BY <1>1, <1>2, <1>3

LEMMA BaselineIsOfMain ==
  ASSUME DOMAIN mainRuns \subseteq Nat, NEW base \in Baseline
  PROVE  \E i \in DOMAIN mainRuns :
           base = mainRuns[i] /\ base.conclusion = "success" /\ compareTo \in {0, base.id}
  <1>1. PICK places \in SUBSET DOMAIN mainRuns :
          /\ base \in Earliest(mainRuns, places)
          /\ \/ compareTo # 0 /\ base.conclusion = "success"
                /\ \A i \in places : mainRuns[i].id = compareTo
             \/ compareTo = 0 /\ \A i \in places : mainRuns[i].conclusion = "success"
    <2>1. CASE compareTo # 0
      BY <2>1 DEF Baseline
    <2>2. CASE compareTo = 0
      BY <2>2 DEF Baseline, Usable
    <2>3. QED BY <2>1, <2>2
  <1>2. places \in SUBSET Nat /\ places # {} /\ base = mainRuns[Min(places)]
    BY <1>1 DEF Earliest
  <1>3. Min(places) \in places
    BY <1>2, MinIsLeast
  <1>4. QED BY <1>1, <1>2, <1>3

\* _compare_counts: a comparison with nothing wrong compares with main.
LEMMA ComparedIsWorse ==
  ASSUME evidence \in Evidence, mainRuns \in MainRuns, CompareCounts = {},
         NEW base, base = CHOOSE b \in Baseline : TRUE
  PROVE  /\ Baseline # {} /\ ~evidence.enforced
         /\ \E i \in DOMAIN mainRuns :
              /\ mainRuns[i].id = base.id /\ mainRuns[i].conclusion = "success"
              /\ compareTo \in {0, base.id} /\ evidence.high > mainRuns[i].evidence.high
  <1>1. /\ evidence.state # "none"
        /\ \E b \in Baseline : b.evidence.state # "none"
    BY DEF CompareCounts
  <1>2. base \in Baseline /\ base.evidence.state # "none"
    <2>1. \A b, c \in Baseline : b = c
      BY DEF Baseline, Earliest
    <2>2. QED BY <1>1, <2>1
  <1>3. PICK i \in DOMAIN mainRuns :
          base = mainRuns[i] /\ base.conclusion = "success" /\ compareTo \in {0, base.id}
    BY <1>2, BaselineIsOfMain, NegativeAssumption
  <1>4. /\ evidence.state # "invalid" /\ base.evidence.state # "invalid"
        /\ {f \in {"total", "high"} : evidence[f] <= base.evidence[f]} = {}
        /\ ~evidence.enforced
    BY <1>1 DEF CompareCounts
  <1>5. Countable(evidence) /\ Countable(base.evidence)
    BY <1>3, NegativeAssumption
  <1>6. evidence.high \in Nat /\ base.evidence.high \in Nat
    BY <1>1, <1>2, <1>4, <1>5 DEF Countable
  <1>7. evidence.high > base.evidence.high
    BY <1>4, <1>6
  <1>8. QED BY <1>2, <1>3, <1>4, <1>7

\* A verdict that passes is given on check runs that were all read.
LEMMA PollKeeps ==
  ASSUME NegativeInv, Poll
  PROVE  NegativeInv'
  <1>1. /\ UNCHANGED <<case, evidence, mainRuns, compareTo, checks, stage>>
        /\ checks \in Seq(CheckRuns)
    BY DEF Poll, WorldUnchanged, NegativeInv
  <1>2. Paginate(checks).items = checks
    BY <1>1, PagesAreTheListing DEF Poll
  <1>3. PICK failures, compared, base :
          /\ compared = (case = "dependency_regression" /\ Evaluate(checks) = {})
          /\ failures = IF compared THEN CompareCounts ELSE Evaluate(checks)
          /\ base = IF compared /\ Baseline # {} THEN (CHOOSE b \in Baseline : TRUE).id ELSE 0
    OBVIOUS
  <1>4. \/ report' = [report EXCEPT !.failures = failures, !.passed = failures = {}, !.base = base]
        \/ report' = report
    BY <1>2, <1>3 DEF Poll
  <1>5. CASE report' = report
    <2>1. UNCHANGED Caught
      BY <1>1, <1>5 DEF Caught, Reported, Worse
    <2>2. QED BY <1>1, <1>5, <2>1 DEF NegativeInv
  <1>6. CASE report' = [report EXCEPT !.failures = failures, !.passed = failures = {}, !.base = base]
    <2>1. /\ DOMAIN report' = {"failures", "passed", "base", "posted"}
          /\ report'.passed = (failures = {}) /\ report'.base = base
      BY <1>6 DEF NegativeInv
    <2>2. ASSUME failures = {}
          PROVE  Caught'
      <3>1. Evaluate(checks) = {}
        BY <1>3, <2>2
      <3>2. ASSUME NEW j \in DOMAIN Cases[case]
            PROVE  Reported(j)
        <4>1. PICK r \in Found(j, checks) : r.completed /\ r.conclusion \in Cases[case][j]
          BY <3>1 DEF Evaluate
        <4>2. QED BY <1>1, <4>1, FoundReports DEF Reported
      <3>3. \A j \in DOMAIN Cases'[case'] : Reported(j)'
        BY <1>1, <3>2 DEF Reported
      <3>4. ASSUME case = "dependency_regression"
            PROVE  Worse'
        <4>1. CompareCounts = {} /\ compared
          BY <1>3, <2>2, <3>1, <3>4
        <4>2. evidence \in Evidence /\ mainRuns \in MainRuns
          BY <3>4 DEF NegativeInv
        <4>3. /\ Baseline # {} /\ ~evidence.enforced
              /\ \E i \in DOMAIN mainRuns :
                   /\ mainRuns[i].id = base /\ mainRuns[i].conclusion = "success"
                   /\ compareTo \in {0, base} /\ evidence.high > mainRuns[i].evidence.high
          BY <1>3, <4>1, <4>2, ComparedIsWorse
        <4>4. QED BY <1>1, <2>1, <4>3 DEF Worse
      <3>5. QED BY <1>1, <3>3, <3>4 DEF Caught
    <2>3. QED BY <1>1, <2>1, <2>2 DEF NegativeInv
  <1>7. QED BY <1>4, <1>5, <1>6

\* The other steps of the runner leave the verdict as it is.
LEMMA RunnerKeeps ==
  ASSUME NegativeInv, OpenPr \/ Raise \/ Comment \/ ClosePr \/ DeleteBranch \/ UNCHANGED nvars
  PROVE  NegativeInv'
  <1>1. UNCHANGED <<case, evidence, mainRuns, compareTo, checks, stage>>
    BY DEF OpenPr, Raise, Comment, ClosePr, DeleteBranch, WorldUnchanged, nvars
  <1>2. /\ DOMAIN report' = {"failures", "passed", "base", "posted"}
        /\ report'.passed = report.passed /\ report'.base = report.base
    BY DEF OpenPr, Raise, Comment, ClosePr, DeleteBranch, nvars, NegativeInv
  <1>3. UNCHANGED Caught
    BY <1>1, <1>2 DEF Caught, Reported, Worse
  <1>4. QED BY <1>1, <1>2, <1>3 DEF NegativeInv

\* The ladder looks at every run of a job and the case at one: where that one did
\* not succeed, the rung is not passed.
LEMMA NoRungOfABrokenJob ==
  ASSUME \A j \in DOMAIN Cases[case] : Reported(j), NEW rung \in Passed(checks)
  PROVE  Rungs[rung] \cap MustFail = {}
  <1> SUFFICES ASSUME NEW j \in Rungs[rung], j \in MustFail
               PROVE  FALSE
    OBVIOUS
  <1>1. ComponentStatus(j, checks) = "passed"
    <2>1. RungStatus({ComponentStatus(c, checks) : c \in Rungs[rung]}) = "passed"
      BY DEF Passed, Climbed
    <2>2. {ComponentStatus(c, checks) : c \in Rungs[rung]} = {"passed"}
      BY <2>1 DEF RungStatus
    <2>3. QED BY <2>2
  <1>2. \A r \in MatchingRuns(j, checks) : r.conclusion = "success"
    BY <1>1 DEF ComponentStatus
  <1>3. PICK i \in DOMAIN checks :
          /\ ReportsOn(checks[i], j) /\ checks[i].conclusion \in Cases[case][j]
          /\ "success" \notin Cases[case][j]
    BY DEF MustFail, Reported
  <1>4. j \notin Scans
    BY DEF Rungs, Scans, Passed, Climbed
  <1>5. checks[i] \in MatchingRuns(j, checks)
    BY <1>3, <1>4 DEF ReportsOn, MatchingRuns, ToSet
  <1>6. QED BY <1>2, <1>3, <1>5

\* PassMeansCaught (NegativeRunner.run): for any evidence, runs of main, number of
\* surprises and failing calls, a PASS rests on what every job of the case
\* reported and, for a regression, on a successful run of main.
THEOREM APassIsEarned == NSpec => []PassMeansCaught
  <1>1. NegativeInv /\ [NNext]_nvars => NegativeInv'
    BY StartStageKeeps, EndJobKeeps, RunAgainKeeps, PollKeeps, RunnerKeeps DEF NNext, Workflow
  <1>2. ASSUME NegativeInv
        PROVE  PassMeansCaught
    <2>1. SUFFICES ASSUME report.passed
                   PROVE  /\ \A j \in DOMAIN Cases[case] : Reported(j)
                          /\ \A rung \in Passed(checks) : Rungs[rung] \cap MustFail = {}
                          /\ case = "dependency_regression" => Worse
      BY DEF PassMeansCaught, Reported, Worse
    <2>2. Caught
      BY <1>2, <2>1 DEF NegativeInv
    <2>3. QED BY <2>2, NoRungOfABrokenJob DEF Caught
  <1>3. QED BY NegativeInit, <1>1, <1>2, PTL DEF NSpec

-----------------------------------------------------------------------------
(* The database file.  Whoever works on it finds the schema of the code: a row
   vouches for the columns of its version, because it is committed with them,
   and rows, columns and tables are only ever added.                        *)

\* The first files vouch for what they record.
LEMMA SchemaInit ==
  ASSUME ~Abandoned
  PROVE  SInit => SInv
  BY SchemaAssumption
  DEF SInit, SInv, STypeOK, RowsVouch, PlaceVouches, Steps, SCHEMA_VERSION

\* What one process may do to the file under the others.
Grows ==
  /\ version # 0 => version' # 0
  /\ applied \subseteq applied'
  /\ tables = "all" => tables' = "all"

\* A process that moves has to earn only its own new place.
LEMMA MovingStep ==
  ASSUME SInv, STypeOK', RowsVouch', Grows,
         NEW p \in Processes, PlaceVouches(p)',
         \A q \in Processes \ {p} : at'[q] = at[q] /\ left'[q] = left[q]
  PROVE  SInv'
  <1> SUFFICES ASSUME NEW q \in Processes
               PROVE  PlaceVouches(q)'
    BY DEF SInv
  <1>1. CASE q = p
    BY <1>1
  <1>2. CASE q # p
    <2>1. PlaceVouches(q) /\ applied' \subseteq Steps
      BY DEF SInv, STypeOK
    <2>2. QED BY <1>2, <2>1 DEF PlaceVouches, Grows, STypeOK
  <1>3. QED BY <1>1, <1>2

\* Opening, looking and leaving change nothing in the file.
LEMMA LookingStep ==
  ASSUME SInv, NEW p \in Processes,
         Open(p) \/ Look(p) \/ Migrate(p) \/ Migrated(p) \/ OpenReadonly(p) \/ Leave(p)
  PROVE  SInv'
  <1>1. UNCHANGED Database
    BY DEF Open, Look, Migrate, Migrated, OpenReadonly, Leave
  <1>2. RowsVouch' /\ Grows
    BY <1>1 DEF SInv, RowsVouch, Grows, Database
  <1>3. Migrate(p) /\ version <= SCHEMA_VERSION => version + 1 \in 3..SCHEMA_VERSION + 1
    BY DEF SInv, STypeOK, PlaceVouches, Migrate, SCHEMA_VERSION
  <1>4. STypeOK'
    <2>1. opens' \in 0..MaxOpens
      BY SchemaAssumption
      DEF SInv, STypeOK, Open, Look, Migrate, Migrated, OpenReadonly, Leave
    <2>2. left' \in [Processes -> 3..SCHEMA_VERSION + 1]
      <3>1. CASE UNCHANGED left
        BY <3>1 DEF SInv, STypeOK
      <3>2. CASE Migrate(p) /\ version <= SCHEMA_VERSION
        <4>1. left' = [left EXCEPT ![p] = version + 1]
          BY <3>2 DEF Migrate, SInv, STypeOK, SCHEMA_VERSION
        <4>2. QED BY <1>3, <3>2, <4>1 DEF SInv, STypeOK
      <3>3. QED BY <3>1, <3>2
            DEF SInv, STypeOK, SCHEMA_VERSION, Open, Look, Migrate, Migrated, OpenReadonly,
                Leave
    <2>3. at' \in [Processes -> {"out"} \cup Opening \cup Serving]
      BY DEF SInv, STypeOK, Open, Look, Migrate, Migrated, OpenReadonly, Leave, Goes,
             Opening, Serving
    <2>4. QED BY <1>1, <2>1, <2>2, <2>3 DEF SInv, STypeOK, Database
  <1>5. PlaceVouches(p)'
    <2>1. Migrate(p) /\ version <= SCHEMA_VERSION => 3..version \subseteq applied
      BY DEF SInv, STypeOK, RowsVouch, Steps, SCHEMA_VERSION
    <2>2. QED BY <1>1, <1>3, <2>1
          DEF SInv, STypeOK, PlaceVouches, Open, Look, Migrate, Migrated, OpenReadonly, Leave,
              Goes, Database, SCHEMA_VERSION
  <1>6. \A q \in Processes \ {p} : at'[q] = at[q] /\ left'[q] = left[q]
    BY DEF SInv, STypeOK, Open, Look, Migrate, Migrated, OpenReadonly, Leave, Goes
  <1>7. QED BY <1>2, <1>4, <1>5, <1>6, MovingStep

\* A step commits its columns together with its row.
LEMMA StepStep ==
  ASSUME SInv, NEW p \in Processes, Step(p)
  PROVE  SInv'
  <1>1. left[p] \in Steps /\ 3..(left[p] - 1) \subseteq applied /\ version # 0
    BY DEF SInv, PlaceVouches, Step
  <1>2. CASE UNCHANGED <<version, applied, left>> /\ Goes(p, "out")
    <2>1. STypeOK' /\ RowsVouch' /\ Grows /\ PlaceVouches(p)'
      BY <1>2 DEF SInv, STypeOK, RowsVouch, Grows, PlaceVouches, Step, Goes
    <2>2. \A q \in Processes \ {p} : at'[q] = at[q] /\ left'[q] = left[q]
      BY <1>2 DEF SInv, STypeOK, Goes
    <2>3. QED BY <2>1, <2>2, MovingStep
  <1>3. CASE /\ applied' = applied \cup {left[p]} /\ version' = left[p]
             /\ left' = [left EXCEPT ![p] = @ + 1] /\ UNCHANGED at
    <2>1. STypeOK'
      <3>1. left' \in [Processes -> 3..SCHEMA_VERSION + 1]
        <4>1. left[p] + 1 \in 3..SCHEMA_VERSION + 1
          BY <1>1 DEF Steps, SCHEMA_VERSION
        <4>2. QED BY <1>3, <4>1 DEF SInv, STypeOK
      <3>2. applied' \subseteq Steps
        BY <1>1, <1>3 DEF SInv, STypeOK
      <3>3. version' \in Nat \ {1}
        BY <1>1, <1>3 DEF Steps, SCHEMA_VERSION
      <3>4. QED BY <1>3, <3>1, <3>2, <3>3 DEF SInv, STypeOK, Step
    <2>2. 3..left[p] \subseteq applied'
      BY <1>1, <1>3 DEF Steps, SCHEMA_VERSION
    <2>3. RowsVouch' /\ Grows
      BY <1>1, <1>3, <2>2 DEF SInv, RowsVouch, Grows, Step, Steps, SCHEMA_VERSION
    <2>4. left'[p] - 1 = left[p] /\ version' # 0
      BY <1>1, <1>3 DEF SInv, STypeOK, Steps, SCHEMA_VERSION
    <2>5. PlaceVouches(p)'
      BY <1>3, <2>2, <2>4 DEF PlaceVouches, Step
    <2>6. \A q \in Processes \ {p} : at'[q] = at[q] /\ left'[q] = left[q]
      BY <1>3 DEF SInv, STypeOK
    <2>7. QED BY <2>1, <2>3, <2>5, <2>6, MovingStep
  <1>4. QED BY <1>2, <1>3 DEF Step

\* create_all builds every table of a new file, and adds those an older one lacks.
LEMMA CreateStep ==
  ASSUME SInv, NEW p \in Processes, CreateAll(p)
  PROVE  SInv'
  <1>1. STypeOK' /\ RowsVouch' /\ Grows /\ PlaceVouches(p)'
    BY DEF SInv, STypeOK, RowsVouch, Grows, PlaceVouches, CreateAll, Goes, Opening, Steps
  <1>2. \A q \in Processes \ {p} : at'[q] = at[q] /\ left'[q] = left[q]
    BY DEF SInv, STypeOK, CreateAll, Goes
  <1>3. QED BY <1>1, <1>2, MovingStep

\* A recorded version is believed; a missing one is that of a new file.
LEMMA CheckStep ==
  ASSUME SInv, NEW p \in Processes, CheckVersion(p) \/ RecordVersion(p)
  PROVE  SInv'
  <1>1. version \in {0, SCHEMA_VERSION} => applied = Steps \/ tables = "none"
    BY DEF SInv, STypeOK, RowsVouch, Steps, SCHEMA_VERSION
  <1>2. tables = "all"
    BY DEF SInv, PlaceVouches, CheckVersion, RecordVersion
  <1>3. STypeOK' /\ Grows
    BY DEF SInv, STypeOK, Grows, CheckVersion, RecordVersion, Goes, Opening, Serving, Database, SCHEMA_VERSION
  <1>4. RowsVouch' /\ PlaceVouches(p)'
    BY <1>1, <1>2
    DEF SInv, STypeOK, RowsVouch, PlaceVouches, CheckVersion, RecordVersion, Goes, Database, Steps,
        SCHEMA_VERSION
  <1>5. \A q \in Processes \ {p} : at'[q] = at[q] /\ left'[q] = left[q]
    BY DEF SInv, STypeOK, CheckVersion, RecordVersion, Goes
  <1>6. QED BY <1>3, <1>4, <1>5, MovingStep

\* Every row vouches for its columns, for any number of processes that open,
\* upgrade, crash and come back in any order (migrate, create_all).
THEOREM SchemaInvariant ==
  ASSUME ~Abandoned
  PROVE  SSpec => []SInv
  <1>1. SInit => SInv
    BY SchemaInit
  <1>2. SInv /\ [SNext]_svars => SInv'
    <2>1. ASSUME SInv, NEW p \in Processes,
                 \/ Open(p) \/ Look(p) \/ Migrate(p) \/ Step(p) \/ Migrated(p)
                 \/ CreateAll(p) \/ CheckVersion(p) \/ RecordVersion(p) \/ OpenReadonly(p) \/ Leave(p)
          PROVE  SInv'
      BY <2>1, LookingStep, StepStep, CreateStep, CheckStep
    <2>2. ASSUME SInv, UNCHANGED svars
          PROVE  SInv'
      BY <2>2 DEF SInv, STypeOK, RowsVouch, PlaceVouches, svars
    <2>3. QED BY <2>1, <2>2 DEF SNext
  <1>3. QED BY <1>1, <1>2, PTL DEF SSpec

\* Code that opened the file for work finds its own schema in it, whoever else
\* opens, upgrades or dies over the same file (init_db).
THEOREM WritersFindTheirSchema ==
  ASSUME ~Abandoned
  PROVE  SSpec => []ServesItsSchema
  <1>1. SInv => ServesItsSchema
    BY DEF SInv, PlaceVouches, ServesItsSchema
  <1>2. QED BY <1>1, SchemaInvariant, PTL
=============================================================================
