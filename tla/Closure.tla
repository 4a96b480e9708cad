------------------------------- MODULE Closure -------------------------------
(***************************************************************************)
(* Scans as evidence: runs that finish in one order and are ingested and   *)
(* applied in others, the findings they open, group, close and reopen, and *)
(* the work items that are verified or retired by them, while pull         *)
(* requests merge on GitHub and the merges are observed later.             *)
(*                                                                         *)
(* Runs are numbered by finished_at.  What a run says is chosen when it is *)
(* ingested; before that nothing reads it.  All findings are of one group  *)
(* (the same kind and group key), so an item is one of the group's: item 1 *)
(* has the base key, item n the key base#r(n-1).  What happens between an  *)
(* item's session and its pull request is PullRequest's: session_active    *)
(* stands here for every active state, issue_open for queued as well, and  *)
(* needs_human for failed as well.                                         *)
(***************************************************************************)
EXTENDS Lifecycle, FindingLifecycle, Integers, FiniteSetsExt

CONSTANTS
  Findings,       \* findings by dedupe key: one vulnerability at one version
  MaxItems,       \* bound on the work items of the group
  MaxRuns,        \* bound on scans
  MaxMerges,      \* bound on merges to main
  MaxCuts,        \* bound on evaluations that are rolled back
  Reports,        \* for each run, the ways it may report a finding
  Fits            \* for each run, the sets of findings it may be complete evidence about

\* The ways a run may report a finding: not at all, only as suppressed, by one
\* scanner, by both, or by both with no kind to group it by.
Words == {"absent", "vex", "one", "both", "unkind"}

ASSUME ClosureAssumption ==
  /\ MaxItems \in Nat /\ MaxRuns \in Nat /\ MaxMerges \in Nat /\ MaxCuts \in Nat
  /\ Reports \in [1..MaxRuns -> SUBSET Words]
  /\ Fits \in [1..MaxRuns -> SUBSET SUBSET Findings]

Items == 1..MaxItems
RunIds == 1..MaxRuns
None == 0

VARIABLES
  sameFamily,     \* whether the findings are versions of one vulnerability
  \* findings
  fState,         \* Finding.state, "none" while no run has reported it
  fItem,          \* Finding.work_item_id
  lastSeen,       \* Finding.last_seen_run_id
  closedBy,       \* Finding.closed_by_run_id
  \* work_items
  state,          \* WorkItem.state, "none" while there is no such item
  mergeSha,       \* WorkItem.merge_sha, as the number of merges it includes
  resolution,     \* WorkItem.human_resolution
  issue,          \* the item's issue on GitHub, and who closed it
  \* scan_runs
  finished,       \* runs that have finished
  shaLimit,       \* commits main had when the run finished
  run,            \* what an ingested run says: [report, fit, sha]
  ingested,       \* runs in the database
  applied,        \* runs with closure_applied_at
  todo,           \* pending_scan_runs as the evaluation under way has read it
  cuts,           \* evaluations that were rolled back
  phase,          \* where the tick is: polling, applying runs, or grouping
  \* GitHub
  main,           \* merges on main
  hubMerge,       \* merge commit of the item's PR, 0 while it is not merged
  mergedAfter     \* the run that had finished last when it was merged

findingVars == <<sameFamily, fState, fItem, lastSeen, closedBy>>
itemVars    == <<state, mergeSha, resolution>>
runVars     == <<finished, shaLimit, run, ingested, applied, todo, cuts, phase>>
hubVars     == <<main, hubMerge, mergedAfter>>
vars        == <<findingVars, itemVars, issue, runVars, hubVars>>

ItemStates == {"none", "issue_open", "session_active", "ready_for_human",
               "needs_human", "merged", "awaiting_rescan", "verified",
               "abandoned"}
Resolutions == {"none", "disposition", "disagreement"}
RunSays(r) == [report : [Findings -> Reports[r]], fit : Fits[r], sha : 0..MaxMerges]

TypeOK ==
  /\ sameFamily \in BOOLEAN
  /\ fState \in [Findings -> FindingStates \cup {"none"}]
  /\ fItem \in [Findings -> Items \cup {None}]
  /\ lastSeen \in [Findings -> RunIds \cup {None}]
  /\ closedBy \in [Findings -> RunIds \cup {None}]
  /\ state \in [Items -> ItemStates]
  /\ mergeSha \in [Items -> 0..MaxMerges]
  /\ resolution \in [Items -> Resolutions]
  /\ issue \in [Items -> {"open", "closed", "closed_by_human"}]
  /\ finished \in 0..MaxRuns
  /\ shaLimit \in [RunIds -> 0..MaxMerges]
  /\ ingested \subseteq 1..finished /\ applied \subseteq ingested
  /\ run \in [RunIds -> [report : [Findings -> Words], fit : SUBSET Findings,
                        sha : 0..MaxMerges]]
  /\ \A r \in ingested : run[r] \in RunSays(r)
  /\ todo \subseteq ingested
  /\ cuts \in 0..MaxCuts /\ phase \in {"poll", "apply", "group"}
  /\ main \in 0..MaxMerges
  /\ hubMerge \in [Items -> 0..MaxMerges]
  /\ mergedAfter \in [Items -> 0..MaxRuns]

NoRun == [report |-> [f \in Findings |-> "absent"], fit |-> {}, sha |-> 0]

Init ==
  /\ sameFamily \in BOOLEAN
  /\ fState = [f \in Findings |-> "none"]
  /\ fItem = [f \in Findings |-> None]
  /\ lastSeen = [f \in Findings |-> None] /\ closedBy = [f \in Findings |-> None]
  /\ state = [i \in Items |-> "none"] /\ mergeSha = [i \in Items |-> 0]
  /\ resolution = [i \in Items |-> "none"] /\ issue = [i \in Items |-> "open"]
  /\ finished = 0 /\ shaLimit = [r \in RunIds |-> 0] /\ run = [r \in RunIds |-> NoRun]
  /\ ingested = {} /\ applied = {} /\ todo = {} /\ cuts = 0 /\ phase = "poll"
  /\ main = 0 /\ hubMerge = [i \in Items |-> 0] /\ mergedAfter = [i \in Items |-> 0]

-----------------------------------------------------------------------------
(* What a run says of a finding *)

Family(f) == IF sameFamily THEN Findings ELSE {f}

\* sightings_for over _family_ids: presence is the family's, at any version.
FamilyReports(f, r) == {run[r].report[g] : g \in Family(f)} \ {"absent"}
Present(f, r)    == FamilyReports(f, r) # {}
Suppressed(f, r) == FamilyReports(f, r) = {"vex"}
OneScanner(f, r) == FamilyReports(f, r) = {"one"}

\* The columns and issues an evaluation reads and writes
Db == [ st |-> fState, by |-> closedBy, item |-> fItem,
        wi |-> state, sha |-> mergeSha, iss |-> issue ]

\* Mutant: a later run's word counts only where it closed the finding.
LaterRunSawClosed(d, f, r) == d.by[f] > r

\* _later_run_saw
LaterRunSaw(d, f, r) == \E q \in {lastSeen[f], d.by[f]} : q > r

\* validate_closing_run: complete evidence about f, from a commit that includes
\* the merge, that no later run has spoken over
Valid(d, f, r, sha) ==
  f \in run[r].fit /\ run[r].sha >= sha /\ ~LaterRunSaw(d, f, r)

\* decide_outcome
Outcome(d, i, f, r) ==
  IF ~Valid(d, f, r, d.sha[i]) THEN "not_applicable"
  ELSE IF ~Present(f, r) THEN "closing_absent"
  ELSE IF d.st[f] \in ClosingStates THEN "regression"
  ELSE IF Suppressed(f, r) THEN "closing_vex"
  ELSE IF OneScanner(f, r) /\ resolution[i] = "disagreement"
       THEN "disagreement_resolved"
  ELSE "still_present"

\* Mutant: closings are recorded without their run.
FireUnrecorded(d, says, r) ==
  [d EXCEPT !.st = [f \in Findings |-> IF f \in DOMAIN says THEN FindingAfter(@[f], says[f])
                                                              ELSE @[f]]]

\* _finding for some findings, with the event run r has for each
Fire(d, says, r) ==
  LET st == [f \in Findings |-> IF f \in DOMAIN says THEN FindingAfter(d.st[f], says[f])
                                                      ELSE d.st[f]]
  IN [d EXCEPT !.st = st,
               !.by = [f \in Findings |->
                         IF st[f] # d.st[f] /\ st[f] \in ClosingStates
                         THEN r ELSE d.by[f]]]

Members(d, i) == {f \in Findings : d.item[f] = i}

\* issue_may_close
MayClose(d, i) ==
  Members(d, i) # {} /\ \A f \in Members(d, i) : d.st[f] \in ClosingStates

-----------------------------------------------------------------------------
(* The evaluation of a run *)

Closing(d, i) == d.wi[i] \in {"merged", "awaiting_rescan"}

\* What run r has to say of each finding, in the name of its item
Says(d, f, r) == Outcome(d, d.item[f], f, r)

\* _close_work_item for the items of I, in three steps.  No two items share a
\* member, so the order they are taken in makes no difference.  First each
\* member's own outcome is recorded ...
Decided(d, I, r) ==
  Fire(d, [f \in {g \in Findings : /\ d.item[g] \in I
                                   /\ Says(d, g, r) \in DOMAIN FindingTarget}
             |-> Says(d, f, r)], r)

\* ... then an item every member of which the run has a say about ...
Weighed(d, I, r) ==
  {i \in I : \A f \in Members(d, i) : Says(d, f, r) # "not_applicable"}

\* ... is verified, or handed back with the members that are still present.
Proven(d, I, r) ==
  LET decided == Decided(d, I, r)
  IN {i \in Weighed(d, I, r) : MayClose(decided, i)}

Remaining(d, I, r) ==
  {f \in Findings : d.item[f] \in I /\ Says(d, f, r) = "still_present"}

CloseItems(d, I, r) ==
  LET proven == Proven(d, I, r)
      still  == Remaining(d, Weighed(d, I, r) \ proven, r)
      After(i, s) == IF i \in proven THEN WiAfter(s, "rescan_verified")
                     ELSE IF Members(d, i) \cap still # {}
                          THEN WiAfter(s, "rescan_shows_present") ELSE s
  IN [Fire(Decided(d, I, r), [f \in still |-> "human_blocked"], r) EXCEPT
        !.wi  = [i \in Items |-> IF i \in I THEN After(i, WiAfter(@[i], "rescan_started"))
                                            ELSE @[i]],
        !.iss = [i \in Items |-> IF i \in proven THEN "closed" ELSE @[i]]]

\* The items an evaluation closes: those whose change is on main
Awaiting(d) == {i \in Items : Closing(d, i)}

\* Mutant: the finding stays with the item that closed it.
AfterRegressionsKept(d, r) ==
  LET back == {f \in Findings : /\ d.st[f] = "fixed" /\ Present(f, r)
                                /\ Valid(d, f, r, run[d.by[f]].sha)}
  IN [Fire(d, [f \in back |-> "reappeared"], r) EXCEPT
        !.iss = [i \in Items |-> IF \E f \in back : d.item[f] = i THEN "open" ELSE @[i]]]

\* The closed findings the run has seen again
SeenAgain(d, r) ==
  {f \in Findings : /\ d.st[f] \in ClosingStates
                    /\ Present(f, r)
                    /\ Valid(d, f, r, run[d.by[f]].sha)
                    /\ ~(d.st[f] = "approved_disposition" /\ Suppressed(f, r))}

\* _regressions: those the table reopens leave their item.
AfterRegressions(d, r) ==
  LET after == Fire(d, [f \in SeenAgain(d, r) |-> "reappeared"], r)
      back  == {f \in SeenAgain(d, r) : after.st[f] # d.st[f]}
  IN [after EXCEPT
        !.iss  = [i \in Items |-> IF \E f \in back : d.item[f] = i THEN "open" ELSE @[i]],
        !.item = [f \in Findings |-> IF f \in back THEN None ELSE @[f]]]

\* The findings that are gone before anyone worked on them
Gone(d, r) ==
  {f \in Findings : /\ d.st[f] \in {"open", "unclassified", "grouped"}
                    /\ lastSeen[f] # r
                    /\ ~Present(f, r)
                    /\ (d.st[f] = "grouped" /\ d.item[f] # None)
                         => d.wi[d.item[f]] = "issue_open"}

\* _drift: an item all of whose members are closed by it is superseded.
AfterDrift(d, r) ==
  LET after   == Fire(d, [f \in {g \in Gone(d, r) : Valid(d, g, r, 0)} |->
                            "closing_absent"], r)
      touched == {d.item[f] : f \in {g \in Gone(d, r) : d.st[g] = "grouped"}} \ {None}
      retired == {i \in touched : MayClose(after, i)}
  IN [after EXCEPT
        !.wi  = [i \in Items |-> IF i \in retired THEN WiAfter(@[i], "superseded") ELSE @[i]],
        !.iss = [i \in Items |-> IF i \in retired THEN "closed" ELSE @[i]]]

\* apply_scan_run
Evaluated(d, r) ==
  AfterDrift(AfterRegressions(CloseItems(d, Awaiting(d), r), r), r)

\* The issues as an evaluation of r may leave them when it ends early
Effects(d, r) ==
  LET closed == CloseItems(d, Awaiting(d), r)
  IN {closed.iss, AfterRegressions(closed, r).iss, Evaluated(d, r).iss}

\* Mutant: only the newest applied run is weighed.
ReplayedNewest(d, i) ==
  LET after == {q \in applied : q > mergedAfter[i]}
  IN IF after = {} THEN d ELSE CloseItems(d, {i}, Max(applied))

\* _close_from_applied_runs: oldest first, until one settles the item
Weigh(d, i, r) ==
  IF r \in applied /\ r > mergedAfter[i] /\ Closing(d, i)
  THEN CloseItems(d, {i}, r) ELSE d

Replayed(d, i) ==
  LET upTo[r \in 0..MaxRuns] == IF r = 0 THEN d ELSE Weigh(upTo[r - 1], i, r)
  IN upTo[MaxRuns]

Install(d) ==
  /\ fState' = d.st /\ closedBy' = d.by /\ fItem' = d.item
  /\ state' = d.wi /\ mergeSha' = d.sha /\ issue' = d.iss

-----------------------------------------------------------------------------
(* Scans *)

\* A scan of main ends; it scanned a commit main had by then.
ScanFinishes ==
  /\ finished < MaxRuns
  /\ finished' = finished + 1
  /\ shaLimit' = [shaLimit EXCEPT ![finished + 1] = main]
  /\ UNCHANGED <<findingVars, itemVars, issue, hubVars, run, ingested, applied,
                 todo, cuts, phase>>

\* Mutant: the run ingested last has the last word.
SpeaksForIngestOrder(f, r) == TRUE

\* _finished_before: an older run records its sightings and nothing else
SpeaksFor(f, r) == r >= lastSeen[f]

\* _upsert_finding's state
StateSeen(f, report) ==
  IF fState[f] = "none" THEN IF report = "unkind" THEN "unclassified" ELSE "open"
  ELSE IF fState[f] \in ClosingStates THEN fState[f]
  ELSE IF report = "unkind" THEN "unclassified"
  ELSE IF fState[f] = "unclassified" THEN "open" ELSE fState[f]

\* ingest_run: by the poller or the command line, at any time and in any order
Ingest(r) ==
  /\ r \in (1..finished) \ ingested
  /\ \E report \in [Findings -> Reports[r]], fit \in Fits[r], sha \in 0..shaLimit[r] :
       LET told == {f \in Findings : report[f] # "absent" /\ SpeaksFor(f, r)}
       IN /\ run' = [run EXCEPT ![r] = [report |-> report, fit |-> fit, sha |-> sha]]
          /\ lastSeen' = [f \in Findings |-> IF f \in told THEN r ELSE lastSeen[f]]
          /\ fState' = [f \in Findings |-> IF f \in told THEN StateSeen(f, report[f])
                                                         ELSE fState[f]]
  /\ ingested' = ingested \cup {r}
  /\ UNCHANGED <<sameFamily, fItem, closedBy, itemVars, issue, hubVars,
                 finished, shaLimit, applied, todo, cuts, phase>>

\* pending_scan_runs
ReadPending ==
  /\ phase = "poll"
  /\ todo' = ingested \ applied
  /\ phase' = IF ingested = applied THEN "group" ELSE "apply"
  /\ UNCHANGED <<findingVars, itemVars, issue, hubVars, finished, shaLimit, run,
                 ingested, applied, cuts>>

\* apply_scan_run, oldest scan first: one transaction
ApplyRun ==
  /\ phase = "apply"
  /\ LET r == Min(todo)
     IN /\ Install(Evaluated(Db, r))
        /\ applied' = applied \cup {r}
        /\ todo' = todo \ {r}
  /\ phase' = IF todo' = {} THEN "group" ELSE "apply"
  /\ UNCHANGED <<sameFamily, lastSeen, resolution, hubVars, finished, shaLimit,
                 run, ingested, cuts>>

\* A GitHub call of the evaluation fails, or the process ends: the rows roll
\* back, what was done to issues stands, and the tick groups nothing.
ApplyCut ==
  /\ phase = "apply" /\ cuts < MaxCuts
  /\ issue' \in Effects(Db, Min(todo))
  /\ todo' = {} /\ phase' = "poll" /\ cuts' = cuts + 1
  /\ UNCHANGED <<findingVars, itemVars, hubVars, finished, shaLimit, run,
                 ingested, applied>>

-----------------------------------------------------------------------------
(* Work items *)

Latest == Max(ingested)     \* _latest_main_run, by finished_at

\* The findings create_work_items puts in the group's bucket
Groupable ==
  {f \in Findings : /\ lastSeen[f] = Latest
                    /\ run[Latest].report[f] # "unkind"
                    /\ fState[f] \in {"open", "regression"}}

\* _work_item_for_group: looked up by the group's base key
ItemForGroup ==
  IF state[1] \in {"verified", "abandoned"}
  THEN Min({i \in Items : state[i] = "none"} \cup {MaxItems + 1})
  ELSE 1

\* There is something to group, within the bound on items.
CanGroup == ingested # {} /\ Groupable # {} /\ ItemForGroup \in Items

\* create_work_items
GroupFindings ==
  /\ phase = "group" /\ CanGroup
  /\ LET i == ItemForGroup
         joining == {f \in Groupable : fItem[f] # i}
     IN /\ state' = [state EXCEPT ![i] = IF @ = "none" THEN "issue_open" ELSE @]
        /\ fItem' = [f \in Findings |-> IF f \in joining THEN i ELSE fItem[f]]
        /\ fState' = [f \in Findings |-> IF f \in joining
                        THEN FindingAfter(fState[f], "grouped") ELSE fState[f]]
  /\ phase' = "poll"
  /\ UNCHANGED <<sameFamily, lastSeen, closedBy, mergeSha, resolution, issue,
                 hubVars, finished, shaLimit, run, ingested, applied, todo, cuts>>

GroupNothing ==
  /\ phase = "group" /\ ~CanGroup
  /\ phase' = "poll"
  /\ UNCHANGED <<findingVars, itemVars, issue, hubVars, finished, shaLimit, run,
                 ingested, applied, todo, cuts>>

\* _dispatch_one or an operator launch, refused while a run is unapplied; the
\* members of an adopted session's item are not marked.
Start(i) ==
  /\ state[i] = "issue_open"
  /\ phase = "group" \/ ingested = applied
  /\ state' = [state EXCEPT ![i] = "session_active"]
  /\ fState' \in { fState,
                   [f \in Findings |-> IF fItem[f] = i
                      THEN FindingAfter(fState[f], "remediation_started")
                      ELSE fState[f]] }
  /\ UNCHANGED <<sameFamily, fItem, lastSeen, closedBy, mergeSha, resolution,
                 issue, runVars, hubVars>>

\* The session's pull request, which is open, is verified ...
Offer(i) ==
  /\ phase = "poll" /\ state[i] = "session_active"
  /\ state' = [state EXCEPT ![i] = "ready_for_human"]
  /\ hubMerge' = [hubMerge EXCEPT ![i] = 0]
  /\ UNCHANGED <<findingVars, mergeSha, resolution, issue, runVars, main, mergedAfter>>

\* ... or the item is handed to a person,
HandOver(i) ==
  /\ phase = "poll" /\ state[i] \in {"session_active", "ready_for_human"}
  /\ state' = [state EXCEPT ![i] = "needs_human"]
  /\ UNCHANGED <<findingVars, mergeSha, resolution, issue, runVars, hubVars>>

\* who labels its issue retry,
Retry(i) ==
  /\ phase = "poll" /\ state[i] = "needs_human" /\ issue[i] = "open"
  /\ state' = [state EXCEPT ![i] = WiAfter(@, "human_retry")]
  /\ UNCHANGED <<findingVars, mergeSha, resolution, issue, runVars, hubVars>>

\* or resolves it (disposition:approved, disagreement:resolved).
Resolve(i) ==
  /\ phase = "poll" /\ state[i] = "needs_human" /\ issue[i] = "open"
  /\ resolution[i] = "none"
  /\ resolution' \in {[resolution EXCEPT ![i] = a] : a \in Resolutions \ {"none"}}
  /\ state' = [state EXCEPT ![i] = WiAfter(@, "human_resolved")]
  /\ UNCHANGED <<findingVars, mergeSha, issue, runVars, hubVars>>

\* GitHub: a person merges the item's pull request.
MergeOnHub(i) ==
  /\ state[i] \in {"session_active", "ready_for_human", "needs_human"}
  /\ hubMerge[i] = 0 /\ main < MaxMerges
  /\ main' = main + 1
  /\ hubMerge' = [hubMerge EXCEPT ![i] = main + 1]
  /\ mergedAfter' = [mergedAfter EXCEPT ![i] = finished]
  /\ UNCHANGED <<findingVars, itemVars, issue, runVars>>

\* _apply_pr for a merged pull request: one transaction
ObserveMerge(i) ==
  /\ phase = "poll"
  /\ hubMerge[i] # 0
  /\ state[i] \in {"session_active", "ready_for_human", "needs_human"}
  /\ LET flagged == IF state[i] = "session_active" THEN WiAfter(state[i], "blocked")
                                                   ELSE state[i]
         merged  == Fire(Db, [f \in Members(Db, i) |-> "pr_merged"], None)
     IN Install(Replayed([merged EXCEPT !.wi[i] = WiAfter(flagged, "human_merged"),
                                        !.sha[i] = hubMerge[i]], i))
  /\ UNCHANGED <<sameFamily, lastSeen, resolution, runVars, hubVars>>

\* GitHub: a person closes the item's issue.
CloseIssue(i) ==
  /\ state[i] \notin {"none", "verified", "abandoned"} /\ issue[i] = "open"
  /\ issue' = [issue EXCEPT ![i] = "closed_by_human"]
  /\ UNCHANGED <<findingVars, itemVars, runVars, hubVars>>

\* poll_human_labels, for an issue it finds closed
PollClosedIssue(i) ==
  /\ phase = "poll" /\ issue[i] # "open"
  /\ state[i] \in {"needs_human", "issue_open", "ready_for_human"}
  /\ state' = [state EXCEPT ![i] = WiAfter(@, "human_abandoned")]
  /\ fState' = [f \in Findings |-> IF fItem[f] = i
                  THEN FindingAfter(fState[f], "human_blocked") ELSE fState[f]]
  /\ UNCHANGED <<sameFamily, fItem, lastSeen, closedBy, mergeSha, resolution,
                 issue, runVars, hubVars>>

Tick ==
  \/ ReadPending \/ ApplyRun \/ ApplyCut \/ GroupFindings \/ GroupNothing
  \/ \E i \in Items : ObserveMerge(i) \/ PollClosedIssue(i)

Next ==
  \/ Tick
  \/ ScanFinishes
  \/ \E r \in RunIds : Ingest(r)
  \/ \E i \in Items :
       \/ Start(i) \/ Offer(i) \/ HandOver(i) \/ Retry(i) \/ Resolve(i)
       \/ MergeOnHub(i) \/ CloseIssue(i)

Spec == Init /\ [][Next]_vars

-----------------------------------------------------------------------------
(* Properties *)

\* A finding that was closed names an applied run, one in remediation its item,
\* and one that was not seen yet, or reappeared, none (_finding, _regressions).
FindingsAreAccountedFor ==
  \A f \in Findings :
    /\ closedBy[f] \in applied \cup {None}
    /\ fState[f] \in ClosingStates => closedBy[f] # None
    /\ fState[f] \in {"grouped", "in_remediation", "awaiting_rescan"} => fItem[f] # None
    /\ fState[f] \in {"none", "regression"} => fItem[f] = None

\* The evaluation under way has runs left that are not applied.
RunsArePending ==
  /\ todo \subseteq ingested \ applied
  /\ phase = "apply" <=> todo # {}

\* The type invariant, what a finding's columns say together, and what is left
\* of an evaluation: inductive.
Inv == TypeOK /\ FindingsAreAccountedFor /\ RunsArePending

\* What the latest run to report f says has the last word in the database,
\* whatever the order runs were ingested in (_upsert_finding).
LastSeenIsLatest ==
  \A f \in Findings :
    lastSeen[f] = Max({r \in ingested : run[r].report[f] # "absent"} \cup {None})

\* A finding is closed by a run only if no run in the database that finished
\* later reports it: an older run evaluated late must neither close nor reopen
\* (_later_run_saw).
ClosureUsesLatestWord ==
  [][\A f \in Findings :
       closedBy'[f] # closedBy[f] =>
         \A q \in ingested : q > closedBy'[f] => run[q].report[f] = "absent"]_vars

\* No finding stays fixed against applied evidence: the last run to report it,
\* if it is complete, of the closing commit or a later one and applied, did
\* not finish after the run that closed it (_regressions).
StandingEvidence ==
  \A f \in Findings :
    LET q == lastSeen[f]
    IN fState[f] = "fixed" /\ q > closedBy[f] =>
         ~(q \in applied /\ f \in run[q].fit /\ run[q].sha >= run[closedBy[f]].sha)

\* A verified item's members are closed, and stay its members only while they
\* are (issue_may_close; _regressions takes a finding out of its item).
VerifiedMembersAreClosed ==
  \A i \in Items : state[i] = "verified" =>
    \A f \in Members(Db, i) : fState[f] \in ClosingStates

\* What a scan proves of a merged item's member is recorded, whether the scan
\* was applied before or after the merge was observed (apply_scan_run,
\* _close_from_applied_runs).
EvidenceIsNotMissed ==
  \A i \in Items : Closing(Db, i) /\ resolution[i] = "none" =>
    \A f \in Members(Db, i) : \A r \in applied :
      r > mergedAfter[i] /\ Outcome(Db, i, f, r) = "closing_absent"
        => fState[f] \in ClosingStates

\* An item that waits for a scan is not settled by one it already has.
WaitsForAnotherScan ==
  \A i \in Items : Closing(Db, i) /\ resolution[i] = "none" =>
    ~\E r \in applied :
        /\ r > mergedAfter[i] /\ Members(Db, i) # {}
        /\ \A f \in Members(Db, i) : Outcome(Db, i, f, r) = "closing_absent"

\* docs/runbook.md: the controller never removes a needs-human label a human
\* has to act on.  An item that a rescan flagged, whose merge is recorded,
\* waits for a person.
FlagWaitsForAPerson ==
  [][\A i \in Items :
       state[i] = "needs_human" /\ hubMerge[i] # 0 /\ mergeSha[i] = hubMerge[i]
         /\ state'[i] # "needs_human" =>
           issue[i] # "open" \/ Retry(i) \/ Resolve(i)]_vars

\* _members_joined: findings discovered after the group was opened join the
\* existing work item.  At most one item of a group is under way.
OneOpenItemPerGroup ==
  Cardinality({i \in Items : state[i] \notin {"none", "verified", "abandoned"}}) <= 1

\* _HUMAN_LABEL_STATES: an issue read as closed by a human was closed by one.
ClosedByAHuman ==
  [][\A i \in Items : PollClosedIssue(i) => issue[i] = "closed_by_human"]_vars
=============================================================================
