------------------------------ MODULE MCTools ------------------------------
(***************************************************************************)
(* The tools run by hand or in a workflow, one at a time: the asset sync,  *)
(* with the controller working on the same database, the negative suite,   *)
(* and the opening of the database by all of them.                         *)
(***************************************************************************)
EXTENDS Assets, Negative, Assess, Schema

VARIABLE tool

File(inOrder, title, body) == [inOrder |-> inOrder, title |-> title, body |-> body]

\* Two playbooks of one title, as load_assets allows.
MCFiles(s) ==
  CASE s = "dep"  -> { File(TRUE, "Dependency", "v1"), File(TRUE, "Upgrade", "v1"),
                       File(TRUE, "Dependency", "v2"), File(FALSE, "Dependency", "v1") }
    [] s = "vex"  -> { File(TRUE, "Dependency", "v0") }
    [] s = "note" -> { File(TRUE, "Conventions", "v1") }

SyncerSymmetry == Permutations(Syncers)

Counts(total, high, enforced) ==
  [state |-> "valid", total |-> total, high |-> high, enforced |-> enforced]
Missed  == [state |-> "none"]
Invalid == [state |-> "invalid"]
MainRun(id, conclusion, found) == [id |-> id, conclusion |-> conclusion, evidence |-> found]

\* The scans of the head: worse than main by either count, or by both.
MCEvidences ==
  { Counts(3, 2, FALSE), Counts(3, 2, TRUE), Counts(2, 2, FALSE), Counts(3, 1, FALSE),
    Missed, Invalid }

MCMainRuns ==
  { << >>,
    << MainRun(2, "success", Missed), MainRun(1, "success", Counts(2, 1, FALSE)) >>,
    << MainRun(2, "failure", Counts(1, 0, FALSE)), MainRun(1, "success", Counts(2, 1, FALSE)) >>,
    << MainRun(2, "success", Invalid), MainRun(1, "success", Counts(1, 1, FALSE)) >> }

\* The judgement of a session on every snapshot of these: spending below, at and
\* above the warning and the cap, no, one or two pull requests.
Statuses == {"new", "claimed", "running", "exit", "error", "suspended", "resuming"}
Details ==
  BudgetStops \cup { "none", "working", "waiting_for_user", "waiting_for_approval", "finished",
                     "inactivity", "user_request", "error" }
Snapshots ==
  [ status : Statuses, detail : Details, acus : {8, 9, 10, 11},
    urls : {{}, {"pr 1"}, {"pr 1", "pr 2"}}, pr_url : {NoUrl, "pr 1"}, valid : BOOLEAN,
    outcome : {"pr_opened", "blocked", "no_change_needed"} ]
PullRequests ==
  { [repo |-> Fork, base |-> base, headRepo |-> repo, files |-> files] :
      base \in {Main, "6.1"}, repo \in {Fork, "other/superset"},
      files \in {{{}}, {{"proposed", "vex"}}, {{"vex"}}, {{"generated"}},
                 {{"generated"}, {"inputs"}}, {{"analysis"}, {"ignore"}}} } \cup {NoPr}
Claims == { s \in Snapshots : s.outcome = "pr_opened" /\ s.acus > 9 }
Questions == {"which branch?", "may I skip the tests?"}
FactsOf(valid, verified) ==
  [cap : {10}, late : BOOLEAN, warned : BOOLEAN, valid : {valid}, verified : {verified},
   allowed : {verified}]

ASSUME MeritsAreChecked ==
  \A s \in { x \in Snapshots : x.pr_url = NoUrl }, valid, verified \in BOOLEAN :
    \A f, g \in FactsOf(valid, verified), q, r \in Questions : JudgedOnItsMerits(s, f, g, q, r)
ASSUME WaitingIsChecked ==
  \A s \in Snapshots, valid \in BOOLEAN, q \in Questions : \A f \in FactsOf(valid, valid) :
    DeadIsNotWaitedFor(s, f, q) /\ DoneIsJudged(s, f, q)
ASSUME ReadinessIsChecked ==
  \A s \in Claims, pull \in PullRequests, q \in Questions,
     kind \in {"dependency_upgrade", "container_hardening", "no_fix_reachability", "scanner_disagreement"} :
    ReadyIsConfirmed(s, kind, [u \in Urls |-> pull], 10, FALSE, FALSE, q)
\* Some of them do get there, from two statuses.
ASSUME SomeAreReady ==
  \A status \in {"running", "suspended"} :
    \E s \in Claims, pull \in PullRequests :
      /\ s.status = status
      /\ Decision(s, Facts(s, "no_fix_reachability", [u \in Urls |-> pull], 10, FALSE, FALSE), "")
           = "ready_for_verification"

\* The files as they are before the first edit.
AtFirst(t) ==
  \A s \in Slugs : t[s].inOrder /\ t[s].body \in {"v0", "v1"} /\ t[s].title \in {"Dependency", "Conventions"}

Init ==
  /\ tool \in {"assets sync", "ci-negative", "open_database"}
  /\ AInit /\ NInit /\ SInit
  /\ AtFirst(tree)
  /\ tool # "ci-negative" => case = "broken_build"
  /\ tool # "open_database" => tables = "none"

Next ==
  \/ tool = "assets sync" /\ ANext /\ UNCHANGED <<nvars, svars, tool>>
  \/ tool = "ci-negative" /\ NNext /\ UNCHANGED <<avars, svars, tool>>
  \/ tool = "open_database" /\ SNext /\ UNCHANGED <<avars, nvars, tool>>

Spec == Init /\ [][Next]_<<avars, nvars, svars, tool>>
=============================================================================
