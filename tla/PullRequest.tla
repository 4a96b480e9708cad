---------------------------- MODULE PullRequest -----------------------------
(***************************************************************************)
(* One work item from its session's report to the merge of its pull        *)
(* request: what poll_sessions and poll_pull_requests conclude from checks,*)
(* Devin reviews and approvals that are each about one commit, read by     *)
(* separate calls, while the session, CI, Devin Review and people go on.   *)
(*                                                                         *)
(* A poll is two steps.  Fetch reads the PR and the check runs of its head *)
(* without the lock; Apply reads the review and the approvals and commits. *)
(* The outside moves in between.  Commits are numbered in the order they   *)
(* are pushed, whichever PR they are pushed to.  The work item has its     *)
(* issue and its session; Dispatch says how it gets them.                  *)
(***************************************************************************)
EXTENDS Lifecycle, Integers

CONSTANTS
  PRs,            \* pull requests the sessions may open
  MaxHeads,       \* bound on pushes
  Retries,        \* settings.retries_per_work_item
  MaxRaises,      \* bound on GitHub and Devin calls that unwind a transaction
  NoPr            \* the database's NULL

Heads == 1..MaxHeads

ASSUME PrAssumption ==
  /\ NoPr \notin PRs
  /\ MaxHeads \in Nat /\ Retries \in Nat /\ MaxRaises \in Nat

\* LifecycleLevel
Level == [ none |-> 0, pr_opened |-> 1, ci_green |-> 2, review_completed |-> 3,
           human_approved |-> 4, merged |-> 5 ]

VARIABLES
  \* work_items
  state,          \* WorkItem.state
  wiPr,           \* WorkItem.pr_number
  level,          \* WorkItem.lifecycle_level
  depth,          \* whether WorkItem.verification_depth is set
  retries,        \* WorkItem.retries_used
  \* pull_requests
  rowHead,        \* PullRequest.head_sha, 0 while there is no row
  rowLevel,       \* PullRequest.lifecycle_level
  rowState,       \* PullRequest.state
  retriggered,    \* <<PR, commit>> of "review errored" trigger events
  \* GitHub
  prHead, prState,\* head commit (0: not opened) and open, closed or merged
  pushes,         \* commits pushed so far
  ci,             \* what the check runs of the PR's head amount to
  everGreen,      \* commits whose checks have been green
  approved,       \* commits an approver has approved
  \* Devin
  review,         \* Devin Review of a commit
  report,         \* PR the finished session reports, NoPr while it works
  messages,       \* retry messages sent since the last human retry
  \* the controller
  pc, snap,       \* fetched snapshot of the poll under way
  late,           \* review_timeout_minutes have passed since checks_green
  raises

dbVars   == <<state, wiPr, level, depth, retries, rowHead, rowLevel,
              rowState, retriggered>>
hubVars  == <<prHead, prState, pushes, ci, everGreen, approved>>
devinVars == <<review, report, messages>>
ctlVars  == <<pc, snap, late, raises>>
vars     == <<dbVars, hubVars, devinVars, ctlVars>>

CiStates == {"running", "green", "red"}
ReviewStates == {"none", "pending", "completed", "errored", "cancelled"}
PrStates == {"open", "closed", "merged"}

Snapshots == [pr : PRs, head : Heads, state : PrStates, checks : CiStates]
NoSnap == [pr |-> NoPr]

TypeOK ==
  /\ state \in States
  /\ wiPr \in PRs \cup {NoPr}
  /\ level \in 0..5
  /\ depth \in BOOLEAN
  /\ retries \in 0..Retries
  /\ rowHead \in [PRs -> 0..MaxHeads]
  /\ rowLevel \in [PRs -> 0..5]
  /\ rowState \in [PRs -> PrStates]
  /\ retriggered \subseteq PRs \X Heads
  /\ prHead \in [PRs -> 0..MaxHeads]
  /\ prState \in [PRs -> PrStates]
  /\ pushes \in 0..MaxHeads
  /\ ci \in [PRs -> CiStates]
  /\ everGreen \subseteq Heads
  /\ approved \subseteq Heads
  /\ review \in [Heads -> ReviewStates]
  /\ report \in PRs \cup {NoPr}
  /\ messages \in 0..(Retries + MaxRaises)
  /\ pc \in {"idle", "fetched"}
  /\ pc = "fetched" => snap \in Snapshots
  /\ late \in BOOLEAN
  /\ raises \in 0..MaxRaises

Init ==
  /\ state = "session_active" /\ wiPr = NoPr
  /\ level = Level.none /\ depth = FALSE /\ retries = 0
  /\ rowHead = [p \in PRs |-> 0] /\ rowLevel = [p \in PRs |-> Level.none]
  /\ rowState = [p \in PRs |-> "open"] /\ retriggered = {}
  /\ prHead = [p \in PRs |-> 0] /\ prState = [p \in PRs |-> "open"]
  /\ pushes = 0
  /\ ci = [p \in PRs |-> "running"]
  /\ everGreen = {} /\ approved = {}
  /\ review = [h \in Heads |-> "none"] /\ report = NoPr /\ messages = 0
  /\ pc = "idle" /\ snap = NoSnap /\ late = FALSE /\ raises = 0

-----------------------------------------------------------------------------
(* Levels *)

AtLeast(l, m) == IF l < m THEN m ELSE l      \* _raise_level
AtMost(l, m)  == IF l > m THEN m ELSE l      \* _reset_level

\* _raise_level of the work item and of the row of PR p
RaiseLevel(p, l) ==
  /\ level' = AtLeast(level, l)
  /\ rowLevel' = [rowLevel EXCEPT ![p] = AtLeast(@, l)]

-----------------------------------------------------------------------------
(* poll_sessions *)

\* Mutant: the row is given the new head, and keeps what the old one earned.
RecordPrOverwriting(p) ==
  /\ wiPr' = p
  /\ rowHead' = [rowHead EXCEPT ![p] = prHead[p]]
  /\ RaiseLevel(p, Level.pr_opened)
  /\ state' = WiAfter(WiAfter(state, "pr_opened"), "checks_started")
  /\ UNCHANGED <<depth, retries, rowState, retriggered>>

\* _record_pr, then pr_opened and checks_started: the row of a PR seen before
\* keeps its head until the next poll of the PR.
RecordPr(p) ==
  /\ wiPr' = p
  /\ rowHead' = [rowHead EXCEPT ![p] = IF @ = 0 THEN prHead[p] ELSE @]
  /\ RaiseLevel(p, Level.pr_opened)
  /\ state' = WiAfter(WiAfter(state, "pr_opened"), "checks_started")
  /\ UNCHANGED <<depth, retries, rowState, retriggered>>

\* _apply_snapshot of a session that reports its PR, or must be handed over.
PollSession ==
  /\ pc = "idle" /\ state = "session_active"
  /\ \/ report # NoPr /\ RecordPr(report)
     \/ /\ state' = WiAfter(state, "blocked")
        /\ UNCHANGED <<wiPr, level, depth, retries, rowHead, rowLevel,
                       rowState, retriggered>>
  /\ UNCHANGED <<hubVars, devinVars, ctlVars>>

-----------------------------------------------------------------------------
(* poll_pull_requests *)

PR_STATES == { "pr_open", "checks_running", "review_pending",
               "ready_for_human", "needs_human" }

\* get_pull_request, and list_check_runs of its head
Fetch ==
  /\ pc = "idle" /\ state \in PR_STATES /\ wiPr # NoPr
  /\ pc' = "fetched"
  /\ snap' = [ pr |-> wiPr, head |-> prHead[wiPr], state |-> prState[wiPr],
               checks |-> ci[wiPr] ]
  /\ UNCHANGED <<dbVars, hubVars, devinVars, late, raises>>

NewHead == snap.head # rowHead[snap.pr]

\* The head column, whatever else the poll finds.
ApplyHead ==
  /\ rowHead' = [rowHead EXCEPT ![snap.pr] = snap.head]
  /\ UNCHANGED wiPr

\* Mutant: a new head does not send the item back.
ReverifiedStateKept ==
  IF state = "pr_open" THEN WiAfter(state, "checks_started") ELSE state

\* The state in which the checks are weighed: after _reverify_new_head, and
\* after checks_started.
ReverifiedState ==
  LET s == IF NewHead /\ state \in {"review_pending", "ready_for_human"}
           THEN WiAfter(state, "new_head_pushed") ELSE state
  IN IF s = "pr_open" THEN WiAfter(s, "checks_started") ELSE s

\* Mutant: levels are kept by a PR that gets a new head.
ReverifiedKept(l) == l

\* A level after _reverify_new_head has taken back what the old head earned
Reverified(l) == IF NewHead THEN AtMost(l, Level.pr_opened) ELSE l

\* _record_depth; the rungs are in Ladder, here a green head proves a rung.
Proved(c) == c = "green"

\* The work item's and the row's level, once reset for a new head and raised.
ApplyLevel(l) ==
  /\ level' = AtLeast(Reverified(level), l)
  /\ rowLevel' = [rowLevel EXCEPT ![snap.pr] = AtLeast(Reverified(@), l)]

PollEnds == pc' = "idle" /\ snap' = NoSnap

ApplyMerged ==
  /\ pc = "fetched" /\ snap.state = "merged"
  /\ ApplyHead
  /\ state' = WiAfter(IF state \in {"ready_for_human", "needs_human"}
                      THEN state ELSE WiAfter(state, "blocked"), "human_merged")
  /\ RaiseLevel(snap.pr, Level.merged)
  /\ rowState' = [rowState EXCEPT ![snap.pr] = "merged"]
  /\ PollEnds
  /\ UNCHANGED <<depth, retries, retriggered, hubVars, devinVars, late, raises>>

\* Mutant: the row of a closed PR stays open, with the head it was closed at.
ApplyClosedUnmarked ==
  /\ pc = "fetched" /\ snap.state = "closed"
  /\ ApplyHead
  /\ state' = IF state = "needs_human" THEN state
              ELSE WiAfter(state, "pr_closed_unmerged")
  /\ PollEnds
  /\ UNCHANGED <<level, depth, retries, rowLevel, rowState, retriggered, hubVars,
                 devinVars, late, raises>>

ApplyClosed ==
  /\ pc = "fetched" /\ snap.state = "closed"
  /\ ApplyHead
  /\ state' = IF state = "needs_human" THEN state
              ELSE WiAfter(state, "pr_closed_unmerged")
  /\ rowState' = [rowState EXCEPT ![snap.pr] = "closed"]
  /\ PollEnds
  /\ UNCHANGED <<level, depth, retries, rowLevel, retriggered, hubVars,
                 devinVars, late, raises>>

\* A human owns the item: a new head still resets what the old one earned.
ApplyOwned ==
  /\ pc = "fetched" /\ snap.state = "open" /\ state = "needs_human"
  /\ ApplyHead
  /\ ApplyLevel(Level.none)
  /\ depth' = (depth /\ ~NewHead)
  /\ PollEnds
  /\ UNCHANGED <<state, retries, rowState, retriggered, hubVars, devinVars, late, raises>>

\* An open PR under verification, with this verdict on its checks;
\* _record_depth precedes the verdict.
Weigh(verdict) ==
  /\ pc = "fetched" /\ snap.state = "open" /\ state # "needs_human"
  /\ snap.checks = verdict
  /\ ApplyHead
  /\ depth' = Proved(snap.checks)
  /\ PollEnds
  /\ UNCHANGED <<rowState, hubVars>>

ApplyRunning ==
  /\ Weigh("running")
  /\ state' = ReverifiedState
  /\ ApplyLevel(Level.none)
  /\ UNCHANGED <<retries, retriggered, devinVars, late, raises>>

\* Mutant: the retry that is sent is not counted.
ApplyRedUncounted ==
  /\ Weigh("red")
  /\ ApplyLevel(Level.none)
  /\ LET red == WiAfter(ReverifiedState, "checks_red")
     IN IF retries < Retries
        THEN /\ state' = WiAfter(red, "retry_sent")
             /\ messages < Retries + MaxRaises /\ messages' = messages + 1
        ELSE /\ state' = WiAfter(red, "retries_exhausted")
             /\ UNCHANGED messages
  /\ UNCHANGED <<retries, retriggered, review, report, late, raises>>

\* _retry_or_fail
ApplyRed ==
  /\ Weigh("red")
  /\ ApplyLevel(Level.none)
  /\ LET red == WiAfter(ReverifiedState, "checks_red")
     IN IF retries < Retries
        THEN /\ state' = WiAfter(red, "retry_sent")
             /\ retries' = retries + 1 /\ messages' = messages + 1
        ELSE /\ state' = WiAfter(red, "retries_exhausted")
             /\ UNCHANGED <<retries, messages>>
  /\ UNCHANGED <<retriggered, review, report, late, raises>>

ReviewOutcome(to, trigger) == [to |-> to, trigger |-> trigger]

\* Mutant: the review of the PR's present head, whichever was fetched.
ReviewOutcomesOfPr(tooLate) ==
  LET wait == IF tooLate THEN "review_not_observed" ELSE "wait"
  IN CASE review[prHead[snap.pr]] = "completed" ->
            {ReviewOutcome("review_completed", FALSE)}
       [] OTHER -> {ReviewOutcome(wait, TRUE)}

\* Mutant: a review that does not end is waited for.
ReviewOutcomesPatient(tooLate) ==
  IF review[snap.head] = "completed"
  THEN {ReviewOutcome("review_completed", FALSE)}
  ELSE {ReviewOutcome("wait", review[snap.head] \in {"none", "errored"})}

\* _check_review of the fetched head: the event it fires, and whether it
\* triggers a review first; a call that fails is waited out (_review_timeout).
ReviewOutcomes(tooLate) ==
  LET wait == IF tooLate THEN "review_not_observed" ELSE "wait"
      found == review[snap.head]
  IN {ReviewOutcome(wait, FALSE)} \cup
     CASE found = "completed" -> {ReviewOutcome("review_completed", FALSE)}
       [] found = "cancelled" -> {ReviewOutcome("review_not_observed", FALSE)}
       [] found = "errored" /\ <<snap.pr, snap.head>> \in retriggered ->
            {ReviewOutcome("review_not_observed", FALSE)}
       [] found = "pending" -> {}
       [] OTHER -> {ReviewOutcome(wait, TRUE)}

\* trigger_review names a PR, so it is the PR's head at Devin that is reviewed
\* and named by the event that _review_retriggered looks for; the event is not
\* recorded when the answer is lost.
TriggerReview ==
  LET h == prHead[snap.pr] IN
  /\ review' = [review EXCEPT ![h] = IF @ \in {"none", "errored", "cancelled"}
                                     THEN "pending" ELSE @]
  /\ retriggered' \in IF review[snap.head] = "errored"
                      THEN {retriggered, retriggered \cup {<<snap.pr, h>>}}
                      ELSE {retriggered}

AfterReview(s, event) == IF event = "wait" THEN s ELSE WiAfter(s, event)

\* _check_approval: only of the fetched head
Approval == IF snap.head \in approved THEN Level.human_approved
                                      ELSE Level.review_completed

ApplyGreen ==
  /\ Weigh("green")
  /\ LET green == IF ReverifiedState = "checks_running"
                  THEN WiAfter(ReverifiedState, "checks_green") ELSE ReverifiedState
         fresh == ReverifiedState = "checks_running"
     IN /\ late' = (late /\ ~fresh)
        /\ IF green = "review_pending"
           THEN \E o \in ReviewOutcomes(late /\ ~fresh) :
                  /\ state' = AfterReview(green, o.to)
                  /\ ApplyLevel(IF o.to = "review_completed"
                                THEN Approval ELSE Level.ci_green)
                  /\ IF o.trigger THEN TriggerReview
                                  ELSE UNCHANGED <<review, retriggered>>
           ELSE /\ state' = green
                /\ ApplyLevel(Approval)
                /\ UNCHANGED <<review, retriggered>>
  /\ UNCHANGED <<retries, report, messages, raises>>

\* An exception out of the transaction (send_message, comment_issue,
\* list_pr_reviews) rolls it back and unwinds the tick; a retry message may
\* have been sent before comment_issue failed.
PollRaises ==
  /\ pc = "fetched" /\ raises < MaxRaises
  /\ raises' = raises + 1
  /\ PollEnds
  /\ messages' \in IF /\ snap.state = "open" /\ state # "needs_human"
                      /\ snap.checks = "red" /\ retries < Retries
                   THEN {messages, messages + 1} ELSE {messages}
  /\ UNCHANGED <<dbVars, hubVars, review, report, late>>

-----------------------------------------------------------------------------
(* The item's next session *)

\* poll_human_labels: retry, and the dispatch that follows
HumanRetry ==
  /\ pc = "idle" /\ state \in {"needs_human", "failed"}
  /\ state' = WiAfter(state, "human_retry")
  /\ retries' = 0 /\ messages' = 0
  /\ UNCHANGED <<wiPr, level, depth, rowHead, rowLevel, rowState,
                 retriggered, hubVars, review, report, ctlVars>>

Redispatch ==
  /\ pc = "idle" /\ state = "issue_open"
  /\ state' = WiAfter(WiAfter(state, "dispatch_started"), "session_created")
  /\ report' = NoPr
  /\ UNCHANGED <<wiPr, level, depth, retries, rowHead, rowLevel,
                 rowState, retriggered, hubVars, review, messages, ctlVars>>

Abandon ==
  /\ pc = "idle" /\ state \in Sources.human_abandoned
  /\ state' = WiAfter(state, "human_abandoned")
  /\ UNCHANGED <<wiPr, level, depth, retries, rowHead, rowLevel,
                 rowState, retriggered, hubVars, devinVars, ctlVars>>

-----------------------------------------------------------------------------
(* Devin, CI, people and time *)

\* A commit is pushed to a new or an open PR, by the session or by anyone.
Push(p) ==
  /\ prState[p] = "open"
  /\ pushes < MaxHeads
  /\ pushes' = pushes + 1
  /\ prHead' = [prHead EXCEPT ![p] = pushes + 1]
  /\ ci' = [ci EXCEPT ![p] = "running"]
  /\ UNCHANGED <<dbVars, prState, everGreen, approved,
                 devinVars, ctlVars>>

ClosePr(p) ==
  /\ prHead[p] # 0
  /\ \/ prState[p] = "open" /\ \E s \in {"closed", "merged"} :
                                 prState' = [prState EXCEPT ![p] = s]
     \/ prState[p] = "closed" /\ prState' = [prState EXCEPT ![p] = "open"]
  /\ UNCHANGED <<dbVars, prHead, pushes, ci, everGreen, approved,
                 devinVars, ctlVars>>

\* Commits a poll may still read about; what happens to others is never read.
Readable == ({prHead[p] : p \in PRs} \ {0}) \cup (IF pc = "fetched" THEN {snap.head} ELSE {})

\* Checks proceed; a finished one may be re-run.
RunChecks(p) ==
  /\ prHead[p] # 0
  /\ \E c \in CiStates \ {ci[p]} :
       /\ ci' = [ci EXCEPT ![p] = c]
       /\ everGreen' = everGreen \cup (IF c = "green" THEN {prHead[p]} ELSE {})
  /\ UNCHANGED <<dbVars, prHead, prState, pushes, approved, devinVars, ctlVars>>

Approve(h) ==
  /\ h \in Readable \ approved
  /\ approved' = approved \cup {h}
  /\ UNCHANGED <<dbVars, prHead, prState, pushes, ci, everGreen, devinVars,
                 ctlVars>>

\* A review ends, asked for by the controller or by somebody else.
EndReview(h) ==
  /\ h \in Readable /\ review[h] \in {"none", "pending"}
  /\ \E r \in {"completed", "errored", "cancelled"} :
       review' = [review EXCEPT ![h] = r]
  /\ UNCHANGED <<dbVars, hubVars, report, messages, ctlVars>>

\* The session reports a PR it has opened; a message sets it to work again.
\* Only an active item's session is read.
Report ==
  /\ state = "session_active"
  /\ \E p \in PRs : prHead[p] # 0 /\ report' = p
  /\ UNCHANGED <<dbVars, hubVars, review, messages, ctlVars>>

WakeUp ==
  /\ state = "session_active"
  /\ report # NoPr /\ report' = NoPr
  /\ UNCHANGED <<dbVars, hubVars, review, messages, ctlVars>>

TimePasses ==
  /\ state = "review_pending" /\ ~late /\ late' = TRUE
  /\ UNCHANGED <<dbVars, hubVars, devinVars, pc, snap, raises>>

Apply == \/ ApplyMerged \/ ApplyClosed \/ ApplyOwned
         \/ ApplyRunning \/ ApplyRed \/ ApplyGreen

ControllerStep == PollSession \/ Fetch \/ Apply \/ PollRaises \/ Redispatch

\* Until the item has left the polls for good.
EnvironmentStep ==
  /\ state \notin {"merged", "abandoned"}
  /\ \/ HumanRetry \/ Abandon \/ Report \/ WakeUp \/ TimePasses
     \/ \E p \in PRs : Push(p) \/ ClosePr(p) \/ RunChecks(p)
     \/ \E h \in Heads : Approve(h) \/ EndReview(h)

Next == ControllerStep \/ EnvironmentStep

Spec == Init /\ [][Next]_vars

\* The poll loop runs and its calls are answered in the end; time passes.
FairSpec == Spec /\ WF_vars(Fetch) /\ WF_vars(Apply) /\ WF_vars(TimePasses)

-----------------------------------------------------------------------------
(* Properties *)

UnderVerification == state \in {"checks_running", "review_pending",
                                "ready_for_human"}

LevelEarned(l, h) ==
  /\ l >= Level.ci_green => h \in everGreen
  /\ l >= Level.review_completed => review[h] = "completed"
  /\ l >= Level.human_approved => h \in approved

\* A row's level is a claim about the row's own head: what was green, reviewed
\* or approved before a push, or while a newer head was already on GitHub,
\* counts for nothing (_reverify_new_head: "evidence about one commit").  Rows
\* that were once seen closed are LevelIsEarned's.
EvidenceIsOfTheHead ==
  UnderVerification /\ rowState[wiPr] = "open"
    => LevelEarned(rowLevel[wiPr], rowHead[wiPr])

\* The work item claims no more than the PR it tracks (_raise_level and
\* _reset_level move the two together).
LevelIsOfTheTrackedPr == UnderVerification => level <= rowLevel[wiPr]

\* What is offered to a human for merging has passed its checks and completed
\* its Devin Review, both for the very commit that is offered; a retry, a
\* second PR and pushes between the calls of one poll included.
ReadyIsEarned ==
  state = "ready_for_human" =>
    /\ rowHead[wiPr] \in everGreen
    /\ review[rowHead[wiPr]] = "completed"

\* An item is offered, or offered at another commit, only by a poll that read
\* that very commit's checks as green and found its review completed: neither a
\* push between the calls of a poll nor a review of another head will do
\* (_reverify_new_head, _check_review: "always about exactly `pr.head_sha`").
OfferIsOfThePolledHead ==
  [][state' = "ready_for_human" /\ (state # "ready_for_human" \/ rowHead' # rowHead)
       => /\ pc = "fetched" /\ snap.checks = "green"
          /\ rowHead'[wiPr] = snap.head /\ review[snap.head] = "completed"]_vars

\* _check_review: "no terminal state within review_timeout_minutes" and every
\* other outcome hands the item on.  Once CI has settled, no item waits for a
\* review for ever, whatever Devin answers.
ReviewEnds ==
  (<>[](\A p \in PRs : ci[p] \in {"green", "red"}))
    => (state = "review_pending" ~> state # "review_pending")

\* A retry message beyond the counted ones is one whose transaction was unwound
\* after it was sent (_retry_or_fail: comment_issue).
MessagesAreCounted == messages <= retries + raises

\* live-run.md: failures "go back to the same session as a message, at most
\* HL_RETRIES_PER_WORK_ITEM times".
MessagesWithinRetries == messages <= Retries

\* tables.py: verification_depth is the "highest depth rung fully passed on the
\* current PR head" of the work item.
DepthIsOfCurrentHead == depth => rowHead[wiPr] \in everGreen

\* _reverify_new_head: a push replaces the commit, so the item "earns every
\* level again".
LevelIsEarned ==
  UnderVerification => LevelEarned(rowLevel[wiPr], rowHead[wiPr])

-----------------------------------------------------------------------------
(* The inductive invariant behind the safety properties *)

\* GitHub's side: heads that are pushed, and green checks that were green.
HubIsTrue ==
  \A p \in PRs : /\ prHead[p] <= pushes
                 /\ ci[p] = "green" => prHead[p] \in everGreen

\* A PR the item or its session names has been opened.
NamedPrsExist ==
  /\ wiPr # NoPr => prHead[wiPr] # 0
  /\ report # NoPr => prHead[report] # 0
  /\ UnderVerification => wiPr # NoPr

\* A fetched snapshot is about the item's PR, and was true of its head.
SnapshotIsTrue ==
  pc = "fetched" => /\ snap.pr = wiPr /\ state \in PR_STATES
                    /\ snap.checks = "green" => snap.head \in everGreen

RowsAreEarned ==
  \A p \in PRs : rowState[p] = "open" => LevelEarned(rowLevel[p], rowHead[p])

IndInv ==
  /\ TypeOK
  /\ HubIsTrue
  /\ NamedPrsExist
  /\ SnapshotIsTrue
  /\ RowsAreEarned
  /\ ReadyIsEarned
  /\ MessagesAreCounted
=============================================================================
