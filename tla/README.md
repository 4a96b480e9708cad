# A TLA+ development of the superset hardening loop

This directory specifies the controller under `src/hardening_loop/`: a single
process that turns scanner findings into work items, GitHub issues, Devin
sessions and pull requests, and closes a finding only when a later scan of
`main` proves it absent. The specification is about the controller's state
machines and their interleaving with everything it does not control: Devin
sessions that progress between two polls, humans that label, push, merge and
close at any time, scans that arrive late or out of order, services that lose
or repeat a call, and crashes between two database commits.

## Inventory

One process owns the state. `OperatorContext` (`operator.py`) serialises a
scheduled `tick` with the operator's `launch` and `cancel` under one lock, so
controller code never runs concurrently with itself; the other writers of the
SQLite file are the `ingest` and `assets sync` commands. Concurrency therefore
comes from *outside*: between any two statements of a tick, Devin, GitHub, a
human, another command or a crash may move. A tick is a sequence of phases

    poll_scans -> poll_sessions -> poll_pull_requests -> poll_human_labels
      -> apply_pending_scan_runs -> create_work_items
      -> dispatch (open_issues, _recover_dispatching, loop of _dispatch_one)
         or, without auto-dispatch, open_issues and _recover_dispatching
      -> poll_sessions(only=adopted)

each of which reads its targets once and then runs one write transaction per
work item (two or more for a dispatch, which commits its reservation before it
calls Devin).

| Component | State it keeps | Operations | What is hard | Modules |
|---|---|---|---|---|
| Lifecycle tables (`orchestrator/state.py`, `domain/enums.py`) | none (pure) | `next_work_item_state`, `next_finding_state`, `_wi`, `_finding` | an event fired in a state the table does not list | `Lifecycle`, `FindingLifecycle` |
| Dispatch (`engine.py` dispatch, recovery, launch, cancel; `launch.py`) | work item state, `active_session_id`, `dispatch_failures`, session rows | reserve, adopt, create, record, fail, launch, relaunch, cancel | a crash between `create_session` and its row; lost answers; capacity and budget against sessions nobody polls | `Dispatch`, `SessionLease` |
| Session polling (`poll_sessions`, `assess.py`, `policy.py`, `devin/enums.py`) | `acus_consumed`, poll rows | poll, assess, answer, warn | reports that are late, old, or claim another PR | `Dispatch` (commits), `Assess` (verdict) |
| Pull request verification (`_apply_pr` and below, `verification.py`) | PR row, head, level, review, retries | record, checks, retry, review, approval, merge, new head | evidence about one head applied to another; a commit rolled back after a message | `PullRequest`, `Ladder` |
| Human labels (`poll_human_labels`, `_sync_human_label`) | `human_resolution`, `retries_used` | retry, disposition, disagreement, abandon | a label consumed without its transition | `Tracker` |
| Grouping and issues (`create_work_items`, `open_issues`) | group keys, issue binding | group, join, open, adopt an issue | duplicate issues after a crash; regression items | `Tracker`, `Closure` |
| Scan intake (`ingest/intake.py`, `ingest/persist.py`) | `ScanIntake`, `ScanRun`, findings | poll, verify, persist, `ingest --run-id` | two processes, two transactions, backlog order | `Intake`, `Closure` |
| Ingest parsing and evidence (`trivy.py`, `grype.py`, `normalize.py`, `classify/`, `gate.py`, `vex.py`, `evidence.py`) | none | parse, merge, classify, group, gate, load a bundle | one vulnerability under several names; evidence of two builds | `Findings`, `Workflow` |
| Closure (`closer.py`, `apply_scan_run` and below) | finding states, `closed_by_run_id`, `closure_applied_at` | close, regress, drift, supersede, replay | old evidence applied late; effects that outlive a rollback | `Closure` |
| Devin and GitHub clients (`devin/rest.py`, `github/rest.py`) | none | `_request`, `_paginate` | a repeated POST that had already succeeded; a listing cut short | `Client` |
| Asset sync (`devin/assets.py`) | `devin_assets` | list, locate, write, record | two syncs, edits at Devin, rows lost to a commit elsewhere | `Assets` |
| Opening the database (`db.py`) | `schema_version` and the tables | migrate, create, check, record | several processes open one file | `Schema` |
| CI helpers and negative suite (`ci.py`, `negative.py`) | files of a workflow run; a branch and a draft PR | manifest, verdicts, lint; open, wait, judge, clean up | re-run jobs; check runs that never report; clean-up after a failure | `Workflow`, `Negative`, `Ladder` |
| Transactions (`db.py`) | SQLite snapshot and write lock | `session_scope`, `write_scope` | a snapshot that cannot be upgraded after an external effect | in the modules above |
| Operator runtime (`operator.py`) | the lock, the job | `tick`, `launch`, `cancel` | a tick that fails | `Dispatch` |
| Metrics, run report, dashboard, command line, doctor, configuration, replay and test doubles | own tables or none | compute, render, start | presentation | not modelled |

`PROJECT.json` lists the same components with their sources, every hazard with
its line and the properties about it, and the source lines of each definition.

## Modules

A state-machine module declares its variables, one action per commit, call or
handler, its properties and, where it is proved about, the inductive invariant.
`MC*` modules only choose values for TLC.

### `Dispatch`, `SessionLease`, `Lifecycle`

`Lifecycle` is the work item table as `WiAfter`, the way `Orchestrator._wi`
applies it: an event the table does not list escalates a blockable state and
changes no other. `SessionLease` is what dispatch promises: a request for a
session may make several, as the client repeats a POST; an item has the sessions
of at most one request alive and holds at most one session, beside which only
those of the same request work; an ended session once held is never held again;
a message may wake one that is held.

In `Dispatch`, `state`, `session`, `failures`, `retries`, `hasPr` are the
columns `state`, `active_session_id`, `dispatch_failures`, `retries_used` and
`pr_number IS NOT NULL`; `rows` and `seen` are the session rows and their
`acus_consumed`. `owner`, `status` and `spent` are Devin's side; `siblings`, a
history variable no guard reads, is what the create call that made a session
made in all (`Posted`: up to `MaxPosts`, which is four in `_request`). `approved`
is the `dispatch:approved` label. `pc` is where the controller thread is; `todo`,
`cur`, `made`, `launching`, `granted` are its local variables, lost by an
interruption. A tick is `StartTick`, one `PollItem` per item, `EndPoll`,
`Recover` for each item found in `dispatching`, `EndRecover`, then `Reserve` or
`PassOver` for each candidate. A reservation goes on through the three commits
of `_dispatch_one`: `AdoptTagged`, `CreateSession`, `RecordSession`. An
operator's `Launch` joins at `AdoptTagged`; `Cancel`, `TerminateSession` and
`RecordCancel` are the commits of `cancel`. `Interrupt` may strike at every `pc`
but `idle`, and `RetryInterrupted` between a retry message and the commit that
counts it; `MembersJoin` is the message of `_members_joined`; `Messaged` is a
message re-opening a session that has finished, exited or stalled.

Abstractions, and why they are sound for what is stated: a snapshot is fetched
and applied in one step, as only the controller writes the rows and what the
outside does in between commutes to after the step (`PullRequest`, where it does
not, splits the two). In the polling phase an item passes through one handler a
tick, where the code may take it through two. The verdict on a session, the
outcome of a PR poll and of a closing scan are nondeterministic within what
`Assess`, `PullRequest` and `Closure` compute. Devin keeps a session within its
`max_acu_limit`, in whole ACUs.

### `PullRequest`

One work item from its session's report to its merge. `Fetch` reads the PR and
the checks of its head without the lock; the six `Apply…` actions are the
branches of `_apply_pr`, which reads review and approvals and commits.
`Push`, `RunChecks`, `Approve`, `EndReview`, `ClosePr`, `Report`, `WakeUp` move
GitHub and Devin in between. Commits are numbered as pushed; `everGreen`,
`review` and `approved` say what is true of each. `PollRaises` is a call that
fails after the message was sent, so that the transaction is unwound.
`rowHead`, `rowLevel`, `rowState` are the PR row, `level` and `depth` the work
item's columns. Merges end at `merged`; `Closure` goes on.

### `Closure`, `FindingLifecycle`

Runs are numbered by `finished_at` and finish, are ingested and are applied in
any order; each reports a finding as absent, suppressed by a VEX document, seen
by one scanner, by both, or without a kind, and is complete evidence about a
set of findings at a commit. `ApplyRun` is one transaction of
`apply_scan_run`: `CloseItems` for the items the run has evidence about,
`AfterRegressions`, `AfterDrift`; `ApplyCut` is the same rolled back with its
GitHub effects standing. `ObserveMerge` replays the runs already applied
(`_close_from_applied_runs`), one after the other: `Replayed` is a recursive
function of the run. `GroupFindings` opens, joins or re-opens a group under
`base#rN`. All findings share one group, which is the case in which they
interact; `session_active` stands for every active state. The detectors of a
finding, whether the policy digest must match, and the jobs a detector needs
(`closer.py:145-154`, `:234-237`) do not change while runs are applied: they are
in the word a run says of a finding and in what it is evidence about. What a merge observed
late may not miss (`EvidenceIsNotMissed`) is said of each member of an item, as
a member that a later run reopened leaves the item to its own next group.

### `Intake`

The controller's poll and the `ingest` command on one database. `Poll` or
`IngestRunId` makes a batch, a set of runs worked through from the oldest; `Look`, `Check`, `Persist`, `Record` are the steps
on its first run: download and unpack, validate, write the `ScanRun`, write the
`ScanIntake` row, the last two in transactions of their own. Of a bundle's
jobs the runtime jobs are kept one by one, and `others` says whether all
remaining jobs and the scanners succeeded. `Fail` is a crash
or an exception at any of them, `CheckUnanswered` a GitHub answer that is lost
and taken for a refusal. `misled` remembers runs so judged, or judged while
still running or half-unpacked.

### `Tracker`

Issues as GitHub has them, with title, labels and whether they are open;
`StartPass` and `OpenNext` are `open_issues` with the listing it took at its
start, `PollClosed`, `PollRetry`, `PollResolution` the branches of
`poll_human_labels`, `Move` and `MoveRolledBack` a transition by another
component with the label sync `_wi` makes. A call may be lost, be repeated by
the client, or be answered and then rolled back (`faults`). Ghost variables
(`spare`, `hidden`, `stray`, `retried`, `lost`) count what a fault left behind,
so that the properties say precisely what remains when calls fail; `hidden`
counts the issues that were filed and then lost while an older one of the title
hid them from the listing. `OrphansWillBeAdopted` is a safety property: the
orphans of a title are never more than the items still waiting for one and
what the ghosts counted.

### `Findings`, `Workflow`

`Findings` computes from sets of scanner entries the records of each parser,
the canonical key, the merge, the class of each finding, the candidates and the
gate. `Workflow` is one run of the workflow with its re-runs: artifacts stay
when the jobs that made them are not run again. `MCEvidence` runs the second
and, on an accepted complete bundle, the first.

### `Client`, `Assets`, `Ladder`, `Negative`, `Assess`, `Schema`

`Client` gives the outcomes of a call after the retries of `_request` (how
often it took effect, whether it returned) and what a listing read page by page
returns; `Assets` and `Negative` make their calls through it. `Assets` is
`AssetSyncer.sync` step by step for several processes, with a commit of the
controller in between; its listings are sets, as nothing depends on their order,
and `excused` names the assets that may exist twice, with the reason at the
action that adds them. `Ladder` is `verification.py` on check runs. `Negative`
is `NegativeRunner` against a workflow whose jobs end in any way. `Assess` is
the decision of `assess.py` with `resolve_pull_request`, the file policy and the
session predicates, as pure functions. `Schema` is `init_db`: look, migrate one
step per transaction, create, check or record, by several processes that may
die anywhere. `MCTools` runs one of assets, negative and the opening, and
checks the four properties of `Assess` over every snapshot as assumptions.

## What is checked

| Run | Instance | Shows |
|---|---|---|
| `dispatch_one_item` | 1 item, 4 sessions, 2 interruptions, lost answers, repeated create calls | the inductive invariant; one create call at work per item; beside a bound session only its repeats work; no committed state is out of every poll's reach; refinement of `SessionLease`; an ended session stays released; only humans release |
| `dispatch_slots` | 2 items, 2 sessions, 1 slot, 1 interruption | bindings are recorded and never shared; creation within `max_concurrent_sessions` |
| `dispatch_budget` | 2 items, 2 sessions, 2 slots, a budget of one cap | creation within `global_acu_budget` |
| `dispatch_progress` | 1 item, 2 sessions, 1 interruption, fairness | a reservation ends; an ended session is noticed |
| `live_run_spend` | 2 items, 1 slot, a budget of one cap | a violation: the finding below |
| `pull_request_life` | 1 PR, 2 heads, 1 retry | the inductive invariant; a level is earned by the row's head; what is offered to a human was green and reviewed at that commit; an offer, or its move to another commit, is made by the poll that read that commit green and reviewed |
| `review_and_retries` | 1 PR, 1 head, 1 unwound transaction, fairness | retry messages beyond the counted ones are unwound transactions; a review ends |
| `closure` | 2 findings, 2 items, 3 scans, 1 merge, 1 rolled-back evaluation | the scan that finished last decides; a closure stands against applied evidence; verified items have closed members; a merge observed late misses no evidence |
| `intake` | 2 runs, 11 bundles, 2 processes, 2 faults | the two rows of a run agree; a complete run rests on proven evidence; every run is seen |
| `tracker` | 2 items of one title, 3 issues, 2 faults | issues are bound once and orphans adopted; labels follow the state; a label counts once; humans are heard |
| `evidence` | reports of up to 2 entries, 2 attempts, 8 documents | nothing is lost in the merge; groups hold what one change removes; the manifest claims no more than its evidence and the intake takes it |
| `tools` | 3 syncs of 2 processes for two playbooks of one title and a note; 5 negative cases; 4 openings by 3 processes | a settled tree is left alone but for what two files share; one copy of each asset; a PASS is backed by checks, ladder and scans; code that opens the database finds its schema |

Why the bounds are enough. The lease properties are about one item at a time:
two items share only capacity and budget, which the two-item runs vary. Four
sessions let an item lose one, adopt one and be about to create another, and two
create calls each be repeated; two posts instead of four already make sessions
that nobody binds. Two interruptions let a crash happen again in the recovery
from the first. In every passing run of `Dispatch` a create call may be repeated.
`MaxFailures` of 1 or 2 reaches both branches of `_dispatch_failed`, `Retries`
of 1 both of `_retry_or_fail`. Two heads are the one judged and the one pushed
meanwhile. Three scans are the closing one, one that contradicts it and one that
arrives out of order; two findings let a member be closed by one run and the
other by the next. Two runs and a limit of one make a backlog; of eleven
bundles each has one defect at most. Two items of one title are a group and its regression, the only
way titles coincide. Two entries per report are the same vulnerability twice, or
two that must not be merged. Three processes in `Schema` are two upgrades and
one that looks. Symmetry is used only for safety properties and over values the
configuration treats alike.

Deadlock is checked in the dispatch runs, where the controller ticks for ever.
The others may stop: a merged or abandoned item ends `PullRequest`, and the
bounds on runs, faults, labels and openings end the rest.

### Fairness

- `Dispatch`: `WF` of `TickStep` and of `TerminateSession \/ RecordCancel`, as
  one thread runs to the end of its tick or request. `SF` of `StartTick`: the
  scheduler fires every `poll_interval_seconds` and waits for the lock, so it
  gets its turn between an operator's requests. `SF` of `PollSession(i)`:
  `get_session` failures are caught and the poll is repeated each tick.
- `PullRequest`: `WF` of `Fetch` and `Apply`, which every tick does for an item
  under verification, and of `TimePasses`, the clock of
  `review_timeout_minutes`. Failing calls are finite. `ReviewEnds` assumes in its
  statement that CI settles, and nothing of Devin Review.
- `Intake`: `WF` of the poll's five steps, as ticks follow one another; the
  command need not be run, and faults are finite.
- `Tracker`: `WF` of `StartPass`, `OpenNext` and of `PollItem(i)`, for the same
  reason.

Nothing is assumed of people, of the operator or of a session's progress.

## Where the code and its documents part

`live_run_spend` is the one configuration in `PROJECT.json` that TLC is expected
to refute:

1. The budget reserves the cap of a session only while an active item holds it.
   With the settings of the live run, a session whose item is `needs_human`
   works on while a second item is launched, and the two spend more than the
   budget that `docs/settings.md` and `docs/live-run.md` promise.

The configurations below are kept beside it to be run by hand
(`tlc -config <file>.cfg <module>`, with `-continue` where one names two
properties). Each finds its property violated.

| Configuration | Property | What the trace shows |
|---|---|---|
| `MCDispatchRepeatedPosts` | `OneActiveSession` | `_request` repeats a POST after a lost answer, so one `create_session` may make two sessions; the second is never bound, polled or budgeted |
| `MCDispatchHumans` | `FailedLaunchRevokesApproval` | `launch` takes `dispatch:approved` back when a GitHub call fails, not when `_dispatch_one` does, so a tick may dispatch the item later |
| `MCDispatchHumans` | `RetryGetsFreshSession` | a running session whose detail is `finished` is active, so a human retry binds it again; `_adopt_tagged_session` promises a fresh one |
| `MCPullRequestHead` | `LevelIsEarned`, `DepthIsOfCurrentHead` | a push seen together with its merge or its close keeps the level and the depth of the old head |
| `MCPullRequestSecond` | `LevelIsOfTheTrackedPr` | after a human retry leads to a second PR the item keeps the level of the first |
| `MCPullRequestMessages` | `MessagesWithinRetries` | `comment_issue` fails after `send_message`; the counter is rolled back and the message is sent again |
| `MCClosureGroup` | `OneOpenItemPerGroup` | a group that returns after closure has the key `base#r1`, the lookup asks for the base key, and a third item is opened |
| `MCClosureHumans` | `ClosedByAHuman` | the issue of a superseded item stays closed when the transaction is rolled back and is read as a human's decision |
| `MCClosureHumans` | `FlagWaitsForAPerson` | an item that a rescan flagged leaves `needs_human` by itself, because its merged PR is read as a new merge at every poll |
| `MCClosureSettle` | `WaitsForAnotherScan` | the second run fixes one member and the third the other; when a fourth reopens the first, which leaves the item, the runs the item already has would prove it, and it waits for yet another |
| `MCIntakePoison` | `EveryBundleIsRecorded` | `ingest_run` raises outside the `try` that records a rejection; the run gets no row and heads every later batch |
| `MCTrackerTitle` | `NoOrphanIsHidden` | the listing keeps the oldest issue of a title, so of two orphans one is never adopted |
| `MCTrackerResolution` | `ResolutionIsHeard` | a resolution label read in `failed` sets `human_resolution` without an event, and later ones are ignored |
| `MCEvidenceNoFix` | `NoFixFromAnyReporter` | one scanner reports a key twice, the second time without a fixed version, and the finding is classified as having none |
| `MCToolsTitles` | `SecondSyncIsSilent` | `load_assets` takes two playbooks of one title; where both adopt one asset they overwrite each other's text at every sync, and the sentence of `assets.py:8` fails |
| `MCToolsEffects` | `EffectsAreRecorded` | the sync calls Devin inside `session_scope`; a commit elsewhere makes its write fail and the row is lost (`db.py:14` says to use `write_scope`) |
| `MCToolsEffects` | `AlwaysCleansUp` | the PR is opened before the `try` whose `finally` cleans up |
| `MCToolsOpening` | `VersionNeverFalls` | two upgrades of a version-4 file: step 5 has no statement that could fail, so the slower process records 5 after the faster one recorded 6, and every later opening fails on the column step 6 has already added |
| `MCToolsOpening` | `ReadsItsSchema` | the dashboard is served between the last step and `create_all` |

Two more, without a configuration. With `Abandoned = TRUE`, an older release
that died between creating its tables and its first row leaves a file the code
takes for a new one, and `ServesItsSchema` fails too. And the docstring of
`verification.py` has a rung `failed` "when any completed one failed", while
`_component_status` reports a component `pending` as long as any run of it is:
`Ladder` follows the code.

## What is proved

TLAPS checks the theorems below for every value of the constants. The named
assumptions are those of the modules, which TLC evaluates in every run.

| Theorem | Module | Assumes |
|---|---|---|
| `DispatchInvariant`, `DispatchTypeOK`, `NothingIsEverStranded`, `BindingsAreRecorded`, `CreationStaysWithinCapacity`, `CreationStaysWithinBudget`, `EndedSessionIsReleased`, `SessionsAreReleasedByHumans`, `AtMostOneCallAtWork`, `RepeatsOnlyWorkBeside`, `DispatchImplementsLease` | `DispatchProofs` | `SetsAssumption`, `LimitsAssumption` |
| `PrInvariant`, `OfferIsEarned`, `OffersAreOfThePolledHead`, `LevelsAreEvidence`, `RetriesAreCounted` | `PullRequestProofs` | `PrAssumption` |
| `ColumnsGoTogether`, `LatestRunIsNamed`, `VerifiedMeansClosed`, `FixedStandsAgainstEvidence`, `ScansBeforeTheMergeCount`, `ClosuresHaveTheLastWord` | `ClosureProofs` | `ClosureAssumption` |
| `Types`, `RowsAlwaysAgree`, `CompleteIsAlwaysProven`, `RowsStayFinal` | `IntakeProofs` | `IntakeAssumption`, `BundlesAssumption` |
| `BindingsAreSound`, `LabelsTellStates`, `RequestsAreCounted`, `OrphansAreCovered` | `TrackerProofs` | `TrackerAssumption` |
| `WorkflowInvariant`, `TheBundleTellsTheTruth` | `EvidenceProofs` | nothing |
| `FindingsInvariant`, `NoReportIsLost`, `GroupsAreOfOneChange` | `EvidenceProofs` | `FindingsAssumption` |
| `AssetsInvariant`, `AssetsAreNotDuplicated`, `SecondSyncIsQuiet` | `AssetsProofs` | `AssetsAssumption` |
| `MeritsOnly`, `DeadSessionsAreJudged`, `DoneSessionsAreJudged`, `ReadyWasConfirmed` | `ToolsProofs` | words that the services use |
| `APassIsEarned` | `ToolsProofs` | `ClientAssumption`, `NegativeAssumption` |
| `SchemaInvariant`, `WritersFindTheirSchema` | `ToolsProofs` | `SchemaAssumption`, `~Abandoned` |

**The lease.** The client repeats a POST, so one `create_session` may make
several sessions, of which the controller binds one; that an item never has two
at work is false (`MCDispatchRepeatedPosts`). What holds is that all of them come
from one call: `OneCallAtWork`, and beside a bound session only its repeats work,
`OnlyRepeatsWorkBeside`. Neither is inductive, for they say nothing of the item
whose create call is under way. `IndInv` adds `ControlState`, what the program
counter promises: at `create` no session tagged with the item is active, which
`AdoptTagged` has just seen and no step of Devin can undo, since only a create
call makes a session and only a bound item is sent messages; at `record` only
what the call made is active, and none of it is recorded. `CallsAreApart` says
that calls share no sessions. Adoption picks an active session first, and by
`OneCallAtWork` every other active one is its sibling (`PreferredIsTheOne`), so
binding it keeps `OnlyRepeatsWorkBeside`; with none active, whatever it picks
cannot act. `BoundItemsAreUnderWay` says that an item that is queued, open or
dispatching is bound to nothing, which is why a dispatch never drops a session.
A message may wake a session that has ended, but only the one its item is bound
to, and what else is active is of the same call (`MessagedSession`). For the
refinement every step is classified (`LeaseStep`) as one that keeps, ends,
releases, takes, starts or wakes; the first maps to a stutter and the others to
the lease's actions, a create call with all it made to one `Start`.

**Nothing is stranded.** Each committed state is one some later poll looks at,
which is `Placed` of each item: none is left in a state that no transition ends
in, one that works has its session, one under verification its pull request.
A step moves one item (`PlacedStays` has the others), and the states in
`RestStates` ask for neither.

**Capacity and budget.** The limit is checked where an item is reserved, and a
session asked for several steps later. `CapacityInv` and `BudgetInv` say that
it holds as long as a reservation is under way: the reserved item is at most one
more in flight (`OneMoreInFlight`) and commits no budget yet
(`ReservationCommitsNothing`), and no step until the create call changes what
was counted (`ReservationStays`, `SameBudget`). No sum is ever computed in the
proof: what it is a sum of stays the same. The properties speak of the create
call, for a human retry may leave more sessions at work than there are slots.

**Pull requests.** `ReadyIsEarned` and `EvidenceIsOfTheHead` speak of rows only,
and a row is written from a snapshot that was true when it was fetched. `IndInv`
carries what lasts of it: `SnapshotIsTrue` says that green checks of the
fetched head were green once (`everGreen` only grows), that the snapshot is
about the item's PR, and `RowsAreEarned` that the level of every open row is
earned by the row's head, whether or not the item tracks it. A new head takes
the level down before anything is weighed (`Reverified`), and the review is
asked for the snapshot's commit, so nothing of the old head is carried over.
One lemma per kind of step (`PushKeeps`, `GreenKeeps`, ...). For
`OffersAreOfThePolledHead`, `GreenOffers` is the only step that offers, or moves
an offer; `OtherStepsOfferNothing` has the others. A review need not be one the
controller asked for, so a head may be pushed, reviewed and green between two
polls and the offer move to it in one step: that is in the model and in order.

**Closure.** The invariant is `Inv` (columns that go together), `LatestWord`
(the run a finding's row names is the last applied one that speaks of it),
`VerifiedMembersAreClosed`, `StandingEvidence` and `EvidenceIsNotMissed`, and
each needs the others: that a closure stands rests on the run that closed being
the latest, that a late merge misses nothing on the members being where the
runs left them. An application of a run is four transformations of the
database; each has a lemma that says pointwise what it does (`FireEffect`,
`DecidedEffect`, ...), and the rest of the proof uses these only. The replay is
a recursive function, which the prover cannot do induction over; instead the
least run up to which it would not exist, or not hold what it should, is
refuted (`WFMin`).

**Intake.** Two processes work on one run at once, so neither its rows nor the
bundle a process holds say enough. `Standing` is what a process knows by the
step it stands at, `Recorded` what the two rows of a run owe to each other and
to its bundle; a process that records finds its own `ScanRun` or that of the
other, which was proven by the same bundle.

**Issues and labels.** `Inv` has a listing that is a subset of what was filed,
bindings that no two items share, and issues that nobody is bound to as they
were filed. `OrphansAreCovered` is a counting argument over finite sets: a
step for an item files issues or none and binds it or not (`Filing`, `Binds`),
`OrphansAfterFiling` says what that makes of the orphans of a title, and
`StaysCovered` has the arithmetic. An earlier form of the property was refuted by the attempt: an issue
that a cut pass files while an older orphan hides it from the listing was
counted nowhere. The two faults of the run had not been enough to show it.

**The bundle.** What a manifest claims has to survive jobs that run again after
it was written, so the invariant says what it rests on (`Backed`) and not what
the jobs are now.

**The merge.** That nothing is lost is a statement about a loop. `AllStand` is
its invariant: after n records each key has one finding, whose reporters are the
scanners of its records among them and whose severity is the highest of theirs.
`RecordJoins` keeps it over one record, and the least n at which it could fail
is refuted, as for the replay. The key of a record tells a configuration from a
vulnerability (`IsRecord`), so no record can turn one into the other. The gate
is judged on the findings of the policy reports, and `GateCountsRecords` brings
its verdict back to their records. The theorems are of `FSpec`, any reports of
any length; the run adds when they may be read.

**Asset copies.** A lone process sees every copy, by its listing (`Sees`); a
copy whose title is not the file's any more is found by the recorded id, in
the row and in every process under way (`Follows`). With two processes, a lost
answer or a title that changes hands this fails, and `excused` says where. That
the last of these is a reason came from the proof: two files of one title may
adopt each other's copy, and the retitled copy is then nobody's. It takes four
syncs, more than the run has, and the property as it was before was false.

**A second sync.** The row of an asset nobody touched since is what Devin has
(`Untouched`), and what a process left alone has listed and written is still so
(`Faithful`); one that starts calm then locates every asset by its row and finds
it as its file says (`CalmLocates`). Another file's sync can spoil that: two
playbooks may have one title, `load_assets` checks the names of notes alone, and
both then adopt one asset. So each of these says "unless it is `Contended`",
which holds of an asset and a file once another file's sync has made or written
the asset. Nothing ends it, an update makes it so for every file but its own
(`UpdateCalm`), and that is all the titles can do: such a sync never creates, and
what it updates is contended, whatever the tree. `SecondSyncIsSilent` is the
sentence of `assets.py:8` itself, and `MCToolsTitles` its counterexample.

**A PASS.** A verdict is given on one listing and stays true of the check runs,
as those are only added to and one that has completed is not touched
(`Longer`). The ladder weighs all runs of a job and a case only the first that
completed, so where that one did not succeed no rung of the job is passed
(`NoRungOfABrokenJob`). `PagesAreTheListing` is what makes the verdict one about
all check runs: a listing that does not raise is complete.

**Verdicts on sessions.** `Assess` has no state; its theorems are case analyses
of the decision, which `Dispatch` relies on in `Verdicts` and `PullRequest` in
`PollSession`.

**The schema.** A version row vouches for its columns because it is committed
with them, and rows, columns and tables are only ever added. The invariant says
what each place in `init_db` may rely on (`PlaceVouches`); `Grows` shows that no
step of another process takes it away. It does not need the recorded version to
rise, and it does not.

Only model-checked: the liveness properties (`ReservationsEnd`,
`EndedSessionIsNoticed`, `ReviewEnds`, `EveryRunIsSeen`, `HumansAreHeard`), which
are outside what TLAPS can prove.

## Not modelled

- Metrics, run report and dashboard read rows and render them; no decision of
  the controller depends on them. The dashboard's two write routes call
  `launch` and `cancel`, and its opening of the database is in `Schema`.
- The command line, doctor and configuration: entry points and checks of
  settings. What a command does to the state is modelled with the component that
  does it.
- Replay and the test doubles: scripts for demonstrations. The modules model
  the services from how the controller uses them.
- Of the transactions, the busy timeout of SQLite and a read snapshot held
  across a tick. `write_scope` is one action where nothing is called inside it,
  and is rolled back where a call may fail; the deferred transaction of
  `session_scope` is in `Assets`.
- Of the operator runtime, start-up and shutdown.
- Of the negative suite, what a mutation writes into a checkout: it stands in
  the ways the jobs may end. The scan workflow is not in this repository and is
  modelled from what `ci.py` and `evidence.py` read of it.
- Texts: issue bodies, comments, prompts, logs.
