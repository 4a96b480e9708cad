------------------------------ MODULE Tracker ------------------------------
(***************************************************************************)
(* Work items and their GitHub issues: open_issues files or adopts an      *)
(* issue for each queued item, _sync_human_label keeps the needs-human     *)
(* label in step with the item's state, and poll_human_labels reads what   *)
(* people ask for by labels or by closing the issue.  A call to GitHub may *)
(* be lost, repeated by the client, or answered just before a crash or an  *)
(* error rolls back the transaction that made it.                          *)
(*                                                                         *)
(* The lock of the operator runtime keeps ticks and launches apart, so the *)
(* only state that outlives a transaction in memory is the listing that    *)
(* one open_issues pass works with.                                        *)
(***************************************************************************)
EXTENDS Integers, FiniteSets, Sequences, Lifecycle

CONSTANTS Items, TitleOf, Resolvable, MaxIssues, MaxFaults, MaxMoves, MaxAsks

ASSUME TrackerAssumption ==
  /\ IsFiniteSet(Items) /\ Resolvable \subseteq Items
  /\ {MaxIssues, MaxFaults, MaxMoves, MaxAsks} \subseteq Nat

VARIABLES
  state,       \* WorkItem.state
  issue,       \* WorkItem.issue_number, 0 without one
  resolved,    \* WorkItem.human_resolution is set
  filed,       \* GitHub: the issues, by number
  pass,        \* the queued items and the listing of an open_issues pass
  faults, moves, asks, \* calls that failed; moves by other components; labels by people
  retried, lost,       \* ghost: per item, retry labels acted on and taken off in vain
  spare,       \* ghost: per title, issues too many for a repeated post, a failed
               \* listing or a superseded item
  hidden,      \* ghost: per title, issues that a listing of one per title hid
  stray        \* ghost: items whose label a failed or rolled-back call left behind

vars == <<state, issue, resolved, filed, pass, faults, moves, asks, retried,
          lost, spare, hidden, stray>>

Numbers == 1 .. Len(filed)
NoPass == [todo |-> {}, known |-> {}]
Attention == {"needs_human", "failed"}

Titles == {TitleOf[i] : i \in Items}

Init ==
  /\ state = [i \in Items |-> "queued"]
  /\ issue = [i \in Items |-> 0]
  /\ resolved = [i \in Items |-> FALSE]
  /\ filed = <<>>
  /\ pass = NoPass
  /\ faults = 0 /\ moves = 0
  /\ asks = [i \in Items |-> 0]
  /\ retried = [i \in Items |-> 0]
  /\ lost = [i \in Items |-> 0]
  /\ spare = [t \in Titles |-> 0] /\ hidden = [t \in Titles |-> 0]
  /\ stray = {}

(***************************************************************************)
(* Filing issues.                                                          *)
(***************************************************************************)

Bound == {issue[i] : i \in Items}

\* _open_controller_issues: open, unbound, the oldest of each title.
Listing ==
  {n \in Numbers \ Bound :
     /\ filed[n].open
     /\ \A k \in Numbers \ Bound :
          filed[k].open /\ filed[k].title = filed[n].title => n <= k}

\* The open issues of a title that nobody is bound to.
Orphans(t) == {n \in Numbers \ Bound : filed[n].open /\ filed[n].title = t}

NewIssue(i) == [title |-> TitleOf[i], open |-> TRUE, labels |-> {}]

BindTo(i, n) ==
  /\ issue' = [issue EXCEPT ![i] = n]
  /\ state' = [state EXCEPT ![i] = WiAfter(@, "issue_created")]

\* Mutants: the listing is not looked at; the binding is not checked again.
FoundNone(i, known) == {n \in known : n \in Bound}
FoundListed(i, known) == {n \in known : filed[n].title = TitleOf[i]}

\* The issue of the listing that i takes, if it is still unbound.
Found(i, known) == {n \in known \ Bound : filed[n].title = TitleOf[i]}

AdoptIssue(i, known) ==
  /\ \E n \in Found(i, known) : BindTo(i, n)
  /\ UNCHANGED <<filed, faults, spare, hidden>>

\* An issue of i's title is filed, and one that the listing hid is left as it was.
LeaveHidden(i, known) ==
  hidden' = IF Orphans(TitleOf[i]) \ known # {}
            THEN [hidden EXCEPT ![TitleOf[i]] = @ + 1] ELSE hidden

\* create_issue; the client may repeat its POST, which makes a second issue.
CreateIssue(i, known) ==
  /\ Found(i, known) = {}
  /\ \/ /\ Len(filed) < MaxIssues
        /\ filed' = Append(filed, NewIssue(i))
        /\ BindTo(i, Len(filed) + 1)
        /\ LeaveHidden(i, known)
        /\ UNCHANGED <<faults, spare>>
     \/ /\ Len(filed) + 1 < MaxIssues /\ faults < MaxFaults
        /\ filed' = filed \o <<NewIssue(i), NewIssue(i)>>
        /\ BindTo(i, Len(filed) + 2)
        /\ spare' = [spare EXCEPT ![TitleOf[i]] = @ + 1]
        /\ LeaveHidden(i, known)
        /\ faults' = faults + 1

\* The issue is made or not, and the item stays queued.
CreateFails(i, known) ==
  /\ Found(i, known) = {}
  /\ faults < MaxFaults
  /\ faults' = faults + 1
  /\ \/ /\ Len(filed) < MaxIssues /\ filed' = Append(filed, NewIssue(i))
        /\ LeaveHidden(i, known)
     \/ UNCHANGED <<filed, hidden>>
  /\ UNCHANGED <<issue, state, spare>>

\* _open_issue with the listing `known`
OpenIssue(i, known) ==
  \/ AdoptIssue(i, known)
  \/ CreateIssue(i, known)
  \/ CreateFails(i, known)

\* The listing failed, for the pass and again for this item: an issue is created
\* whether or not there is one to adopt.
OpenUnlisted(i) ==
  /\ faults < MaxFaults /\ faults' = faults + 1
  /\ Len(filed) < MaxIssues
  /\ filed' = Append(filed, NewIssue(i))
  /\ BindTo(i, Len(filed) + 1)
  /\ spare' = [spare EXCEPT ![TitleOf[i]] = @ + 1]
  /\ UNCHANGED hidden

StartPass ==
  /\ pass = NoPass
  /\ \E i \in Items : state[i] = "queued"
  /\ pass' = [todo |-> {i \in Items : state[i] = "queued"}, known |-> Listing]
  /\ UNCHANGED <<state, issue, resolved, filed, faults, moves, asks, retried,
                 lost, spare, hidden, stray>>

\* The next item, by the listing of the pass or, where that failed, its own.
OpenNext ==
  \E i \in pass.todo :
    /\ pass' = IF pass.todo = {i} THEN NoPass ELSE [pass EXCEPT !.todo = @ \ {i}]
    /\ OpenIssue(i, pass.known) \/ OpenIssue(i, Listing) \/ OpenUnlisted(i)
    /\ UNCHANGED <<resolved, moves, asks, retried, lost, stray>>

\* The process dies in a pass, at most one issue after the last commit.
CrashInPass ==
  /\ pass # NoPass /\ faults < MaxFaults
  /\ faults' = faults + 1
  /\ pass' = NoPass
  /\ \/ \E i \in pass.todo :
          /\ Found(i, pass.known) = {} /\ Len(filed) < MaxIssues
          /\ filed' = Append(filed, NewIssue(i))
          /\ LeaveHidden(i, pass.known)
     \/ UNCHANGED <<filed, hidden>>
  /\ UNCHANGED <<state, issue, resolved, moves, asks, retried, lost, spare, stray>>

\* An operator launch files the issue of a queued item by a listing of its own.
LaunchOpens(i) ==
  /\ pass = NoPass /\ state[i] = "queued"
  /\ OpenIssue(i, Listing) \/ OpenUnlisted(i)
  /\ UNCHANGED <<pass, resolved, moves, asks, retried, lost, stray>>

(***************************************************************************)
(* The needs-human label.                                                  *)
(***************************************************************************)

Crosses(before, after) == (before \in Attention) # (after \in Attention)

\* Mutant: the label is only ever added.
SyncedAdding(labels, before, after) ==
  IF after \in Attention THEN labels \cup {"needs-human"} ELSE labels

\* _sync_human_label, as the labels that issue has after the call.
Synced(labels, before, after) ==
  IF after \in Attention /\ before \notin Attention THEN labels \cup {"needs-human"}
  ELSE IF before \in Attention /\ after \notin Attention
       THEN labels \ {"needs-human"}
       ELSE labels

SetLabels(i, labels) == filed' = [filed EXCEPT ![issue[i]].labels = labels]

\* The state i moves to, with its label; the call may fail without a trace.
Moves(i, after, labels) ==
  /\ state' = [state EXCEPT ![i] = after]
  /\ \/ /\ SetLabels(i, Synced(labels, state[i], after))
        /\ stray' = IF Crosses(state[i], after) THEN stray \ {i} ELSE stray
        /\ UNCHANGED faults
     \/ /\ Crosses(state[i], after)
        /\ faults < MaxFaults /\ faults' = faults + 1
        /\ SetLabels(i, labels)
        /\ stray' = stray \cup {i}

\* Events other components fire for an item that has its issue.
OtherEvents ==
  { "blocked", "retries_exhausted", "dispatch_started", "session_created",
    "human_merged", "rescan_started", "rescan_shows_present", "rescan_verified" }

Move(i, e) ==
  /\ pass = NoPass /\ moves < MaxMoves /\ moves' = moves + 1
  /\ issue[i] # 0 /\ state[i] \in Sources[e]
  /\ Moves(i, WiAfter(state[i], e), filed[issue[i]].labels)
  /\ UNCHANGED <<issue, resolved, pass, asks, retried, lost, spare, hidden>>

\* The same, rolled back after the label was changed.
MoveRolledBack(i, e) ==
  /\ pass = NoPass /\ faults < MaxFaults /\ faults' = faults + 1
  /\ issue[i] # 0 /\ state[i] \in Sources[e] /\ Crosses(state[i], WiAfter(state[i], e))
  /\ SetLabels(i, Synced(filed[issue[i]].labels, state[i], WiAfter(state[i], e)))
  /\ stray' = stray \cup {i}
  /\ UNCHANGED <<state, issue, resolved, pass, moves, asks, retried, lost, spare, hidden>>

\* _supersede: every member of the group is absent before any session ran.
Supersede(i) ==
  /\ pass = NoPass /\ state[i] \in Sources.superseded
  /\ state' = [state EXCEPT ![i] = WiAfter(@, "superseded")]
  /\ IF issue[i] # 0
     THEN filed' = [filed EXCEPT ![issue[i]].open = FALSE] /\ UNCHANGED spare
     ELSE /\ spare' = [spare EXCEPT ![TitleOf[i]] = @ + 1]
          /\ UNCHANGED filed
  /\ UNCHANGED <<issue, resolved, pass, faults, moves, asks, retried, lost, hidden, stray>>

(***************************************************************************)
(* What people ask for.                                                    *)
(***************************************************************************)

AddLabel(i, label) ==
  /\ issue[i] # 0 /\ filed[issue[i]].open
  /\ label \notin filed[issue[i]].labels
  /\ SetLabels(i, filed[issue[i]].labels \cup {label})

HumanAsksRetry(i) ==
  /\ asks[i] < MaxAsks /\ asks' = [asks EXCEPT ![i] = @ + 1]
  /\ AddLabel(i, "retry")
  /\ UNCHANGED <<state, issue, resolved, pass, faults, moves, retried, lost, spare, hidden, stray>>

HumanResolves(i) ==
  /\ i \in Resolvable /\ AddLabel(i, "resolution")
  /\ UNCHANGED <<state, issue, resolved, pass, faults, moves, asks, retried,
                 lost, spare, hidden, stray>>

HumanCloses(i) ==
  /\ issue[i] # 0 /\ filed[issue[i]].open
  /\ filed' = [filed EXCEPT ![issue[i]].open = FALSE]
  /\ UNCHANGED <<state, issue, resolved, pass, faults, moves, asks, retried,
                 lost, spare, hidden, stray>>

(***************************************************************************)
(* poll_human_labels.                                                      *)
(***************************************************************************)

\* Mutant: failed items are not looked at.
PolledNeedsHuman == {"needs_human", "issue_open", "ready_for_human"}

HUMAN_LABEL_STATES == Attention \cup {"issue_open", "ready_for_human"}

Polled(i) ==
  /\ pass = NoPass
  /\ issue[i] # 0 /\ state[i] \in HUMAN_LABEL_STATES

PollClosed(i) ==
  /\ Polled(i) /\ ~filed[issue[i]].open
  /\ Moves(i, WiAfter(state[i], "human_abandoned"), filed[issue[i]].labels)
  /\ UNCHANGED <<issue, resolved, pass, moves, asks, retried, lost, spare, hidden>>

Asked(i, label) ==
  Polled(i) /\ filed[issue[i]].open /\ state[i] \in Attention
    /\ label \in filed[issue[i]].labels

\* Mutant: the label stays on the issue.
RetryKept(i) ==
  /\ Moves(i, WiAfter(state[i], "human_retry"), filed[issue[i]].labels)
  /\ retried' = [retried EXCEPT ![i] = @ + 1]

\* The labels a retry leaves, and what it counts as.
Retry(i) ==
  /\ Moves(i, WiAfter(state[i], "human_retry"), filed[issue[i]].labels \ {"retry"})
  /\ retried' = [retried EXCEPT ![i] = @ + 1]

PollRetry(i) ==
  /\ Asked(i, "retry")
  /\ Retry(i)
  /\ UNCHANGED <<issue, resolved, pass, moves, asks, lost, spare, hidden>>

\* The label is taken off, and the process dies or the answer is an error.
PollRetryLost(i) ==
  /\ Asked(i, "retry") /\ faults < MaxFaults /\ faults' = faults + 1
  /\ SetLabels(i, filed[issue[i]].labels \ {"retry"})
  /\ lost' = [lost EXCEPT ![i] = @ + 1]
  /\ UNCHANGED <<state, issue, resolved, pass, moves, asks, retried, spare, hidden, stray>>

\* human_resolution is set before the event is fired, also in failed, where the
\* table does not list it.
PollResolution(i) ==
  /\ Asked(i, "resolution") /\ "retry" \notin filed[issue[i]].labels
  /\ ~resolved[i]
  /\ resolved' = [resolved EXCEPT ![i] = TRUE]
  /\ Moves(i, WiAfter(state[i], "human_resolved"), filed[issue[i]].labels)
  /\ UNCHANGED <<issue, pass, moves, asks, retried, lost, spare, hidden>>

\* An operator relaunch takes the retry label off too, acted on or not.
LaunchRetries(i) ==
  /\ pass = NoPass /\ issue[i] # 0 /\ state[i] \in Attention
  /\ moves < MaxMoves /\ moves' = moves + 1
  /\ Moves(i, WiAfter(state[i], "human_retry"), filed[issue[i]].labels \ {"retry"})
  /\ lost' = [lost EXCEPT ![i] =
               @ + IF "retry" \in filed[issue[i]].labels THEN 1 ELSE 0]
  /\ UNCHANGED <<issue, resolved, pass, asks, retried, spare, hidden>>

PollItem(i) == PollClosed(i) \/ PollRetry(i) \/ PollResolution(i)

Next ==
  \/ StartPass \/ OpenNext \/ CrashInPass
  \/ \E i \in Items :
       \/ LaunchOpens(i) \/ LaunchRetries(i) \/ Supersede(i)
       \/ \E e \in OtherEvents : Move(i, e) \/ MoveRolledBack(i, e)
       \/ HumanAsksRetry(i) \/ HumanResolves(i) \/ HumanCloses(i)
       \/ PollItem(i) \/ PollRetryLost(i)

Spec == Init /\ [][Next]_vars

\* Ticks follow one another; people and other components need not act.
FairSpec ==
  Spec /\ WF_vars(StartPass) /\ WF_vars(OpenNext)
       /\ \A i \in Items : WF_vars(PollItem(i))

(***************************************************************************)
(* Properties.                                                             *)
(***************************************************************************)

Issues ==
  [title : Titles, open : BOOLEAN, labels : SUBSET {"needs-human", "retry", "resolution"}]

TypeOK ==
  /\ state \in [Items -> States]
  /\ issue \in [Items -> 0 .. Len(filed)]
  /\ resolved \in [Items -> BOOLEAN]
  /\ filed \in Seq(Issues)
  /\ pass \in [todo : SUBSET Items, known : SUBSET Numbers]
  /\ faults \in 0 .. MaxFaults /\ moves \in 0 .. MaxMoves
  /\ asks \in [Items -> 0 .. MaxAsks]
  /\ retried \in [Items -> Nat] /\ lost \in [Items -> Nat]
  /\ spare \in [Titles -> Nat] /\ hidden \in [Titles -> Nat]
  /\ stray \subseteq Items

\* No issue is bound to two items, and an item's issue carries its title.
IssuesAreBoundOnce ==
  \A i \in Items :
    /\ issue[i] # 0 => filed[issue[i]].title = TitleOf[i]
    /\ state[i] = "queued" => issue[i] = 0
    /\ issue[i] = 0 => state[i] \in {"queued", "abandoned"}
    /\ \A j \in Items \ {i} : issue[i] = issue[j] => issue[i] = 0

\* Nobody closes or labels an issue before it is bound, nor is an item of the
\* pass opened by anyone else meanwhile.
UnboundIssuesAreUntouched ==
  \A n \in Numbers \ Bound : filed[n].open /\ filed[n].labels = {}

PassIsQueued == \A i \in pass.todo : state[i] = "queued"

\* The type invariant and what binding rests on: inductive.
Inv == TypeOK /\ IssuesAreBoundOnce /\ UnboundIssuesAreUntouched /\ PassIsQueued

\* An open issue nobody is bound to is one that a queued item of its title will
\* adopt, unless a repeated post, a failed listing or a supersession left one
\* too many, or another was filed while the listing hid it.
OrphansWillBeAdopted ==
  \A t \in Titles :
    Cardinality(Orphans(t))
      <= spare[t] + hidden[t]
           + Cardinality({i \in Items : state[i] = "queued" /\ TitleOf[i] = t})

\* The same, whatever the listing hid: violated for two items of one title.
NoOrphanIsHidden == \A t \in Titles : hidden[t] = 0

\* The needs-human label is on the issues of the items that wait for a human
\* and on no other, unless the call that would have set it was lost.
LabelTellsState ==
  \A i \in Items : issue[i] # 0 /\ i \notin stray =>
    ("needs-human" \in filed[issue[i]].labels <=> state[i] \in Attention)

\* A retry label is acted on once, or taken off in vain once.
EachLabelCountsOnce ==
  \A i \in Items :
    asks[i] = retried[i] + lost[i] +
      IF issue[i] # 0 /\ "retry" \in filed[issue[i]].labels THEN 1 ELSE 0

\* What a human asks for on an item that waits for one is seen, and so is the
\* closing of its issue.
HumansAreHeard ==
  \A i \in Items :
    /\ Asked(i, "retry") ~> ~Asked(i, "retry")
    /\ issue[i] # 0 /\ ~filed[issue[i]].open /\ state[i] \in Attention
         ~> state[i] \notin Attention

\* The same of a resolution label; an item that had one in failed is not heard.
ResolutionIsHeard ==
  \A i \in Items :
    Asked(i, "resolution") /\ state[i] = "needs_human"
      ~> ~(Asked(i, "resolution") /\ state[i] = "needs_human")
=============================================================================
