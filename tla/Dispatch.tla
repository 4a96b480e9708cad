------------------------------ MODULE Dispatch ------------------------------
(***************************************************************************)
(* How the controller leases Devin sessions to work items: reservation,    *)
(* adoption by tag, creation and recording of a session, recovery of a     *)
(* crashed dispatch, operator launch and cancel, and everything that takes *)
(* a work item away from its session again (orchestrator/engine.py).       *)
(*                                                                         *)
(* One lock serialises ticks, launches and cancels (OperatorContext.lock), *)
(* so there is one controller process with one program counter.  What      *)
(* moves between its steps is outside: Devin, people, and interruptions (a *)
(* crash, or an exception that unwinds the tick), which lose everything    *)
(* that is not committed.                                                  *)
(*                                                                         *)
(* Simplifications.  A snapshot fetched without the lock is applied in the *)
(* same step: what Devin or a person does in between commutes to after the *)
(* step, because only the controller writes the database.  During the      *)
(* polling phase of a tick each item is handled at most once, by one of    *)
(* the handlers its state allows, in any order; the poll of the sessions   *)
(* adopted at the end of a tick is the poll the next tick starts with.     *)
(* Retry, resolution and closure of an issue are read as inputs; only the  *)
(* dispatch:approved label, which the controller itself writes, is state.  *)
(***************************************************************************)
EXTENDS Lifecycle, Integers, FiniteSets, FiniteSetsExt

CONSTANTS
  Items,               \* work items
  Sessions,            \* session ids Devin may hand out
  AutoItems,           \* items of HIGH or CRITICAL severity
  Cap,                 \* max_acu_limit of a session
  Budget,              \* settings.global_acu_budget
  MaxConcurrent,       \* settings.max_concurrent_sessions
  MaxFailures,         \* settings.max_dispatch_failures
  Retries,             \* settings.retries_per_work_item
  MaxInterrupts,       \* bound on crashes and unwound ticks
  LostAnswers,         \* whether a failed create call may have made a session
  MaxPosts,            \* times the client makes one POST (four, _request)
  NoSession, NoItem    \* the database's NULL

ASSUME SetsAssumption ==
  /\ IsFiniteSet(Items) /\ IsFiniteSet(Sessions)
  /\ AutoItems \subseteq Items
  /\ NoSession \notin Sessions /\ NoItem \notin Items

ASSUME LimitsAssumption ==
  /\ Cap \in Nat /\ Budget \in Nat /\ MaxConcurrent \in Nat
  /\ MaxFailures \in Nat \ {0} /\ Retries \in Nat /\ MaxInterrupts \in Nat
  /\ MaxPosts \in Nat \ {0} /\ LostAnswers \in BOOLEAN

VARIABLES
  \* work_items
  state,               \* WorkItem.state
  session,             \* WorkItem.active_session_id
  failures,            \* WorkItem.dispatch_failures, up to MaxFailures
  retries,             \* WorkItem.retries_used
  hasPr,               \* WorkItem.pr_number is set
  \* sessions
  rows,                \* Session.devin_id of the recorded sessions
  seen,                \* Session.acus_consumed
  \* Devin
  owner,               \* item whose wi-<id> tag the session carries
  siblings,            \* sessions the same create call made (history variable)
  status,              \* what SessionSnapshot.status amounts to
  spent,               \* ACUs really consumed
  \* GitHub
  approved,            \* the issue carries dispatch:approved
  \* the controller
  pc, todo, cur, made, \* place, items left in a phase, item and new session
  launching,           \* the dispatch under way is an operator launch ...
  granted,             \* ... which put dispatch:approved on the issue
  interrupts

dbVars    == <<state, session, failures, retries, hasPr, rows, seen>>
devinVars == <<owner, siblings, status, spent>>
ctlVars   == <<pc, todo, cur, made, launching, granted, interrupts>>
vars      == <<dbVars, devinVars, approved, ctlVars>>

Places == { "idle", "poll", "recover", "dispatch",
            "adopt", "create", "record", "stop", "stopped" }

\* "working" stands for every status in which the session has not reported
\* and may still act (new, claimed, running, resuming, a resumable
\* suspension); "finished" is running with detail finished; "exited" is exit,
\* error or a budget stop; "stalled" is any other suspension that cannot be
\* resumed, which is neither active nor done.
Statuses == { "none", "working", "finished", "exited", "stalled" }

TypeOK ==
  /\ state \in [Items -> States]
  /\ session \in [Items -> Sessions \cup {NoSession}]
  /\ failures \in [Items -> 0..MaxFailures]
  /\ retries \in [Items -> 0..Retries]
  /\ hasPr \in [Items -> BOOLEAN]
  /\ rows \subseteq Sessions
  /\ seen \in [Sessions -> 0..Cap]
  /\ owner \in [Sessions -> Items \cup {NoItem}]
  /\ siblings \in [Sessions -> SUBSET Sessions]
  /\ status \in [Sessions -> Statuses]
  /\ spent \in [Sessions -> 0..Cap]
  /\ approved \in [Items -> BOOLEAN]
  /\ pc \in Places
  /\ todo \subseteq Items
  /\ cur \in Items \cup {NoItem}
  /\ made \in Sessions \cup {NoSession}
  /\ launching \in BOOLEAN
  /\ granted \in BOOLEAN
  /\ interrupts \in 0..MaxInterrupts

Init ==
  /\ state = [i \in Items |-> "queued"]
  /\ session = [i \in Items |-> NoSession]
  /\ failures = [i \in Items |-> 0]
  /\ retries = [i \in Items |-> 0]
  /\ hasPr = [i \in Items |-> FALSE]
  /\ rows = {}
  /\ seen = [s \in Sessions |-> 0]
  /\ owner = [s \in Sessions |-> NoItem]
  /\ siblings = [s \in Sessions |-> {}]
  /\ status = [s \in Sessions |-> "none"]
  /\ spent = [s \in Sessions |-> 0]
  /\ approved = [i \in Items |-> FALSE]
  /\ pc = "idle" /\ todo = {} /\ cur = NoItem /\ made = NoSession
  /\ launching = FALSE /\ granted = FALSE
  /\ interrupts = 0

-----------------------------------------------------------------------------
(* Derived quantities *)

Active(s) == status[s] \in {"working", "finished"}       \* is_active
Done(s)   == status[s] \in {"finished", "exited"}        \* is_done, is_budget_stop

Tagged(i) == {s \in Sessions : owner[s] = i}             \* list_sessions(wi-<id>)

\* Mutants: sessions on record only, and every session with the tag.
AdoptableRecorded(i) == {s \in Tagged(i) : Active(s) /\ s \in rows}
AdoptableEnded(i) == Tagged(i)

\* A listed session _adopt_tagged_session may bind.
Adoptable(i) == {s \in Tagged(i) : Active(s) \/ s \notin rows}

\* max(adoptable, key=(is_active, created_at)); created_at is left open.
Preferred(S) == {s \in S : Active(s) \/ \A t \in S : ~Active(t)}

ActiveItems == {i \in Items : state[i] \in ACTIVE_WORK_ITEM_STATES}

\* Mutant: one item too many.
AtCapacityLate == Cardinality(ActiveItems) > MaxConcurrent

AtCapacity == Cardinality(ActiveItems) >= MaxConcurrent

Reserved == {s \in rows : \E i \in ActiveItems : session[i] = s}

\* AcuBudgetPosition.committed
Committed == MapThenSumSet(LAMBDA s : seen[s], rows)
             + MapThenSumSet(LAMBDA s : Cap - seen[s], Reserved)

WithinBudget == Committed + Cap <= Budget

DispatchAllowed(i) == i \in AutoItems \/ approved[i]

-----------------------------------------------------------------------------
(* Binding an item to a session, and giving a dispatch up *)

Move(i, e) == state' = [state EXCEPT ![i] = WiAfter(@, e)]

\* Mutant: the item is bound, and the row forgotten.
BindWithoutRow(i, s, acus, e) ==
  /\ Move(i, e)
  /\ session' = [session EXCEPT ![i] = s]
  /\ UNCHANGED <<failures, retries, hasPr, rows, seen>>

\* _record_session of a snapshot of s that names acus, then event e.
Bind(i, s, acus, e) ==
  /\ Move(i, e)
  /\ session' = [session EXCEPT ![i] = s]
  /\ rows' = rows \cup {s}
  /\ seen' = IF s \in rows THEN seen ELSE [seen EXCEPT ![s] = acus]
  /\ UNCHANGED <<failures, retries, hasPr>>

\* _dispatch_failed
FailDispatch(i) ==
  /\ failures' = [failures EXCEPT ![i] = IF @ < MaxFailures THEN @ + 1 ELSE @]
  /\ Move(i, IF failures[i] + 1 >= MaxFailures THEN "blocked"
                                               ELSE "dispatch_failed")
  /\ UNCHANGED <<session, retries, hasPr, rows, seen>>

\* The end of _dispatch_one: back to the dispatch loop, or out of launch().
DispatchReturns ==
  /\ pc' = IF launching THEN "idle" ELSE "dispatch"
  /\ cur' = NoItem /\ made' = NoSession
  /\ launching' = FALSE /\ granted' = FALSE
  /\ UNCHANGED <<todo, interrupts>>

-----------------------------------------------------------------------------
(* A tick: the polling phase *)

StartTick ==
  /\ pc = "idle"
  /\ pc' = "poll" /\ todo' = Items
  /\ UNCHANGED <<dbVars, devinVars, approved, cur, made, launching, granted,
                 interrupts>>

Polled(i) ==
  /\ pc = "poll" /\ i \in todo
  /\ todo' = todo \ {i}
  /\ UNCHANGED <<owner, siblings, spent, approved, pc, cur, made, launching,
                 granted, interrupts>>

\* Mutant: a session that ended without a report is waited for.
VerdictsPatient(s) ==
  {"needs_human", "ready_for_verification", "continue_polling"}

\* What assess() may decide about the session's snapshot.  A report, or an
\* idle session that declares its PR, is judged; a session still at work is
\* left alone, or handed over: an unknown question, a required approval, the
\* wall clock, which is all that ends the wait for a stalled one.  Answers and
\* warnings change nothing modelled here.
Verdicts(s) ==
  {"needs_human", "ready_for_verification"}
    \cup (IF Done(s) THEN {} ELSE {"continue_polling"})

\* poll_sessions and _apply_snapshot for one item
PollSession(i) ==
  /\ Polled(i)
  /\ state[i] = "session_active" /\ session[i] # NoSession
  /\ IF session[i] \notin rows
     THEN /\ Move(i, "blocked")
          /\ UNCHANGED <<session, failures, retries, hasPr, rows, seen>>
     ELSE \E verdict \in Verdicts(session[i]) :
            /\ seen' = [seen EXCEPT ![session[i]] = spent[session[i]]]
            /\ \/ /\ verdict = "needs_human"
                  /\ Move(i, "blocked") /\ UNCHANGED hasPr
               \/ /\ verdict = "ready_for_verification"
                  /\ hasPr' = [hasPr EXCEPT ![i] = TRUE]
                  /\ state' = [state EXCEPT ![i] =
                                 WiAfter(WiAfter(@, "pr_opened"), "checks_started")]
               \/ verdict = "continue_polling" /\ UNCHANGED <<state, hasPr>>
            /\ UNCHANGED <<session, failures, retries, rows>>
  /\ UNCHANGED status

\* send_message to the item's session, which takes it up again, or not: Devin
\* resumes a session on a message also after it has exited.
Messaged(i) ==
  \E to \in {status[session[i]], "working"} :
    status' = [status EXCEPT ![session[i]] = to]

\* _apply_pr of a merged, a closed and an open PR.  A merge is weighed against
\* the scans applied before it was seen (_close_from_applied_runs).  A push sends
\* an item that waits for a review or a human back to its checks
\* (_reverify_new_head); a red verdict is answered with a retry message or ends
\* the item (_retry_or_fail); a green one is followed by the review
\* (_check_review).
AfterMerge(s) ==
  LET merged == WiAfter(IF s \in {"ready_for_human", "needs_human"}
                        THEN s ELSE WiAfter(s, "blocked"), "human_merged")
      weighed == WiAfter(merged, "rescan_started")
  IN {merged, weighed} \cup
     {WiAfter(weighed, e) : e \in {"rescan_verified", "rescan_shows_present"}}

AfterClose(s) ==
  IF s = "needs_human" THEN s ELSE WiAfter(s, "pr_closed_unmerged")

Heads(s) ==
  IF s \in {"review_pending", "ready_for_human"}
  THEN {s, WiAfter(s, "new_head_pushed")}
  ELSE {IF s = "pr_open" THEN WiAfter(s, "checks_started") ELSE s}

\* Mutant: the retry is left to the next tick.
AfterRedDeferred(s, mayRetry) ==
  IF s \in {"checks_running", "review_pending", "ready_for_human"}
  THEN IF mayRetry THEN WiAfter(s, "checks_red")
       ELSE WiAfter(WiAfter(s, "checks_red"), "retries_exhausted")
  ELSE s

AfterRed(s, mayRetry) ==
  IF s \in {"checks_running", "review_pending", "ready_for_human"}
  THEN WiAfter(WiAfter(s, "checks_red"),
               IF mayRetry THEN "retry_sent" ELSE "retries_exhausted")
  ELSE s

AfterGreen(s, review) ==
  LET green == IF s = "checks_running" THEN WiAfter(s, "checks_green") ELSE s
  IN IF green = "review_pending" /\ review # "waiting"
     THEN WiAfter(green, review) ELSE green

PrOutcomes(s, mayRetry) ==
  AfterMerge(s) \cup {AfterClose(s)} \cup
  IF s = "needs_human" THEN {s}
  ELSE UNION { {h, AfterRed(h, mayRetry)} \cup
               { AfterGreen(h, review) : review \in
                   {"waiting", "review_completed", "review_not_observed"} }
               : h \in Heads(s) }

PR_STATES == { "pr_open", "checks_running", "review_pending",
               "ready_for_human", "needs_human" }

\* poll_pull_requests and _apply_pr for one item; the retry message is sent to
\* the item's own session and counted.
PollPullRequest(i) ==
  /\ Polled(i)
  /\ state[i] \in PR_STATES /\ hasPr[i]
  /\ \E after \in PrOutcomes(state[i],
                    retries[i] < Retries /\ session[i] # NoSession) :
       /\ state' = [state EXCEPT ![i] = after]
       /\ \/ /\ after = "session_active"
             /\ retries' = [retries EXCEPT ![i] = @ + 1]
             /\ Messaged(i)
          \/ after # "session_active" /\ UNCHANGED <<retries, status>>
  /\ UNCHANGED <<session, failures, hasPr, rows, seen>>

\* poll_human_labels for one item whose issue was closed or carries a label.
PollHumanLabels(i) ==
  /\ Polled(i)
  /\ \/ /\ state[i] \in {"needs_human", "failed", "issue_open",
                         "ready_for_human"}
        /\ Move(i, "human_abandoned")
        /\ UNCHANGED <<session, retries>>
     \/ /\ state[i] \in {"needs_human", "failed"}           \* retry
        /\ Move(i, "human_retry")
        /\ session' = [session EXCEPT ![i] = NoSession]
        /\ retries' = [retries EXCEPT ![i] = 0]
     \/ /\ state[i] \in {"needs_human", "failed"}           \* resolution
        /\ Move(i, "human_resolved")
        /\ UNCHANGED <<session, retries>>
  /\ UNCHANGED <<failures, hasPr, rows, seen, status>>

\* What the evaluation of closing scans does to an item: it supersedes queued
\* work, and starts, keeps waiting, verifies or hands back a merged item.
ApplyClosure(i) ==
  /\ Polled(i)
  /\ \/ state[i] \in Sources.superseded /\ Move(i, "superseded")
     \/ /\ state[i] \in Sources.rescan_started
        /\ \/ Move(i, "rescan_started")
           \/ \E e \in {"rescan_verified", "rescan_shows_present"} :
                state' = [state EXCEPT ![i] =
                            WiAfter(WiAfter(@, "rescan_started"), e)]
  /\ UNCHANGED <<session, failures, retries, hasPr, rows, seen, status>>

\* open_issues for one item: its issue is found or created.
OpenIssue(i) ==
  /\ Polled(i)
  /\ state[i] = "queued"
  /\ Move(i, "issue_created")
  /\ UNCHANGED <<session, failures, retries, hasPr, rows, seen, status>>

\* Nothing to do for the item, or the call that would tell has failed.
PollNothing(i) == Polled(i) /\ UNCHANGED <<dbVars, status>>

\* create_work_items at the end of the polling phase: findings of a later scan
\* join the item's group, and the session of an item under way is told.
MembersJoin(i) ==
  /\ pc = "poll" /\ todo = {}
  /\ state[i] \in ACTIVE_WORK_ITEM_STATES /\ session[i] # NoSession
  /\ Messaged(i)
  /\ UNCHANGED <<dbVars, owner, siblings, spent, approved, ctlVars>>

EndPoll ==
  /\ pc = "poll" /\ todo = {}
  /\ pc' = "recover"
  /\ UNCHANGED <<dbVars, devinVars, approved, todo, cur, made, launching,
                 granted, interrupts>>

-----------------------------------------------------------------------------
(* A tick: recovery and the dispatch loop *)

\* _recover_dispatching for one item: bind its session if Devin holds one, else
\* (or if Devin cannot tell) release the reservation as a failed dispatch.
Recover(i) ==
  /\ pc = "recover"
  /\ state[i] = "dispatching"
  /\ \/ \E s \in Preferred(Adoptable(i)) :
          Bind(i, s, spent[s], "session_adopted")
     \/ FailDispatch(i)
  /\ UNCHANGED <<devinVars, approved, ctlVars>>

\* Mutant: the tick goes on without recovering.
EndRecoverSkipping ==
  /\ pc = "recover"
  /\ \/ pc' = "idle" /\ UNCHANGED todo
     \/ pc' = "dispatch" /\ todo' = {i \in Items : state[i] = "issue_open"}
  /\ UNCHANGED <<dbVars, devinVars, approved, cur, made, launching, granted,
                 interrupts>>

\* Operator mode and a failed scan evaluation end the tick here.
EndRecover ==
  /\ pc = "recover"
  /\ \A i \in Items : state[i] # "dispatching"
  /\ \/ pc' = "idle" /\ UNCHANGED todo
     \/ pc' = "dispatch" /\ todo' = {i \in Items : state[i] = "issue_open"}
  /\ UNCHANGED <<dbVars, devinVars, approved, cur, made, launching, granted,
                 interrupts>>

\* Candidates are taken by severity.
NextTarget(i) ==
  pc = "dispatch" /\ i \in todo /\ (i \in AutoItems \/ todo \cap AutoItems = {})

\* Mutant: the budget is not asked.
DispatchableUnbudgeted(i) == state[i] = "issue_open" /\ DispatchAllowed(i)

Dispatchable(i) ==
  state[i] = "issue_open" /\ DispatchAllowed(i) /\ WithinBudget

\* dispatch() up to the commit in _dispatch_one that reserves the item
Reserve(i) ==
  /\ NextTarget(i) /\ ~AtCapacity /\ Dispatchable(i)
  /\ Move(i, "dispatch_started")
  /\ pc' = "adopt" /\ cur' = i /\ todo' = todo \ {i}
  /\ UNCHANGED <<session, failures, retries, hasPr, rows, seen, devinVars,
                 approved, made, launching, granted, interrupts>>

PassOver(i) ==
  /\ NextTarget(i)
  /\ \/ AtCapacity /\ todo' = {}
     \/ ~AtCapacity /\ ~Dispatchable(i) /\ todo' = todo \ {i}
  /\ UNCHANGED <<dbVars, devinVars, approved, pc, cur, made, launching,
                 granted, interrupts>>

EndDispatch ==
  /\ pc = "dispatch" /\ todo = {}
  /\ pc' = "idle"
  /\ UNCHANGED <<dbVars, devinVars, approved, todo, cur, made, launching,
                 granted, interrupts>>

-----------------------------------------------------------------------------
(* _dispatch_one after its reservation *)

\* Mutant: an unanswered list_sessions is taken for an empty one.
AdoptTaggedBlind ==
  /\ pc = "adopt"
  /\ \/ \E s \in Preferred(Adoptable(cur)) :
          Bind(cur, s, spent[s], "session_adopted") /\ DispatchReturns
     \/ /\ pc' = "create"
        /\ UNCHANGED <<dbVars, todo, cur, made, launching, granted, interrupts>>
  /\ UNCHANGED <<devinVars, approved>>

AdoptTagged ==
  /\ pc = "adopt"
  /\ \/ \E s \in Preferred(Adoptable(cur)) :
          Bind(cur, s, spent[s], "session_adopted") /\ DispatchReturns
     \/ FailDispatch(cur) /\ DispatchReturns               \* list_sessions fails
     \/ /\ Adoptable(cur) = {}
        /\ pc' = "create"
        /\ UNCHANGED <<dbVars, todo, cur, made, launching, granted, interrupts>>
  /\ UNCHANGED <<devinVars, approved>>

\* The sessions the create call may have made by the time it returns: the
\* client repeats a POST whose answer was lost or was a gateway error, and
\* each time may make one.
Posted(S) ==
  /\ S \subseteq {s \in Sessions : status[s] = "none"}
  /\ Cardinality(S) <= MaxPosts
  /\ owner' = [s \in Sessions |-> IF s \in S THEN cur ELSE owner[s]]
  /\ siblings' = [s \in Sessions |-> IF s \in S THEN S ELSE siblings[s]]
  /\ status' = [s \in Sessions |-> IF s \in S THEN "working" ELSE status[s]]
  /\ UNCHANGED spent

\* upload_attachment and create_session: answered, or given up on.
CreateSession ==
  /\ pc = "create"
  /\ \E S \in SUBSET Sessions :
       /\ Posted(S)
       /\ \/ /\ made' \in S
             /\ pc' = "record"
             /\ UNCHANGED <<dbVars, todo, cur, launching, granted, interrupts>>
          \/ /\ S = {} \/ LostAnswers
             /\ FailDispatch(cur) /\ DispatchReturns
  /\ UNCHANGED approved

\* The snapshot create_session returned names no ACUs yet.
RecordSession ==
  /\ pc = "record"
  /\ Bind(cur, made, 0, "session_created")
  /\ DispatchReturns
  /\ UNCHANGED <<devinVars, approved>>

-----------------------------------------------------------------------------
(* The operator *)

\* The states with an action, launch or relaunch (action_for).
ActionStates == Sources.human_retry \cup {"queued", "issue_open"}

\* preview
Eligible(i) == state[i] \in ActionStates /\ ~AtCapacity /\ WithinBudget

\* _launch_preview; a launch the operator does not get is no step.
Launchable(i) == pc = "idle" /\ Eligible(i)

\* A relaunch first is a human retry; a queued item first gets its issue.
Opened(s) ==
  IF s \in Sources.human_retry THEN WiAfter(s, "human_retry")
  ELSE IF s = "queued" THEN WiAfter(s, "issue_created") ELSE s

ResetForRelaunch(i) ==
  IF state[i] \in Sources.human_retry
  THEN /\ session' = [session EXCEPT ![i] = NoSession]
       /\ retries' = [retries EXCEPT ![i] = 0]
  ELSE UNCHANGED <<session, retries>>

\* launch() up to the commit in _dispatch_one that reserves the item
Launch(i) ==
  /\ Launchable(i)
  /\ ResetForRelaunch(i)
  /\ state' = [state EXCEPT ![i] = WiAfter(Opened(@), "dispatch_started")]
  /\ approved' = [approved EXCEPT ![i] = @ \/ i \notin AutoItems]
  /\ pc' = "adopt" /\ cur' = i
  /\ launching' = TRUE /\ granted' = (i \notin AutoItems)
  /\ UNCHANGED <<failures, hasPr, rows, seen, devinVars, todo, made, interrupts>>

\* _revoke_dispatch_approval: the approval was not granted yet, is revoked, or
\* could not be revoked.
Revoked(i) == IF i \in AutoItems THEN {approved[i]} ELSE BOOLEAN

\* launch() when a GitHub call fails before the reservation
LaunchFails(i) ==
  /\ Launchable(i)
  /\ ResetForRelaunch(i)
  /\ state' = [state EXCEPT ![i] = Opened(@)]
  /\ \E label \in Revoked(i) : approved' = [approved EXCEPT ![i] = label]
  /\ UNCHANGED <<failures, hasPr, rows, seen, devinVars, ctlVars>>

\* launch() unwound before the reservation: only its label is left.
LaunchInterrupted(i) ==
  /\ Launchable(i) /\ interrupts < MaxInterrupts
  /\ interrupts' = interrupts + 1
  /\ approved' = [approved EXCEPT ![i] = @ \/ i \notin AutoItems]
  /\ UNCHANGED <<dbVars, devinVars, pc, todo, cur, made, launching, granted>>

\* cancel_preview and cancel_block_for
Cancelable(i) == state[i] = "session_active" /\ session[i] \in rows /\ ~hasPr[i]

\* cancel() up to the commit of the request
Cancel(i) ==
  /\ pc = "idle" /\ Cancelable(i)
  /\ pc' = "stop" /\ cur' = i
  /\ UNCHANGED <<dbVars, devinVars, approved, todo, made, launching, granted,
                 interrupts>>

\* terminate_session; an error may hide a session that did stop.
TerminateSession ==
  /\ pc = "stop"
  /\ \/ /\ status' = [status EXCEPT ![session[cur]] = "exited"]
        /\ \/ pc' = "stopped" /\ UNCHANGED cur
           \/ pc' = "idle" /\ cur' = NoItem
     \/ UNCHANGED status /\ pc' = "idle" /\ cur' = NoItem
  /\ UNCHANGED <<dbVars, owner, siblings, spent, approved, todo, made, launching,
                 granted, interrupts>>

\* Mutant: the cancelled session is taken off the item.
RecordCancelReleasing ==
  /\ pc = "stopped"
  /\ Move(cur, "operator_cancelled")
  /\ session' = [session EXCEPT ![cur] = NoSession]
  /\ pc' = "idle" /\ cur' = NoItem
  /\ UNCHANGED <<failures, retries, hasPr, rows, seen, devinVars, approved,
                 todo, made, launching, granted, interrupts>>

RecordCancel ==
  /\ pc = "stopped"
  /\ Move(cur, "operator_cancelled")
  /\ seen' = [seen EXCEPT ![session[cur]] = spent[session[cur]]]
  /\ pc' = "idle" /\ cur' = NoItem
  /\ UNCHANGED <<session, failures, retries, hasPr, rows, devinVars, approved,
                 todo, made, launching, granted, interrupts>>

-----------------------------------------------------------------------------
(* Interruptions, Devin and people *)

\* A crash, or an exception that unwinds the tick, the launch or the cancel.
Interrupt ==
  /\ pc # "idle" /\ interrupts < MaxInterrupts
  /\ interrupts' = interrupts + 1
  /\ pc' = "idle" /\ todo' = {} /\ cur' = NoItem /\ made' = NoSession
  /\ launching' = FALSE /\ granted' = FALSE
  /\ UNCHANGED <<dbVars, devinVars, approved>>

\* A tick unwound after its retry message: only the message is left.
RetryInterrupted(i) ==
  /\ pc = "poll" /\ i \in todo /\ interrupts < MaxInterrupts
  /\ state[i] \in {"checks_running", "review_pending", "ready_for_human"}
  /\ hasPr[i] /\ retries[i] < Retries /\ session[i] # NoSession
  /\ interrupts' = interrupts + 1
  /\ pc' = "idle" /\ todo' = {}
  /\ Messaged(i)
  /\ UNCHANGED <<dbVars, owner, siblings, spent, approved, cur, made, launching,
                 granted>>

SetStatus(s, from, to) ==
  /\ status[s] \in from
  /\ status' = [status EXCEPT ![s] = to]
  /\ UNCHANGED <<dbVars, owner, siblings, spent, approved, ctlVars>>

Report(s) == SetStatus(s, {"working"}, "finished")
WakeUp(s) == SetStatus(s, {"finished"}, "working")
Exit(s)   == SetStatus(s, {"working", "finished"}, "exited")
Stall(s)  == SetStatus(s, {"working", "finished"}, "stalled")

\* Devin holds a session to its max_acu_limit.
Spend(s) ==
  /\ status[s] = "working" /\ spent[s] < Cap
  /\ spent' = [spent EXCEPT ![s] = @ + 1]
  /\ UNCHANGED <<dbVars, owner, siblings, status, approved, ctlVars>>

\* A person puts dispatch:approved on an issue, or takes it off.
LabelApproval(i) ==
  /\ i \notin AutoItems /\ state[i] # "queued"
  /\ approved' = [approved EXCEPT ![i] = ~@]
  /\ UNCHANGED <<dbVars, devinVars, ctlVars>>

PollItem(i) == \/ PollSession(i) \/ PollPullRequest(i) \/ PollHumanLabels(i)
               \/ ApplyClosure(i) \/ OpenIssue(i) \/ PollNothing(i)

DispatchOne == AdoptTagged \/ CreateSession \/ RecordSession

TickStep == \/ StartTick \/ EndPoll \/ EndRecover \/ EndDispatch \/ DispatchOne
            \/ \E i \in Items :
                 PollItem(i) \/ Recover(i) \/ Reserve(i) \/ PassOver(i)

OperatorStep == \/ TerminateSession \/ RecordCancel
                \/ \E i \in Items : \/ Launch(i) \/ LaunchFails(i)
                                    \/ LaunchInterrupted(i) \/ Cancel(i)

\* The scheduler's turn, which may find that members have joined an item.
Tick == TickStep \/ \E i \in Items : MembersJoin(i)

Interruption == Interrupt \/ \E i \in Items : RetryInterrupted(i)

EnvironmentStep ==
  \/ \E s \in Sessions : Report(s) \/ WakeUp(s) \/ Exit(s) \/ Stall(s)
                       \/ Spend(s)
  \/ \E i \in Items : LabelApproval(i)

Next == Tick \/ OperatorStep \/ Interruption \/ EnvironmentStep

Spec == Init /\ [][Next]_vars

\* The controller finishes what it has started, the scheduler gets its turn
\* between an operator's requests, and Devin answers a poll now and then.
Fairness ==
  /\ WF_vars(TickStep) /\ WF_vars(TerminateSession \/ RecordCancel)
  /\ SF_vars(StartTick)
  /\ \A i \in Items : SF_vars(PollSession(i))

FairSpec == Spec /\ Fairness

-----------------------------------------------------------------------------
(* Properties *)

\* All Devin sessions of a work item that can still produce work come from one
\* create call: the point of the reservation, of the wi-<id> tag and of adopting
\* before creating (_dispatch_one, _adopt_tagged_session), through crashes, lost
\* answers, cancels and human retries.  One call may make several, because the
\* client repeats the POST; a second call is not made while any of them can act.
OneCallAtWork ==
  \A s, t \in Sessions :
    Active(s) /\ Active(t) /\ owner[s] = owner[t] => t \in siblings[s]

\* While an item is bound to a session, that one and repeats of the same create
\* call are all that works for it: no session of an earlier or a later dispatch
\* acts beside the one that is polled, budgeted and offered for cancelling
\* (_record_session, max() in _adopt_tagged_session).
OnlyRepeatsWorkBeside ==
  \A i \in Items : session[i] # NoSession =>
    \A s \in Tagged(i) : Active(s) => s \in siblings[session[i]]

\* cancel() speaks of "the one session working on a work item".  If there is one,
\* an item never has two that can still produce work; a repeated POST breaks it.
OneActiveSession ==
  \A s, t \in Sessions :
    Active(s) /\ Active(t) /\ owner[s] = owner[t] => s = t

\* No two items share a session, and a bound session is a recorded one that
\* carries the item's tag, so poll_sessions never takes "session_row_missing".
BindingIsRecorded ==
  \A i \in Items : session[i] # NoSession =>
    session[i] \in rows /\ owner[session[i]] = i

\* An item is never committed in a state whose poll cannot pick it up again:
\* checks_failed has no poll at all, session_active is polled through its
\* session and the verification states through their PR.
NothingIsStranded ==
  \A i \in Items :
    /\ state[i] \notin {"pr_open", "checks_failed"}
    /\ state[i] = "session_active" => session[i] # NoSession
    /\ state[i] \in {"checks_running", "review_pending", "ready_for_human"}
         => hasPr[i]

\* Dispatch implements SessionLease: creating a session starts it, adopting or
\* recording one takes it, a human retry or relaunch releases it.
Lease == INSTANCE SessionLease
           WITH alive <- {s \in Sessions : Active(s)}, holder <- session,
                taken <- rows

ImplementsLease == Lease!Spec

\* A recorded session that has ended is never bound again, neither after a
\* cancel ("a terminated one is never adopted") nor after a human retry.
EndedSessionStaysReleased ==
  [][\A i \in Items : \A s \in rows :
       ~Active(s) /\ session'[i] = s => session[i] = s]_vars

\* A session in flight is not dropped: an item loses the session it is bound
\* to only by a human's decision, from needs_human or failed.
OnlyHumansRelease ==
  [][\A i \in Items :
       session[i] # NoSession /\ session'[i] # session[i]
         => state[i] \in {"needs_human", "failed"}]_vars

\* Devin is asked for a session only while the items in flight, the new one
\* included, are within max_concurrent_sessions, whichever path (tick, launch,
\* relaunch) reserved the item some steps before (_active_session_count).
CreationWithinCapacity ==
  [][(\E s \in Sessions : status[s] = "none" /\ status'[s] = "working")
       => Cardinality(ActiveItems) <= MaxConcurrent]_vars

\* And only while the recorded spending, the reserved caps and the new cap are
\* within global_acu_budget (_acu_budget_position): nothing polled, adopted or
\* handed back between the check and the call takes the budget away.
CreationWithinBudget ==
  [][(\E s \in Sessions : status[s] = "none" /\ status'[s] = "working")
       => WithinBudget]_vars

\* A reservation does not outlive the controller's next undisturbed tick: the
\* dispatch ends, or _recover_dispatching ends it after a crash.
ReservationsEnd ==
  \A i \in Items : state[i] = "dispatching" ~> state[i] # "dispatching"

\* An item whose session has ended, whoever ended it (a cancel whose answer
\* was lost included), does not stay session_active, unless a message about new
\* members makes the session work again.
EndedSessionIsNoticed ==
  \A i \in Items :
    (state[i] = "session_active" /\ \A s \in Tagged(i) : status[s] = "exited")
      ~> \/ state[i] # "session_active"
         \/ \E s \in Tagged(i) : status[s] # "exited"

\* settings.md: "the unconsumed cap of every active session is reserved
\* against" the budget; live-run.md: a run is "capped at 5 ACUs in total".  If
\* so, what all sessions together really spend never exceeds it.
SpendWithinBudget == MapThenSumSet(LAMBDA s : spent[s], Sessions) <= Budget

\* runbook.md: an operator launch applies dispatch:approved "and revokes it if
\* the launch fails", so that the scheduler cannot dispatch the item later.
FailedLaunchRevokesApproval ==
  [][launching /\ granted /\ pc' = "idle" /\ interrupts' = interrupts
     /\ state'[cur] # "session_active"
       => ~approved'[cur]]_vars

\* _adopt_tagged_session: a recorded session that is finished "means a human
\* retry, which gets a fresh session".
RetryGetsFreshSession ==
  [][\A i \in Items : \A s \in rows :
       status[s] = "finished" /\ session'[i] = s => session[i] = s]_vars

-----------------------------------------------------------------------------
(* The inductive invariant behind the safety properties *)

\* States of an item that no session is bound to.
UnboundStates == { "queued", "issue_open", "dispatching" }

\* Sessions exist at Devin once they have an owner, and before they are rows.
SessionsExist ==
  \A s \in Sessions : /\ Active(s) => owner[s] \in Items
                      /\ owner[s] = NoItem <=> status[s] = "none"
                      /\ s \in rows => status[s] # "none"

\* The sessions of one create call know one another.
CallsAreApart ==
  \A s \in Sessions : /\ status[s] # "none" <=> s \in siblings[s]
                      /\ \A t \in siblings[s] : siblings[t] = siblings[s]

\* Nothing works for the item but s and what the same create call made.
Exclusive(i, s) == \A t \in Tagged(i) : Active(t) => t \in siblings[s]

BoundItemsAreUnderWay ==
  \A i \in Items : session[i] # NoSession => state[i] \notin UnboundStates

\* What the program counter promises: the item between reservation and row is
\* dispatching, it has no session alive when one is created, and afterwards
\* only what the call made, of which none is recorded yet.
ControlState ==
  /\ pc \in {"adopt", "create", "record"} =>
       cur \in Items /\ state[cur] = "dispatching"
  /\ pc = "create" => \A s \in Tagged(cur) : ~Active(s)
  /\ pc = "record" => /\ made \in Tagged(cur) /\ made \notin rows
                      /\ Exclusive(cur, made)
  /\ pc \in {"stop", "stopped"} =>
       /\ cur \in Items /\ state[cur] = "session_active"
       /\ session[cur] \in rows

SessionsInv ==
  /\ SessionsExist /\ CallsAreApart
  /\ BindingIsRecorded
  /\ OneCallAtWork /\ OnlyRepeatsWorkBeside

IndInv ==
  /\ TypeOK
  /\ SessionsInv
  /\ BoundItemsAreUnderWay
  /\ ControlState
=============================================================================
