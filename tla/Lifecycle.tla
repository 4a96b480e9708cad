----------------------------- MODULE Lifecycle -----------------------------
(***************************************************************************)
(* The work-item transition table of orchestrator/state.py and the way the *)
(* orchestrator applies it (Orchestrator._wi).  Every event of the table   *)
(* has one target state, so the table is two functions: the states an      *)
(* event may be fired in, and the state it leads to.                       *)
(***************************************************************************)

States ==
  { "queued", "issue_open", "dispatching", "session_active", "pr_open",
    "checks_running", "checks_failed", "review_pending", "ready_for_human",
    "needs_human", "failed", "merged", "awaiting_rescan", "verified",
    "abandoned" }

\* States that count against capacity and whose session's cap is reserved.
ACTIVE_WORK_ITEM_STATES ==
  { "dispatching", "session_active", "pr_open", "checks_running",
    "checks_failed", "review_pending" }

\* WorkItemEvent
Events ==
  { "dispatch_approved", "issue_created", "superseded", "human_abandoned",
    "dispatch_started", "blocked", "session_created", "session_adopted",
    "dispatch_failed", "pr_opened", "operator_cancelled", "retries_exhausted",
    "checks_started", "pr_closed_unmerged", "checks_green", "checks_red",
    "retry_sent", "review_completed", "review_not_observed",
    "new_head_pushed", "human_merged", "rescan_started", "rescan_verified",
    "rescan_shows_present", "human_retry", "human_resolved" }

\* The keys of WORK_ITEM_TRANSITIONS, by event.
Sources ==
  [ dispatch_approved    |-> {"queued"},
    issue_created        |-> {"queued"},
    superseded           |-> {"queued", "issue_open"},
    human_abandoned      |-> {"queued", "issue_open", "ready_for_human",
                              "needs_human", "failed"},
    dispatch_started     |-> {"issue_open"},
    blocked              |-> {"issue_open", "dispatching", "session_active",
                              "pr_open", "checks_running", "checks_failed",
                              "review_pending", "ready_for_human"},
    session_created      |-> {"dispatching"},
    session_adopted      |-> {"dispatching"},
    dispatch_failed      |-> {"dispatching"},
    pr_opened            |-> {"session_active"},
    operator_cancelled   |-> {"session_active"},
    retries_exhausted    |-> {"session_active", "checks_failed"},
    checks_started       |-> {"pr_open"},
    pr_closed_unmerged   |-> {"pr_open", "checks_running", "review_pending",
                              "ready_for_human"},
    checks_green         |-> {"checks_running"},
    checks_red           |-> {"checks_running", "review_pending",
                              "ready_for_human"},
    retry_sent           |-> {"checks_failed"},
    review_completed     |-> {"review_pending"},
    review_not_observed  |-> {"review_pending"},
    new_head_pushed      |-> {"review_pending", "ready_for_human"},
    human_merged         |-> {"ready_for_human", "needs_human"},
    rescan_started       |-> {"merged", "awaiting_rescan"},
    rescan_verified      |-> {"awaiting_rescan"},
    rescan_shows_present |-> {"awaiting_rescan"},
    human_retry          |-> {"needs_human", "failed"},
    human_resolved       |-> {"needs_human"} ]

\* The values of WORK_ITEM_TRANSITIONS, by event.
Target ==
  [ dispatch_approved    |-> "queued",
    issue_created        |-> "issue_open",
    superseded           |-> "abandoned",
    human_abandoned      |-> "abandoned",
    dispatch_started     |-> "dispatching",
    blocked              |-> "needs_human",
    session_created      |-> "session_active",
    session_adopted      |-> "session_active",
    dispatch_failed      |-> "issue_open",
    pr_opened            |-> "pr_open",
    operator_cancelled   |-> "needs_human",
    retries_exhausted    |-> "failed",
    checks_started       |-> "checks_running",
    pr_closed_unmerged   |-> "needs_human",
    checks_green         |-> "review_pending",
    checks_red           |-> "checks_failed",
    retry_sent           |-> "session_active",
    review_completed     |-> "ready_for_human",
    review_not_observed  |-> "needs_human",
    new_head_pushed      |-> "checks_running",
    human_merged         |-> "merged",
    rescan_started       |-> "awaiting_rescan",
    rescan_verified      |-> "verified",
    rescan_shows_present |-> "needs_human",
    human_retry          |-> "issue_open",
    human_resolved       |-> "awaiting_rescan" ]

\* Orchestrator._wi: the state after event e fired in state s.  An event the
\* table does not list there escalates a blockable state and changes no other.
WiAfter(s, e) ==
  IF s \in Sources[e] THEN Target[e]
  ELSE IF s \in Sources.blocked THEN Target.blocked ELSE s
=============================================================================
