-------------------------- MODULE FindingLifecycle --------------------------
(***************************************************************************)
(* The transition table of findings and the way Orchestrator._finding      *)
(* applies it: an event the table does not list is recorded as invalid and *)
(* changes nothing.  Events no code fires are left out.                    *)
(***************************************************************************)

FindingStates ==
  { "open", "unclassified", "grouped", "in_remediation", "awaiting_rescan",
    "fixed", "approved_disposition", "scanner_disagreement_resolved",
    "regression", "human_blocked" }

\* CLOSING_FINDING_STATES
ClosingStates ==
  {"fixed", "approved_disposition", "scanner_disagreement_resolved"}

\* The keys of FINDING_TRANSITIONS, by event.
FindingSources ==
  [ grouped               |-> {"open", "regression"},
    remediation_started   |-> {"grouped"},
    pr_merged             |-> {"in_remediation"},
    human_blocked         |-> {"grouped", "in_remediation", "awaiting_rescan"},
    closing_absent        |-> {"open", "unclassified", "grouped",
                               "in_remediation", "awaiting_rescan",
                               "regression", "human_blocked"},
    closing_vex           |-> {"in_remediation", "awaiting_rescan",
                               "human_blocked"},
    disagreement_resolved |-> {"in_remediation", "human_blocked"},
    reappeared            |-> {"fixed"} ]

\* The values of FINDING_TRANSITIONS, by event.
FindingTarget ==
  [ grouped               |-> "grouped",
    remediation_started   |-> "in_remediation",
    pr_merged             |-> "awaiting_rescan",
    human_blocked         |-> "human_blocked",
    closing_absent        |-> "fixed",
    closing_vex           |-> "approved_disposition",
    disagreement_resolved |-> "scanner_disagreement_resolved",
    reappeared            |-> "regression" ]

\* Orchestrator._finding
FindingAfter(s, e) == IF s \in FindingSources[e] THEN FindingTarget[e] ELSE s
=============================================================================
