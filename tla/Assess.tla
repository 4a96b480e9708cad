------------------------------- MODULE Assess -------------------------------
(***************************************************************************)
(* The judgement of a polled session: what Devin's snapshot says, what     *)
(* GitHub says of the pull request it claims, and the decision taken from  *)
(* the two.  Pure functions; Dispatch and PullRequest take the decision    *)
(* from the set of those that these allow.                                 *)
(***************************************************************************)
EXTENDS Integers, FiniteSets

CONSTANTS Urls, Fork, Main, Whitelist

NoUrl == "no url"

NoPr == [repo |-> "no repo", base |-> "no base", headRepo |-> "no repo", files |-> {}]

(***************************************************************************)
(* SessionSnapshot: a record of status, detail, acus, urls (of its pull    *)
(* requests), outcome, pr_url (claimed), valid (against the kind's schema).*)
(***************************************************************************)

BudgetStops ==
  { "usage_limit_exceeded", "out_of_credits", "out_of_quota", "no_quota_allocation",
    "payment_declined", "org_usage_limit_exceeded", "user_usage_limit_exceeded",
    "total_session_limit_exceeded" }

IsResumable(s) == s.status = "suspended" /\ s.detail \in {"inactivity", "user_request"}
IsIdle(s) == s.status = "suspended" /\ s.detail = "inactivity"
IsWaiting(s) == s.status = "running" /\ s.detail = "waiting_for_user"
NeedsApproval(s) == s.status = "running" /\ s.detail = "waiting_for_approval"
IsError(s) == s.status = "error" \/ s.detail = "error"
IsActive(s) == s.status \in {"new", "claimed", "running", "resuming"} \/ IsResumable(s)

IsDone(s) ==
  s.status \in {"exit", "error"} \/ (s.status = "running" /\ s.detail = "finished")

\* It ended, or is idle after it declared a pull request.
IsFinalReport(s) == IsDone(s) \/ ((IsWaiting(s) \/ IsIdle(s)) /\ s.outcome = "pr_opened")

(***************************************************************************)
(* The pull request.                                                       *)
(***************************************************************************)

\* _resolve_pr: exactly one URL, of a pull request that GitHub answers for.
\* lookup gives the pull request of a URL, NoPr when it fails.
ResolvedUrls(s) == s.urls \cup ({s.pr_url} \ {NoUrl})

\* verify_pull_request
Verified(pr) == pr.repo = Fork /\ pr.base = Main /\ pr.headRepo = Fork

PrOf(s, lookup) ==
  IF \E u \in ResolvedUrls(s) : ResolvedUrls(s) = {u} /\ Verified(lookup[u])
  THEN lookup[CHOOSE u \in ResolvedUrls(s) : TRUE] ELSE NoPr

\* diff_policy_violations: a changed file is the set of the patterns its name
\* matches.
Forbidden(file) ==
  file \cap {"ignore", "protected", "approved"} # {} \/ ("vex" \in file /\ "proposed" \notin file)

PolicyViolated(files, kind) ==
  \/ \E f \in files : Forbidden(f)
  \/ /\ kind # "dependency_upgrade"
     /\ \E f \in files : "generated" \in f
     /\ ~\E f \in files : "inputs" \in f
  \/ kind = "no_fix_reachability" /\ \E f \in files : f \cap {"proposed", "analysis"} = {}
  \/ kind = "scanner_disagreement"

\* SessionFacts, gathered by _apply_snapshot: the pull request is only looked
\* up for a final report that is valid and says there is one.
Facts(s, kind, lookup, cap, late, warned) ==
  LET final == IsFinalReport(s)
      looked == final /\ s.valid /\ s.outcome = "pr_opened"
      pr == PrOf(s, lookup)
  IN  [ cap |-> cap, late |-> late, warned |-> warned,
        valid    |-> final /\ s.valid,
        verified |-> looked /\ pr # NoPr,
        allowed  |-> looked /\ pr # NoPr /\ ~PolicyViolated(pr.files, kind) ]

(***************************************************************************)
(* assess.                                                                 *)
(***************************************************************************)

HardStop(s, f) == s.detail \in BudgetStops \/ IsError(s) \/ s.acus > f.cap

\* A report that claims a pull request is ready when all of it was confirmed;
\* every other report is for a person to read.
Judged(s, f) ==
  IF f.valid /\ s.outcome = "pr_opened" /\ s.urls # {} /\ f.verified /\ f.allowed
  THEN "ready_for_verification" ELSE "needs_human"

\* A question outside the whitelist goes to a person.
Replied(question) == IF question \in Whitelist THEN "answer_question" ELSE "needs_human"

\* BUDGET_WARNING_FRACTION is 9/10.
Working(s, f) ==
  IF ~f.warned /\ 10 * s.acus >= 9 * f.cap THEN "budget_warning" ELSE "continue_polling"

Decision(s, f, question) ==
  IF HardStop(s, f) THEN "needs_human"
  ELSE IF f.late /\ ~IsFinalReport(s) THEN "needs_human"
  ELSE IF NeedsApproval(s) THEN "needs_human"
  ELSE IF IsFinalReport(s) THEN Judged(s, f)
  ELSE IF IsWaiting(s) THEN Replied(question)
  ELSE Working(s, f)

Waits(decision) == decision \in {"continue_polling", "budget_warning", "answer_question"}

(***************************************************************************)
(* What the decision may be relied on for.                                 *)
(***************************************************************************)

\* "a delivered report is judged on its own merits below however late it is
\* read" (assess.py:90), whatever the session asks and whether it was warned.
JudgedOnItsMerits(s, f, g, question, other) ==
  /\ IsFinalReport(s) /\ f.cap = g.cap
  /\ f.valid = g.valid /\ f.verified = g.verified /\ f.allowed = g.allowed
  => Decision(s, f, question) = Decision(s, g, other)

\* A session that can do no more work is not waited for, unless Devin suspended
\* it without a reason the controller knows; then the wall clock ends it.
DeadIsNotWaitedFor(s, f, question) ==
  ~IsActive(s) /\ Waits(Decision(s, f, question)) =>
    /\ s.status = "suspended" /\ ~f.late
    /\ s.detail \notin BudgetStops \cup {"error"}

\* What Dispatch assumes of a session that is done.
DoneIsJudged(s, f, question) == IsDone(s) => ~Waits(Decision(s, f, question))

\* From the snapshot, the kind and what GitHub answers to the decision: an item
\* goes on to its checks only with the one pull request of this fork against
\* main, none of whose files the kind may not touch.
ReadyIsConfirmed(s, kind, lookup, cap, late, warned, question) ==
  Decision(s, Facts(s, kind, lookup, cap, late, warned), question) = "ready_for_verification" =>
    /\ s.acus <= cap /\ s.outcome = "pr_opened"
    /\ \E u \in Urls :
         /\ ResolvedUrls(s) = {u} /\ s.urls = {u}
         /\ Verified(lookup[u])
         /\ \A f \in lookup[u].files :
              /\ f \cap {"ignore", "protected", "approved"} = {}
              /\ kind = "no_fix_reachability" => f \cap {"proposed", "analysis"} # {}
    /\ kind # "scanner_disagreement"
=============================================================================
