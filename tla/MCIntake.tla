------------------------------ MODULE MCIntake ------------------------------
(***************************************************************************)
(* Two or three runs whose bundles are a sound one and the ways in which   *)
(* one can be wrong or incomplete.                                         *)
(***************************************************************************)
EXTENDS Intake

Jobs == {"lean-smoke", "app-runs"}

Good ==
  [ artifacts |-> 1, digest |-> TRUE, loads |-> TRUE, wrong |-> {},
    descends |-> TRUE, claimed |-> [j \in Jobs |-> "success"],
    record |-> [j \in Jobs |-> "pass"], conclusion |-> TRUE, others |-> TRUE,
    subject |-> TRUE ]

\* Red runs are ingested incomplete, whatever their runtime jobs said.
Red == [Good EXCEPT !.conclusion = FALSE, !.claimed["app-runs"] = "failure",
                     !.record["app-runs"] = "fail"]
Faulty ==
  { [Good EXCEPT !.artifacts = 2],
    [Good EXCEPT !.digest = FALSE, !.loads = FALSE],
    [Good EXCEPT !.wrong = {"head_branch"}],
    [Good EXCEPT !.descends = FALSE],
    [Good EXCEPT !.record["app-runs"] = "other"],
    [Good EXCEPT !.record["lean-smoke"] = "fail"],
    [Good EXCEPT !.claimed["lean-smoke"] = "none"] }

\* A job beside the runtime ones was skipped: this too is ingested incomplete.
Partial == [Good EXCEPT !.others = FALSE]

\* A bundle with a policy scan of the ci image, which ingest_run refuses.
Poison == [Good EXCEPT !.subject = FALSE]

MCBundles == {Good, Red, Partial, Poison} \cup Faulty
PoisonBundles == {Good, Poison}
=============================================================================
