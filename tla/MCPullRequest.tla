--------------------------- MODULE MCPullRequest ---------------------------
(* Instances of PullRequest for TLC. *)
EXTENDS PullRequest, TLC

\* PRs are interchangeable: commits, not PRs, are ordered.
PrSymmetry == Permutations(PRs)
=============================================================================
