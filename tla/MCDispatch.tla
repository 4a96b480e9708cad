----------------------------- MODULE MCDispatch -----------------------------
(* Instances of Dispatch for TLC. *)
EXTENDS Dispatch, TLC

\* Session ids are interchangeable: the controller only compares them.
SessionSymmetry == Permutations(Sessions)

\* So are items of the same severity.
FullSymmetry == SessionSymmetry \cup Permutations(Items)
=============================================================================
