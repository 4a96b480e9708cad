----------------------------- MODULE MCTracker -----------------------------
(***************************************************************************)
(* Two items of one title (a group and its regression), the second of a    *)
(* kind that people resolve by label.                                      *)
(***************************************************************************)
EXTENDS Tracker, TLC

CONSTANTS i1, i2

TwoItems == {i1, i2}
OneTitle == [i \in TwoItems |-> "t"]
Second == {i2}
=============================================================================
