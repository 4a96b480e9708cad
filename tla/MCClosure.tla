----------------------------- MODULE MCClosure -----------------------------
(* Instances of Closure for TLC. *)
EXTENDS Closure, TLC

\* Every run is complete evidence about every finding, but the second, or the
\* third, may also be none about any.
Complete      == [r \in 1..MaxRuns |-> {Findings}]
SecondPartial == [r \in 1..MaxRuns |-> IF r = 2 THEN {{}, Findings} ELSE {Findings}]
ThirdPartial  == [r \in 1..MaxRuns |-> IF r = 3 THEN {{}, Findings} ELSE {Findings}]

Seen  == [r \in 1..MaxRuns |-> {"absent", "both"}]
\* A finding is first reported by both scanners, or without a kind; then it is
\* gone or one scanner reports it; then it is gone or suppressed.
Mixed == <<{"unkind", "both"}, {"absent", "one"}, {"absent", "vex"}>>

\* Every scan after the first is complete evidence about one finding only, and
\* what was gone may be back in the last one.
OneByOne == [r \in 1..MaxRuns |-> IF r = 1 THEN {Findings} ELSE {{f} : f \in Findings}]
Return   == <<{"both"}, {"absent"}, {"absent"}, {"absent", "both"}>>

FindingSymmetry == Permutations(Findings)
=============================================================================
