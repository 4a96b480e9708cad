---------------------------- MODULE ClosureProofs ----------------------------
(***************************************************************************)
(* What holds of scans as evidence for any number of findings, work items, *)
(* runs, merges and rolled-back evaluations, whatever the runs report and  *)
(* are complete about.                                                     *)
(***************************************************************************)
EXTENDS Closure, WellFoundedInduction, TLAPS

-----------------------------------------------------------------------------
(* The tables *)

FindingEvents == DOMAIN FindingTarget

\* The findings' table leads from states to states, and a closed finding is
\* only reopened by its reappearance.
LEMMA FindingMoves ==
  /\ \A s \in FindingStates \cup {"none"}, e \in FindingEvents :
       FindingAfter(s, e) \in FindingStates \cup {"none"}
  /\ \A s \in ClosingStates, e \in FindingEvents \ {"reappeared"} :
       FindingAfter(s, e) = s
  /\ \A s \in FindingStates : FindingAfter(s, "closing_absent") \in ClosingStates
  /\ \A e \in FindingEvents : FindingAfter("none", e) = "none"
  BY DEF FindingAfter, FindingEvents, FindingTarget, FindingSources, FindingStates,
         ClosingStates

\* The work items' table, as far as a merge and its scans go.
LEMMA ItemMoves ==
  /\ \A s \in {"merged", "awaiting_rescan"} :
       WiAfter(s, "rescan_started") = "awaiting_rescan"
  /\ WiAfter("awaiting_rescan", "rescan_verified") = "verified"
  /\ WiAfter("awaiting_rescan", "rescan_shows_present") = "needs_human"
  /\ WiAfter("issue_open", "superseded") = "abandoned"
  /\ WiAfter("session_active", "blocked") = "needs_human"
  /\ \A s \in {"ready_for_human", "needs_human"} : WiAfter(s, "human_merged") = "merged"
  /\ WiAfter("needs_human", "human_retry") = "issue_open"
  /\ WiAfter("needs_human", "human_resolved") = "awaiting_rescan"
  /\ \A s \in {"needs_human", "issue_open", "ready_for_human"} :
       WiAfter(s, "human_abandoned") = "abandoned"
  BY DEF WiAfter, Sources, Target

-----------------------------------------------------------------------------
(* The latest run *)

\* A set of run numbers, or of none, has its least and its greatest member.
LEMMA LeastRun ==
  ASSUME NEW S \in SUBSET Nat, S # {}
  PROVE  Min(S) \in S /\ \A n \in S : Min(S) <= n
  <1>1. \E x \in S : \A y \in S : ~(<<y, x>> \in OpToRel(<, Nat))
    BY NatLessThanWellFounded, WFMin
  <1>2. ASSUME NEW x \in S, NEW y \in S, ~(<<y, x>> \in OpToRel(<, Nat))
        PROVE  x <= y
    <2>1. x \in Nat /\ y \in Nat
      OBVIOUS
    <2>2. ~(y < x)
      BY <1>2, <2>1 DEF OpToRel
    <2>3. QED BY <2>1, <2>2
  <1>3. \E x \in S : \A y \in S : x <= y
    BY <1>1, <1>2
  <1>4. QED BY <1>3 DEF Min

LEMMA GreatestRun ==
  ASSUME NEW n \in Nat, NEW S \in SUBSET (0..n), S # {}
  PROVE  Max(S) \in S /\ \A m \in S : m <= Max(S)
  <1> DEFINE Bounds == {k \in 0..n : \A m \in S : m <= k}
  <1>1. n \in Bounds /\ Bounds \in SUBSET Nat
    OBVIOUS
  <1>2. Min(Bounds) \in Bounds /\ \A k \in Bounds : Min(Bounds) <= k
    BY <1>1, LeastRun
  <1>3. Min(Bounds) \in S
    <2>1. SUFFICES ASSUME Min(Bounds) \notin S
                   PROVE  FALSE
      OBVIOUS
    <2>2. PICK m \in S : TRUE
      OBVIOUS
    <2>3. m <= Min(Bounds) /\ m # Min(Bounds) /\ Min(Bounds) \in 0..n
      BY <1>2, <2>1
    <2>4. Min(Bounds) - 1 \in 0..n
      BY <2>3
    <2>5. \A k \in S : k <= Min(Bounds) - 1
      BY <1>2, <2>1, <2>3
    <2>6. Min(Bounds) - 1 \in Bounds
      BY <2>4, <2>5
    <2>7. QED BY <1>2, <2>3, <2>6
  <1>4. \E x \in S : \A y \in S : x >= y
    BY <1>2, <1>3
  <1>5. QED BY <1>4 DEF Max

\* A number that is in a set and bounds it is the set's maximum.
LEMMA MaxIs ==
  ASSUME NEW S \in SUBSET Nat, NEW n \in S, \A m \in S : m <= n
  PROVE  Max(S) = n
  <1>1. \A x \in S : (\A y \in S : x >= y) => x = n
    OBVIOUS
  <1>2. \E x \in S : \A y \in S : x >= y
    OBVIOUS
  <1>3. QED BY <1>1, <1>2 DEF Max

\* What is ingested, applied or pending are runs.
LEMMA RunsAreNumbered ==
  ASSUME TypeOK
  PROVE  /\ ingested \subseteq RunIds /\ applied \subseteq ingested
         /\ todo \subseteq ingested
         /\ \A r \in ingested \cup applied \cup todo : r \in RunIds
  <1>1. ingested \subseteq 1..finished /\ finished \in 0..MaxRuns
        /\ applied \subseteq ingested /\ todo \subseteq ingested
    BY DEF TypeOK
  <1>2. ingested \subseteq RunIds
    BY <1>1, ClosureAssumption DEF RunIds
  <1>3. QED BY <1>1, <1>2

-----------------------------------------------------------------------------
(* The database as an evaluation works on it *)

Dbs == [ st   : [Findings -> FindingStates \cup {"none"}],
         by   : [Findings -> RunIds \cup {None}],
         item : [Findings -> Items \cup {None}],
         wi   : [Items -> ItemStates],
         sha  : [Items -> 0..MaxMerges],
         iss  : [Items -> {"open", "closed", "closed_by_human"}] ]

\* Events fired for some findings, and what is left alone.
LEMMA FireEffect ==
  ASSUME NEW d \in Dbs, NEW S \in SUBSET Findings,
         NEW says \in [S -> FindingEvents], NEW r \in RunIds \cup {None}
  PROVE  LET e == Fire(d, says, r)
         IN /\ e \in Dbs
            /\ e.item = d.item /\ e.wi = d.wi /\ e.sha = d.sha /\ e.iss = d.iss
            /\ \A f \in Findings :
                 e.st[f] = IF f \in S THEN FindingAfter(d.st[f], says[f]) ELSE d.st[f]
            /\ \A f \in Findings :
                 e.by[f] = IF e.st[f] # d.st[f] /\ e.st[f] \in ClosingStates
                           THEN r ELSE d.by[f]
  <1> DEFINE st == [f \in Findings |-> IF f \in S THEN FindingAfter(d.st[f], says[f])
                                                  ELSE d.st[f]]
             by == [f \in Findings |-> IF st[f] # d.st[f] /\ st[f] \in ClosingStates
                                       THEN r ELSE d.by[f]]
  <1>1. DOMAIN says = S
    OBVIOUS
  <1>2. Fire(d, says, r) = [d EXCEPT !.st = st, !.by = by]
    BY <1>1 DEF Fire
  <1>3. st \in [Findings -> FindingStates \cup {"none"}]
    BY FindingMoves DEF Dbs
  <1>4. by \in [Findings -> RunIds \cup {None}]
    BY DEF Dbs
  <1>5. [d EXCEPT !.st = st, !.by = by] \in Dbs
    BY <1>3, <1>4 DEF Dbs
  <1> HIDE DEF st, by
  <1>6. LET e == [d EXCEPT !.st = st, !.by = by]
        IN /\ e.item = d.item /\ e.wi = d.wi /\ e.sha = d.sha /\ e.iss = d.iss
           /\ e.st = st /\ e.by = by
    BY DEF Dbs
  <1>7. QED BY <1>2, <1>5, <1>6 DEF st, by

-----------------------------------------------------------------------------
(* What an evaluation may do to a finding *)

\* Nothing is recorded of it.
Kept(d, e, f) == e.st[f] = d.st[f] /\ e.by[f] = d.by[f]

\* Run r closes it, and no later run has seen it.
ClosedBy(d, e, f, r) ==
  /\ d.st[f] \in FindingStates \ ClosingStates
  /\ e.st[f] \in ClosingStates /\ e.by[f] = r
  /\ lastSeen[f] <= r /\ d.by[f] <= r

\* It is still there after the merge, and handed to a person.
HandedBack(d, e, f) ==
  /\ d.st[f] \in FindingSources.human_blocked
  /\ e.st[f] = "human_blocked" /\ e.by[f] = d.by[f]

\* It is back.
Reopened(d, e, f) ==
  d.st[f] = "fixed" /\ e.st[f] = "regression" /\ e.by[f] = d.by[f]

\* A finding that was not seen yet is in no item.
Unseen(d) == \A f \in Findings : d.st[f] = "none" => d.item[f] = None

\* Whether a run's word counts, and what it says.
LEMMA OutcomeSays ==
  ASSUME NEW d, NEW i, NEW f, NEW r
  PROVE  /\ Outcome(d, i, f, r) \in { "not_applicable", "closing_absent", "regression",
                                      "closing_vex", "disagreement_resolved",
                                      "still_present" }
         /\ Outcome(d, i, f, r) # "not_applicable" <=> Valid(d, f, r, d.sha[i])
         /\ Outcome(d, i, f, r) = "closing_absent" <=>
              Valid(d, f, r, d.sha[i]) /\ ~Present(f, r)
  BY DEF Outcome

\* A run counts for a finding that no later run has spoken of.
LEMMA ValidIsLatest ==
  ASSUME TypeOK, NEW d \in Dbs, NEW f \in Findings, NEW r \in RunIds, NEW sha,
         Valid(d, f, r, sha)
  PROVE  lastSeen[f] <= r /\ d.by[f] <= r
  <1>1. lastSeen[f] \in Int /\ d.by[f] \in Int /\ r \in Int
    BY DEF TypeOK, Dbs, RunIds, None
  <1>2. ~LaterRunSaw(d, f, r)
    BY DEF Valid
  <1>3. QED BY <1>1, <1>2 DEF LaterRunSaw

LEMMA DecidedEffect ==
  ASSUME TypeOK, NEW d \in Dbs, Unseen(d), NEW I \in SUBSET Items, NEW r \in RunIds
  PROVE  LET e == Decided(d, I, r)
         IN /\ e \in Dbs
            /\ e.item = d.item /\ e.wi = d.wi /\ e.sha = d.sha /\ e.iss = d.iss
            /\ \A f \in Findings :
                 \/ Kept(d, e, f)
                 \/ /\ d.item[f] \in I /\ ClosedBy(d, e, f, r)
                    /\ Says(d, f, r) \in FindingEvents
            /\ \A f \in Findings :
                 d.item[f] \in I /\ Says(d, f, r) = "closing_absent"
                   => e.st[f] \in ClosingStates
  <1> DEFINE S == {f \in Findings : d.item[f] \in I /\ Says(d, f, r) \in FindingEvents}
             says == [f \in S |-> Says(d, f, r)]
             e == Fire(d, says, r)
  <1>1. Decided(d, I, r) = e
    BY DEF Decided, FindingEvents
  <1>2. S \in SUBSET Findings /\ says \in [S -> FindingEvents]
    OBVIOUS
  <1>3. /\ e \in Dbs
        /\ e.item = d.item /\ e.wi = d.wi /\ e.sha = d.sha /\ e.iss = d.iss
        /\ \A f \in Findings :
             e.st[f] = IF f \in S THEN FindingAfter(d.st[f], says[f]) ELSE d.st[f]
        /\ \A f \in Findings :
             e.by[f] = IF e.st[f] # d.st[f] /\ e.st[f] \in ClosingStates
                       THEN r ELSE d.by[f]
    BY <1>2, FireEffect
  <1>4. ASSUME NEW f \in S
        PROVE  /\ says[f] \in {"closing_absent", "closing_vex", "disagreement_resolved"}
               /\ says[f] = Says(d, f, r)
               /\ d.st[f] \in FindingStates
               /\ lastSeen[f] <= r /\ d.by[f] <= r
    <2>1. says[f] = Says(d, f, r) /\ Says(d, f, r) = Outcome(d, d.item[f], f, r)
      BY DEF Says
    <2>2. says[f] \in {"closing_absent", "closing_vex", "disagreement_resolved"}
      BY <2>1, OutcomeSays DEF FindingEvents, FindingTarget
    <2>3. Valid(d, f, r, d.sha[d.item[f]])
      BY <2>1, <2>2, OutcomeSays
    <2>4. lastSeen[f] <= r /\ d.by[f] <= r
      BY <2>3, ValidIsLatest
    <2>5. d.st[f] \in FindingStates
      BY DEF Unseen, Dbs, None, Items
    <2>6. QED BY <2>1, <2>2, <2>4, <2>5
  <1> HIDE DEF says, e
  <1>5. ASSUME NEW f \in S
        PROVE  /\ Kept(d, e, f) \/ ClosedBy(d, e, f, r)
               /\ Says(d, f, r) = "closing_absent" => e.st[f] \in ClosingStates
    <2>1. e.st[f] = FindingAfter(d.st[f], says[f])
      BY <1>3, <1>4
    <2>2. e.st[f] = d.st[f] \/ (e.st[f] \in ClosingStates /\ d.st[f] \notin ClosingStates)
      BY <2>1, <1>4 DEF FindingAfter, FindingTarget, FindingSources, ClosingStates
    <2>3. says[f] = "closing_absent" => e.st[f] \in ClosingStates
      BY <2>1, <1>4, FindingMoves
    <2>4. QED BY <2>2, <2>3, <1>3, <1>4 DEF Kept, ClosedBy
  <1>6. ASSUME NEW f \in Findings \ S
        PROVE  Kept(d, e, f)
    BY <1>3 DEF Kept
  <1>7. "closing_absent" \in FindingEvents
    BY DEF FindingEvents, FindingTarget
  <1>8. QED BY <1>1, <1>3, <1>5, <1>6, <1>7

\* What closing the items of I with run r does to findings and items.
LEMMA CloseItemsEffect ==
  ASSUME TypeOK, NEW d \in Dbs, Unseen(d), NEW r \in RunIds,
         NEW I \in SUBSET Items, \A i \in I : Closing(d, i)
  PROVE  LET e == CloseItems(d, I, r)
         IN /\ e \in Dbs /\ e.item = d.item /\ e.sha = d.sha
            /\ \A f \in Findings :
                 \/ Kept(d, e, f)
                 \/ d.item[f] \in I /\ (ClosedBy(d, e, f, r) \/ HandedBack(d, e, f))
            /\ \A f \in Findings :
                 d.item[f] \in I /\ Says(d, f, r) = "closing_absent"
                   => e.st[f] \in ClosingStates
            /\ \A i \in Items \ I : e.wi[i] = d.wi[i]
            /\ \A i \in I :
                 /\ e.wi[i] \in {"awaiting_rescan", "verified", "needs_human"}
                 /\ e.wi[i] = "verified" =>
                      \A f \in Findings : d.item[f] = i => e.st[f] \in ClosingStates
  <1> DEFINE c == Decided(d, I, r)
             proven == Proven(d, I, r)
             still == Remaining(d, Weighed(d, I, r) \ proven, r)
             says == [f \in still |-> "human_blocked"]
             b == Fire(c, says, r)
             After(i, s) == IF i \in proven THEN WiAfter(s, "rescan_verified")
                            ELSE IF Members(d, i) \cap still # {}
                                 THEN WiAfter(s, "rescan_shows_present") ELSE s
             wi == [i \in Items |-> IF i \in I THEN After(i, WiAfter(b.wi[i], "rescan_started"))
                                               ELSE b.wi[i]]
             iss == [i \in Items |-> IF i \in proven THEN "closed" ELSE b.iss[i]]
             e == [b EXCEPT !.wi = wi, !.iss = iss]
  <1>1. CloseItems(d, I, r) = e
    BY DEF CloseItems
  <1>2. /\ c \in Dbs
        /\ c.item = d.item /\ c.wi = d.wi /\ c.sha = d.sha /\ c.iss = d.iss
        /\ \A f \in Findings :
             \/ Kept(d, c, f)
             \/ /\ d.item[f] \in I /\ ClosedBy(d, c, f, r)
                /\ Says(d, f, r) \in FindingEvents
        /\ \A f \in Findings :
             d.item[f] \in I /\ Says(d, f, r) = "closing_absent"
               => c.st[f] \in ClosingStates
    BY DecidedEffect
  <1>3. /\ proven \subseteq I
        /\ \A i \in proven : \A f \in Findings : d.item[f] = i => c.st[f] \in ClosingStates
    BY <1>2 DEF Proven, Weighed, MayClose, Members
  <1>4. /\ still \subseteq Findings
        /\ \A f \in still : /\ d.item[f] \in I \ proven
                            /\ Says(d, f, r) = "still_present"
    BY DEF Remaining, Weighed
  <1> HIDE DEF c, proven, still
  <1>5. says \in [still -> FindingEvents]
    BY DEF FindingEvents, FindingTarget
  <1>6. /\ b \in Dbs
        /\ b.item = c.item /\ b.wi = c.wi /\ b.sha = c.sha /\ b.iss = c.iss
        /\ \A f \in Findings :
             b.st[f] = IF f \in still THEN FindingAfter(c.st[f], says[f]) ELSE c.st[f]
        /\ \A f \in Findings :
             b.by[f] = IF b.st[f] # c.st[f] /\ b.st[f] \in ClosingStates
                       THEN r ELSE c.by[f]
    BY <1>2, <1>4, <1>5, FireEffect
  <1>7. \A f \in still : says[f] = "human_blocked"
    OBVIOUS
  <1> HIDE DEF says, b
  <1>8. \A i \in I : /\ wi[i] \in {"awaiting_rescan", "verified", "needs_human"}
                     /\ wi[i] = "verified" => i \in proven
    <2>1. SUFFICES ASSUME NEW i \in I
                   PROVE  /\ wi[i] \in {"awaiting_rescan", "verified", "needs_human"}
                          /\ wi[i] = "verified" => i \in proven
      OBVIOUS
    <2>2. WiAfter(b.wi[i], "rescan_started") = "awaiting_rescan"
      BY <1>2, <1>6, ItemMoves DEF Closing
    <2>3. wi[i] = After(i, "awaiting_rescan")
      BY <2>2
    <2>4. QED BY <2>3, ItemMoves
  <1>9. wi \in [Items -> ItemStates]
    BY ZenonT(40), <1>6, <1>8 DEF Dbs, ItemStates
  <1>10. iss \in [Items -> {"open", "closed", "closed_by_human"}]
    BY <1>6 DEF Dbs
  <1>11. \A i \in Items \ I : wi[i] = d.wi[i]
    BY <1>2, <1>6
  <1> HIDE DEF wi, iss
  <1>12. /\ e \in Dbs
         /\ e.item = b.item /\ e.sha = b.sha /\ e.st = b.st /\ e.by = b.by /\ e.wi = wi
    BY <1>6, <1>9, <1>10 DEF Dbs
  <1> HIDE DEF e
  <1>13. ASSUME NEW f \in still
         PROVE  Kept(d, e, f) \/ HandedBack(d, e, f)
    <2>1. Kept(d, c, f)
      BY <1>2, <1>4 DEF FindingEvents, FindingTarget
    <2>2. b.st[f] = FindingAfter(d.st[f], "human_blocked")
      BY <2>1, <1>4, <1>6, <1>7 DEF Kept
    <2>3. \/ b.st[f] = d.st[f]
          \/ b.st[f] = "human_blocked" /\ d.st[f] \in FindingSources.human_blocked
      BY <2>2 DEF FindingAfter, FindingTarget
    <2>4. b.by[f] = d.by[f]
      BY <2>1, <2>3, <1>4, <1>6 DEF Kept, ClosingStates
    <2>5. QED BY <2>3, <2>4, <1>12 DEF Kept, HandedBack
  <1>14. ASSUME NEW f \in Findings \ still
         PROVE  e.st[f] = c.st[f] /\ e.by[f] = c.by[f]
    BY <1>6, <1>12
  <1>15. \A f \in Findings :
           \/ Kept(d, e, f)
           \/ d.item[f] \in I /\ (ClosedBy(d, e, f, r) \/ HandedBack(d, e, f))
    BY <1>2, <1>4, <1>13, <1>14 DEF Kept, ClosedBy
  <1>16. \A f \in Findings :
           d.item[f] \in I /\ Says(d, f, r) = "closing_absent" => e.st[f] \in ClosingStates
    BY <1>2, <1>4, <1>14
  <1>17. \A i \in I : wi[i] = "verified" =>
           \A f \in Findings : d.item[f] = i => e.st[f] \in ClosingStates
    BY <1>3, <1>4, <1>8, <1>14
  <1>18. QED BY <1>1, <1>2, <1>6, <1>8, <1>11, <1>12, <1>15, <1>16, <1>17

\* What the regressions of run r do: a fixed finding it has seen again leaves its
\* item.
LEMMA RegressionsEffect ==
  ASSUME TypeOK, NEW d \in Dbs, NEW r \in RunIds
  PROVE  LET e == AfterRegressions(d, r)
         IN /\ e \in Dbs /\ e.wi = d.wi /\ e.sha = d.sha
            /\ \A f \in Findings :
                 \/ Kept(d, e, f) /\ e.item[f] = d.item[f]
                 \/ Reopened(d, e, f) /\ e.item[f] = None
            /\ \A f \in SeenAgain(d, r) : d.st[f] = "fixed" => Reopened(d, e, f)
  <1> DEFINE S == SeenAgain(d, r)
             says == [f \in S |-> "reappeared"]
             b == Fire(d, says, r)
             back == {f \in S : b.st[f] # d.st[f]}
             iss == [i \in Items |-> IF \E f \in back : d.item[f] = i THEN "open"
                                                                      ELSE b.iss[i]]
             item == [f \in Findings |-> IF f \in back THEN None ELSE b.item[f]]
             e == [b EXCEPT !.iss = iss, !.item = item]
  <1>1. AfterRegressions(d, r) = e
    BY DEF AfterRegressions
  <1>2. S \in SUBSET Findings /\ \A f \in S : d.st[f] \in ClosingStates
    BY DEF SeenAgain
  <1> HIDE DEF S
  <1>3. says \in [S -> FindingEvents] /\ \A f \in S : says[f] = "reappeared"
    BY DEF FindingEvents, FindingTarget
  <1> HIDE DEF says
  <1>4. /\ b \in Dbs
        /\ b.item = d.item /\ b.wi = d.wi /\ b.sha = d.sha /\ b.iss = d.iss
        /\ \A f \in Findings :
             b.st[f] = IF f \in S THEN FindingAfter(d.st[f], says[f]) ELSE d.st[f]
        /\ \A f \in Findings :
             b.by[f] = IF b.st[f] # d.st[f] /\ b.st[f] \in ClosingStates
                       THEN r ELSE d.by[f]
    BY <1>2, <1>3, FireEffect
  <1> HIDE DEF b
  <1>5. \A f \in S : b.st[f] = IF d.st[f] = "fixed" THEN "regression" ELSE d.st[f]
    BY <1>2, <1>3, <1>4 DEF FindingAfter, FindingTarget, FindingSources
  <1>6. back = {f \in S : d.st[f] = "fixed"}
    BY <1>5
  <1>7. \A f \in Findings : b.by[f] = d.by[f]
    BY <1>4, <1>5 DEF ClosingStates
  <1>8. item \in [Findings -> Items \cup {None}]
    BY <1>4 DEF Dbs
  <1>9. iss \in [Items -> {"open", "closed", "closed_by_human"}]
    BY <1>4 DEF Dbs
  <1>10. \A f \in Findings : item[f] = IF f \in S /\ d.st[f] = "fixed" THEN None
                                                                       ELSE d.item[f]
    BY <1>4, <1>6
  <1> HIDE DEF item, iss
  <1>11. /\ e \in Dbs
         /\ e.item = item /\ e.wi = b.wi /\ e.sha = b.sha /\ e.st = b.st /\ e.by = b.by
    BY <1>4, <1>8, <1>9 DEF Dbs
  <1> HIDE DEF e
  <1>12. ASSUME NEW f \in Findings
         PROVE  /\ \/ Kept(d, e, f) /\ e.item[f] = d.item[f]
                   \/ Reopened(d, e, f) /\ e.item[f] = None
                /\ f \in S /\ d.st[f] = "fixed" => Reopened(d, e, f)
    BY <1>4, <1>5, <1>7, <1>10, <1>11 DEF Kept, Reopened
  <1>13. QED BY <1>1, <1>2, <1>4, <1>11, <1>12 DEF S

\* What drift does: it closes findings nobody worked on, and supersedes items.
LEMMA DriftEffect ==
  ASSUME TypeOK, NEW d \in Dbs, NEW r \in RunIds
  PROVE  LET e == AfterDrift(d, r)
         IN /\ e \in Dbs /\ e.item = d.item /\ e.sha = d.sha
            /\ \A f \in Findings :
                 \/ Kept(d, e, f)
                 \/ /\ d.st[f] \in {"open", "unclassified", "grouped"}
                    /\ ClosedBy(d, e, f, r)
            /\ \A i \in Items :
                 \/ e.wi[i] = d.wi[i]
                 \/ d.wi[i] = "issue_open" /\ e.wi[i] = "abandoned"
  <1> DEFINE S == {f \in Gone(d, r) : Valid(d, f, r, 0)}
             says == [f \in S |-> "closing_absent"]
             b == Fire(d, says, r)
             touched == {d.item[f] : f \in {g \in Gone(d, r) : d.st[g] = "grouped"}} \ {None}
             retired == {i \in touched : MayClose(b, i)}
             wi == [i \in Items |-> IF i \in retired THEN WiAfter(b.wi[i], "superseded")
                                                     ELSE b.wi[i]]
             iss == [i \in Items |-> IF i \in retired THEN "closed" ELSE b.iss[i]]
             e == [b EXCEPT !.wi = wi, !.iss = iss]
  <1>1. AfterDrift(d, r) = e
    BY DEF AfterDrift
  <1>2. /\ S \in SUBSET Findings
        /\ \A f \in S : /\ d.st[f] \in {"open", "unclassified", "grouped"}
                        /\ lastSeen[f] <= r /\ d.by[f] <= r
    BY ValidIsLatest DEF Gone
  <1>3. \A i \in retired : d.wi[i] = "issue_open"
    BY DEF Gone
  <1> HIDE DEF S, retired
  <1>4. says \in [S -> FindingEvents] /\ \A f \in S : says[f] = "closing_absent"
    BY DEF FindingEvents, FindingTarget
  <1> HIDE DEF says
  <1>5. /\ b \in Dbs
        /\ b.item = d.item /\ b.wi = d.wi /\ b.sha = d.sha /\ b.iss = d.iss
        /\ \A f \in Findings :
             b.st[f] = IF f \in S THEN FindingAfter(d.st[f], says[f]) ELSE d.st[f]
        /\ \A f \in Findings :
             b.by[f] = IF b.st[f] # d.st[f] /\ b.st[f] \in ClosingStates
                       THEN r ELSE d.by[f]
    BY <1>2, <1>4, FireEffect
  <1> HIDE DEF b
  <1>6. \A f \in S : b.st[f] = "fixed"
    BY <1>2, <1>4, <1>5 DEF FindingAfter, FindingTarget, FindingSources
  <1>7. \A i \in Items : wi[i] = IF i \in retired THEN "abandoned" ELSE d.wi[i]
    BY <1>3, <1>5, ItemMoves
  <1>8. wi \in [Items -> ItemStates] /\ iss \in [Items -> {"open", "closed", "closed_by_human"}]
    BY <1>5, <1>7 DEF Dbs, ItemStates
  <1> HIDE DEF wi, iss
  <1>9. /\ e \in Dbs
        /\ e.item = b.item /\ e.sha = b.sha /\ e.st = b.st /\ e.by = b.by /\ e.wi = wi
    BY <1>5, <1>8 DEF Dbs
  <1> HIDE DEF e
  <1>10. ASSUME NEW f \in Findings
         PROVE  \/ Kept(d, e, f)
                \/ /\ d.st[f] \in {"open", "unclassified", "grouped"}
                   /\ ClosedBy(d, e, f, r)
    <2>1. CASE f \in S
      BY <2>1, <1>2, <1>5, <1>6, <1>9 DEF ClosedBy, FindingStates, ClosingStates
    <2>2. CASE f \notin S
      BY <2>2, <1>5, <1>9 DEF Kept
    <2>3. QED BY <2>1, <2>2
  <1>11. QED BY <1>1, <1>3, <1>5, <1>7, <1>9, <1>10

\* It is back after all that the run did.
Back(d, e, f, r) ==
  /\ e.st[f] = "regression" /\ e.item[f] = None
  /\ e.by[f] = d.by[f] \/ (e.by[f] = r /\ lastSeen[f] <= r /\ d.by[f] <= r)

\* Verified items have closed members.
VerifiedClosed(d) ==
  \A f \in Findings : \A i \in Items :
    d.wi[i] = "verified" /\ d.item[f] = i => d.st[f] \in ClosingStates

\* A finding that was fixed against what run r says, which was the last to see it.
Contradicted(f, r, by) ==
  lastSeen[f] = r /\ by < r /\ run[r].report[f] # "absent"
    /\ f \in run[r].fit /\ run[r].sha >= run[by].sha

\* What apply_scan_run does to findings and items.
LEMMA EvaluatedEffect ==
  ASSUME TypeOK, NEW d \in Dbs, Unseen(d), VerifiedClosed(d), NEW r \in RunIds
  PROVE  LET e == Evaluated(d, r)
         IN /\ e \in Dbs /\ e.sha = d.sha
            /\ VerifiedClosed(e)
            /\ \A f \in Findings :
                 \/ /\ e.item[f] = d.item[f]
                    /\ Kept(d, e, f) \/ ClosedBy(d, e, f, r) \/ HandedBack(d, e, f)
                 \/ Back(d, e, f, r)
            /\ \A f \in Findings :
                 /\ d.item[f] \in Awaiting(d) /\ Says(d, f, r) = "closing_absent"
                 /\ e.item[f] = d.item[f]
                 => e.st[f] \in ClosingStates
            /\ \A f \in Findings :
                 e.st[f] = "fixed" => ~Contradicted(f, r, e.by[f])
            /\ \A i \in Awaiting(d) :
                 e.wi[i] \in {"awaiting_rescan", "verified", "needs_human"}
            /\ \A i \in Items \ Awaiting(d) :
                 e.wi[i] = d.wi[i] \/ e.wi[i] = "abandoned"
  <1> DEFINE I == Awaiting(d)
             x == CloseItems(d, I, r)
             y == AfterRegressions(x, r)
             e == AfterDrift(y, r)
  <1>1. Evaluated(d, r) = e
    BY DEF Evaluated
  <1>2. I \in SUBSET Items /\ \A i \in I : Closing(d, i)
    BY DEF Awaiting
  <1>3. \A i \in I : d.wi[i] # "issue_open" /\ d.wi[i] # "verified"
    BY <1>2 DEF Closing
  <1> HIDE DEF I
  <1>4. /\ x \in Dbs /\ x.item = d.item /\ x.sha = d.sha
        /\ \A f \in Findings :
             \/ Kept(d, x, f)
             \/ d.item[f] \in I /\ (ClosedBy(d, x, f, r) \/ HandedBack(d, x, f))
        /\ \A f \in Findings :
             d.item[f] \in I /\ Says(d, f, r) = "closing_absent"
               => x.st[f] \in ClosingStates
        /\ \A i \in Items \ I : x.wi[i] = d.wi[i]
        /\ \A i \in I :
             /\ x.wi[i] \in {"awaiting_rescan", "verified", "needs_human"}
             /\ x.wi[i] = "verified" =>
                  \A f \in Findings : d.item[f] = i => x.st[f] \in ClosingStates
    BY <1>2, CloseItemsEffect
  <1> HIDE DEF x
  <1>5. /\ y \in Dbs /\ y.wi = x.wi /\ y.sha = x.sha
        /\ \A f \in Findings :
             \/ Kept(x, y, f) /\ y.item[f] = x.item[f]
             \/ Reopened(x, y, f) /\ y.item[f] = None
        /\ \A f \in SeenAgain(x, r) : x.st[f] = "fixed" => Reopened(x, y, f)
    BY <1>4, RegressionsEffect
  <1> HIDE DEF y
  <1>6. /\ e \in Dbs /\ e.item = y.item /\ e.sha = y.sha
        /\ \A f \in Findings :
             \/ Kept(y, e, f)
             \/ /\ y.st[f] \in {"open", "unclassified", "grouped"}
                /\ ClosedBy(y, e, f, r)
        /\ \A i \in Items :
             \/ e.wi[i] = y.wi[i]
             \/ y.wi[i] = "issue_open" /\ e.wi[i] = "abandoned"
    BY <1>5, DriftEffect
  <1> HIDE DEF e
  <1>7. ASSUME NEW f \in Findings
        PROVE  \/ /\ e.item[f] = d.item[f]
                  /\ Kept(d, e, f) \/ ClosedBy(d, e, f, r) \/ HandedBack(d, e, f)
               \/ Back(d, e, f, r)
    <2>1. CASE Reopened(x, y, f) /\ y.item[f] = None
      <3>1. Kept(y, e, f)
        BY <2>1, <1>6 DEF Reopened
      <3>2. e.st[f] = "regression" /\ e.item[f] = None /\ e.by[f] = x.by[f]
        BY <2>1, <3>1, <1>6 DEF Reopened, Kept
      <3>3. QED BY <3>2, <1>4 DEF Back, Kept, ClosedBy, HandedBack
    <2>2. CASE Kept(x, y, f) /\ y.item[f] = x.item[f]
      <3>1. e.item[f] = d.item[f]
        BY <2>2, <1>4, <1>6
      <3>2. CASE Kept(y, e, f)
        BY <2>2, <3>1, <3>2, <1>4 DEF Kept, ClosedBy, HandedBack
      <3>3. CASE /\ y.st[f] \in {"open", "unclassified", "grouped"}
                 /\ ClosedBy(y, e, f, r)
        BY <2>2, <3>1, <3>3, <1>4 DEF Kept, ClosedBy, HandedBack, ClosingStates
      <3>4. QED BY <3>2, <3>3, <1>6
    <2>3. QED BY <2>1, <2>2, <1>5
  <1>8. ASSUME NEW f \in Findings, x.st[f] \in ClosingStates
        PROVE  e.st[f] \in ClosingStates \/ e.item[f] = None
    BY <1>5, <1>6, <1>8 DEF Kept, ClosedBy, Reopened
  <1>9. ASSUME NEW f \in Findings, d.item[f] \in I, Says(d, f, r) = "closing_absent",
               e.item[f] = d.item[f]
        PROVE  e.st[f] \in ClosingStates
    BY <1>2, <1>4, <1>8, <1>9 DEF Items, None
  <1>10. ASSUME NEW f \in Findings, e.st[f] = "fixed", Contradicted(f, r, e.by[f])
         PROVE  FALSE
    <2>1. e.by[f] # r
      BY <1>10 DEF Contradicted, RunIds
    <2>2. Kept(y, e, f)
      BY <2>1, <1>6 DEF ClosedBy
    <2>3. Kept(x, y, f) /\ x.st[f] = "fixed" /\ x.by[f] = e.by[f]
      BY <2>2, <1>5, <1>10 DEF Kept, Reopened
    <2>4. ~LaterRunSaw(x, f, r)
      BY <2>3, <1>4, <1>10 DEF LaterRunSaw, Contradicted, Dbs, RunIds, None
    <2>5. Valid(x, f, r, run[x.by[f]].sha)
      BY <2>3, <2>4, <1>10 DEF Valid, Contradicted
    <2>6. Present(f, r)
      BY <1>10 DEF Present, FamilyReports, Family, Contradicted
    <2>7. f \in SeenAgain(x, r)
      BY <2>3, <2>5, <2>6 DEF SeenAgain, ClosingStates
    <2>8. QED BY <2>3, <2>7, <1>5 DEF Kept, Reopened
  <1>11. \A i \in I : e.wi[i] \in {"awaiting_rescan", "verified", "needs_human"}
    BY <1>2, <1>4, <1>5, <1>6
  <1>12. \A i \in Items \ I : e.wi[i] = d.wi[i] \/ e.wi[i] = "abandoned"
    BY <1>4, <1>5, <1>6
  <1>13. VerifiedClosed(e)
    <2>1. SUFFICES ASSUME NEW f \in Findings, NEW i \in Items,
                          e.wi[i] = "verified", e.item[f] = i
                   PROVE  e.st[f] \in ClosingStates
      BY DEF VerifiedClosed
    <2>2. x.wi[i] = "verified" /\ i # None
      BY <2>1, <1>5, <1>6 DEF Items, None
    <2>3. x.item[f] = i
      BY <2>1, <2>2, <1>5, <1>6
    <2>4. x.st[f] \in ClosingStates
      <3>1. CASE i \in I
        BY <2>2, <2>3, <3>1, <1>4
      <3>2. CASE i \notin I
        <4>1. d.st[f] \in ClosingStates
          BY <2>2, <2>3, <3>2, <1>4 DEF VerifiedClosed
        <4>2. QED BY <4>1, <2>3, <3>2, <1>4 DEF Kept
      <3>3. QED BY <3>1, <3>2
    <2>5. QED BY <2>1, <2>2, <2>4, <1>8
  <1>14. QED BY <1>1, <1>4, <1>5, <1>6, <1>7, <1>9, <1>10, <1>11, <1>12, <1>13 DEF I

-----------------------------------------------------------------------------
(* The replay of applied runs for an item whose merge was observed late *)

\* What the replay has made of the database up to some run.
Replay(u, n, d, i) ==
  u = [r \in 0..n |-> IF r = 0 THEN d ELSE Weigh(u[r - 1], i, r)]

\* There is such a history: shown for the least run there is none for.
LEMMA ReplayExists ==
  ASSUME NEW d, NEW i, NEW n \in Nat
  PROVE  \E u : Replay(u, n, d, i)
  <1> DEFINE Lacking(m) == ~\E u : Replay(u, m, d, i)
             S == {m \in Nat : Lacking(m)}
  <1>1. SUFFICES ASSUME S # {}
                 PROVE  FALSE
    OBVIOUS
  <1>2. Min(S) \in S /\ \A m \in S : Min(S) <= m
    BY <1>1, LeastRun
  <1> DEFINE m == Min(S)
  <1> HIDE DEF m
  <1>3. m \in Nat /\ Lacking(m) /\ \A k \in Nat : k < m => ~Lacking(k)
    BY <1>2 DEF m
  <1>4. CASE m = 0
    <2>1. Replay([r \in 0..0 |-> d], m, d, i)
      BY <1>4 DEF Replay
    <2>2. QED BY <2>1, <1>3
  <1>5. CASE m # 0
    <2>1. PICK u : Replay(u, m - 1, d, i)
      BY <1>3, <1>5
    <2> DEFINE v == [r \in 0..m |-> IF r = m THEN Weigh(u[m - 1], i, m) ELSE u[r]]
    <2>2. \A r \in 0..m : v[r] = IF r = 0 THEN d ELSE Weigh(v[r - 1], i, r)
      <3>1. SUFFICES ASSUME NEW r \in 0..m
                     PROVE  v[r] = IF r = 0 THEN d ELSE Weigh(v[r - 1], i, r)
        OBVIOUS
      <3>2. CASE r = m
        BY <3>2, <1>3, <1>5
      <3>3. CASE r # m
        <4>1. r \in 0..(m - 1) /\ (r # 0 => r - 1 \in 0..(m - 1) /\ r - 1 # m)
          BY <3>3, <1>3, <1>5
        <4>2. u[r] = IF r = 0 THEN d ELSE Weigh(u[r - 1], i, r)
          BY <4>1, <2>1 DEF Replay
        <4>3. v[r] = u[r] /\ (r # 0 => v[r - 1] = u[r - 1])
          BY <3>3, <4>1, <1>3
        <4>4. QED BY <4>2, <4>3
      <3>4. QED BY <3>2, <3>3
    <2>3. v = [r \in 0..m |-> IF r = 0 THEN d ELSE Weigh(v[r - 1], i, r)]
      BY <2>2
    <2>4. QED BY <2>3, <1>3 DEF Replay
  <1>6. QED BY <1>4, <1>5

LEMMA ReplayedIs ==
  ASSUME NEW d, NEW i
  PROVE  \E u : Replay(u, MaxRuns, d, i) /\ Replayed(d, i) = u[MaxRuns]
  <1> DEFINE u == CHOOSE u : u = [r \in 0..MaxRuns |-> IF r = 0 THEN d
                                                       ELSE Weigh(u[r - 1], i, r)]
  <1>1. Replayed(d, i) = u[MaxRuns]
    BY DEF Replayed
  <1>2. Replay(u, MaxRuns, d, i)
    BY ReplayExists, ClosureAssumption DEF Replay
  <1>3. QED BY <1>1, <1>2

\* An applied run closed it during the replay.
ClosedAgain(d, e, f) ==
  /\ d.st[f] \notin ClosingStates /\ e.st[f] \in ClosingStates
  /\ e.by[f] \in applied
  /\ lastSeen[f] <= e.by[f] /\ d.by[f] <= e.by[f]

\* What a run up to n proves of a member of the item that waits is recorded.
Heeded(e, i, n) ==
  Closing(e, i) =>
    \A f \in Findings : \A r \in applied :
      /\ e.item[f] = i /\ r > mergedAfter[i] /\ r <= n
      /\ Outcome(e, i, f, r) = "closing_absent"
      => e.st[f] \in ClosingStates

\* The database after the replay of the runs up to n.
Replaying(d, e, i, n) ==
  /\ e \in Dbs /\ e.item = d.item /\ e.sha = d.sha
  /\ Unseen(e) /\ VerifiedClosed(e)
  /\ \A j \in Items \ {i} : e.wi[j] = d.wi[j]
  /\ e.wi[i] \in {"merged", "awaiting_rescan", "verified", "needs_human"}
  /\ \A f \in Findings :
       \/ Kept(d, e, f)
       \/ d.item[f] = i /\ (ClosedAgain(d, e, f) \/ HandedBack(d, e, f))
  /\ Heeded(e, i, n)

\* A run that was weighed before says no more of a finding that it says absent
\* than it said then: later runs only take its word away.
LEMMA WordsFade ==
  ASSUME TypeOK, NEW d \in Dbs, NEW e \in Dbs, NEW i, NEW f \in Findings,
         NEW r \in RunIds, e.sha = d.sha, d.by[f] <= e.by[f],
         Outcome(e, i, f, r) = "closing_absent"
  PROVE  Outcome(d, i, f, r) = "closing_absent"
  <1>1. Valid(e, f, r, e.sha[i]) /\ ~Present(f, r)
    BY OutcomeSays
  <1>2. lastSeen[f] <= r /\ e.by[f] <= r
    <2>1. ~LaterRunSaw(e, f, r)
      BY <1>1 DEF Valid
    <2>2. lastSeen[f] \in Int /\ e.by[f] \in Int /\ r \in Int
      BY DEF TypeOK, Dbs, RunIds, None
    <2>3. QED BY <2>1, <2>2 DEF LaterRunSaw
  <1>3. d.by[f] <= r /\ ~LaterRunSaw(d, f, r)
    <2>1. /\ lastSeen[f] \in Int /\ d.by[f] \in Int /\ e.by[f] \in Int /\ r \in Int
      BY DEF TypeOK, Dbs, RunIds, None
    <2>2. d.by[f] <= r
      BY <1>2, <2>1
    <2>3. QED BY <1>2, <2>1, <2>2 DEF LaterRunSaw
  <1>4. Valid(d, f, r, d.sha[i])
    BY <1>1, <1>3 DEF Valid
  <1>5. QED BY <1>1, <1>4, OutcomeSays

\* Closing the items of I with a run after earlier ones: verified items, findings
\* not seen yet, and what was heeded so far.
LEMMA CloseItemsKeeps ==
  ASSUME TypeOK, NEW d \in Dbs, Unseen(d), VerifiedClosed(d), NEW r \in RunIds,
         NEW I \in SUBSET Items, \A i \in I : Closing(d, i)
  PROVE  LET e == CloseItems(d, I, r)
         IN /\ Unseen(e) /\ VerifiedClosed(e)
            /\ \A f \in Findings : d.by[f] <= e.by[f]
            /\ \A f \in Findings : d.st[f] \in ClosingStates => e.st[f] = d.st[f]
  <1> DEFINE e == CloseItems(d, I, r)
  <1>1. /\ e \in Dbs /\ e.item = d.item /\ e.sha = d.sha
        /\ \A f \in Findings :
             \/ Kept(d, e, f)
             \/ d.item[f] \in I /\ (ClosedBy(d, e, f, r) \/ HandedBack(d, e, f))
        /\ \A i \in Items \ I : e.wi[i] = d.wi[i]
        /\ \A i \in I :
             e.wi[i] = "verified" =>
               \A f \in Findings : d.item[f] = i => e.st[f] \in ClosingStates
    BY CloseItemsEffect
  <1> HIDE DEF e
  <1>2. Unseen(e)
    BY <1>1 DEF Unseen, Kept, ClosedBy, HandedBack, ClosingStates
  <1>3. \A f \in Findings : d.by[f] <= e.by[f]
    BY <1>1 DEF Kept, ClosedBy, HandedBack, Dbs, RunIds, None
  <1>4. \A f \in Findings : d.st[f] \in ClosingStates => e.st[f] = d.st[f]
    BY <1>1 DEF Kept, ClosedBy, HandedBack, FindingSources, ClosingStates
  <1>5. VerifiedClosed(e)
    BY <1>1, <1>4 DEF VerifiedClosed
  <1>6. QED BY <1>2, <1>3, <1>4, <1>5 DEF e

LEMMA WeighStep ==
  ASSUME TypeOK, NEW d \in Dbs, NEW e, NEW i \in Items, NEW n \in Nat, n + 1 \in RunIds,
         Replaying(d, e, i, n)
  PROVE  Replaying(d, Weigh(e, i, n + 1), i, n + 1)
  <1> DEFINE q == n + 1
             x == CloseItems(e, {i}, q)
  <1> HIDE DEF q
  <1>0. q \in RunIds /\ q \in Int /\ \A r \in applied : r <= q => r <= n \/ r = q
    BY DEF q, TypeOK, RunIds
  <1>1. CASE ~(q \in applied /\ q > mergedAfter[i] /\ Closing(e, i))
    <2>1. Weigh(e, i, q) = e
      BY <1>1 DEF Weigh
    <2>2. Heeded(e, i, q)
      BY <1>0, <1>1 DEF Replaying, Heeded
    <2>3. QED BY <2>1, <2>2 DEF Replaying, q
  <1>2. CASE q \in applied /\ q > mergedAfter[i] /\ Closing(e, i)
    <2>1. Weigh(e, i, q) = x
      BY <1>2 DEF Weigh
    <2>2. e \in Dbs /\ Unseen(e) /\ VerifiedClosed(e)
          /\ {i} \in SUBSET Items /\ \A j \in {i} : Closing(e, j)
      BY <1>2 DEF Replaying
    <2>3. /\ x \in Dbs /\ x.item = e.item /\ x.sha = e.sha
          /\ \A f \in Findings :
               \/ Kept(e, x, f)
               \/ e.item[f] \in {i} /\ (ClosedBy(e, x, f, q) \/ HandedBack(e, x, f))
          /\ \A f \in Findings :
               e.item[f] \in {i} /\ Says(e, f, q) = "closing_absent"
                 => x.st[f] \in ClosingStates
          /\ \A j \in Items \ {i} : x.wi[j] = e.wi[j]
          /\ \A j \in {i} : x.wi[j] \in {"awaiting_rescan", "verified", "needs_human"}
      BY <1>0, <2>2, CloseItemsEffect
    <2>4. /\ Unseen(x) /\ VerifiedClosed(x)
          /\ \A f \in Findings : e.by[f] <= x.by[f]
          /\ \A f \in Findings : e.st[f] \in ClosingStates => x.st[f] = e.st[f]
      BY <1>0, <2>2, CloseItemsKeeps
    <2> HIDE DEF x
    <2>5. ASSUME NEW f \in Findings
          PROVE  \/ Kept(d, x, f)
                 \/ d.item[f] = i /\ (ClosedAgain(d, x, f) \/ HandedBack(d, x, f))
      <3>1. \/ Kept(d, e, f)
            \/ d.item[f] = i /\ (ClosedAgain(d, e, f) \/ HandedBack(d, e, f))
        BY DEF Replaying
      <3>2. CASE Kept(e, x, f)
        BY <3>1, <3>2 DEF Kept, ClosedAgain, HandedBack
      <3>3. CASE e.item[f] = i /\ ClosedBy(e, x, f, q)
        <4>1. d.st[f] \notin ClosingStates /\ d.by[f] = e.by[f]
          BY <3>1, <3>3 DEF Kept, ClosedAgain, HandedBack, ClosedBy, FindingSources,
                            ClosingStates
        <4>2. e.item = d.item
          BY DEF Replaying
        <4>3. QED BY <3>3, <4>1, <4>2, <1>2 DEF ClosedAgain, ClosedBy
      <3>4. CASE e.item[f] = i /\ HandedBack(e, x, f)
        BY <3>1, <3>4
        DEF Kept, ClosedAgain, HandedBack, Replaying, FindingSources, ClosingStates
      <3>5. QED BY <2>3, <3>2, <3>3, <3>4
    <2>6. Heeded(x, i, q)
      <3>1. SUFFICES ASSUME NEW f \in Findings, NEW r \in applied,
                            x.item[f] = i, r > mergedAfter[i], r <= q,
                            Outcome(x, i, f, r) = "closing_absent"
                     PROVE  x.st[f] \in ClosingStates
        BY DEF Heeded
      <3>2. r \in RunIds
        BY RunsAreNumbered
      <3>3. Outcome(e, i, f, r) = "closing_absent"
        BY <2>2, <2>3, <2>4, <3>1, <3>2, WordsFade
      <3>4. CASE r <= n
        <4>1. e.st[f] \in ClosingStates
          BY <1>2, <2>3, <3>1, <3>3, <3>4 DEF Replaying, Heeded
        <4>2. QED BY <4>1, <2>4
      <3>5. CASE r = q
        <4>1. e.item[f] = i
          BY <2>3, <3>1
        <4>2. Says(e, f, q) = "closing_absent"
          BY <4>1, <3>3, <3>5 DEF Says
        <4>3. QED BY <4>1, <4>2, <2>3
      <3>6. QED BY <1>0, <3>1, <3>4, <3>5
    <2>7. Replaying(d, x, i, q)
      BY <2>3, <2>4, <2>5, <2>6 DEF Replaying
    <2>8. QED BY <2>1, <2>7 DEF q
  <1>3. QED BY <1>1, <1>2

\* The replay as a whole, by the least run it would not hold up to.
LEMMA ReplayedEffect ==
  ASSUME TypeOK, NEW d \in Dbs, NEW i \in Items, d.wi[i] = "merged",
         Unseen(d), VerifiedClosed(d)
  PROVE  Replaying(d, Replayed(d, i), i, MaxRuns)
  <1>1. PICK u : Replay(u, MaxRuns, d, i) /\ Replayed(d, i) = u[MaxRuns]
    BY ReplayedIs
  <1> DEFINE S == {n \in 0..MaxRuns : ~Replaying(d, u[n], i, n)}
  <1>2. SUFFICES ASSUME S # {}
                 PROVE  FALSE
    BY <1>1, ClosureAssumption
  <1>3. S \in SUBSET Nat
    OBVIOUS
  <1> DEFINE m == Min(S)
  <1>4. m \in S /\ \A n \in S : m <= n
    BY <1>2, <1>3, LeastRun
  <1> HIDE DEF m
  <1>5. m \in 0..MaxRuns /\ ~Replaying(d, u[m], i, m)
    BY <1>4
  <1>6. CASE m = 0
    <2>1. u[0] = d
      BY <1>1, ClosureAssumption DEF Replay
    <2>2. Heeded(d, i, 0)
      BY DEF Heeded, TypeOK, RunIds
    <2>3. Replaying(d, d, i, 0)
      BY <2>2 DEF Replaying, Kept
    <2>4. QED BY <1>5, <1>6, <2>1, <2>3
  <1>7. CASE m # 0
    <2>1. m - 1 \in 0..MaxRuns /\ m - 1 \in Nat /\ (m - 1) + 1 = m /\ m \in RunIds
      BY <1>5, <1>7, ClosureAssumption DEF RunIds
    <2>2. Replaying(d, u[m - 1], i, m - 1)
      BY <1>4, <2>1
    <2>3. u[m] = Weigh(u[m - 1], i, m)
      BY <1>1, <1>5, <1>7 DEF Replay
    <2>4. Replaying(d, Weigh(u[m - 1], i, m), i, m)
      <3> DEFINE e == u[m - 1]
                 n == m - 1
      <3> HIDE DEF e, n
      <3>1. Replaying(d, e, i, n) /\ n \in Nat /\ n + 1 \in RunIds /\ n + 1 = m
        BY <2>1, <2>2 DEF e, n
      <3>2. Replaying(d, Weigh(e, i, n + 1), i, n + 1)
        BY <3>1, WeighStep
      <3>3. QED BY <3>1, <3>2 DEF e
    <2>5. QED BY <1>5, <2>3, <2>4
  <1>8. QED BY <1>6, <1>7

-----------------------------------------------------------------------------
(* The inductive invariant *)

\* The runs that report a finding.
Reporting(f) == {r \in ingested : run[r].report[f] # "absent"}

\* The last of them is the one its row names.
LatestWord ==
  \A f \in Findings :
    /\ lastSeen[f] \in Reporting(f) \cup {None}
    /\ \A r \in Reporting(f) : r <= lastSeen[f]

IndInv ==
  /\ Inv
  /\ LatestWord
  /\ VerifiedMembersAreClosed
  /\ StandingEvidence
  /\ EvidenceIsNotMissed

\* The database as the model's variables hold it.
LEMMA DbFields ==
  /\ Db.st = fState /\ Db.by = closedBy /\ Db.item = fItem
  /\ Db.wi = state /\ Db.sha = mergeSha /\ Db.iss = issue
  BY DEF Db

LEMMA DbType ==
  ASSUME Inv, VerifiedMembersAreClosed
  PROVE  Db \in Dbs /\ Unseen(Db) /\ VerifiedClosed(Db)
  <1>1. Db \in Dbs
    BY DEF Db, Dbs, Inv, TypeOK
  <1>2. Unseen(Db)
    BY DbFields DEF Unseen, Inv, FindingsAreAccountedFor
  <1>3. VerifiedClosed(Db)
    BY DbFields DEF VerifiedClosed, VerifiedMembersAreClosed, Members
  <1>4. QED BY <1>1, <1>2, <1>3

\* What is installed is well-formed.
LEMMA InstallType ==
  ASSUME NEW d \in Dbs, Install(d)
  PROVE  /\ fState' \in [Findings -> FindingStates \cup {"none"}]
         /\ closedBy' \in [Findings -> RunIds \cup {None}]
         /\ fItem' \in [Findings -> Items \cup {None}]
         /\ state' \in [Items -> ItemStates]
         /\ mergeSha' \in [Items -> 0..MaxMerges]
         /\ issue' \in [Items -> {"open", "closed", "closed_by_human"}]
  BY DEF Install, Dbs

\* The run that is applied next is pending.
LEMMA NextRun ==
  ASSUME Inv, phase = "apply"
  PROVE  /\ Min(todo) \in todo /\ Min(todo) \in ingested \ applied
         /\ Min(todo) \in RunIds
  <1>1. todo # {} /\ todo \subseteq ingested \ applied /\ todo \subseteq RunIds
    BY RunsAreNumbered DEF Inv, RunsArePending
  <1>2. todo \in SUBSET Nat
    BY <1>1 DEF RunIds
  <1>3. QED BY <1>1, <1>2, LeastRun

-----------------------------------------------------------------------------
(* Types *)

LEMMA ApplyRunTypes ==
  ASSUME Inv, VerifiedMembersAreClosed, ApplyRun
  PROVE  TypeOK'
  <1> DEFINE r == Min(todo)
  <1>1. r \in todo /\ r \in ingested \ applied /\ r \in RunIds
    BY NextRun DEF ApplyRun
  <1> HIDE DEF r
  <1>2. Install(Evaluated(Db, r)) /\ applied' = applied \cup {r} /\ todo' = todo \ {r}
    BY DEF ApplyRun, r
  <1>3. Evaluated(Db, r) \in Dbs
    BY <1>1, DbType, EvaluatedEffect DEF Inv
  <1>4. phase' \in {"poll", "apply", "group"}
    BY DEF ApplyRun
  <1>5. QED BY <1>1, <1>2, <1>3, <1>4, InstallType DEF ApplyRun, Inv, TypeOK, hubVars, RunSays

LEMMA ObserveMergeIs ==
  ASSUME Inv, VerifiedMembersAreClosed, NEW i \in Items, ObserveMerge(i)
  PROVE  \E d \in Dbs :
           /\ Install(Replayed(d, i))
           /\ Unseen(d) /\ VerifiedClosed(d)
           /\ d.wi = [state EXCEPT ![i] = "merged"]
           /\ d.sha = [mergeSha EXCEPT ![i] = hubMerge[i]]
           /\ d.item = fItem /\ d.by = closedBy
           /\ \A f \in Findings :
                \/ d.st[f] = fState[f]
                \/ /\ fItem[f] = i /\ fState[f] = "in_remediation"
                   /\ d.st[f] = "awaiting_rescan"
  <1> DEFINE S == Members(Db, i)
             says == [f \in S |-> "pr_merged"]
             merged == Fire(Db, says, None)
             flagged == IF state[i] = "session_active" THEN WiAfter(state[i], "blocked")
                                                       ELSE state[i]
             d == [merged EXCEPT !.wi[i] = WiAfter(flagged, "human_merged"),
                                 !.sha[i] = hubMerge[i]]
  <1>1. Install(Replayed(d, i))
    BY DEF ObserveMerge
  <1>2. Db \in Dbs /\ Unseen(Db) /\ VerifiedClosed(Db)
    BY DbType
  <1>3. WiAfter(flagged, "human_merged") = "merged"
    BY ItemMoves DEF ObserveMerge
  <1> HIDE DEF flagged
  <1>4. S \in SUBSET Findings /\ \A f \in S : fItem[f] = i
    BY DbFields DEF Members
  <1>5. says \in [S -> FindingEvents] /\ \A f \in S : says[f] = "pr_merged"
    BY DEF FindingEvents, FindingTarget
  <1> HIDE DEF S, says
  <1>6. None \in RunIds \cup {None}
    OBVIOUS
  <1>7. /\ merged \in Dbs
        /\ merged.item = fItem /\ merged.wi = state /\ merged.sha = mergeSha
        /\ \A f \in Findings :
             merged.st[f] = IF f \in S THEN FindingAfter(fState[f], says[f]) ELSE fState[f]
        /\ \A f \in Findings :
             merged.by[f] = IF merged.st[f] # fState[f] /\ merged.st[f] \in ClosingStates
                            THEN None ELSE closedBy[f]
    BY <1>2, <1>4, <1>5, <1>6, FireEffect, DbFields
  <1> HIDE DEF merged
  <1>8. \A f \in Findings :
           \/ merged.st[f] = fState[f]
           \/ /\ fItem[f] = i /\ fState[f] = "in_remediation"
              /\ merged.st[f] = "awaiting_rescan"
    BY <1>4, <1>5, <1>7 DEF FindingAfter, FindingTarget, FindingSources
  <1>9. merged.by = closedBy
    BY <1>7, <1>8 DEF Dbs, ClosingStates, Inv, TypeOK
  <1>10. hubMerge[i] \in 0..MaxMerges /\ "merged" \in ItemStates
    BY DEF Inv, TypeOK, ItemStates
  <1>11. /\ d \in Dbs
         /\ d.wi = [state EXCEPT ![i] = "merged"]
         /\ d.sha = [mergeSha EXCEPT ![i] = hubMerge[i]]
         /\ d.item = fItem /\ d.by = closedBy /\ d.st = merged.st
    BY <1>3, <1>7, <1>9, <1>10 DEF Dbs
  <1> HIDE DEF d
  <1>12. Unseen(d)
    BY <1>2, <1>8, <1>11, DbFields DEF Unseen
  <1>13. VerifiedClosed(d)
    <2>1. SUFFICES ASSUME NEW f \in Findings, NEW j \in Items,
                          d.wi[j] = "verified", d.item[f] = j
                   PROVE  d.st[f] \in ClosingStates
      BY DEF VerifiedClosed
    <2>2. j # i /\ state[j] = "verified"
      BY <2>1, <1>11 DEF Inv, TypeOK
    <2>3. fState[f] \in ClosingStates
      BY <2>1, <2>2, <1>2, <1>11, DbFields DEF VerifiedClosed
    <2>4. QED BY <2>1, <2>2, <2>3, <1>8, <1>11
  <1>14. QED BY <1>1, <1>8, <1>11, <1>12, <1>13

\* Observing a merge replays the applied runs on the item as merged.
LEMMA ObserveMergeReplays ==
  ASSUME Inv, VerifiedMembersAreClosed, NEW i \in Items, ObserveMerge(i)
  PROVE  \E d \in Dbs, e \in Dbs :
           /\ Install(e) /\ Replaying(d, e, i, MaxRuns)
           /\ d.wi = [state EXCEPT ![i] = "merged"]
           /\ d.sha = [mergeSha EXCEPT ![i] = hubMerge[i]]
           /\ d.item = fItem /\ d.by = closedBy
           /\ \A f \in Findings :
                \/ d.st[f] = fState[f]
                \/ /\ fItem[f] = i /\ fState[f] = "in_remediation"
                   /\ d.st[f] = "awaiting_rescan"
  <1>1. PICK d \in Dbs :
          /\ Install(Replayed(d, i))
          /\ Unseen(d) /\ VerifiedClosed(d)
          /\ d.wi = [state EXCEPT ![i] = "merged"]
          /\ d.sha = [mergeSha EXCEPT ![i] = hubMerge[i]]
          /\ d.item = fItem /\ d.by = closedBy
          /\ \A f \in Findings :
               \/ d.st[f] = fState[f]
               \/ /\ fItem[f] = i /\ fState[f] = "in_remediation"
                  /\ d.st[f] = "awaiting_rescan"
    BY ObserveMergeIs
  <1>2. d.wi[i] = "merged"
    BY <1>1 DEF Inv, TypeOK
  <1>3. Replaying(d, Replayed(d, i), i, MaxRuns)
    BY <1>1, <1>2, ReplayedEffect DEF Inv
  <1>4. Replayed(d, i) \in Dbs
    BY <1>3 DEF Replaying
  <1>5. QED BY <1>1, <1>3, <1>4

LEMMA ObserveMergeTypes ==
  ASSUME Inv, VerifiedMembersAreClosed, NEW i \in Items, ObserveMerge(i)
  PROVE  TypeOK'
  <1>1. PICK e \in Dbs : Install(e)
    BY ObserveMergeReplays
  <1>2. QED BY <1>1, InstallType
        DEF ObserveMerge, Inv, TypeOK, runVars, hubVars, RunSays

\* An evaluation that is cut leaves issues as some prefix of it would.
LEMMA ApplyCutTypes ==
  ASSUME Inv, VerifiedMembersAreClosed, ApplyCut
  PROVE  TypeOK'
  <1> DEFINE r == Min(todo)
  <1>1. r \in RunIds
    BY NextRun DEF ApplyCut
  <1>2. issue' \in Effects(Db, r)
    BY DEF ApplyCut
  <1> HIDE DEF r
  <1>3. Awaiting(Db) \in SUBSET Items /\ \A i \in Awaiting(Db) : Closing(Db, i)
    BY DEF Awaiting
  <1>4. CloseItems(Db, Awaiting(Db), r) \in Dbs
    BY <1>1, <1>3, DbType, CloseItemsEffect DEF Inv
  <1>5. AfterRegressions(CloseItems(Db, Awaiting(Db), r), r) \in Dbs
    BY <1>1, <1>4, RegressionsEffect DEF Inv
  <1>6. Evaluated(Db, r) \in Dbs
    BY <1>1, DbType, EvaluatedEffect DEF Inv
  <1>7. issue' \in [Items -> {"open", "closed", "closed_by_human"}]
    BY <1>2, <1>4, <1>5, <1>6 DEF Effects, Dbs
  <1>8. QED BY <1>7, ClosureAssumption
        DEF ApplyCut, Inv, TypeOK, findingVars, itemVars, hubVars, RunSays

\* A run that is ingested has one of the forms it may take.
LEMMA IngestTypes ==
  ASSUME Inv, NEW r \in RunIds, Ingest(r)
  PROVE  TypeOK'
  <1>1. PICK report \in [Findings -> Reports[r]], fit \in Fits[r], sha \in 0..shaLimit[r] :
          LET told == {f \in Findings : report[f] # "absent" /\ SpeaksFor(f, r)}
          IN /\ run' = [run EXCEPT ![r] = [report |-> report, fit |-> fit, sha |-> sha]]
             /\ lastSeen' = [f \in Findings |-> IF f \in told THEN r ELSE lastSeen[f]]
             /\ fState' = [f \in Findings |-> IF f \in told THEN StateSeen(f, report[f])
                                                            ELSE fState[f]]
    BY DEF Ingest
  <1>2. report \in [Findings -> Words] /\ fit \in SUBSET Findings /\ sha \in 0..MaxMerges
    BY ClosureAssumption DEF Inv, TypeOK, RunIds
  <1>3. [report |-> report, fit |-> fit, sha |-> sha] \in RunSays(r)
    BY <1>2 DEF RunSays
  <1>4. run' \in [RunIds -> [report : [Findings -> Words], fit : SUBSET Findings,
                             sha : 0..MaxMerges]]
    BY <1>1, <1>2 DEF Inv, TypeOK
  <1>5. r \in 1..finished /\ ingested' = ingested \cup {r}
    BY DEF Ingest
  <1>6. \A q \in ingested' : run'[q] \in RunSays(q)
    BY <1>1, <1>3, <1>5, RunsAreNumbered DEF Inv, TypeOK, RunSays
  <1>7. lastSeen' \in [Findings -> RunIds \cup {None}]
    BY <1>1 DEF Inv, TypeOK
  <1>8. fState' \in [Findings -> FindingStates \cup {"none"}]
    <2>1. \A f \in Findings, w \in Words : StateSeen(f, w) \in FindingStates
      BY DEF StateSeen, Inv, TypeOK, FindingStates, ClosingStates
    <2>2. QED BY <1>1, <1>2, <2>1 DEF Inv, TypeOK
  <1>9. (\A q \in ingested : run[q] \in RunSays(q))' <=> \A q \in ingested' : run'[q] \in RunSays(q)
    BY DEF RunSays
  <1>10. QED BY <1>4, <1>5, <1>6, <1>7, <1>8, <1>9 DEF Ingest, Inv, TypeOK, itemVars, hubVars

\* The group's item is one of the items.
LEMMA GroupTypes ==
  ASSUME Inv, GroupFindings
  PROVE  TypeOK'
  <1> DEFINE i == ItemForGroup
             joining == {f \in Groupable : fItem[f] # i}
  <1>1. i \in Items
    BY DEF GroupFindings, CanGroup
  <1>2. joining \subseteq Findings
    BY DEF Groupable
  <1>3. /\ state' = [state EXCEPT ![i] = IF @ = "none" THEN "issue_open" ELSE @]
        /\ fItem' = [f \in Findings |-> IF f \in joining THEN i ELSE fItem[f]]
        /\ fState' = [f \in Findings |-> IF f \in joining
                        THEN FindingAfter(fState[f], "grouped") ELSE fState[f]]
    BY DEF GroupFindings
  <1> HIDE DEF i, joining
  <1>4. state' \in [Items -> ItemStates]
    BY <1>1, <1>3 DEF Inv, TypeOK, ItemStates
  <1>5. fItem' \in [Findings -> Items \cup {None}]
    BY <1>1, <1>3 DEF Inv, TypeOK
  <1>6. "grouped" \in FindingEvents
    BY DEF FindingEvents, FindingTarget
  <1>7. fState' \in [Findings -> FindingStates \cup {"none"}]
    BY <1>3, <1>6, FindingMoves DEF Inv, TypeOK
  <1>8. QED BY <1>4, <1>5, <1>7 DEF GroupFindings, Inv, TypeOK, hubVars, RunSays

LEMMA StartTypes ==
  ASSUME Inv, NEW i \in Items, Start(i) \/ PollClosedIssue(i)
  PROVE  TypeOK'
  <1>1. {"remediation_started", "human_blocked"} \subseteq FindingEvents
    BY DEF FindingEvents, FindingTarget
  <1>2. fState' \in [Findings -> FindingStates \cup {"none"}]
    BY <1>1, FindingMoves DEF Start, PollClosedIssue, Inv, TypeOK
  <1>3. state' \in [Items -> ItemStates]
    BY ItemMoves DEF Start, PollClosedIssue, Inv, TypeOK, ItemStates
  <1>4. QED BY <1>2, <1>3 DEF Start, PollClosedIssue, Inv, TypeOK, runVars, hubVars, RunSays

\* The steps that neither read nor write evidence.
QuietStep ==
  \/ ScanFinishes \/ ReadPending \/ GroupNothing \/ ApplyCut
  \/ \E i \in Items : \/ Offer(i) \/ HandOver(i) \/ Retry(i) \/ Resolve(i)
                      \/ MergeOnHub(i) \/ CloseIssue(i)

LEMMA QuietTypes ==
  ASSUME Inv, VerifiedMembersAreClosed, QuietStep
  PROVE  TypeOK'
  <1> USE DEF Inv
  <1>1. CASE ScanFinishes
    <2>1. /\ finished \in 0..MaxRuns /\ main \in 0..MaxMerges
          /\ shaLimit \in [RunIds -> 0..MaxMerges] /\ ingested \subseteq 1..finished
          /\ MaxRuns \in Nat
      BY ClosureAssumption DEF TypeOK
    <2>2. finished' = finished + 1 /\ finished < MaxRuns
          /\ shaLimit' = [shaLimit EXCEPT ![finished + 1] = main]
      BY <1>1 DEF ScanFinishes
    <2>3. finished' \in 0..MaxRuns
      BY <2>1, <2>2
    <2>4. shaLimit' \in [RunIds -> 0..MaxMerges]
      BY <2>1, <2>2
    <2>5. ingested \subseteq 1..finished'
      BY <2>1, <2>2
    <2>6. QED BY <1>1, <2>3, <2>4, <2>5
          DEF ScanFinishes, TypeOK, findingVars, itemVars, hubVars, RunSays
  <1>2. CASE ReadPending \/ GroupNothing
    BY <1>2 DEF ReadPending, GroupNothing, TypeOK, findingVars, itemVars, hubVars, RunSays
  <1>3. CASE ApplyCut
    BY <1>3, ApplyCutTypes
  <1>4. ASSUME NEW i \in Items, Offer(i) \/ HandOver(i) \/ Retry(i) \/ Resolve(i)
        PROVE  TypeOK'
    <2>1. PICK s \in ItemStates : state' = [state EXCEPT ![i] = s]
      <3>1. WiAfter("needs_human", "human_retry") \in ItemStates
            /\ WiAfter("needs_human", "human_resolved") \in ItemStates
            /\ "ready_for_human" \in ItemStates /\ "needs_human" \in ItemStates
        BY ItemMoves DEF ItemStates
      <3>2. QED BY <1>4, <3>1 DEF Offer, HandOver, Retry, Resolve
    <2>2. PICK a \in Resolutions \cup {resolution[i]} :
            resolution' = resolution \/ resolution' = [resolution EXCEPT ![i] = a]
      BY <1>4 DEF Offer, HandOver, Retry, Resolve
    <2>3. hubMerge' = hubMerge \/ hubMerge' = [hubMerge EXCEPT ![i] = 0]
      BY <1>4 DEF Offer, HandOver, Retry, Resolve, hubVars
    <2>4. /\ state \in [Items -> ItemStates] /\ resolution \in [Items -> Resolutions]
          /\ hubMerge \in [Items -> 0..MaxMerges] /\ 0 \in 0..MaxMerges
      BY ClosureAssumption DEF TypeOK
    <2>5. /\ state' \in [Items -> ItemStates] /\ resolution' \in [Items -> Resolutions]
          /\ hubMerge' \in [Items -> 0..MaxMerges]
      BY <2>1, <2>2, <2>3, <2>4
    <2>6. QED BY <1>4, <2>5
          DEF Offer, HandOver, Retry, Resolve, TypeOK, findingVars, runVars, hubVars, RunSays
  <1>5. ASSUME NEW i \in Items, MergeOnHub(i)
        PROVE  TypeOK'
    <2>1. /\ main \in 0..MaxMerges /\ hubMerge \in [Items -> 0..MaxMerges]
          /\ mergedAfter \in [Items -> 0..MaxRuns] /\ finished \in 0..MaxRuns
          /\ MaxMerges \in Nat
      BY ClosureAssumption DEF TypeOK
    <2>2. main + 1 \in 0..MaxMerges
      BY <1>5, <2>1 DEF MergeOnHub
    <2>3. /\ main' \in 0..MaxMerges /\ hubMerge' \in [Items -> 0..MaxMerges]
          /\ mergedAfter' \in [Items -> 0..MaxRuns]
      BY <1>5, <2>1, <2>2 DEF MergeOnHub
    <2>4. QED BY <1>5, <2>3
          DEF MergeOnHub, TypeOK, findingVars, itemVars, runVars, RunSays
  <1>6. ASSUME NEW i \in Items, CloseIssue(i)
        PROVE  TypeOK'
    BY <1>6 DEF CloseIssue, TypeOK, findingVars, itemVars, runVars, hubVars, RunSays
  <1>7. QED BY <1>1, <1>2, <1>3, <1>4, <1>5, <1>6 DEF QuietStep

\* What the other steps leave alone.
LEMMA QuietEffect ==
  ASSUME Inv, QuietStep
  PROVE  /\ UNCHANGED <<findingVars, run, ingested, applied, mergeSha>>
         /\ RunsArePending'
         /\ \A i \in Items : state'[i] = "verified" => state[i] = "verified"
         /\ \A i \in Items :
              state'[i] \in {"merged", "awaiting_rescan"} /\ resolution'[i] = "none"
                => /\ state[i] \in {"merged", "awaiting_rescan"} /\ resolution[i] = "none"
                   /\ mergedAfter'[i] = mergedAfter[i]
  <1> USE DEF Inv
  <1>1. CASE ScanFinishes \/ ReadPending \/ GroupNothing \/ ApplyCut
    BY <1>1 DEF ScanFinishes, ReadPending, GroupNothing, ApplyCut, RunsArePending, itemVars,
                hubVars, TypeOK
  <1>2. ASSUME NEW i \in Items, Offer(i) \/ HandOver(i) \/ Retry(i)
        PROVE  /\ UNCHANGED <<findingVars, runVars, resolution, mergeSha, mergedAfter>>
               /\ state' \in {[state EXCEPT ![i] = s] :
                                s \in {"ready_for_human", "needs_human", "issue_open"}}
    BY <1>2, ItemMoves DEF Offer, HandOver, Retry, hubVars
  <1>3. ASSUME NEW i \in Items, Resolve(i)
        PROVE  /\ UNCHANGED <<findingVars, runVars, mergeSha, mergedAfter>>
               /\ \E a \in Resolutions \ {"none"} : resolution' = [resolution EXCEPT ![i] = a]
               /\ state' = [state EXCEPT ![i] = "awaiting_rescan"]
    BY <1>3, ItemMoves DEF Resolve, hubVars
  <1>4. ASSUME NEW i \in Items, MergeOnHub(i)
        PROVE  /\ UNCHANGED <<findingVars, runVars, itemVars>>
               /\ state[i] \notin {"merged", "awaiting_rescan"}
               /\ mergedAfter' = [mergedAfter EXCEPT ![i] = finished]
    BY <1>4 DEF MergeOnHub
  <1>5. ASSUME NEW i \in Items, CloseIssue(i)
        PROVE  UNCHANGED <<findingVars, runVars, itemVars, mergedAfter>>
    BY <1>5 DEF CloseIssue, hubVars
  <1>6. UNCHANGED runVars => RunsArePending'
    BY DEF runVars, RunsArePending
  <1>7. ASSUME NEW i \in Items, \/ Offer(i) \/ HandOver(i) \/ Retry(i) \/ Resolve(i)
                                \/ MergeOnHub(i) \/ CloseIssue(i)
        PROVE  /\ UNCHANGED <<findingVars, run, ingested, applied, mergeSha>>
               /\ RunsArePending'
               /\ \A j \in Items : state'[j] = "verified" => state[j] = "verified"
               /\ \A j \in Items :
                    state'[j] \in {"merged", "awaiting_rescan"} /\ resolution'[j] = "none"
                      => /\ state[j] \in {"merged", "awaiting_rescan"}
                         /\ resolution[j] = "none" /\ mergedAfter'[j] = mergedAfter[j]
    <2>1. /\ state \in [Items -> ItemStates] /\ resolution \in [Items -> Resolutions]
          /\ mergedAfter \in [Items -> 0..MaxRuns]
      BY DEF TypeOK
    <2>2. CASE Offer(i) \/ HandOver(i) \/ Retry(i)
      BY <1>2, <1>6, <2>1, <2>2 DEF runVars
    <2>3. CASE Resolve(i)
      BY <1>3, <1>6, <2>1, <2>3 DEF runVars
    <2>4. CASE MergeOnHub(i)
      BY <1>4, <1>6, <2>1, <2>4 DEF runVars, itemVars
    <2>5. CASE CloseIssue(i)
      BY <1>5, <1>6, <2>1, <2>5 DEF runVars, itemVars
    <2>6. QED BY <1>7, <2>2, <2>3, <2>4, <2>5
  <1>8. QED BY <1>1, <1>7 DEF QuietStep

\* The kinds of steps there are.
LEMMA Steps ==
  ASSUME Next
  PROVE  \/ QuietStep
         \/ \E r \in RunIds : Ingest(r)
         \/ ApplyRun
         \/ GroupFindings
         \/ \E i \in Items : ObserveMerge(i)
         \/ \E i \in Items : Start(i) \/ PollClosedIssue(i)
  BY DEF Next, Tick, QuietStep

-----------------------------------------------------------------------------
(* What each kind of step does to findings and items *)

\* What ingesting a run does to a finding: the last run to report it is named,
\* and a closed finding stays closed.
LEMMA IngestEffect ==
  ASSUME Inv, NEW r \in RunIds, Ingest(r)
  PROVE  /\ r \notin ingested /\ ingested' = ingested \cup {r}
         /\ UNCHANGED <<sameFamily, fItem, closedBy, itemVars, mergedAfter, applied>>
         /\ RunsArePending'
         /\ \A q \in RunIds \ {r} : run'[q] = run[q]
         /\ \A f \in Findings :
              \/ /\ run'[r].report[f] # "absent" /\ lastSeen[f] <= r /\ lastSeen'[f] = r
                 /\ fState'[f] \notin {"none", "regression"} \/ fState'[f] = fState[f]
                 /\ fState'[f] \in {"open", "unclassified"} \/ fState'[f] = fState[f]
                 /\ fState[f] \in ClosingStates => fState'[f] = fState[f]
              \/ /\ run'[r].report[f] = "absent" \/ r < lastSeen[f]
                 /\ lastSeen'[f] = lastSeen[f] /\ fState'[f] = fState[f]
  <1>1. PICK report \in [Findings -> Reports[r]], fit \in Fits[r], sha \in 0..shaLimit[r] :
          LET told == {f \in Findings : report[f] # "absent" /\ SpeaksFor(f, r)}
          IN /\ run' = [run EXCEPT ![r] = [report |-> report, fit |-> fit, sha |-> sha]]
             /\ lastSeen' = [f \in Findings |-> IF f \in told THEN r ELSE lastSeen[f]]
             /\ fState' = [f \in Findings |-> IF f \in told THEN StateSeen(f, report[f])
                                                            ELSE fState[f]]
    BY DEF Ingest
  <1>2. run'[r].report = report /\ \A q \in RunIds \ {r} : run'[q] = run[q]
    BY <1>1 DEF Inv, TypeOK
  <1>3. \A f \in Findings : lastSeen[f] \in Int /\ r \in Int
    BY DEF Inv, TypeOK, RunIds, None
  <1>4. ASSUME NEW f \in Findings, NEW w
        PROVE  /\ StateSeen(f, w) \notin {"none", "regression"} \/ StateSeen(f, w) = fState[f]
               /\ StateSeen(f, w) \in {"open", "unclassified"} \/ StateSeen(f, w) = fState[f]
               /\ fState[f] \in ClosingStates => StateSeen(f, w) = fState[f]
    BY DEF StateSeen, ClosingStates
  <1>5. ASSUME NEW f \in Findings
        PROVE  \/ /\ run'[r].report[f] # "absent" /\ lastSeen[f] <= r /\ lastSeen'[f] = r
                  /\ fState'[f] \notin {"none", "regression"} \/ fState'[f] = fState[f]
                  /\ fState'[f] \in {"open", "unclassified"} \/ fState'[f] = fState[f]
                  /\ fState[f] \in ClosingStates => fState'[f] = fState[f]
               \/ /\ run'[r].report[f] = "absent" \/ r < lastSeen[f]
                  /\ lastSeen'[f] = lastSeen[f] /\ fState'[f] = fState[f]
    <2>1. CASE report[f] # "absent" /\ SpeaksFor(f, r)
      <3>1. lastSeen'[f] = r /\ fState'[f] = StateSeen(f, report[f])
        BY <1>1, <2>1
      <3>2. lastSeen[f] <= r
        BY <2>1, <1>3 DEF SpeaksFor
      <3>3. QED BY <1>2, <1>4, <2>1, <3>1, <3>2
    <2>2. CASE ~(report[f] # "absent" /\ SpeaksFor(f, r))
      <3>1. lastSeen'[f] = lastSeen[f] /\ fState'[f] = fState[f]
        BY <1>1, <2>2
      <3>2. QED BY <1>2, <1>3, <2>2, <3>1 DEF SpeaksFor
    <2>3. QED BY <2>1, <2>2
  <1>6. RunsArePending'
    BY DEF Ingest, Inv, RunsArePending
  <1>7. QED BY <1>2, <1>5, <1>6 DEF Ingest, hubVars

\* What the evaluation of a run does, in the variables.
LEMMA ApplyRunEffect ==
  ASSUME Inv, VerifiedMembersAreClosed, ApplyRun
  PROVE  \E r \in RunIds, e \in Dbs :
           /\ r \in ingested \ applied /\ applied' = applied \cup {r}
           /\ Install(e) /\ e.sha = mergeSha
           /\ UNCHANGED <<sameFamily, lastSeen, resolution, mergedAfter, run, ingested>>
           /\ RunsArePending'
           /\ VerifiedClosed(e)
           /\ \A f \in Findings :
                \/ /\ e.item[f] = fItem[f]
                   /\ Kept(Db, e, f) \/ ClosedBy(Db, e, f, r) \/ HandedBack(Db, e, f)
                \/ Back(Db, e, f, r)
           /\ \A f \in Findings : \A i \in Items :
                /\ fItem[f] = i /\ e.item[f] = i
                /\ e.wi[i] \in {"merged", "awaiting_rescan"}
                => /\ state[i] \in {"merged", "awaiting_rescan"}
                   /\ Outcome(Db, i, f, r) = "closing_absent" => e.st[f] \in ClosingStates
           /\ \A f \in Findings :
                e.st[f] = "fixed" => ~Contradicted(f, r, e.by[f])
  <1> DEFINE r == Min(todo)
             e == Evaluated(Db, r)
  <1>1. r \in todo /\ r \in ingested \ applied /\ r \in RunIds
    BY NextRun DEF ApplyRun
  <1> HIDE DEF r
  <1>2. Install(e) /\ applied' = applied \cup {r} /\ todo' = todo \ {r}
    BY DEF ApplyRun, r
  <1>3. UNCHANGED <<sameFamily, lastSeen, resolution, mergedAfter, run, ingested>>
    BY DEF ApplyRun, hubVars
  <1>4. RunsArePending'
    BY <1>1, <1>2, <1>3 DEF ApplyRun, Inv, RunsArePending
  <1>5. Db \in Dbs /\ Unseen(Db) /\ VerifiedClosed(Db) /\ TypeOK
    BY DbType DEF Inv
  <1>6. /\ e \in Dbs /\ e.sha = mergeSha
        /\ VerifiedClosed(e)
        /\ \A f \in Findings :
             \/ /\ e.item[f] = fItem[f]
                /\ Kept(Db, e, f) \/ ClosedBy(Db, e, f, r) \/ HandedBack(Db, e, f)
             \/ Back(Db, e, f, r)
        /\ \A f \in Findings :
             /\ fItem[f] \in Awaiting(Db) /\ Says(Db, f, r) = "closing_absent"
             /\ e.item[f] = fItem[f]
             => e.st[f] \in ClosingStates
        /\ \A f \in Findings :
             e.st[f] = "fixed" => ~Contradicted(f, r, e.by[f])
        /\ \A i \in Items \ Awaiting(Db) : e.wi[i] = state[i] \/ e.wi[i] = "abandoned"
    BY <1>1, <1>5, EvaluatedEffect, DbFields
  <1> HIDE DEF e
  <1>7. ASSUME NEW f \in Findings, NEW i \in Items, fItem[f] = i, e.item[f] = i,
               e.wi[i] \in {"merged", "awaiting_rescan"}
        PROVE  /\ state[i] \in {"merged", "awaiting_rescan"}
               /\ Outcome(Db, i, f, r) = "closing_absent" => e.st[f] \in ClosingStates
    <2>1. state[i] \in {"merged", "awaiting_rescan"} <=> i \in Awaiting(Db)
      BY DbFields DEF Awaiting, Closing
    <2>2. state[i] \in {"merged", "awaiting_rescan"}
      BY <1>6, <1>7, <2>1
    <2>3. Says(Db, f, r) = Outcome(Db, i, f, r)
      BY <1>7, DbFields DEF Says
    <2>4. QED BY <1>6, <1>7, <2>1, <2>2, <2>3
  <1>8. QED BY <1>1, <1>2, <1>3, <1>4, <1>6, <1>7

\* What observing a merge does, in the variables.
LEMMA ObserveMergeEffect ==
  ASSUME Inv, VerifiedMembersAreClosed, NEW i \in Items, ObserveMerge(i)
  PROVE  \E e \in Dbs :
           /\ Install(e) /\ VerifiedClosed(e) /\ Heeded(e, i, MaxRuns)
           /\ UNCHANGED <<sameFamily, lastSeen, resolution, mergedAfter, run, ingested,
                          applied>>
           /\ RunsArePending'
           /\ e.item = fItem
           /\ \A j \in Items \ {i} : e.wi[j] = state[j] /\ e.sha[j] = mergeSha[j]
           /\ \A f \in Findings :
                \/ fState'[f] = fState[f] /\ closedBy'[f] = closedBy[f]
                \/ /\ fItem[f] = i
                   /\ \/ /\ fState[f] \notin ClosingStates /\ fState'[f] \in ClosingStates
                         /\ closedBy'[f] \in applied
                         /\ lastSeen[f] <= closedBy'[f] /\ closedBy[f] <= closedBy'[f]
                      \/ /\ fState[f] \notin ClosingStates
                         /\ fState'[f] \in {"human_blocked", "awaiting_rescan"}
                         /\ closedBy'[f] = closedBy[f]
  <1>1. PICK d \in Dbs, e \in Dbs :
          /\ Install(e) /\ Replaying(d, e, i, MaxRuns)
          /\ d.wi = [state EXCEPT ![i] = "merged"]
          /\ d.sha = [mergeSha EXCEPT ![i] = hubMerge[i]]
          /\ d.item = fItem /\ d.by = closedBy
          /\ \A f \in Findings :
               \/ d.st[f] = fState[f]
               \/ /\ fItem[f] = i /\ fState[f] = "in_remediation"
                  /\ d.st[f] = "awaiting_rescan"
    BY ObserveMergeReplays
  <1>2. UNCHANGED <<sameFamily, lastSeen, resolution, mergedAfter, run, ingested, applied>>
        /\ RunsArePending'
    BY DEF ObserveMerge, runVars, hubVars, Inv, RunsArePending
  <1>3. e.item = fItem /\ VerifiedClosed(e) /\ Heeded(e, i, MaxRuns)
    BY <1>1 DEF Replaying
  <1>4. \A j \in Items \ {i} : e.wi[j] = state[j] /\ e.sha[j] = mergeSha[j]
    <2>1. /\ \A j \in Items \ {i} : d.wi[j] = state[j] /\ d.sha[j] = mergeSha[j]
      BY <1>1 DEF Inv, TypeOK
    <2>2. QED BY <1>1, <2>1 DEF Replaying
  <1>5. ASSUME NEW f \in Findings
        PROVE  \/ fState'[f] = fState[f] /\ closedBy'[f] = closedBy[f]
               \/ /\ fItem[f] = i
                  /\ \/ /\ fState[f] \notin ClosingStates /\ fState'[f] \in ClosingStates
                        /\ closedBy'[f] \in applied
                        /\ lastSeen[f] <= closedBy'[f] /\ closedBy[f] <= closedBy'[f]
                     \/ /\ fState[f] \notin ClosingStates
                        /\ fState'[f] \in {"human_blocked", "awaiting_rescan"}
                        /\ closedBy'[f] = closedBy[f]
    <2>1. /\ fState'[f] = e.st[f] /\ closedBy'[f] = e.by[f] /\ closedBy[f] = d.by[f]
          /\ fItem[f] = d.item[f]
      BY <1>1 DEF Install
    <2>2. \/ d.st[f] = fState[f]
          \/ fItem[f] = i /\ fState[f] = "in_remediation" /\ d.st[f] = "awaiting_rescan"
      BY <1>1
    <2>3. d.st[f] \in ClosingStates <=> fState[f] \in ClosingStates
      BY <2>2 DEF ClosingStates
    <2>4. \/ Kept(d, e, f)
          \/ d.item[f] = i /\ (ClosedAgain(d, e, f) \/ HandedBack(d, e, f))
      BY <1>1 DEF Replaying
    <2>5. CASE Kept(d, e, f)
      BY <2>1, <2>2, <2>5 DEF Kept, ClosingStates
    <2>6. CASE d.item[f] = i /\ ClosedAgain(d, e, f)
      BY <2>1, <2>3, <2>6 DEF ClosedAgain
    <2>7. CASE d.item[f] = i /\ HandedBack(d, e, f)
      BY <2>1, <2>3, <2>7 DEF HandedBack, FindingSources, ClosingStates
    <2>8. QED BY <2>4, <2>5, <2>6, <2>7
  <1>6. QED BY <1>1, <1>2, <1>3, <1>4, <1>5

\* What grouping does: findings the latest run reports join an item that is new
\* or under way.
LEMMA GroupEffect ==
  ASSUME Inv, LatestWord, GroupFindings
  PROVE  /\ UNCHANGED <<sameFamily, lastSeen, closedBy, mergeSha, resolution, mergedAfter,
                        run, ingested, applied>>
         /\ RunsArePending'
         /\ \E i \in Items :
              /\ state[i] \notin {"verified", "abandoned"}
              /\ \A j \in Items : state'[j] = state[j] \/ state'[j] = "issue_open"
              /\ \A f \in Findings :
                   \/ fItem'[f] = fItem[f] /\ fState'[f] = fState[f]
                   \/ /\ fItem'[f] = i /\ fState'[f] = "grouped"
                      /\ fState[f] \notin ClosingStates
                      /\ lastSeen[f] \in Reporting(f)
                      /\ \A r \in ingested : r <= lastSeen[f]
  <1> DEFINE i == ItemForGroup
             joining == {f \in Groupable : fItem[f] # i}
  <1>1. i \in Items
    BY DEF GroupFindings, CanGroup
  <1>2. state[i] \notin {"verified", "abandoned"}
    <2>1. CASE state[1] \in {"verified", "abandoned"}
      <3> DEFINE free == {j \in Items : state[j] = "none"} \cup {MaxItems + 1}
      <3>1. i = Min(free)
        BY <2>1 DEF ItemForGroup
      <3>2. free \in SUBSET Nat /\ free # {}
        BY ClosureAssumption DEF Items
      <3>3. i \in free
        BY <3>1, <3>2, LeastRun
      <3>4. i # MaxItems + 1
        BY <1>1, ClosureAssumption DEF Items
      <3>5. QED BY <3>3, <3>4
    <2>2. CASE state[1] \notin {"verified", "abandoned"}
      BY <2>2 DEF ItemForGroup
    <2>3. QED BY <2>1, <2>2
  <1>3. ingested # {} /\ ingested \in SUBSET (0..MaxRuns)
    BY RunsAreNumbered, ClosureAssumption DEF GroupFindings, CanGroup, RunIds, Inv
  <1>4. Latest \in ingested /\ \A r \in ingested : r <= Latest
    BY <1>3, GreatestRun, ClosureAssumption DEF Latest
  <1>5. \A f \in joining : /\ f \in Findings /\ lastSeen[f] = Latest
                           /\ fState[f] \in {"open", "regression"}
    BY DEF Groupable
  <1>6. /\ state' = [state EXCEPT ![i] = IF @ = "none" THEN "issue_open" ELSE @]
        /\ fItem' = [f \in Findings |-> IF f \in joining THEN i ELSE fItem[f]]
        /\ fState' = [f \in Findings |-> IF f \in joining
                        THEN FindingAfter(fState[f], "grouped") ELSE fState[f]]
    BY DEF GroupFindings
  <1> HIDE DEF i, joining
  <1>7. \A j \in Items : state'[j] = state[j] \/ state'[j] = "issue_open"
    BY <1>6 DEF Inv, TypeOK
  <1>8. ASSUME NEW f \in Findings, f \in joining
        PROVE  /\ fItem'[f] = i /\ fState'[f] = "grouped"
               /\ fState[f] \notin ClosingStates
               /\ lastSeen[f] \in Reporting(f)
               /\ \A r \in ingested : r <= lastSeen[f]
    <2>1. fItem'[f] = i /\ fState'[f] = "grouped"
      BY <1>5, <1>6, <1>8 DEF FindingAfter, FindingTarget, FindingSources
    <2>2. Latest # None
      BY <1>4, RunsAreNumbered DEF RunIds, None, Inv
    <2>3. lastSeen[f] \in Reporting(f)
      BY <1>5, <1>8, <2>2 DEF LatestWord
    <2>4. QED BY <1>4, <1>5, <1>8, <2>1, <2>3 DEF ClosingStates
  <1>9. ASSUME NEW f \in Findings, f \notin joining
        PROVE  fItem'[f] = fItem[f] /\ fState'[f] = fState[f]
    BY <1>6, <1>9
  <1>10. UNCHANGED <<sameFamily, lastSeen, closedBy, mergeSha, resolution, mergedAfter,
                     run, ingested, applied>> /\ RunsArePending'
    BY DEF GroupFindings, hubVars, Inv, RunsArePending
  <1>11. QED BY <1>1, <1>2, <1>7, <1>8, <1>9, <1>10

\* What starting or abandoning an item does.
LEMMA StartEffect ==
  ASSUME Inv, NEW i \in Items, Start(i) \/ PollClosedIssue(i)
  PROVE  /\ UNCHANGED <<sameFamily, lastSeen, closedBy, fItem, mergeSha, resolution,
                        mergedAfter, run, ingested, applied>>
         /\ RunsArePending'
         /\ \A j \in Items : \/ state'[j] = state[j]
                             \/ state'[j] \in {"session_active", "abandoned"}
         /\ \A f \in Findings :
              \/ fState'[f] = fState[f]
              \/ /\ fItem[f] = i /\ fState[f] \notin ClosingStates
                 /\ fState'[f] \in {"in_remediation", "human_blocked"}
  <1>1. \A j \in Items : \/ state'[j] = state[j]
                         \/ state'[j] \in {"session_active", "abandoned"}
    BY ItemMoves DEF Start, PollClosedIssue, Inv, TypeOK
  <1>2. \A s, e : e \in {"remediation_started", "human_blocked"} =>
          \/ FindingAfter(s, e) = s
          \/ s \notin ClosingStates /\ FindingAfter(s, e) \in {"in_remediation", "human_blocked"}
    BY DEF FindingAfter, FindingTarget, FindingSources, ClosingStates
  <1>3. \A f \in Findings :
          \/ fState'[f] = fState[f]
          \/ /\ fItem[f] = i /\ fState[f] \notin ClosingStates
             /\ fState'[f] \in {"in_remediation", "human_blocked"}
    BY <1>2 DEF Start, PollClosedIssue
  <1>4. UNCHANGED <<sameFamily, lastSeen, closedBy, fItem, mergeSha, resolution,
                    mergedAfter, run, ingested, applied>> /\ RunsArePending'
    BY DEF Start, PollClosedIssue, runVars, hubVars, Inv, RunsArePending
  <1>5. QED BY <1>1, <1>3, <1>4

-----------------------------------------------------------------------------
(* What each kind of step preserves *)

LEMMA StepTypes ==
  ASSUME Inv, VerifiedMembersAreClosed, Next
  PROVE  TypeOK'
  BY Steps, QuietTypes, IngestTypes, ApplyRunTypes, GroupTypes, ObserveMergeTypes, StartTypes

\* A finding's columns go together after every step, and so does what is left of
\* an evaluation.
LEMMA StepAccounts ==
  ASSUME Inv, LatestWord, VerifiedMembersAreClosed, Next
  PROVE  FindingsAreAccountedFor' /\ RunsArePending'
  <1> USE DEF FindingsAreAccountedFor
  <1>0. FindingsAreAccountedFor
    BY DEF Inv
  <1>1. CASE QuietStep
    BY <1>0, <1>1, QuietEffect DEF findingVars
  <1>2. ASSUME NEW r \in RunIds, Ingest(r)
        PROVE  FindingsAreAccountedFor' /\ RunsArePending'
    BY <1>0, <1>2, IngestEffect DEF ClosingStates
  <1>3. CASE ApplyRun
    <2>1. PICK r \in RunIds, e \in Dbs :
            /\ applied' = applied \cup {r} /\ Install(e) /\ RunsArePending'
            /\ \A f \in Findings :
                 \/ /\ e.item[f] = fItem[f]
                    /\ Kept(Db, e, f) \/ ClosedBy(Db, e, f, r) \/ HandedBack(Db, e, f)
                 \/ Back(Db, e, f, r)
      BY <1>3, ApplyRunEffect
    <2>2. fState' = e.st /\ closedBy' = e.by /\ fItem' = e.item
      BY <2>1 DEF Install
    <2>3. r # None
      BY DEF RunIds, None
    <2>4. ASSUME NEW f \in Findings
          PROVE  /\ e.by[f] \in applied' \cup {None}
                 /\ e.st[f] \in ClosingStates => e.by[f] # None
                 /\ e.st[f] \in {"grouped", "in_remediation", "awaiting_rescan"}
                      => e.item[f] # None
                 /\ e.st[f] \in {"none", "regression"} => e.item[f] = None
      <3>1. CASE Kept(Db, e, f) /\ e.item[f] = fItem[f]
        BY <1>0, <2>1, <3>1, DbFields DEF Kept
      <3>2. CASE ClosedBy(Db, e, f, r)
        BY <2>1, <2>3, <3>2 DEF ClosedBy, ClosingStates
      <3>3. CASE HandedBack(Db, e, f)
        BY <1>0, <2>1, <3>3, DbFields DEF HandedBack, ClosingStates
      <3>4. CASE Back(Db, e, f, r)
        BY <1>0, <2>1, <3>4, DbFields DEF Back, ClosingStates
      <3>5. QED BY <2>1, <3>1, <3>2, <3>3, <3>4
    <2>5. QED BY <2>1, <2>2, <2>4
  <1>4. CASE GroupFindings
    BY <1>0, <1>4, GroupEffect DEF Items, None, ClosingStates
  <1>5. ASSUME NEW i \in Items, ObserveMerge(i)
        PROVE  FindingsAreAccountedFor' /\ RunsArePending'
    <2>1. PICK e \in Dbs :
            /\ Install(e) /\ e.item = fItem /\ applied' = applied /\ RunsArePending'
            /\ \A f \in Findings :
                 \/ fState'[f] = fState[f] /\ closedBy'[f] = closedBy[f]
                 \/ /\ fItem[f] = i
                    /\ \/ fState'[f] \in ClosingStates /\ closedBy'[f] \in applied
                       \/ /\ fState'[f] \in {"human_blocked", "awaiting_rescan"}
                          /\ closedBy'[f] = closedBy[f]
      BY <1>5, ObserveMergeEffect
    <2>2. fItem' = fItem
      BY <2>1 DEF Install
    <2>3. i # None /\ \A q \in applied : q # None
      BY RunsAreNumbered DEF Items, RunIds, None, Inv
    <2>4. QED BY <1>0, <2>1, <2>2, <2>3 DEF ClosingStates
  <1>6. ASSUME NEW i \in Items, Start(i) \/ PollClosedIssue(i)
        PROVE  FindingsAreAccountedFor' /\ RunsArePending'
    BY <1>0, <1>6, StartEffect DEF Items, None, ClosingStates
  <1>7. QED BY <1>1, <1>2, <1>3, <1>4, <1>5, <1>6, Steps

\* Only an ingested run changes what the rows name as the latest run.
LEMMA StepLatest ==
  ASSUME Inv, LatestWord, VerifiedMembersAreClosed, Next
  PROVE  LatestWord'
  <1>1. CASE UNCHANGED <<lastSeen, run, ingested>>
    BY <1>1 DEF LatestWord, Reporting
  <1>2. ASSUME NEW r \in RunIds, Ingest(r)
        PROVE  LatestWord'
    <2>1. SUFFICES ASSUME NEW f \in Findings
                   PROVE  /\ lastSeen'[f] \in Reporting(f)' \cup {None}
                          /\ \A q \in Reporting(f)' : q <= lastSeen'[f]
      BY DEF LatestWord
    <2>2. /\ r \notin ingested /\ ingested' = ingested \cup {r}
          /\ \A q \in RunIds \ {r} : run'[q] = run[q]
      BY <1>2, IngestEffect
    <2>3. /\ lastSeen[f] \in Reporting(f) \cup {None}
          /\ \A q \in Reporting(f) : q <= lastSeen[f]
      BY DEF LatestWord
    <2>4. \A q \in ingested : q \in RunIds /\ q # r /\ run'[q] = run[q]
      BY <2>2, RunsAreNumbered DEF Inv
    <2>5. Reporting(f)' = Reporting(f) \cup (IF run'[r].report[f] # "absent" THEN {r} ELSE {})
      BY <2>2, <2>4 DEF Reporting
    <2>6. /\ lastSeen[f] \in Int /\ r \in Int
          /\ \A q \in Reporting(f) : q \in Int
      BY <2>4 DEF Inv, TypeOK, RunIds, None, Reporting
    <2>7. CASE run'[r].report[f] # "absent" /\ lastSeen[f] <= r /\ lastSeen'[f] = r
      BY <2>3, <2>5, <2>6, <2>7
    <2>8. CASE run'[r].report[f] = "absent" /\ lastSeen'[f] = lastSeen[f]
      BY <2>3, <2>5, <2>8
    <2>9. CASE r < lastSeen[f] /\ lastSeen'[f] = lastSeen[f]
      BY <2>3, <2>5, <2>6, <2>9
    <2>10. QED BY <1>2, <2>7, <2>8, <2>9, IngestEffect
  <1>3. QED
    BY <1>1, <1>2, Steps, QuietEffect, ApplyRunEffect, GroupEffect, ObserveMergeEffect,
       StartEffect DEF findingVars

\* No step leaves a verified item with a member that is not closed.
LEMMA StepVerified ==
  ASSUME Inv, LatestWord, VerifiedMembersAreClosed, Next
  PROVE  VerifiedMembersAreClosed'
  <1>0. /\ VerifiedMembersAreClosed <=>
             \A f \in Findings : \A i \in Items :
               state[i] = "verified" /\ fItem[f] = i => fState[f] \in ClosingStates
        /\ VerifiedMembersAreClosed' <=>
             \A f \in Findings : \A i \in Items :
               state'[i] = "verified" /\ fItem'[f] = i => fState'[f] \in ClosingStates
    BY DEF VerifiedMembersAreClosed, Members, Db
  <1>1. CASE QuietStep
    BY <1>0, <1>1, QuietEffect DEF findingVars
  <1>2. ASSUME NEW r \in RunIds, Ingest(r)
        PROVE  VerifiedMembersAreClosed'
    BY <1>0, <1>2, IngestEffect DEF itemVars
  <1>3. ASSUME NEW e \in Dbs, Install(e), VerifiedClosed(e)
        PROVE  VerifiedMembersAreClosed'
    BY <1>0, <1>3 DEF Install, VerifiedClosed
  <1>4. CASE ApplyRun
    BY <1>3, <1>4, ApplyRunEffect
  <1>5. ASSUME NEW i \in Items, ObserveMerge(i)
        PROVE  VerifiedMembersAreClosed'
    BY <1>3, <1>5, ObserveMergeEffect
  <1>6. CASE GroupFindings
    BY <1>0, <1>6, GroupEffect
  <1>7. ASSUME NEW i \in Items, Start(i) \/ PollClosedIssue(i)
        PROVE  VerifiedMembersAreClosed'
    BY <1>0, <1>7, StartEffect
  <1>8. QED BY <1>1, <1>2, <1>4, <1>5, <1>6, <1>7, Steps

\* No step leaves a finding fixed against a run that has been applied.
LEMMA StepStands ==
  ASSUME Inv, LatestWord, VerifiedMembersAreClosed, StandingEvidence, Next
  PROVE  StandingEvidence'
  <1>0. SUFFICES ASSUME NEW f \in Findings, fState'[f] = "fixed",
                        lastSeen'[f] > closedBy'[f], lastSeen'[f] \in applied',
                        f \in run'[lastSeen'[f]].fit,
                        run'[lastSeen'[f]].sha >= run'[closedBy'[f]].sha
                 PROVE  FALSE
    BY DEF StandingEvidence
  <1>1. /\ ~ /\ fState[f] = "fixed" /\ lastSeen[f] > closedBy[f] /\ lastSeen[f] \in applied
             /\ f \in run[lastSeen[f]].fit
             /\ run[lastSeen[f]].sha >= run[closedBy[f]].sha
    BY DEF StandingEvidence
  <1>2. CASE /\ fState'[f] = fState[f] /\ closedBy'[f] = closedBy[f]
             /\ UNCHANGED <<lastSeen, applied, run>>
    BY <1>0, <1>1, <1>2
  <1>3. CASE QuietStep
    BY <1>2, <1>3, QuietEffect DEF findingVars
  <1>4. ASSUME NEW r \in RunIds, Ingest(r)
        PROVE  FALSE
    <2>1. /\ r \notin ingested /\ closedBy' = closedBy /\ applied' = applied
          /\ \A q \in RunIds \ {r} : run'[q] = run[q]
          /\ lastSeen'[f] = r \/ (lastSeen'[f] = lastSeen[f] /\ fState'[f] = fState[f])
      BY <1>4, IngestEffect
    <2>2. \A q \in applied : q \in RunIds \ {r}
      BY <2>1, RunsAreNumbered DEF Inv
    <2>3. lastSeen'[f] = lastSeen[f] /\ fState'[f] = fState[f]
      BY <1>0, <2>1, <2>2
    <2>4. closedBy[f] \in applied
      BY <1>0, <2>3 DEF Inv, FindingsAreAccountedFor, ClosingStates
    <2>5. run'[lastSeen[f]] = run[lastSeen[f]] /\ run'[closedBy[f]] = run[closedBy[f]]
      BY <1>0, <2>1, <2>2, <2>3, <2>4
    <2>6. QED BY <1>0, <1>1, <2>1, <2>3, <2>5
  <1>5. CASE ApplyRun
    <2>1. PICK r \in RunIds, e \in Dbs :
            /\ applied' = applied \cup {r} /\ Install(e)
            /\ UNCHANGED <<lastSeen, run>>
            /\ \/ Kept(Db, e, f) \/ ClosedBy(Db, e, f, r) \/ HandedBack(Db, e, f)
               \/ Back(Db, e, f, r)
            /\ e.st[f] = "fixed" => ~Contradicted(f, r, e.by[f])
      BY <1>5, ApplyRunEffect
    <2>2. fState'[f] = e.st[f] /\ closedBy'[f] = e.by[f]
      BY <2>1 DEF Install
    <2>3. /\ lastSeen[f] \in Int /\ r \in Int /\ e.by[f] \in Int
          /\ lastSeen[f] > e.by[f]
      BY <1>0, <2>1, <2>2 DEF Inv, TypeOK, RunIds, None, Dbs
    <2>4. CASE lastSeen[f] = r
      <3>1. run[r].report[f] # "absent"
        BY <2>4 DEF LatestWord, Reporting, RunIds, None
      <3>2. Contradicted(f, r, e.by[f])
        BY <1>0, <2>1, <2>2, <2>3, <2>4, <3>1 DEF Contradicted
      <3>3. QED BY <1>0, <2>1, <2>2, <3>2
    <2>5. CASE lastSeen[f] # r
      <3>1. lastSeen[f] \in applied
        BY <1>0, <2>1, <2>5
      <3>2. ~ClosedBy(Db, e, f, r)
        BY <2>3 DEF ClosedBy
      <3>3. ~HandedBack(Db, e, f) /\ ~Back(Db, e, f, r)
        BY <1>0, <2>2 DEF HandedBack, Back
      <3>4. fState'[f] = fState[f] /\ closedBy'[f] = closedBy[f]
        BY <2>1, <2>2, <3>2, <3>3, DbFields DEF Kept
      <3>5. QED BY <1>0, <1>1, <2>1, <3>1, <3>4
    <2>6. QED BY <2>4, <2>5
  <1>6. CASE GroupFindings
    <2>1. UNCHANGED <<lastSeen, closedBy, applied, run>>
      BY <1>6, GroupEffect
    <2>2. fState'[f] = fState[f]
      BY <1>0, <1>6, GroupEffect
    <2>3. QED BY <1>2, <2>1, <2>2
  <1>7. ASSUME NEW i \in Items, ObserveMerge(i)
        PROVE  FALSE
    <2>1. UNCHANGED <<lastSeen, applied, run>>
      BY <1>7, ObserveMergeEffect
    <2>2. \/ fState'[f] = fState[f] /\ closedBy'[f] = closedBy[f]
          \/ closedBy'[f] \in applied /\ lastSeen[f] <= closedBy'[f]
      BY <1>0, <1>7, ObserveMergeEffect
    <2>3. CASE closedBy'[f] \in applied /\ lastSeen[f] <= closedBy'[f]
      <3>1. closedBy'[f] \in RunIds
        BY <2>3, RunsAreNumbered DEF Inv
      <3>2. closedBy'[f] \in Int /\ lastSeen[f] \in Int
        BY <3>1 DEF Inv, TypeOK, RunIds, None
      <3>3. QED BY <1>0, <2>1, <2>3, <3>2
    <2>4. QED BY <1>2, <2>1, <2>2, <2>3
  <1>8. ASSUME NEW i \in Items, Start(i) \/ PollClosedIssue(i)
        PROVE  FALSE
    <2>1. UNCHANGED <<lastSeen, closedBy, applied, run>>
      BY <1>8, StartEffect
    <2>2. fState'[f] = fState[f]
      BY <1>0, <1>8, StartEffect
    <2>3. QED BY <1>2, <2>1, <2>2
  <1>9. QED BY <1>3, <1>4, <1>5, <1>6, <1>7, <1>8, Steps

\* Run r proves that a member of the item is gone.
Proves(i, f, r) ==
  /\ f \in run[r].fit /\ run[r].sha >= mergeSha[i]
  /\ ~(lastSeen[f] > r) /\ ~(closedBy[f] > r)
  /\ \A g \in Family(f) : run[r].report[g] = "absent"

LEMMA WhatARunProves ==
  ASSUME NEW i, NEW f, NEW r
  PROVE  /\ Outcome(Db, i, f, r) = "closing_absent" <=> Proves(i, f, r)
         /\ Outcome(Db, i, f, r)' = "closing_absent" <=> Proves(i, f, r)'
  BY DEF Outcome, Proves, Valid, LaterRunSaw, Present, FamilyReports, Db

\* The item of a run's proof is one whose change is on main.
LEMMA WhatIsNotMissed ==
  /\ EvidenceIsNotMissed <=>
       \A i \in Items : state[i] \in {"merged", "awaiting_rescan"} /\ resolution[i] = "none" =>
         \A f \in Findings : \A r \in applied :
           fItem[f] = i /\ r > mergedAfter[i] /\ Proves(i, f, r)
             => fState[f] \in ClosingStates
  /\ EvidenceIsNotMissed' <=>
       \A i \in Items : state'[i] \in {"merged", "awaiting_rescan"} /\ resolution'[i] = "none" =>
         \A f \in Findings : \A r \in applied' :
           fItem'[f] = i /\ r > mergedAfter'[i] /\ Proves(i, f, r)'
             => fState'[f] \in ClosingStates
  <1>1. /\ EvidenceIsNotMissed <=>
             \A i \in Items : state[i] \in {"merged", "awaiting_rescan"} /\ resolution[i] = "none" =>
               \A f \in Findings : \A r \in applied :
                 fItem[f] = i /\ r > mergedAfter[i] /\ Outcome(Db, i, f, r) = "closing_absent"
                   => fState[f] \in ClosingStates
    BY DbFields DEF EvidenceIsNotMissed, Closing, Members
  <1>2. /\ EvidenceIsNotMissed' <=>
             \A i \in Items : state'[i] \in {"merged", "awaiting_rescan"} /\ resolution'[i] = "none" =>
               \A f \in Findings : \A r \in applied' :
                 fItem'[f] = i /\ r > mergedAfter'[i] /\ Outcome(Db, i, f, r)' = "closing_absent"
                   => fState'[f] \in ClosingStates
    BY DEF EvidenceIsNotMissed, Closing, Members, Db
  <1>3. QED BY <1>1, <1>2, WhatARunProves

\* No step loses what an applied run proved of a member of a merged item.
LEMMA StepHeeds ==
  ASSUME Inv, LatestWord, VerifiedMembersAreClosed, EvidenceIsNotMissed, Next
  PROVE  EvidenceIsNotMissed'
  <1>0. SUFFICES ASSUME NEW i \in Items, state'[i] \in {"merged", "awaiting_rescan"},
                        resolution'[i] = "none",
                        NEW f \in Findings, NEW r \in applied', fItem'[f] = i,
                        r > mergedAfter'[i], Proves(i, f, r)'
                 PROVE  fState'[f] \in ClosingStates
    BY WhatIsNotMissed
  \* The evidence was there before the step, and then it was recorded.
  <1>1. state[i] \in {"merged", "awaiting_rescan"} /\ resolution[i] = "none"
          /\ fItem[f] = i /\ r \in applied /\ r > mergedAfter[i] /\ Proves(i, f, r)
        => fState[f] \in ClosingStates
    BY WhatIsNotMissed
  <1>2. /\ lastSeen[f] \in Int /\ closedBy[f] \in Int /\ RunIds \subseteq Int
        /\ \A q \in applied : q \in RunIds
    <2>1. \A q \in applied : q \in RunIds
      BY RunsAreNumbered DEF Inv
    <2>2. QED BY <2>1 DEF Inv, TypeOK, RunIds, None
  <1>3. ASSUME UNCHANGED <<sameFamily, lastSeen, run>>, mergeSha'[i] = mergeSha[i],
               closedBy'[f] \in Int, closedBy[f] <= closedBy'[f], r \in RunIds
        PROVE  Proves(i, f, r)
    <2>1. /\ f \in run[r].fit /\ run[r].sha >= mergeSha[i] /\ ~(lastSeen[f] > r)
          /\ \A g \in Family(f) : run[r].report[g] = "absent"
      BY <1>0, <1>3 DEF Proves, Family
    <2>2. ~(closedBy'[f] > r)
      BY <1>0 DEF Proves
    <2>3. ~(closedBy[f] > r)
      <3>1. r \in Int /\ closedBy[f] \in Int
        BY <1>2, <1>3
      <3>2. QED BY <1>3, <2>2, <3>1
    <2>4. QED BY <2>1, <2>3 DEF Proves
  <1>4. CASE QuietStep
    <2>1. /\ UNCHANGED <<findingVars, run, applied, mergeSha>>
          /\ state[i] \in {"merged", "awaiting_rescan"} /\ resolution[i] = "none"
          /\ mergedAfter'[i] = mergedAfter[i]
      BY <1>0, <1>4, QuietEffect
    <2>2. Proves(i, f, r)
      BY <1>0, <1>2, <1>3, <2>1 DEF findingVars
    <2>3. QED BY <1>0, <1>1, <2>1, <2>2 DEF findingVars
  <1>5. ASSUME NEW q \in RunIds, Ingest(q)
        PROVE  fState'[f] \in ClosingStates
    <2>1. /\ q \notin ingested
          /\ UNCHANGED <<sameFamily, fItem, closedBy, itemVars, mergedAfter, applied>>
          /\ \A p \in RunIds \ {q} : run'[p] = run[p]
          /\ fState[f] \in ClosingStates => fState'[f] = fState[f]
          /\ \/ lastSeen[f] <= q /\ lastSeen'[f] = q
             \/ lastSeen'[f] = lastSeen[f]
      BY <1>5, IngestEffect
    <2>2. r \in applied /\ r \in RunIds \ {q} /\ run'[r] = run[r]
      BY <1>0, <2>1, RunsAreNumbered DEF Inv
    <2>3. ~(lastSeen[f] > r)
      BY <1>0, <1>2, <2>1, <2>2 DEF Proves
    <2>4. Proves(i, f, r)
      BY <1>0, <2>1, <2>2, <2>3 DEF Proves, Family, itemVars
    <2>5. QED BY <1>0, <1>1, <2>1, <2>2, <2>4 DEF itemVars
  <1>6. CASE ApplyRun
    <2>1. PICK q \in RunIds, e \in Dbs :
            /\ applied' = applied \cup {q} /\ Install(e) /\ e.sha = mergeSha
            /\ UNCHANGED <<sameFamily, lastSeen, resolution, mergedAfter, run, ingested>>
            /\ \/ /\ e.item[f] = fItem[f]
                  /\ Kept(Db, e, f) \/ ClosedBy(Db, e, f, q) \/ HandedBack(Db, e, f)
               \/ Back(Db, e, f, q)
            /\ /\ fItem[f] = i /\ e.item[f] = i
               /\ e.wi[i] \in {"merged", "awaiting_rescan"}
               => /\ state[i] \in {"merged", "awaiting_rescan"}
                  /\ Outcome(Db, i, f, q) = "closing_absent" => e.st[f] \in ClosingStates
      BY <1>6, ApplyRunEffect
    <2>2. /\ fState' = e.st /\ closedBy' = e.by /\ fItem' = e.item /\ state' = e.wi
          /\ mergeSha' = mergeSha
      BY <2>1 DEF Install
    <2>3. /\ fItem[f] = i
          /\ Kept(Db, e, f) \/ ClosedBy(Db, e, f, q) \/ HandedBack(Db, e, f)
      BY <1>0, <2>1, <2>2 DEF Back, Items, None
    <2>4. state[i] \in {"merged", "awaiting_rescan"}
      BY <1>0, <2>1, <2>2, <2>3
    <2>5. closedBy'[f] \in Int /\ closedBy[f] <= closedBy'[f]
      BY <1>2, <2>2, <2>3, DbFields DEF Kept, ClosedBy, HandedBack
    <2>6. Proves(i, f, r)
      BY <1>2, <1>3, <2>1, <2>2, <2>5
    <2>7. CASE r = q
      BY <1>0, <2>1, <2>2, <2>3, <2>6, <2>7, WhatARunProves
    <2>8. CASE r # q
      <3>1. fState[f] \in ClosingStates
        BY <1>0, <1>1, <2>1, <2>3, <2>4, <2>6, <2>8
      <3>2. QED BY <2>2, <2>3, <3>1, DbFields
               DEF Kept, ClosedBy, HandedBack, FindingSources, ClosingStates
    <2>9. QED BY <2>7, <2>8
  <1>7. CASE GroupFindings
    <2>1. /\ UNCHANGED <<sameFamily, lastSeen, closedBy, mergeSha, resolution, mergedAfter,
                         run, ingested, applied>>
          /\ state[i] \in {"merged", "awaiting_rescan"}
          /\ \/ fItem'[f] = fItem[f] /\ fState'[f] = fState[f]
             \/ /\ lastSeen[f] \in Reporting(f)
                /\ \A q \in ingested : q <= lastSeen[f]
      BY <1>0, <1>7, GroupEffect
    <2>2. r \in ingested /\ r \in RunIds
      BY <1>0, <2>1, RunsAreNumbered DEF Inv
    <2>3. Proves(i, f, r)
      BY <1>2, <1>3, <2>1, <2>2
    <2>4. CASE lastSeen[f] \in Reporting(f) /\ r <= lastSeen[f]
      <3>1. r = lastSeen[f]
        BY <1>2, <2>2, <2>3, <2>4 DEF Proves
      <3>2. run[r].report[f] # "absent"
        BY <2>4, <3>1 DEF Reporting
      <3>3. run[r].report[f] = "absent"
        BY <2>3 DEF Proves, Family
      <3>4. QED BY <3>2, <3>3
    <2>5. CASE fItem'[f] = fItem[f] /\ fState'[f] = fState[f]
      BY <1>0, <1>1, <2>1, <2>3, <2>5
    <2>6. QED BY <2>1, <2>2, <2>4, <2>5
  <1>8. ASSUME NEW k \in Items, ObserveMerge(k)
        PROVE  fState'[f] \in ClosingStates
    <2>1. PICK e \in Dbs :
            /\ Install(e) /\ Heeded(e, k, MaxRuns) /\ e.item = fItem
            /\ UNCHANGED <<sameFamily, lastSeen, resolution, mergedAfter, run, ingested,
                           applied>>
            /\ \A j \in Items \ {k} : e.wi[j] = state[j] /\ e.sha[j] = mergeSha[j]
            /\ \/ fState'[f] = fState[f] /\ closedBy'[f] = closedBy[f]
               \/ fItem[f] = k
      BY <1>8, ObserveMergeEffect
    <2>2. /\ fState' = e.st /\ closedBy' = e.by /\ fItem' = e.item /\ state' = e.wi
          /\ mergeSha' = e.sha
      BY <2>1 DEF Install
    <2>3. r \in applied /\ r \in RunIds /\ fItem[f] = i
      BY <1>0, <1>2, <2>1, <2>2
    <2>4. CASE i = k
      <3>1. Closing(e, k) /\ r <= MaxRuns
        BY <1>0, <2>2, <2>3, <2>4 DEF Closing, RunIds
      <3>2. Valid(e, f, r, e.sha[k]) /\ ~Present(f, r)
        BY <1>0, <2>1, <2>2, <2>4
        DEF Valid, LaterRunSaw, Present, FamilyReports, Proves, Family
      <3>3. Outcome(e, k, f, r) = "closing_absent"
        BY <3>2, OutcomeSays
      <3>4. QED BY <1>0, <2>1, <2>2, <2>3, <2>4, <3>1, <3>3 DEF Heeded
    <2>5. CASE i # k
      <3>1. /\ state[i] \in {"merged", "awaiting_rescan"} /\ mergeSha'[i] = mergeSha[i]
            /\ fState'[f] = fState[f] /\ closedBy'[f] = closedBy[f]
        BY <1>0, <2>1, <2>2, <2>3, <2>5
      <3>2. Proves(i, f, r)
        BY <1>2, <1>3, <2>1, <2>3, <3>1
      <3>3. QED BY <1>0, <1>1, <2>1, <2>3, <3>1, <3>2
    <2>6. QED BY <2>4, <2>5
  <1>9. ASSUME NEW k \in Items, Start(k) \/ PollClosedIssue(k)
        PROVE  fState'[f] \in ClosingStates
    <2>1. /\ UNCHANGED <<sameFamily, lastSeen, closedBy, fItem, mergeSha, resolution,
                         mergedAfter, run, ingested, applied>>
          /\ state'[i] = state[i] \/ state'[i] \in {"session_active", "abandoned"}
          /\ fState'[f] = fState[f] \/ fState[f] \notin ClosingStates
      BY <1>9, StartEffect
    <2>2. Proves(i, f, r)
      BY <1>0, <1>2, <1>3, <2>1
    <2>3. QED BY <1>0, <1>1, <2>1, <2>2
  <1>10. QED BY <1>4, <1>5, <1>6, <1>7, <1>8, <1>9, Steps

\* A run's word that a step closes a finding by is the last one in the database.
LEMMA StepClosesByLatestWord ==
  ASSUME Inv, LatestWord, VerifiedMembersAreClosed, Next,
         NEW f \in Findings, closedBy'[f] # closedBy[f],
         NEW q \in ingested, q > closedBy'[f]
  PROVE  run[q].report[f] = "absent"
  <1>1. /\ q \in Int /\ lastSeen[f] \in Int
        /\ run[q].report[f] # "absent" => q <= lastSeen[f]
    <2>1. q \in RunIds
      BY RunsAreNumbered DEF Inv
    <2>2. QED BY <2>1 DEF LatestWord, Reporting, Inv, TypeOK, RunIds, None
  <1>2. SUFFICES closedBy'[f] \in Int /\ lastSeen[f] <= closedBy'[f]
    BY <1>1
  <1>3. ~QuietStep
    BY QuietEffect DEF findingVars
  <1>4. ~\E r \in RunIds : Ingest(r)
    BY IngestEffect
  <1>5. ~GroupFindings
    BY GroupEffect
  <1>6. ~\E i \in Items : Start(i) \/ PollClosedIssue(i)
    BY StartEffect
  <1>7. CASE ApplyRun
    <2>1. PICK r \in RunIds, e \in Dbs :
            /\ Install(e)
            /\ \/ Kept(Db, e, f) \/ ClosedBy(Db, e, f, r) \/ HandedBack(Db, e, f)
               \/ Back(Db, e, f, r)
      BY <1>7, ApplyRunEffect
    <2>2. closedBy'[f] = e.by[f] /\ e.by[f] # closedBy[f]
      BY <2>1 DEF Install
    <2>3. e.by[f] = r /\ lastSeen[f] <= r
      BY <2>1, <2>2, DbFields DEF Kept, ClosedBy, HandedBack, Back
    <2>4. QED BY <2>2, <2>3 DEF RunIds
  <1>8. ASSUME NEW i \in Items, ObserveMerge(i)
        PROVE  closedBy'[f] \in Int /\ lastSeen[f] <= closedBy'[f]
    <2>1. closedBy'[f] \in applied /\ lastSeen[f] <= closedBy'[f]
      BY <1>8, ObserveMergeEffect
    <2>2. closedBy'[f] \in RunIds
      BY <2>1, RunsAreNumbered DEF Inv
    <2>3. QED BY <2>1, <2>2 DEF RunIds
  <1>9. QED BY <1>3, <1>4, <1>5, <1>6, <1>7, <1>8, Steps

-----------------------------------------------------------------------------
(* Theorems *)

LEMMA InitIndInv == Init => IndInv
  <1> SUFFICES ASSUME Init
               PROVE  IndInv
    OBVIOUS
  <1> USE DEF Init
  <1>1. TypeOK
    <2>1. /\ MaxItems \in Nat /\ MaxRuns \in Nat /\ MaxMerges \in Nat /\ MaxCuts \in Nat
      BY ClosureAssumption
    <2>2. NoRun \in [report : [Findings -> Words], fit : SUBSET Findings, sha : 0..MaxMerges]
      BY <2>1 DEF NoRun, Words
    <2>3. QED BY <2>1, <2>2 DEF TypeOK, ItemStates, Resolutions, None
  <1>2. FindingsAreAccountedFor
    BY DEF FindingsAreAccountedFor, ClosingStates, None
  <1>3. RunsArePending
    BY DEF RunsArePending
  <1>4. LatestWord
    BY DEF LatestWord, Reporting, None
  <1>5. VerifiedMembersAreClosed
    BY DEF VerifiedMembersAreClosed
  <1>6. StandingEvidence
    BY DEF StandingEvidence
  <1>7. EvidenceIsNotMissed
    BY DEF EvidenceIsNotMissed
  <1>8. QED BY <1>1, <1>2, <1>3, <1>4, <1>5, <1>6, <1>7 DEF IndInv, Inv

LEMMA NextIndInv ==
  ASSUME IndInv, [Next]_vars
  PROVE  IndInv'
  <1> USE DEF IndInv
  <1>1. CASE Next
    <2>1. TypeOK' /\ FindingsAreAccountedFor' /\ RunsArePending'
      BY <1>1, StepTypes, StepAccounts
    <2>2. QED BY <1>1, <2>1, StepLatest, StepVerified, StepStands, StepHeeds DEF Inv
  <1>2. CASE UNCHANGED vars
    <2>1. UNCHANGED Db
      BY <1>2 DEF Db, vars, findingVars, itemVars
    <2>2. Inv'
      BY <1>2 DEF vars, findingVars, itemVars, runVars, hubVars, Inv, TypeOK,
                  FindingsAreAccountedFor, RunsArePending, RunSays
    <2>3. LatestWord'
      BY <1>2 DEF vars, findingVars, runVars, LatestWord, Reporting
    <2>4. VerifiedMembersAreClosed' /\ StandingEvidence'
      BY <1>2, <2>1 DEF vars, findingVars, itemVars, runVars, VerifiedMembersAreClosed,
                        StandingEvidence, Members
    <2>5. EvidenceIsNotMissed'
      BY <1>2, <2>1, WhatIsNotMissed
      DEF vars, findingVars, itemVars, runVars, hubVars, Proves, Family
    <2>6. QED BY <2>2, <2>3, <2>4, <2>5
  <1>3. QED BY <1>1, <1>2

THEOREM Invariance == Spec => []IndInv
  BY InitIndInv, NextIndInv, PTL DEF Spec

\* Inv (the columns of findings, work_items and scan_runs): they have their types,
\* a closed finding names an applied run, one in remediation its item, and what is
\* left of an evaluation is pending.
THEOREM ColumnsGoTogether == Spec => []Inv
  BY Invariance, PTL DEF IndInv

\* LastSeenIsLatest (_upsert_finding): in whatever order runs are ingested, a
\* finding's row names the last that reports it.
THEOREM LatestRunIsNamed == Spec => []LastSeenIsLatest
  <1>1. ASSUME IndInv
        PROVE  LastSeenIsLatest
    <2>1. SUFFICES ASSUME NEW f \in Findings
                   PROVE  lastSeen[f] = Max(Reporting(f) \cup {None})
      BY DEF LastSeenIsLatest, Reporting
    <2>2. Reporting(f) \cup {None} \in SUBSET Nat
      BY <1>1, RunsAreNumbered DEF IndInv, Inv, Reporting, RunIds, None
    <2>3. /\ lastSeen[f] \in Reporting(f) \cup {None}
          /\ \A r \in Reporting(f) \cup {None} : r <= lastSeen[f]
      BY <1>1, <2>2 DEF IndInv, LatestWord, None
    <2>4. QED BY <2>2, <2>3, MaxIs
  <1>2. QED BY <1>1, Invariance, PTL

\* VerifiedMembersAreClosed (issue_may_close, _regressions): a verified item has
\* no member that is not closed.
THEOREM VerifiedMeansClosed == Spec => []VerifiedMembersAreClosed
  BY Invariance, PTL DEF IndInv

\* StandingEvidence (_regressions): no finding stays fixed against a complete and
\* applied run of its closing commit or a later one that finished after.
THEOREM FixedStandsAgainstEvidence == Spec => []StandingEvidence
  BY Invariance, PTL DEF IndInv

\* EvidenceIsNotMissed (apply_scan_run, _close_from_applied_runs): a scan applied
\* before the merge was observed counts as one applied after it.
THEOREM ScansBeforeTheMergeCount == Spec => []EvidenceIsNotMissed
  BY Invariance, PTL DEF IndInv

\* ClosureUsesLatestWord (_later_run_saw): no run closes a finding over a later
\* one that reports it.
THEOREM ClosuresHaveTheLastWord == Spec => ClosureUsesLatestWord
  <1>1. IndInv /\ [Next]_vars =>
          \A f \in Findings :
            closedBy'[f] # closedBy[f] =>
              \A q \in ingested : q > closedBy'[f] => run[q].report[f] = "absent"
    <2> SUFFICES ASSUME IndInv, [Next]_vars, NEW f \in Findings,
                        closedBy'[f] # closedBy[f],
                        NEW q \in ingested, q > closedBy'[f]
                 PROVE  run[q].report[f] = "absent"
      OBVIOUS
    <2>1. Next
      BY DEF vars, findingVars
    <2>2. QED BY <2>1, StepClosesByLatestWord DEF IndInv
  <1>2. QED BY <1>1, Invariance, PTL DEF Spec, ClosureUsesLatestWord
=============================================================================
