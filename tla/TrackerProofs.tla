---------------------------- MODULE TrackerProofs ----------------------------
(***************************************************************************)
(* What holds of work items and their issues for any number of items,      *)
(* titles, issues, failed calls and requests.                              *)
(***************************************************************************)
EXTENDS Tracker, FiniteSetTheorems, SequenceTheorems, TLAPS

-----------------------------------------------------------------------------
(* The issues on GitHub *)

Labels == {"needs-human", "retry", "resolution"}

\* Filing adds issues of i's title at the end.
Filing(i) ==
  /\ filed' \in Seq(Issues) /\ Len(filed') >= Len(filed)
  /\ \A n \in Numbers : filed'[n] = filed[n]
  /\ \A n \in 1 .. Len(filed') : n \notin Numbers => filed'[n] = NewIssue(i)

\* A call may change the issue of i, and not its title.
Labelling(i) ==
  /\ issue[i] # 0
  /\ filed' \in Seq(Issues) /\ Len(filed') = Len(filed)
  /\ \A n \in Numbers : n # issue[i] => filed'[n] = filed[n]
  /\ filed'[issue[i]].title = filed[issue[i]].title

LEMMA OneMoreIssue ==
  ASSUME Inv, NEW i \in Items, filed' = Append(filed, NewIssue(i))
  PROVE  Filing(i) /\ Len(filed') = Len(filed) + 1
  <1>1. NewIssue(i) \in Issues
    BY DEF NewIssue, Issues, Titles
  <1>2. filed \in Seq(Issues)
    BY DEF Inv, TypeOK
  <1>3. QED BY <1>1, <1>2 DEF Filing, Numbers

LEMMA TwoMoreIssues ==
  ASSUME Inv, NEW i \in Items, filed' = filed \o <<NewIssue(i), NewIssue(i)>>
  PROVE  Filing(i) /\ Len(filed') = Len(filed) + 2
  <1> DEFINE two == <<NewIssue(i), NewIssue(i)>>
  <1>1. NewIssue(i) \in Issues
    BY DEF NewIssue, Issues, Titles
  <1>2. filed \in Seq(Issues)
    BY DEF Inv, TypeOK
  <1>3. two \in Seq(Issues) /\ Len(two) = 2 /\ two[1] = NewIssue(i) /\ two[2] = NewIssue(i)
    BY <1>1
  <1> HIDE DEF two
  <1>4. filed' = filed \o two
    BY DEF two
  <1>5. /\ filed' \in Seq(Issues) /\ Len(filed') = Len(filed) + 2
        /\ \A n \in 1 .. Len(filed) + 2 :
             filed'[n] = IF n <= Len(filed) THEN filed[n] ELSE two[n - Len(filed)]
    BY <1>2, <1>3, <1>4, ConcatProperties
  <1>6. Len(filed) \in Nat
    BY <1>2
  <1>7. ASSUME NEW n \in 1 .. Len(filed'), n \notin Numbers
        PROVE  filed'[n] = NewIssue(i)
    <2>1. n - Len(filed) \in {1, 2} /\ filed'[n] = two[n - Len(filed)]
      BY <1>5, <1>6, <1>7 DEF Numbers
    <2>2. QED BY <1>3, <2>1
  <1>8. QED BY <1>5, <1>6, <1>7 DEF Filing, Numbers

\* An issue that is bound is one of those filed.
LEMMA BoundIsFiled ==
  ASSUME Inv, NEW i \in Items
  PROVE  /\ issue[i] \in 0 .. Len(filed) /\ Len(filed) \in Nat
         /\ issue[i] # 0 => /\ issue[i] \in Numbers
                            /\ filed[issue[i]] \in Issues
  <1>1. filed \in Seq(Issues) /\ issue[i] \in 0 .. Len(filed)
    BY DEF Inv, TypeOK
  <1>2. QED BY <1>1 DEF Numbers

\* An issue's record may be replaced by one of the same title.
LEMMA IssueChanged ==
  ASSUME Inv, NEW i \in Items, issue[i] # 0,
         NEW e \in Issues, e.title = filed[issue[i]].title,
         filed' = [filed EXCEPT ![issue[i]] = e]
  PROVE  Labelling(i) /\ filed'[issue[i]] = e
  <1>1. filed \in Seq(Issues) /\ issue[i] \in 1 .. Len(filed)
    BY BoundIsFiled DEF Inv, TypeOK, Numbers
  <1>2. QED BY <1>1, ExceptSeq DEF Labelling, Numbers

LEMMA LabelsSet ==
  ASSUME Inv, NEW i \in Items, issue[i] # 0, NEW labels \in SUBSET Labels,
         SetLabels(i, labels)
  PROVE  /\ Labelling(i)
         /\ filed'[issue[i]].labels = labels
         /\ filed'[issue[i]].open = filed[issue[i]].open
  <1> DEFINE e == [filed[issue[i]] EXCEPT !.labels = labels]
  <1>1. filed[issue[i]] \in Issues
    BY BoundIsFiled
  <1>2. /\ e \in Issues /\ e.title = filed[issue[i]].title
        /\ e.labels = labels /\ e.open = filed[issue[i]].open
    BY <1>1 DEF Issues, Labels
  <1>3. filed' = [filed EXCEPT ![issue[i]] = e]
    BY DEF SetLabels
  <1> HIDE DEF e
  <1>4. Labelling(i) /\ filed'[issue[i]] = e
    BY <1>2, <1>3, IssueChanged
  <1>5. QED BY <1>2, <1>4

LEMMA IssueClosed ==
  ASSUME Inv, NEW i \in Items, issue[i] # 0,
         filed' = [filed EXCEPT ![issue[i]].open = FALSE]
  PROVE  /\ Labelling(i)
         /\ filed'[issue[i]].labels = filed[issue[i]].labels
  <1> DEFINE e == [filed[issue[i]] EXCEPT !.open = FALSE]
  <1>1. filed[issue[i]] \in Issues
    BY BoundIsFiled
  <1>2. /\ e \in Issues /\ e.title = filed[issue[i]].title
        /\ e.labels = filed[issue[i]].labels
    BY <1>1 DEF Issues
  <1>3. filed' = [filed EXCEPT ![issue[i]] = e]
    OBVIOUS
  <1> HIDE DEF e
  <1>4. Labelling(i) /\ filed'[issue[i]] = e
    BY <1>2, <1>3, IssueChanged
  <1>5. QED BY <1>2, <1>4

-----------------------------------------------------------------------------
(* What a step does to one item *)

\* The states an item with an issue moves to.
LEMMA NeverQueuedAgain ==
  /\ \A s \in States \ {"queued"}, e \in OtherEvents \cup {"human_abandoned", "human_retry",
                                                          "human_resolved"} :
       WiAfter(s, e) \in States \ {"queued"}
  /\ WiAfter("queued", "issue_created") = "issue_open"
  /\ \A s \in Sources.superseded : WiAfter(s, "superseded") = "abandoned"
  BY DEF WiAfter, OtherEvents, Sources, Target, States

\* What _wi leaves of an item's state, its issue's labels and the lost calls.
LEMMA MovesEffect ==
  ASSUME Inv, NEW i \in Items, issue[i] # 0, NEW after, NEW labels \in SUBSET Labels,
         Moves(i, after, labels)
  PROVE  /\ Labelling(i) /\ state' = [state EXCEPT ![i] = after]
         /\ faults' \in 0 .. MaxFaults /\ stray' \subseteq Items
         /\ \A j \in Items \ {i} : j \in stray' <=> j \in stray
         /\ "retry" \in filed'[issue[i]].labels <=> "retry" \in labels
         /\ (i \notin stray => ("needs-human" \in labels <=> state[i] \in Attention))
              => (i \notin stray' =>
                    ("needs-human" \in filed'[issue[i]].labels <=> after \in Attention))
  <1>1. faults \in 0 .. MaxFaults /\ stray \subseteq Items /\ MaxFaults \in Nat
    BY TrackerAssumption DEF Inv, TypeOK
  <1>2. CASE /\ SetLabels(i, Synced(labels, state[i], after))
             /\ stray' = IF Crosses(state[i], after) THEN stray \ {i} ELSE stray
             /\ UNCHANGED faults
    <2>1. Synced(labels, state[i], after) \in SUBSET Labels
      BY DEF Synced, Labels
    <2>2. Labelling(i) /\ filed'[issue[i]].labels = Synced(labels, state[i], after)
      BY <1>2, <2>1, LabelsSet
    <2>3. "retry" \in Synced(labels, state[i], after) <=> "retry" \in labels
      BY DEF Synced
    <2>4. (i \notin stray => ("needs-human" \in labels <=> state[i] \in Attention))
            => (i \notin stray' =>
                  ("needs-human" \in Synced(labels, state[i], after) <=> after \in Attention))
      BY <1>2 DEF Synced, Crosses
    <2>5. QED BY <1>1, <1>2, <2>2, <2>3, <2>4 DEF Moves
  <1>3. CASE /\ faults < MaxFaults /\ faults' = faults + 1
             /\ SetLabels(i, labels)
             /\ stray' = stray \cup {i}
    <2>1. Labelling(i) /\ filed'[issue[i]].labels = labels
      BY <1>3, LabelsSet
    <2>2. faults' \in 0 .. MaxFaults
      BY <1>1, <1>3
    <2>3. QED BY <1>1, <1>3, <2>1, <2>2 DEF Moves
  <1>4. QED BY <1>2, <1>3 DEF Moves

-----------------------------------------------------------------------------
(* Labels: people's, and the controller's *)

\* The label of i's issue tells i's state.
Tells(i) ==
  i \notin stray => ("needs-human" \in filed[issue[i]].labels <=> state[i] \in Attention)

\* Every retry label of i's issue was acted on, taken off in vain, or is there.
Counts(i) ==
  asks[i] = retried[i] + lost[i] +
    IF issue[i] # 0 /\ "retry" \in filed[issue[i]].labels THEN 1 ELSE 0

LabelSteps(i) ==
  \/ LaunchRetries(i) \/ \E e \in OtherEvents : Move(i, e) \/ MoveRolledBack(i, e)
  \/ HumanAsksRetry(i) \/ HumanResolves(i) \/ HumanCloses(i)
  \/ PollItem(i) \/ PollRetryLost(i)

\* A step of an item with its issue, other than filing and supersession.
OnItsIssue(i) ==
  /\ UNCHANGED <<issue, pass, spare, hidden>>
  /\ Labelling(i)
  /\ \E s \in States \ {"queued"} : state' = [state EXCEPT ![i] = s]
  /\ resolved' \in [Items -> BOOLEAN] /\ stray' \subseteq Items
  /\ faults' \in 0 .. MaxFaults /\ moves' \in 0 .. MaxMoves
  /\ asks' \in [Items -> 0 .. MaxAsks]
  /\ retried' \in [Items -> Nat] /\ lost' \in [Items -> Nat]
  /\ \A j \in Items \ {i} : /\ j \in stray' <=> j \in stray
                            /\ asks'[j] = asks[j] /\ retried'[j] = retried[j]
                            /\ lost'[j] = lost[j]
  /\ Tells(i) => Tells(i)'
  /\ Counts(i) => Counts(i)'

\* The labels of an item's issue, and its state, are among those there are.
LEMMA OfAnItem ==
  ASSUME Inv, NEW i \in Items, issue[i] # 0
  PROVE  /\ filed[issue[i]].labels \in SUBSET Labels
         /\ state[i] \in States \ {"queued"}
         /\ asks[i] \in 0 .. MaxAsks /\ retried[i] \in Nat /\ lost[i] \in Nat
  <1>1. filed[issue[i]] \in Issues
    BY BoundIsFiled
  <1>2. state[i] \in States \ {"queued"}
    BY DEF Inv, TypeOK, IssuesAreBoundOnce
  <1>3. QED BY <1>1, <1>2 DEF Issues, Labels, Inv, TypeOK

\* A move by an event leaves every request counted as it was.
LEMMA MoveOnItsIssue ==
  ASSUME Inv, NEW i \in Items, issue[i] # 0, NEW after \in States \ {"queued"},
         Moves(i, after, filed[issue[i]].labels),
         UNCHANGED <<issue, pass, asks, retried, lost, spare, hidden>>,
         resolved' \in [Items -> BOOLEAN], moves' \in 0 .. MaxMoves
  PROVE  OnItsIssue(i)
  <1> DEFINE labels == filed[issue[i]].labels
  <1>1. labels \in SUBSET Labels
    BY OfAnItem
  <1>2. /\ Labelling(i) /\ state' = [state EXCEPT ![i] = after]
        /\ faults' \in 0 .. MaxFaults /\ stray' \subseteq Items
        /\ \A j \in Items \ {i} : j \in stray' <=> j \in stray
        /\ "retry" \in filed'[issue[i]].labels <=> "retry" \in labels
        /\ (i \notin stray => ("needs-human" \in labels <=> state[i] \in Attention))
             => (i \notin stray' =>
                   ("needs-human" \in filed'[issue[i]].labels <=> after \in Attention))
    BY <1>1, MovesEffect
  <1>3. state'[i] = after
    BY <1>2 DEF Inv, TypeOK
  <1>4. Tells(i) => Tells(i)'
    BY <1>2, <1>3 DEF Tells
  <1>5. Counts(i) => Counts(i)'
    BY <1>2 DEF Counts
  <1>6. QED BY <1>2, <1>4, <1>5 DEF OnItsIssue, Inv, TypeOK

\* A retry takes its label off, and is counted as acted on or as taken off in vain.
LEMMA RetryOnItsIssue ==
  ASSUME Inv, NEW i \in Items, issue[i] # 0, NEW after \in States \ {"queued"},
         Moves(i, after, filed[issue[i]].labels \ {"retry"}),
         UNCHANGED <<issue, resolved, pass, asks, spare, hidden>>, moves' \in 0 .. MaxMoves,
         \/ /\ "retry" \in filed[issue[i]].labels
            /\ retried' = [retried EXCEPT ![i] = @ + 1] /\ lost' = lost
         \/ /\ lost' = [lost EXCEPT ![i] =
                          @ + IF "retry" \in filed[issue[i]].labels THEN 1 ELSE 0]
            /\ retried' = retried
  PROVE  OnItsIssue(i)
  <1> DEFINE labels == filed[issue[i]].labels
  <1>1. labels \ {"retry"} \in SUBSET Labels
    BY OfAnItem
  <1>2. /\ Labelling(i) /\ state' = [state EXCEPT ![i] = after]
        /\ faults' \in 0 .. MaxFaults /\ stray' \subseteq Items
        /\ \A j \in Items \ {i} : j \in stray' <=> j \in stray
        /\ "retry" \in filed'[issue[i]].labels <=> "retry" \in labels \ {"retry"}
        /\ (i \notin stray => ("needs-human" \in labels \ {"retry"} <=> state[i] \in Attention))
             => (i \notin stray' =>
                   ("needs-human" \in filed'[issue[i]].labels <=> after \in Attention))
    BY <1>1, MovesEffect
  <1>3. state'[i] = after
    BY <1>2 DEF Inv, TypeOK
  <1>4. Tells(i) => Tells(i)'
    BY <1>2, <1>3 DEF Tells
  <1>5. /\ retried' \in [Items -> Nat] /\ lost' \in [Items -> Nat]
        /\ \A j \in Items \ {i} : retried'[j] = retried[j] /\ lost'[j] = lost[j]
        /\ retried'[i] + lost'[i] = retried[i] + lost[i] + IF "retry" \in labels THEN 1 ELSE 0
    <2> DEFINE there == "retry" \in labels
    <2> HIDE DEF there
    <2>1. retried \in [Items -> Nat] /\ lost \in [Items -> Nat]
      BY DEF Inv, TypeOK
    <2>2. CASE there /\ retried' = [retried EXCEPT ![i] = @ + 1] /\ lost' = lost
      BY <2>1, <2>2 DEF there
    <2>3. CASE /\ lost' = [lost EXCEPT ![i] = @ + IF there THEN 1 ELSE 0]
               /\ retried' = retried
      BY <2>1, <2>3 DEF there
    <2>4. QED BY <2>2, <2>3 DEF there
  <1>6. Counts(i) => Counts(i)'
    <2> DEFINE was == IF "retry" \in labels THEN 1 ELSE 0
    <2> HIDE DEF was
    <2>1. Counts(i) <=> asks[i] = retried[i] + lost[i] + was
      BY DEF Counts, was
    <2>2. Counts(i)' <=> asks[i] = retried'[i] + lost'[i] + 0
      BY <1>2 DEF Counts
    <2>3. retried'[i] + lost'[i] = retried[i] + lost[i] + was
      BY <1>5 DEF was
    <2>4. retried'[i] \in Nat /\ lost'[i] \in Nat
      BY <1>5
    <2>5. QED BY <2>1, <2>2, <2>3, <2>4
  <1>7. QED BY <1>2, <1>4, <1>5, <1>6 DEF OnItsIssue, Inv, TypeOK

\* A label set without a move, counted by the one who sets it.
LEMMA SetOnItsIssue ==
  ASSUME Inv, NEW i \in Items, issue[i] # 0, Labelling(i),
         UNCHANGED <<state, issue, resolved, pass, moves, spare, hidden>>,
         faults' \in 0 .. MaxFaults, stray' \in {stray, stray \cup {i}},
         asks' \in [Items -> 0 .. MaxAsks], lost' \in [Items -> Nat], retried' = retried,
         \A j \in Items \ {i} : asks'[j] = asks[j] /\ lost'[j] = lost[j],
         \/ i \in stray'
         \/ "needs-human" \in filed'[issue[i]].labels <=>
              "needs-human" \in filed[issue[i]].labels,
         Counts(i) => Counts(i)'
  PROVE  OnItsIssue(i)
  <1>1. state' = [state EXCEPT ![i] = state[i]] /\ state[i] \in States \ {"queued"}
    BY OfAnItem DEF Inv, TypeOK
  <1>2. Tells(i) => Tells(i)'
    BY DEF Tells
  <1>3. stray' \subseteq Items /\ \A j \in Items \ {i} : j \in stray' <=> j \in stray
    BY DEF Inv, TypeOK
  <1>4. QED BY <1>1, <1>2, <1>3 DEF OnItsIssue, Inv, TypeOK

LEMMA LabelStepsEffect ==
  ASSUME Inv, NEW i \in Items, LabelSteps(i)
  PROVE  OnItsIssue(i)
  <1>1. issue[i] # 0
    BY DEF LabelSteps, LaunchRetries, Move, MoveRolledBack, HumanAsksRetry, HumanResolves,
           AddLabel, HumanCloses, PollItem, PollClosed, PollRetry, PollResolution,
           PollRetryLost, Asked, Polled
  <1>2. /\ filed[issue[i]].labels \in SUBSET Labels
        /\ state[i] \in States \ {"queued"}
        /\ asks[i] \in 0 .. MaxAsks /\ retried[i] \in Nat /\ lost[i] \in Nat
    BY <1>1, OfAnItem
  <1>3. /\ MaxMoves \in Nat /\ MaxFaults \in Nat /\ MaxAsks \in Nat
        /\ faults \in 0 .. MaxFaults /\ moves \in 0 .. MaxMoves
        /\ asks \in [Items -> 0 .. MaxAsks] /\ lost \in [Items -> Nat]
        /\ resolved \in [Items -> BOOLEAN]
    BY TrackerAssumption DEF Inv, TypeOK
  <1>4. \A e \in OtherEvents \cup {"human_abandoned", "human_retry", "human_resolved"} :
          WiAfter(state[i], e) \in States \ {"queued"}
    BY <1>2, NeverQueuedAgain
  <1>5. CASE LaunchRetries(i)
    <2>1. moves' \in 0 .. MaxMoves
      BY <1>3, <1>5 DEF LaunchRetries
    <2>2. QED BY <1>1, <1>4, <1>5, <2>1, RetryOnItsIssue DEF LaunchRetries
  <1>6. ASSUME NEW e \in OtherEvents, Move(i, e)
        PROVE  OnItsIssue(i)
    <2>1. moves' \in 0 .. MaxMoves
      BY <1>3, <1>6 DEF Move
    <2>2. QED BY <1>1, <1>3, <1>4, <1>6, <2>1, MoveOnItsIssue DEF Move
  <1>7. ASSUME NEW e \in OtherEvents, MoveRolledBack(i, e)
        PROVE  OnItsIssue(i)
    <2> DEFINE labels == Synced(filed[issue[i]].labels, state[i], WiAfter(state[i], e))
    <2>1. /\ labels \in SUBSET Labels
          /\ "retry" \in labels <=> "retry" \in filed[issue[i]].labels
      BY <1>2 DEF Synced, Labels
    <2>2. SetLabels(i, labels)
      BY <1>7 DEF MoveRolledBack
    <2> HIDE DEF labels
    <2>3. Labelling(i) /\ filed'[issue[i]].labels = labels
      BY <1>1, <2>1, <2>2, LabelsSet
    <2>4. faults' \in 0 .. MaxFaults
      BY <1>3, <1>7 DEF MoveRolledBack
    <2>5. Counts(i) => Counts(i)'
      BY <1>7, <2>1, <2>3 DEF Counts, MoveRolledBack
    <2>6. QED BY <1>1, <1>3, <1>7, <2>3, <2>4, <2>5, SetOnItsIssue DEF MoveRolledBack
  <1>8. CASE HumanAsksRetry(i)
    <2> DEFINE labels == filed[issue[i]].labels \cup {"retry"}
    <2>1. labels \in SUBSET Labels /\ SetLabels(i, labels)
      BY <1>2, <1>8 DEF Labels, HumanAsksRetry, AddLabel
    <2>2. Labelling(i) /\ filed'[issue[i]].labels = labels
      BY <1>1, <2>1, LabelsSet
    <2>3. /\ asks' \in [Items -> 0 .. MaxAsks] /\ asks'[i] = asks[i] + 1
          /\ \A j \in Items \ {i} : asks'[j] = asks[j]
      BY <1>3, <1>8 DEF HumanAsksRetry
    <2>4. Counts(i) => Counts(i)'
      <3>1. Counts(i) => asks[i] = retried[i] + lost[i]
        BY <1>2, <1>8 DEF Counts, HumanAsksRetry, AddLabel
      <3>2. Counts(i)' <=> asks'[i] = retried[i] + lost[i] + 1
        BY <1>1, <1>8, <2>2 DEF Counts, HumanAsksRetry
      <3>3. QED BY <1>2, <2>3, <3>1, <3>2
    <2>5. QED BY <1>1, <1>3, <1>8, <2>2, <2>3, <2>4, SetOnItsIssue DEF HumanAsksRetry
  <1>9. CASE HumanResolves(i)
    <2> DEFINE labels == filed[issue[i]].labels \cup {"resolution"}
    <2>1. labels \in SUBSET Labels /\ SetLabels(i, labels)
      BY <1>2, <1>9 DEF Labels, HumanResolves, AddLabel
    <2>2. Labelling(i) /\ filed'[issue[i]].labels = labels
      BY <1>1, <2>1, LabelsSet
    <2>3. Counts(i) => Counts(i)'
      BY <1>9, <2>2 DEF Counts, HumanResolves
    <2>4. QED BY <1>1, <1>3, <1>9, <2>2, <2>3, SetOnItsIssue DEF HumanResolves
  <1>10. CASE HumanCloses(i)
    <2>1. Labelling(i) /\ filed'[issue[i]].labels = filed[issue[i]].labels
      BY <1>1, <1>10, IssueClosed DEF HumanCloses
    <2>2. Counts(i) => Counts(i)'
      BY <1>10, <2>1 DEF Counts, HumanCloses
    <2>3. QED BY <1>1, <1>3, <1>10, <2>1, <2>2, SetOnItsIssue DEF HumanCloses
  <1>11. CASE PollClosed(i)
    BY <1>1, <1>3, <1>4, <1>11, MoveOnItsIssue DEF PollClosed
  <1>12. CASE PollRetry(i)
    BY <1>1, <1>3, <1>4, <1>12, RetryOnItsIssue DEF PollRetry, Retry, Asked
  <1>13. CASE PollResolution(i)
    <2>1. resolved' \in [Items -> BOOLEAN]
      BY <1>3, <1>13 DEF PollResolution
    <2>2. QED BY <1>1, <1>3, <1>4, <1>13, <2>1, MoveOnItsIssue DEF PollResolution
  <1>14. CASE PollRetryLost(i)
    <2> DEFINE labels == filed[issue[i]].labels \ {"retry"}
    <2>1. labels \in SUBSET Labels /\ SetLabels(i, labels)
      BY <1>2, <1>14 DEF Labels, PollRetryLost
    <2>2. Labelling(i) /\ filed'[issue[i]].labels = labels
      BY <1>1, <2>1, LabelsSet
    <2>3. faults' \in 0 .. MaxFaults
      BY <1>3, <1>14 DEF PollRetryLost
    <2>4. /\ lost' \in [Items -> Nat] /\ lost'[i] = lost[i] + 1
          /\ \A j \in Items \ {i} : lost'[j] = lost[j]
      BY <1>3, <1>14 DEF PollRetryLost
    <2>5. Counts(i) => Counts(i)'
      <3>1. Counts(i) => asks[i] = retried[i] + lost[i] + 1
        BY <1>1, <1>14 DEF Counts, PollRetryLost, Asked
      <3>2. Counts(i)' <=> asks[i] = retried[i] + lost'[i] + 0
        BY <1>14, <2>2 DEF Counts, PollRetryLost
      <3>3. QED BY <1>2, <2>4, <3>1, <3>2
    <2>6. QED BY <1>1, <1>3, <1>14, <2>2, <2>3, <2>4, <2>5, SetOnItsIssue DEF PollRetryLost
  <1>15. QED
    BY <1>5, <1>6, <1>7, <1>8, <1>9, <1>10, <1>11, <1>12, <1>13, <1>14
    DEF LabelSteps, PollItem

-----------------------------------------------------------------------------
(* Filing and binding *)

Binds(i, n) ==
  /\ issue' = [issue EXCEPT ![i] = n]
  /\ state' = [state EXCEPT ![i] = "issue_open"]

\* A queued item has no issue; binding it takes one issue out of the unbound.
LEMMA BindingEffect ==
  ASSUME Inv, NEW i \in Items, state[i] = "queued", NEW n, Binds(i, n)
  PROVE  /\ issue[i] = 0
         /\ \A m : m # 0 => (m \in Bound' <=> m \in Bound \/ m = n)
  <1>1. issue[i] = 0
    BY DEF Inv, IssuesAreBoundOnce
  <1>2. \A j \in Items : issue'[j] = IF j = i THEN n ELSE issue[j]
    BY DEF Binds, Inv, TypeOK
  <1>3. QED BY <1>1, <1>2 DEF Bound

LEMMA BindToBinds ==
  ASSUME Inv, NEW i \in Items, state[i] = "queued", NEW n, BindTo(i, n)
  PROVE  Binds(i, n)
  <1>1. state' = [state EXCEPT ![i] = WiAfter(state[i], "issue_created")]
    BY DEF BindTo
  <1>2. QED BY <1>1, NeverQueuedAgain DEF BindTo, Binds

\* The ghosts of a title are counters.
LEMMA GhostsCount ==
  ASSUME Inv, NEW i \in Items
  PROVE  /\ TitleOf[i] \in Titles
         /\ [spare EXCEPT ![TitleOf[i]] = @ + 1] \in [Titles -> Nat]
         /\ \A known : LeaveHidden(i, known) => hidden' \in [Titles -> Nat]
  <1>1. TitleOf[i] \in Titles
    BY DEF Titles
  <1>2. spare \in [Titles -> Nat] /\ hidden \in [Titles -> Nat]
    BY DEF Inv, TypeOK
  <1>3. /\ [spare EXCEPT ![TitleOf[i]] = @ + 1] \in [Titles -> Nat]
        /\ [hidden EXCEPT ![TitleOf[i]] = @ + 1] \in [Titles -> Nat]
    BY <1>1, <1>2
  <1>4. QED BY <1>1, <1>2, <1>3 DEF LeaveHidden

\* An issue that is new is bound to nobody.
LEMMA NewIsUnbound ==
  ASSUME Inv, NEW n \in Nat, n > Len(filed)
  PROVE  n \notin Bound /\ n # 0
  <1>1. \A j \in Items : issue[j] \in 0 .. Len(filed) /\ Len(filed) \in Nat
    BY BoundIsFiled
  <1>2. QED BY <1>1 DEF Bound

Opens(i, known) ==
  /\ state[i] = "queued" /\ known \subseteq Numbers
  /\ OpenIssue(i, known) \/ OpenUnlisted(i)

\* Filing an issue for i binds i to an unbound one of its title, or i stays queued.
LEMMA OpeningEffect ==
  ASSUME Inv, NEW i \in Items, NEW known, Opens(i, known)
  PROVE  /\ Filing(i)
         /\ faults' \in 0 .. MaxFaults
         /\ spare' \in [Titles -> Nat] /\ hidden' \in [Titles -> Nat]
         /\ \/ UNCHANGED <<issue, state>>
            \/ \E n \in 1 .. Len(filed') : /\ n \notin Bound /\ filed'[n].title = TitleOf[i]
                                           /\ Binds(i, n)
  <1>1. /\ faults \in 0 .. MaxFaults /\ MaxFaults \in Nat /\ Len(filed) \in Nat
        /\ spare \in [Titles -> Nat] /\ hidden \in [Titles -> Nat]
        /\ filed \in Seq(Issues)
    BY TrackerAssumption DEF Inv, TypeOK
  <1>2. NewIssue(i).title = TitleOf[i]
    BY DEF NewIssue
  <1>3. ASSUME Filing(i), NEW n \in Nat, n > Len(filed), n <= Len(filed'), BindTo(i, n)
        PROVE  \E m \in 1 .. Len(filed') : /\ m \notin Bound /\ filed'[m].title = TitleOf[i]
                                           /\ Binds(i, m)
    <2>1. n \notin Bound /\ n # 0
      BY <1>3, NewIsUnbound
    <2>2. n \in 1 .. Len(filed') /\ n \notin Numbers
      BY <1>1, <1>3, <2>1 DEF Numbers, Filing
    <2>3. filed'[n] = NewIssue(i)
      BY <1>3, <2>2 DEF Filing
    <2>4. Binds(i, n)
      BY <1>3, BindToBinds DEF Opens
    <2>5. QED BY <1>2, <2>1, <2>2, <2>3, <2>4
  <1>4. CASE AdoptIssue(i, known)
    <2>1. PICK n \in Found(i, known) : BindTo(i, n)
      BY <1>4 DEF AdoptIssue
    <2>2. Binds(i, n)
      BY <2>1, BindToBinds DEF Opens
    <2>3. filed' = filed /\ faults' = faults /\ spare' = spare /\ hidden' = hidden
      BY <1>4 DEF AdoptIssue
    <2>4. n \in 1 .. Len(filed') /\ n \notin Bound /\ filed'[n].title = TitleOf[i]
      BY <2>1, <2>3 DEF Found, Opens, Numbers
    <2>5. Filing(i)
      BY <1>1, <2>3 DEF Filing, Numbers
    <2>6. QED BY <1>1, <2>2, <2>3, <2>4, <2>5
  <1>5. CASE CreateIssue(i, known)
    <2>1. CASE /\ filed' = Append(filed, NewIssue(i)) /\ BindTo(i, Len(filed) + 1)
               /\ LeaveHidden(i, known) /\ UNCHANGED <<faults, spare>>
      <3>1. Filing(i) /\ Len(filed') = Len(filed) + 1
        BY <2>1, OneMoreIssue
      <3>2. \E m \in 1 .. Len(filed') : /\ m \notin Bound /\ filed'[m].title = TitleOf[i]
                                         /\ Binds(i, m)
        BY <1>1, <1>3, <2>1, <3>1
      <3>3. QED BY <1>1, <2>1, <3>1, <3>2, GhostsCount
    <2>2. CASE /\ filed' = filed \o <<NewIssue(i), NewIssue(i)>> /\ BindTo(i, Len(filed) + 2)
               /\ LeaveHidden(i, known) /\ faults < MaxFaults /\ faults' = faults + 1
               /\ spare' = [spare EXCEPT ![TitleOf[i]] = @ + 1]
      <3>1. Filing(i) /\ Len(filed') = Len(filed) + 2
        BY <2>2, TwoMoreIssues
      <3>2. faults' \in 0 .. MaxFaults
        BY <1>1, <2>2
      <3>3. \E m \in 1 .. Len(filed') : /\ m \notin Bound /\ filed'[m].title = TitleOf[i]
                                         /\ Binds(i, m)
        <4> DEFINE n == Len(filed) + 2
        <4>1. n \in Nat /\ n > Len(filed) /\ n <= Len(filed') /\ BindTo(i, n)
          BY <1>1, <2>2, <3>1
        <4> HIDE DEF n
        <4>2. QED BY <1>3, <3>1, <4>1
      <3>4. QED BY <1>1, <2>2, <3>1, <3>2, <3>3, GhostsCount
    <2>3. QED BY <1>5, <2>1, <2>2 DEF CreateIssue
  <1>6. CASE CreateFails(i, known)
    <2>1. faults' \in 0 .. MaxFaults
      BY <1>1, <1>6 DEF CreateFails
    <2>2. CASE filed' = Append(filed, NewIssue(i)) /\ LeaveHidden(i, known)
      BY <1>1, <1>6, <2>1, <2>2, OneMoreIssue, GhostsCount DEF CreateFails
    <2>3. CASE UNCHANGED <<filed, hidden>>
      BY <1>1, <1>6, <2>1, <2>3 DEF CreateFails, Filing, Numbers
    <2>4. QED BY <1>6, <2>2, <2>3 DEF CreateFails
  <1>7. CASE OpenUnlisted(i)
    <2>1. faults' \in 0 .. MaxFaults
      BY <1>1, <1>7 DEF OpenUnlisted
    <2>2. Filing(i) /\ Len(filed') = Len(filed) + 1
      BY <1>7, OneMoreIssue DEF OpenUnlisted
    <2>3. \E m \in 1 .. Len(filed') : /\ m \notin Bound /\ filed'[m].title = TitleOf[i]
                                       /\ Binds(i, m)
      <3> DEFINE n == Len(filed) + 1
      <3>1. n \in Nat /\ n > Len(filed) /\ n <= Len(filed') /\ BindTo(i, n)
        BY <1>1, <1>7, <2>2 DEF OpenUnlisted
      <3> HIDE DEF n
      <3>2. QED BY <1>3, <2>2, <3>1
    <2>4. QED BY <1>1, <1>7, <2>1, <2>2, <2>3, GhostsCount DEF OpenUnlisted
  <1>8. QED BY <1>4, <1>5, <1>6, <1>7 DEF Opens, OpenIssue

\* The kinds of steps there are.
LEMMA Steps ==
  ASSUME Inv, Next
  PROVE  \/ StartPass
         \/ \E i \in Items : \E known :
              /\ Opens(i, known)
              /\ UNCHANGED <<resolved, moves, asks, retried, lost, stray>>
              /\ pass'.todo \subseteq pass.todo \ {i}
              /\ pass' \in [todo : SUBSET Items, known : SUBSET Numbers]
         \/ CrashInPass
         \/ \E i \in Items : Supersede(i)
         \/ \E i \in Items : LabelSteps(i)
  <1>1. /\ pass \in [todo : SUBSET Items, known : SUBSET Numbers]
        /\ NoPass \in [todo : SUBSET Items, known : SUBSET Numbers] /\ NoPass.todo = {}
        /\ Listing \subseteq Numbers
    BY DEF Inv, TypeOK, NoPass, Listing
  <1>2. CASE OpenNext
    <2>1. PICK i \in pass.todo :
            /\ pass' = IF pass.todo = {i} THEN NoPass ELSE [pass EXCEPT !.todo = @ \ {i}]
            /\ OpenIssue(i, pass.known) \/ OpenIssue(i, Listing) \/ OpenUnlisted(i)
            /\ UNCHANGED <<resolved, moves, asks, retried, lost, stray>>
      BY <1>2 DEF OpenNext
    <2>2. i \in Items /\ state[i] = "queued"
      BY <1>1 DEF Inv, PassIsQueued
    <2>3. Opens(i, pass.known) \/ Opens(i, Listing)
      BY <1>1, <2>1, <2>2 DEF Opens
    <2>4. /\ pass'.todo \subseteq pass.todo \ {i}
          /\ pass' \in [todo : SUBSET Items, known : SUBSET Numbers]
      BY <1>1, <2>1
    <2>5. QED BY <2>1, <2>2, <2>3, <2>4
  <1>3. ASSUME NEW i \in Items, LaunchOpens(i)
        PROVE  \E known : /\ Opens(i, known)
                          /\ UNCHANGED <<resolved, moves, asks, retried, lost, stray>>
                          /\ pass'.todo \subseteq pass.todo \ {i}
                          /\ pass' \in [todo : SUBSET Items, known : SUBSET Numbers]
    BY <1>1, <1>3 DEF LaunchOpens, Opens
  <1>4. QED BY <1>2, <1>3 DEF Next, LabelSteps

LEMMA CrashEffect ==
  ASSUME Inv, CrashInPass
  PROVE  /\ UNCHANGED <<state, issue, resolved, moves, asks, retried, lost, spare, stray>>
         /\ pass' = NoPass /\ faults' \in 0 .. MaxFaults /\ hidden' \in [Titles -> Nat]
         /\ \/ UNCHANGED <<filed, hidden>>
            \/ \E i \in Items : /\ state[i] = "queued"
                                /\ Found(i, pass.known) = {} /\ LeaveHidden(i, pass.known)
                                /\ Filing(i) /\ Len(filed') = Len(filed) + 1
  <1>1. /\ faults \in 0 .. MaxFaults /\ MaxFaults \in Nat /\ hidden \in [Titles -> Nat]
        /\ pass.todo \subseteq Items /\ \A i \in pass.todo : state[i] = "queued"
    BY TrackerAssumption DEF Inv, TypeOK, PassIsQueued
  <1>2. CASE UNCHANGED <<filed, hidden>>
    BY <1>1, <1>2 DEF CrashInPass
  <1>3. ASSUME NEW i \in pass.todo, Found(i, pass.known) = {},
               filed' = Append(filed, NewIssue(i)), LeaveHidden(i, pass.known)
        PROVE  /\ hidden' \in [Titles -> Nat] /\ state[i] = "queued" /\ i \in Items
               /\ Filing(i) /\ Len(filed') = Len(filed) + 1
    BY <1>1, <1>3, OneMoreIssue, GhostsCount
  <1>4. /\ UNCHANGED <<state, issue, resolved, moves, asks, retried, lost, spare, stray>>
        /\ pass' = NoPass /\ faults' \in 0 .. MaxFaults
    BY <1>1 DEF CrashInPass
  <1>5. QED BY <1>1, <1>2, <1>3, <1>4 DEF CrashInPass

LEMMA SupersedeEffect ==
  ASSUME Inv, NEW i \in Items, Supersede(i)
  PROVE  /\ UNCHANGED <<issue, resolved, pass, faults, moves, asks, retried, lost, hidden,
                        stray>>
         /\ pass.todo = {}
         /\ state[i] \notin Attention /\ state' = [state EXCEPT ![i] = "abandoned"]
         /\ spare' \in [Titles -> Nat]
         /\ \/ /\ issue[i] # 0 /\ state[i] # "queued" /\ UNCHANGED spare
               /\ Labelling(i) /\ filed'[issue[i]].labels = filed[issue[i]].labels
            \/ /\ issue[i] = 0 /\ state[i] = "queued" /\ UNCHANGED filed
               /\ spare' = [spare EXCEPT ![TitleOf[i]] = @ + 1]
  <1>1. state[i] \in Sources.superseded /\ state[i] \in {"queued", "issue_open"}
    BY DEF Supersede, Sources
  <1>2. state' = [state EXCEPT ![i] = "abandoned"]
    BY <1>1, NeverQueuedAgain DEF Supersede
  <1>3. pass.todo = {}
    BY DEF Supersede, NoPass
  <1>4. CASE issue[i] # 0
    <2>1. filed' = [filed EXCEPT ![issue[i]].open = FALSE] /\ UNCHANGED spare
      BY <1>4 DEF Supersede
    <2>2. Labelling(i) /\ filed'[issue[i]].labels = filed[issue[i]].labels
      BY <1>4, <2>1, IssueClosed
    <2>3. state[i] # "queued"
      BY <1>4, OfAnItem
    <2>4. spare' \in [Titles -> Nat]
      BY <2>1 DEF Inv, TypeOK
    <2>5. QED BY <1>1, <1>2, <1>3, <1>4, <2>1, <2>2, <2>3, <2>4 DEF Supersede, Attention
  <1>5. CASE issue[i] = 0
    <2>1. state[i] = "queued"
      BY <1>1, <1>5 DEF Inv, IssuesAreBoundOnce
    <2>2. UNCHANGED filed /\ spare' = [spare EXCEPT ![TitleOf[i]] = @ + 1]
      BY <1>5 DEF Supersede
    <2>3. spare' \in [Titles -> Nat]
      BY <2>2, GhostsCount
    <2>4. QED BY <1>1, <1>2, <1>3, <1>5, <2>1, <2>2, <2>3 DEF Supersede, Attention
  <1>6. QED BY <1>4, <1>5

-----------------------------------------------------------------------------
(* The inductive invariant *)

\* A change to the issue of i, which has left the queue, disturbs no binding.
LEMMA LabellingKeeps ==
  ASSUME Inv, NEW i \in Items, Labelling(i), UNCHANGED <<issue, pass>>,
         NEW s \in States \ {"queued"}, state' = [state EXCEPT ![i] = s]
  PROVE  /\ state' \in [Items -> States] /\ issue' \in [Items -> 0 .. Len(filed')]
         /\ filed' \in Seq(Issues)
         /\ pass' \in [todo : SUBSET Items, known : SUBSET (1 .. Len(filed'))]
         /\ IssuesAreBoundOnce' /\ UnboundIssuesAreUntouched' /\ PassIsQueued'
  <1>1. /\ Len(filed') = Len(filed) /\ filed' \in Seq(Issues) /\ issue[i] # 0
        /\ \A n \in Numbers : n # issue[i] => filed'[n] = filed[n]
        /\ filed'[issue[i]].title = filed[issue[i]].title
    BY DEF Labelling
  <1>2. /\ state \in [Items -> States] /\ issue \in [Items -> 0 .. Len(filed)]
        /\ pass \in [todo : SUBSET Items, known : SUBSET Numbers]
    BY DEF Inv, TypeOK
  <1>3. \A j \in Items : issue[j] # 0 => issue[j] \in Numbers
    BY BoundIsFiled
  <1>4. IssuesAreBoundOnce'
    BY <1>1, <1>2, <1>3 DEF Inv, IssuesAreBoundOnce
  <1>5. UnboundIssuesAreUntouched'
    <2>1. issue[i] \in Bound
      BY DEF Bound
    <2>2. QED BY <1>1, <2>1 DEF Inv, UnboundIssuesAreUntouched, Numbers, Bound
  <1>6. PassIsQueued'
    <2>1. i \notin pass.todo
      BY <1>1 DEF Inv, PassIsQueued, IssuesAreBoundOnce
    <2>2. QED BY <1>2, <2>1 DEF Inv, PassIsQueued
  <1>7. QED BY <1>1, <1>2, <1>4, <1>5, <1>6 DEF Numbers

\* Neither does filing, whether or not i is bound to an unbound issue of its title.
LEMMA FilingKeeps ==
  ASSUME Inv, NEW i \in Items, state[i] = "queued", Filing(i),
         \/ UNCHANGED <<issue, state>>
         \/ \E n \in 1 .. Len(filed') : /\ n \notin Bound /\ filed'[n].title = TitleOf[i]
                                        /\ Binds(i, n)
  PROVE  /\ state' \in [Items -> States] /\ issue' \in [Items -> 0 .. Len(filed')]
         /\ filed' \in Seq(Issues)
         /\ IssuesAreBoundOnce' /\ UnboundIssuesAreUntouched'
         /\ \A j \in Items \ {i} : state'[j] = state[j] /\ issue'[j] = issue[j]
  <1>1. /\ filed' \in Seq(Issues) /\ Len(filed') \in Nat /\ Len(filed) \in Nat
        /\ Len(filed') >= Len(filed)
        /\ \A n \in Numbers : filed'[n] = filed[n]
        /\ \A n \in 1 .. Len(filed') : n \notin Numbers => filed'[n] = NewIssue(i)
    BY DEF Filing, Inv, TypeOK
  <1>2. state \in [Items -> States] /\ issue \in [Items -> 0 .. Len(filed)]
    BY DEF Inv, TypeOK
  <1>3. \A j \in Items : issue[j] # 0 => issue[j] \in Numbers
    BY BoundIsFiled
  <1>4. \A n \in 1 .. Len(filed') : n \notin Bound =>
          filed'[n].open /\ filed'[n].labels = {}
    BY <1>1 DEF Inv, UnboundIssuesAreUntouched, NewIssue
  <1>5. CASE UNCHANGED <<issue, state>>
    <2>1. IssuesAreBoundOnce'
      BY <1>1, <1>3, <1>5 DEF Inv, IssuesAreBoundOnce
    <2>2. UnboundIssuesAreUntouched'
      BY <1>4, <1>5 DEF UnboundIssuesAreUntouched, Numbers, Bound
    <2>3. issue' \in [Items -> 0 .. Len(filed')]
      BY <1>1, <1>2, <1>5
    <2>4. QED BY <1>1, <1>2, <1>5, <2>1, <2>2, <2>3
  <1>6. ASSUME NEW n \in 1 .. Len(filed'), n \notin Bound, filed'[n].title = TitleOf[i],
               Binds(i, n)
        PROVE  /\ state' \in [Items -> States] /\ issue' \in [Items -> 0 .. Len(filed')]
               /\ IssuesAreBoundOnce' /\ UnboundIssuesAreUntouched'
               /\ \A j \in Items \ {i} : state'[j] = state[j] /\ issue'[j] = issue[j]
    <2>1. /\ \A j \in Items : issue'[j] = IF j = i THEN n ELSE issue[j]
          /\ \A j \in Items : state'[j] = IF j = i THEN "issue_open" ELSE state[j]
          /\ \A j \in Items : issue[j] # n
          /\ n # 0 /\ "issue_open" \in States
      BY <1>2, <1>6 DEF Binds, Bound, States
    <2>2. state' \in [Items -> States] /\ issue' \in [Items -> 0 .. Len(filed')]
      <3>1. 0 .. Len(filed) \subseteq 0 .. Len(filed') /\ n \in 0 .. Len(filed')
        BY <1>1, <1>6
      <3>2. QED BY <1>2, <1>6, <2>1, <3>1 DEF Binds
    <2>3. IssuesAreBoundOnce'
      BY <1>1, <1>3, <1>6, <2>1 DEF Inv, IssuesAreBoundOnce
    <2>4. UnboundIssuesAreUntouched'
      <3>1. \A m \in 1 .. Len(filed') : m \notin Bound' => m \notin Bound
        <4>1. \A m \in 1 .. Len(filed') : m # 0
          BY <1>1
        <4>2. QED BY <1>6, <4>1, BindingEffect
      <3>2. QED BY <1>4, <3>1 DEF UnboundIssuesAreUntouched, Numbers
    <2>5. QED BY <2>1, <2>2, <2>3, <2>4
  <1>7. QED BY <1>1, <1>5, <1>6

LEMMA InitInv ==
  ASSUME Init
  PROVE  Inv
  <1>1. /\ filed = <<>> /\ Numbers = {} /\ "queued" \in States
        /\ issue \in [Items -> 0 .. Len(filed)] /\ state \in [Items -> States]
    BY DEF Init, Numbers, States
  <1>2. TypeOK
    BY <1>1, TrackerAssumption DEF Init, TypeOK, NoPass
  <1>3. IssuesAreBoundOnce
    BY DEF Init, IssuesAreBoundOnce
  <1>4. QED BY <1>1, <1>2, <1>3 DEF Inv, UnboundIssuesAreUntouched, PassIsQueued, Init, NoPass

LEMMA StepInv ==
  ASSUME Inv, [Next]_vars
  PROVE  Inv'
  <1>1. CASE UNCHANGED vars
    <2>1. TypeOK' /\ IssuesAreBoundOnce'
      BY <1>1 DEF vars, Inv, TypeOK, IssuesAreBoundOnce, Numbers
    <2>2. UnboundIssuesAreUntouched' /\ PassIsQueued'
      BY <1>1 DEF vars, Inv, UnboundIssuesAreUntouched, PassIsQueued, Numbers, Bound
    <2>3. QED BY <2>1, <2>2 DEF Inv
  <1>2. CASE StartPass
    <2>1. /\ UNCHANGED <<state, issue, resolved, filed, faults, moves, asks, retried, lost,
                         spare, hidden, stray>>
          /\ pass' = [todo |-> {i \in Items : state[i] = "queued"}, known |-> Listing]
          /\ Listing \subseteq Numbers
      BY <1>2 DEF StartPass, Listing
    <2>2. TypeOK' /\ PassIsQueued'
      BY <2>1 DEF Inv, TypeOK, PassIsQueued, Numbers
    <2>3. IssuesAreBoundOnce' /\ UnboundIssuesAreUntouched'
      BY <2>1 DEF Inv, IssuesAreBoundOnce, UnboundIssuesAreUntouched, Numbers, Bound
    <2>4. QED BY <2>2, <2>3 DEF Inv
  <1>3. ASSUME NEW i \in Items, NEW known, Opens(i, known),
               UNCHANGED <<resolved, moves, asks, retried, lost, stray>>,
               pass'.todo \subseteq pass.todo \ {i},
               pass' \in [todo : SUBSET Items, known : SUBSET Numbers]
        PROVE  Inv'
    <2>1. /\ Filing(i)
          /\ faults' \in 0 .. MaxFaults
          /\ spare' \in [Titles -> Nat] /\ hidden' \in [Titles -> Nat]
          /\ \/ UNCHANGED <<issue, state>>
             \/ \E n \in 1 .. Len(filed') : /\ n \notin Bound /\ filed'[n].title = TitleOf[i]
                                            /\ Binds(i, n)
      BY <1>3, OpeningEffect
    <2>2. state[i] = "queued"
      BY <1>3 DEF Opens
    <2>3. /\ state' \in [Items -> States] /\ issue' \in [Items -> 0 .. Len(filed')]
          /\ filed' \in Seq(Issues)
          /\ IssuesAreBoundOnce' /\ UnboundIssuesAreUntouched'
          /\ \A j \in Items \ {i} : state'[j] = state[j] /\ issue'[j] = issue[j]
      BY <2>1, <2>2, FilingKeeps
    <2>4. Numbers \subseteq Numbers'
      BY <2>1 DEF Filing, Numbers, Inv, TypeOK
    <2>5. pass' \in [todo : SUBSET Items, known : SUBSET Numbers']
      BY <1>3, <2>4
    <2>6. TypeOK'
      BY <1>3, <2>1, <2>3, <2>5 DEF Inv, TypeOK
    <2>7. PassIsQueued'
      BY <1>3, <2>3, <2>5 DEF Inv, PassIsQueued
    <2>8. QED BY <2>3, <2>6, <2>7 DEF Inv
  <1>4. CASE CrashInPass
    <2>1. /\ UNCHANGED <<state, issue, resolved, moves, asks, retried, lost, spare, stray>>
          /\ pass' = NoPass /\ faults' \in 0 .. MaxFaults /\ hidden' \in [Titles -> Nat]
          /\ \/ UNCHANGED <<filed, hidden>>
             \/ \E i \in Items : state[i] = "queued" /\ Filing(i)
      BY <1>4, CrashEffect
    <2>2. /\ state' \in [Items -> States] /\ issue' \in [Items -> 0 .. Len(filed')]
          /\ filed' \in Seq(Issues)
          /\ IssuesAreBoundOnce' /\ UnboundIssuesAreUntouched'
      <3>1. CASE UNCHANGED <<filed, hidden>>
        <4>1. IssuesAreBoundOnce' /\ UnboundIssuesAreUntouched'
          BY <2>1, <3>1 DEF Inv, IssuesAreBoundOnce, UnboundIssuesAreUntouched, Numbers, Bound
        <4>2. QED BY <2>1, <3>1, <4>1 DEF Inv, TypeOK
      <3>2. ASSUME NEW i \in Items, state[i] = "queued", Filing(i)
            PROVE  /\ state' \in [Items -> States] /\ issue' \in [Items -> 0 .. Len(filed')]
                   /\ filed' \in Seq(Issues)
                   /\ IssuesAreBoundOnce' /\ UnboundIssuesAreUntouched'
        BY <2>1, <3>2, FilingKeeps
      <3>3. QED BY <2>1, <3>1, <3>2
    <2>3. PassIsQueued'
      BY <2>1 DEF PassIsQueued, NoPass
    <2>4. pass' \in [todo : SUBSET Items, known : SUBSET Numbers']
      BY <2>1 DEF NoPass
    <2>5. TypeOK'
      BY <2>1, <2>2, <2>4 DEF Inv, TypeOK
    <2>6. QED BY <2>2, <2>3, <2>5 DEF Inv
  <1>5. ASSUME NEW i \in Items, Supersede(i)
        PROVE  Inv'
    <2>1. /\ UNCHANGED <<issue, resolved, pass, faults, moves, asks, retried, lost, hidden,
                         stray>>
          /\ pass.todo = {}
          /\ state' = [state EXCEPT ![i] = "abandoned"]
          /\ spare' \in [Titles -> Nat]
          /\ \/ issue[i] # 0 /\ Labelling(i)
             \/ issue[i] = 0 /\ UNCHANGED filed
      BY <1>5, SupersedeEffect
    <2>2. "abandoned" \in States \ {"queued"}
      BY DEF States
    <2>3. /\ state' \in [Items -> States] /\ issue' \in [Items -> 0 .. Len(filed')]
          /\ filed' \in Seq(Issues)
          /\ pass' \in [todo : SUBSET Items, known : SUBSET (1 .. Len(filed'))]
          /\ IssuesAreBoundOnce' /\ UnboundIssuesAreUntouched' /\ PassIsQueued'
      <3>1. CASE issue[i] # 0 /\ Labelling(i)
        BY <2>1, <2>2, <3>1, LabellingKeeps
      <3>2. CASE issue[i] = 0 /\ UNCHANGED filed
        <4>1. /\ state \in [Items -> States] /\ issue \in [Items -> 0 .. Len(filed)]
              /\ filed \in Seq(Issues)
              /\ pass \in [todo : SUBSET Items, known : SUBSET Numbers]
          BY DEF Inv, TypeOK
        <4>2. IssuesAreBoundOnce'
          BY <2>1, <2>2, <3>2, <4>1 DEF Inv, IssuesAreBoundOnce
        <4>3. UnboundIssuesAreUntouched' /\ PassIsQueued'
          BY <2>1, <3>2 DEF Inv, UnboundIssuesAreUntouched, PassIsQueued, Numbers, Bound
        <4>4. QED BY <2>1, <2>2, <3>2, <4>1, <4>2, <4>3 DEF Numbers
      <3>3. QED BY <2>1, <3>1, <3>2
    <2>4. TypeOK'
      BY <2>1, <2>3 DEF Inv, TypeOK, Numbers
    <2>5. QED BY <2>3, <2>4 DEF Inv
  <1>6. ASSUME NEW i \in Items, LabelSteps(i)
        PROVE  Inv'
    <2>1. OnItsIssue(i)
      BY <1>6, LabelStepsEffect
    <2>2. PICK s \in States \ {"queued"} : state' = [state EXCEPT ![i] = s]
      BY <2>1 DEF OnItsIssue
    <2>3. /\ state' \in [Items -> States] /\ issue' \in [Items -> 0 .. Len(filed')]
          /\ filed' \in Seq(Issues)
          /\ pass' \in [todo : SUBSET Items, known : SUBSET (1 .. Len(filed'))]
          /\ IssuesAreBoundOnce' /\ UnboundIssuesAreUntouched' /\ PassIsQueued'
      BY <2>1, <2>2, LabellingKeeps DEF OnItsIssue
    <2>4. TypeOK'
      BY <2>1, <2>3 DEF Inv, TypeOK, OnItsIssue, Numbers
    <2>5. QED BY <2>3, <2>4 DEF Inv
  <1>7. QED BY <1>1, <1>2, <1>3, <1>4, <1>5, <1>6, Steps

\* Filing, a crash and a supersession leave the labels of bound issues as they are.
LEMMA OpeningKeepsLabels ==
  ASSUME Inv, NEW i \in Items, NEW known, Opens(i, known), UNCHANGED stray
  PROVE  \A j \in Items :
           \/ /\ issue'[j] = issue[j] /\ state'[j] = state[j]
              /\ issue[j] # 0 => filed'[issue[j]] = filed[issue[j]]
           \/ /\ issue[j] = 0 /\ issue'[j] # 0 /\ filed'[issue'[j]].labels = {}
              /\ state'[j] = "issue_open"
  <1>1. /\ Filing(i)
        /\ \/ UNCHANGED <<issue, state>>
           \/ \E n \in 1 .. Len(filed') : n \notin Bound /\ Binds(i, n)
    BY OpeningEffect
  <1>2. \A j \in Items : issue[j] # 0 => filed'[issue[j]] = filed[issue[j]]
    BY <1>1, BoundIsFiled DEF Filing
  <1>3. ASSUME NEW n \in 1 .. Len(filed'), n \notin Bound, Binds(i, n)
        PROVE  /\ issue[i] = 0 /\ issue'[i] = n /\ n # 0 /\ state'[i] = "issue_open"
               /\ filed'[n].labels = {}
               /\ \A j \in Items \ {i} : issue'[j] = issue[j] /\ state'[j] = state[j]
    <2>1. issue[i] = 0
      BY DEF Opens, Inv, IssuesAreBoundOnce
    <2>2. filed'[n].labels = {}
      BY <1>1, <1>3 DEF Filing, NewIssue, Inv, UnboundIssuesAreUntouched
    <2>3. QED BY <1>3, <2>1, <2>2 DEF Binds, Inv, TypeOK
  <1>4. QED BY <1>1, <1>2, <1>3

LEMMA SupersedeKeepsLabels ==
  ASSUME Inv, NEW i \in Items, Supersede(i)
  PROVE  /\ UNCHANGED <<issue, asks, retried, lost, stray>>
         /\ \A j \in Items :
              /\ state'[j] \in Attention <=> state[j] \in Attention
              /\ issue[j] # 0 => filed'[issue[j]].labels = filed[issue[j]].labels
  <1>1. /\ UNCHANGED <<issue, asks, retried, lost, stray>>
        /\ state[i] \notin Attention /\ state' = [state EXCEPT ![i] = "abandoned"]
        /\ \/ /\ issue[i] # 0 /\ Labelling(i)
              /\ filed'[issue[i]].labels = filed[issue[i]].labels
           \/ UNCHANGED filed
    BY SupersedeEffect
  <1>2. \A j \in Items : state'[j] \in Attention <=> state[j] \in Attention
    BY <1>1 DEF Inv, TypeOK, Attention
  <1>3. \A j \in Items : issue[j] # 0 => filed'[issue[j]].labels = filed[issue[j]].labels
    BY <1>1, BoundIsFiled DEF Labelling
  <1>4. QED BY <1>1, <1>2, <1>3

\* What a label step does to the other items.
LEMMA OthersLabels ==
  ASSUME Inv, NEW i \in Items, OnItsIssue(i), NEW j \in Items \ {i}
  PROVE  /\ issue'[j] = issue[j] /\ state'[j] = state[j]
         /\ issue[j] # 0 => filed'[issue[j]] = filed[issue[j]]
         /\ j \in stray' <=> j \in stray
         /\ asks'[j] = asks[j] /\ retried'[j] = retried[j] /\ lost'[j] = lost[j]
  <1>1. issue[j] # 0 => issue[j] \in Numbers
    BY BoundIsFiled
  <1>2. issue[j] # 0 => issue[i] # issue[j]
    BY DEF Inv, IssuesAreBoundOnce
  <1>3. state'[j] = state[j]
    BY DEF OnItsIssue, Inv, TypeOK
  <1>4. QED BY <1>1, <1>2, <1>3 DEF OnItsIssue, Labelling

LEMMA StepTellsState ==
  ASSUME Inv, LabelTellsState, [Next]_vars
  PROVE  LabelTellsState'
  <1>1. CASE UNCHANGED <<state, issue, filed, stray>>
    BY <1>1 DEF LabelTellsState
  <1>2. CASE StartPass
    BY <1>2, <1>1 DEF StartPass
  <1>3. ASSUME NEW i \in Items, NEW known, Opens(i, known), UNCHANGED stray
        PROVE  LabelTellsState'
    <2>1. \A j \in Items :
            \/ /\ issue'[j] = issue[j] /\ state'[j] = state[j]
               /\ issue[j] # 0 => filed'[issue[j]] = filed[issue[j]]
            \/ /\ issue[j] = 0 /\ issue'[j] # 0 /\ filed'[issue'[j]].labels = {}
               /\ state'[j] = "issue_open"
      BY <1>3, OpeningKeepsLabels
    <2>2. QED BY <1>3, <2>1 DEF LabelTellsState, Attention
  <1>4. CASE CrashInPass
    <2>1. /\ UNCHANGED <<state, issue, stray>>
          /\ UNCHANGED filed \/ \E i \in Items : Filing(i)
      BY <1>4, CrashEffect
    <2>2. \A j \in Items : issue[j] # 0 => filed'[issue[j]] = filed[issue[j]]
      BY <2>1, BoundIsFiled DEF Filing
    <2>3. QED BY <2>1, <2>2 DEF LabelTellsState
  <1>5. ASSUME NEW i \in Items, Supersede(i)
        PROVE  LabelTellsState'
    BY <1>5, SupersedeKeepsLabels DEF LabelTellsState
  <1>6. ASSUME NEW i \in Items, LabelSteps(i)
        PROVE  LabelTellsState'
    <2>1. OnItsIssue(i)
      BY <1>6, LabelStepsEffect
    <2>2. issue[i] # 0 /\ issue' = issue /\ (Tells(i) => Tells(i)')
      BY <2>1 DEF OnItsIssue, Labelling
    <2>3. ASSUME NEW j \in Items, issue'[j] # 0, j \notin stray'
          PROVE  "needs-human" \in filed'[issue'[j]].labels <=> state'[j] \in Attention
      <3>1. CASE j = i
        BY <2>2, <2>3, <3>1 DEF Tells, LabelTellsState
      <3>2. CASE j # i
        BY <2>1, <2>3, <3>2, OthersLabels DEF LabelTellsState
      <3>3. QED BY <3>1, <3>2
    <2>4. QED BY <2>3 DEF LabelTellsState
  <1>7. QED BY <1>1, <1>2, <1>3, <1>4, <1>5, <1>6, Steps DEF vars

LEMMA StepCountsOnce ==
  ASSUME Inv, EachLabelCountsOnce, [Next]_vars
  PROVE  EachLabelCountsOnce'
  <1> DEFINE Same(j) == asks'[j] = asks[j] /\ retried'[j] = retried[j] /\ lost'[j] = lost[j]
             On(j) == issue[j] # 0 /\ "retry" \in filed[issue[j]].labels
             OnNext(j) == issue'[j] # 0 /\ "retry" \in filed'[issue'[j]].labels
  <1>1. \A j \in Items : Same(j) /\ (OnNext(j) <=> On(j)) => Counts(j)'
    BY DEF EachLabelCountsOnce, Counts
  <1>2. (\A j \in Items : Counts(j)') => EachLabelCountsOnce'
    BY DEF EachLabelCountsOnce, Counts
  <1>3. CASE UNCHANGED <<issue, filed, asks, retried, lost>>
    BY <1>1, <1>2, <1>3
  <1>4. CASE StartPass
    BY <1>3, <1>4 DEF StartPass
  <1>5. ASSUME NEW i \in Items, NEW known, Opens(i, known),
               UNCHANGED <<asks, retried, lost, stray>>
        PROVE  EachLabelCountsOnce'
    <2>1. \A j \in Items : OnNext(j) <=> On(j)
      BY <1>5, OpeningKeepsLabels
    <2>2. QED BY <1>1, <1>2, <1>5, <2>1
  <1>6. CASE CrashInPass
    <2>1. /\ UNCHANGED <<issue, asks, retried, lost>>
          /\ UNCHANGED filed \/ \E i \in Items : Filing(i)
      BY <1>6, CrashEffect
    <2>2. \A j \in Items : issue[j] # 0 => filed'[issue[j]] = filed[issue[j]]
      BY <2>1, BoundIsFiled DEF Filing
    <2>3. QED BY <1>1, <1>2, <2>1, <2>2
  <1>7. ASSUME NEW i \in Items, Supersede(i)
        PROVE  EachLabelCountsOnce'
    BY <1>1, <1>2, <1>7, SupersedeKeepsLabels
  <1>8. ASSUME NEW i \in Items, LabelSteps(i)
        PROVE  EachLabelCountsOnce'
    <2>1. OnItsIssue(i)
      BY <1>8, LabelStepsEffect
    <2>2. Counts(i)'
      BY <2>1 DEF OnItsIssue, EachLabelCountsOnce, Counts
    <2>3. \A j \in Items \ {i} : Counts(j)'
      BY <1>1, <2>1, OthersLabels
    <2>4. QED BY <1>2, <2>2, <2>3
  <1>9. QED BY <1>3, <1>4, <1>5, <1>6, <1>7, <1>8, Steps DEF vars

-----------------------------------------------------------------------------
(* Orphans and the items that will adopt them *)

Waiting(t) == {i \in Items : state[i] = "queued" /\ TitleOf[i] = t}

Covered(t) == Cardinality(Orphans(t)) <= spare[t] + hidden[t] + Cardinality(Waiting(t))

\* Nobody closes an unbound issue, so that all of a title are orphans, and there
\* are finitely many.
LEMMA OrphansAreUnbound ==
  ASSUME Inv, NEW t \in Titles
  PROVE  /\ Orphans(t) = {n \in Numbers \ Bound : filed[n].title = t}
         /\ IsFiniteSet(Orphans(t)) /\ Cardinality(Orphans(t)) \in Nat
         /\ IsFiniteSet(Waiting(t)) /\ Cardinality(Waiting(t)) \in Nat
         /\ spare[t] \in Nat /\ hidden[t] \in Nat
  <1>1. Orphans(t) = {n \in Numbers \ Bound : filed[n].title = t}
    BY DEF Orphans, Inv, UnboundIssuesAreUntouched
  <1>2. Len(filed) \in Nat
    BY DEF Inv, TypeOK
  <1>3. IsFiniteSet(1 .. Len(filed))
    BY <1>2, FS_Interval
  <1>4. Orphans(t) \subseteq 1 .. Len(filed) /\ Waiting(t) \subseteq Items
    BY DEF Orphans, Waiting, Numbers
  <1>5. IsFiniteSet(Orphans(t)) /\ IsFiniteSet(Waiting(t))
    BY <1>3, <1>4, FS_Subset, TrackerAssumption
  <1>6. spare[t] \in Nat /\ hidden[t] \in Nat
    BY DEF Inv, TypeOK
  <1>7. QED BY <1>1, <1>5, <1>6, FS_CardinalityType

\* The ways in which the orphans of a title, the items that wait and the ghosts
\* change together.
LEMMA StaysCovered ==
  ASSUME Inv, Inv', NEW t \in Titles, Covered(t),
         \/ /\ Orphans(t)' = Orphans(t) /\ Waiting(t)' = Waiting(t)
            /\ spare'[t] = spare[t] /\ hidden'[t] = hidden[t]
         \/ /\ \E n \in Orphans(t) : Orphans(t)' = Orphans(t) \ {n}
            /\ \E i \in Waiting(t) : Waiting(t)' = Waiting(t) \ {i}
            /\ spare'[t] = spare[t] /\ hidden'[t] = hidden[t]
         \/ /\ Orphans(t)' = Orphans(t)
            /\ \E i \in Waiting(t) : Waiting(t)' = Waiting(t) \ {i}
            /\ \/ spare'[t] + hidden'[t] = spare[t] + hidden[t] + 1
               \/ Orphans(t) = {}
         \/ /\ \E n : Orphans(t)' = Orphans(t) \cup {n}
            /\ \E i \in Waiting(t) : Waiting(t)' = Waiting(t) \ {i}
            /\ spare'[t] = spare[t] + 1
            /\ hidden'[t] = hidden[t] + 1 \/ Orphans(t) = {}
         \/ /\ \E n : Orphans(t)' = Orphans(t) \cup {n}
            /\ Waiting(t)' = Waiting(t)
            /\ spare'[t] = spare[t]
            /\ \/ hidden'[t] = hidden[t] + 1
               \/ Orphans(t) = {} /\ Waiting(t) # {}
  PROVE  Covered(t)'
  <1> DEFINE o == Cardinality(Orphans(t))
             w == Cardinality(Waiting(t))
             oo == Cardinality(Orphans(t)')
             ww == Cardinality(Waiting(t)')
  <1>1. /\ IsFiniteSet(Orphans(t)) /\ o \in Nat /\ IsFiniteSet(Waiting(t)) /\ w \in Nat
        /\ spare[t] \in Nat /\ hidden[t] \in Nat
    BY OrphansAreUnbound
  <1>2. spare'[t] \in Nat /\ hidden'[t] \in Nat
    BY DEF Inv, TypeOK
  <1>3. o <= spare[t] + hidden[t] + w
    BY DEF Covered
  <1>4. ASSUME NEW n, Orphans(t)' = Orphans(t) \cup {n}
        PROVE  oo \in Nat /\ oo <= o + 1
    <2>1. oo = IF n \in Orphans(t) THEN o ELSE o + 1
      BY <1>1, <1>4, FS_AddElement
    <2>2. QED BY <1>1, <2>1
  <1>5. ASSUME NEW n \in Orphans(t), Orphans(t)' = Orphans(t) \ {n}
        PROVE  oo = o - 1
    BY <1>1, <1>5, FS_RemoveElement
  <1>6. ASSUME NEW i \in Waiting(t), Waiting(t)' = Waiting(t) \ {i}
        PROVE  ww \in Nat /\ ww = w - 1
    BY <1>1, <1>6, FS_RemoveElement, FS_CardinalityType
  <1>7. (Orphans(t) = {} => o = 0) /\ (Waiting(t) # {} => w # 0)
    BY <1>1, FS_EmptySet
  <1>8. oo <= spare'[t] + hidden'[t] + ww
    <2>1. CASE /\ Orphans(t)' = Orphans(t) /\ Waiting(t)' = Waiting(t)
               /\ spare'[t] = spare[t] /\ hidden'[t] = hidden[t]
      BY <1>3, <2>1
    <2>2. CASE /\ \E n \in Orphans(t) : Orphans(t)' = Orphans(t) \ {n}
               /\ \E i \in Waiting(t) : Waiting(t)' = Waiting(t) \ {i}
               /\ spare'[t] = spare[t] /\ hidden'[t] = hidden[t]
      <3>1. oo = o - 1 /\ ww \in Nat /\ ww = w - 1
        BY <1>5, <1>6, <2>2
      <3> HIDE DEF o, w, oo, ww
      <3>2. QED BY <1>1, <1>2, <1>3, <2>2, <3>1
    <2>3. CASE /\ Orphans(t)' = Orphans(t)
               /\ \E i \in Waiting(t) : Waiting(t)' = Waiting(t) \ {i}
               /\ \/ spare'[t] + hidden'[t] = spare[t] + hidden[t] + 1
                  \/ Orphans(t) = {}
      <3>1. /\ oo = o /\ ww \in Nat /\ ww = w - 1
            /\ spare'[t] + hidden'[t] = spare[t] + hidden[t] + 1 \/ o = 0
        BY <1>6, <1>7, <2>3
      <3> HIDE DEF o, w, oo, ww
      <3>2. QED BY <1>1, <1>2, <1>3, <3>1
    <2>4. CASE /\ \E n : Orphans(t)' = Orphans(t) \cup {n}
               /\ \E i \in Waiting(t) : Waiting(t)' = Waiting(t) \ {i}
               /\ spare'[t] = spare[t] + 1
               /\ hidden'[t] = hidden[t] + 1 \/ Orphans(t) = {}
      <3>1. /\ oo \in Nat /\ oo <= o + 1 /\ ww \in Nat /\ ww = w - 1
            /\ hidden'[t] = hidden[t] + 1 \/ o = 0
        BY <1>4, <1>6, <1>7, <2>4
      <3> HIDE DEF o, w, oo, ww
      <3>2. QED BY <1>1, <1>2, <1>3, <2>4, <3>1
    <2>5. CASE /\ \E n : Orphans(t)' = Orphans(t) \cup {n}
               /\ Waiting(t)' = Waiting(t)
               /\ spare'[t] = spare[t]
               /\ \/ hidden'[t] = hidden[t] + 1
                  \/ Orphans(t) = {} /\ Waiting(t) # {}
      <3>1. /\ oo \in Nat /\ oo <= o + 1 /\ ww = w
            /\ \/ hidden'[t] = hidden[t] + 1
               \/ o = 0 /\ w # 0
        BY <1>4, <1>7, <2>5
      <3> HIDE DEF o, w, oo, ww
      <3>2. QED BY <1>1, <1>2, <1>3, <2>5, <3>1
    <2>6. QED BY <2>1, <2>2, <2>3, <2>4, <2>5
  <1>9. QED BY <1>8 DEF Covered

\* The issues that filing added.
Filed == {n \in 1 .. Len(filed') : n \notin Numbers}

\* What filing for i, and binding i, makes of the orphans of a title.
LEMMA OrphansAfterFiling ==
  ASSUME Inv, Inv', NEW i \in Items, state[i] = "queued", Filing(i), NEW t \in Titles
  PROVE  /\ UNCHANGED issue =>
              Orphans(t)' = Orphans(t) \cup {n \in Filed : t = TitleOf[i]}
         /\ \A m : Binds(i, m) /\ m # 0 =>
              Orphans(t)' = (Orphans(t) \cup {n \in Filed : t = TitleOf[i]}) \ {m}
  <1>1. Orphans(t) = {n \in Numbers \ Bound : filed[n].title = t}
    BY OrphansAreUnbound
  <1>2. Orphans(t)' = {n \in (1 .. Len(filed')) \ Bound' : filed'[n].title = t}
    BY DEF Inv, UnboundIssuesAreUntouched, Orphans, Numbers
  <1>3. /\ \A n \in Numbers : n \in 1 .. Len(filed') /\ filed'[n] = filed[n]
        /\ \A n \in Filed : /\ filed'[n].title = TitleOf[i] /\ n \notin Bound
                            /\ n \in 1 .. Len(filed')
        /\ \A n \in 1 .. Len(filed') : n # 0 /\ (n \in Numbers \/ n \in Filed)
    <2>1. Len(filed) \in Nat /\ Len(filed') \in Nat
      BY SMTT(30) DEF Inv, TypeOK
    <2>2. ASSUME NEW n \in Filed
          PROVE  n \in Nat /\ n > Len(filed) /\ filed'[n] = NewIssue(i)
      BY <2>1, <2>2 DEF Filed, Filing, Numbers
    <2>3. \A n \in Filed : n \notin Bound
      BY <2>2, NewIsUnbound
    <2>4. QED BY <2>1, <2>2, <2>3 DEF Filed, Filing, Numbers, NewIssue
  <1>4. Numbers \cap Filed = {}
    BY DEF Filed
  <1> HIDE DEF Filed
  <1>5. ASSUME UNCHANGED issue
        PROVE  Orphans(t)' = Orphans(t) \cup {n \in Filed : t = TitleOf[i]}
    <2>1. Bound' = Bound
      BY <1>5 DEF Bound
    <2>2. QED BY <1>1, <1>2, <1>3, <1>4, <2>1
  <1>6. ASSUME NEW m, Binds(i, m), m # 0
        PROVE  Orphans(t)' = (Orphans(t) \cup {n \in Filed : t = TitleOf[i]}) \ {m}
    <2>1. \A n \in 1 .. Len(filed') : n \in Bound' <=> n \in Bound \/ n = m
      BY <1>3, <1>6, BindingEffect
    <2>2. QED BY <1>1, <1>2, <1>3, <1>4, <2>1
  <1>7. QED BY <1>5, <1>6

\* An item that is bound, or abandoned, waits no more.
LEMMA WaitingAfter ==
  ASSUME Inv, NEW i \in Items, NEW s, state' = [state EXCEPT ![i] = s], s # "queued",
         NEW t \in Titles
  PROVE  Waiting(t)' = Waiting(t) \ {i}
  <1>1. \A j \in Items : state'[j] = IF j = i THEN s ELSE state[j]
    BY DEF Inv, TypeOK
  <1>2. QED BY <1>1 DEF Waiting

\* An issue of i's title is filed under the listing `known`, which was the last
\* one to be looked at: any orphan there is was hidden.
LEMMA LeaveHiddenCounts ==
  ASSUME Inv, NEW i \in Items, NEW known, Found(i, known) = {}, LeaveHidden(i, known)
  PROVE  /\ \/ hidden'[TitleOf[i]] = hidden[TitleOf[i]] + 1
            \/ hidden' = hidden /\ Orphans(TitleOf[i]) = {}
         /\ \A t \in Titles : t # TitleOf[i] => hidden'[t] = hidden[t]
  <1>1. hidden \in [Titles -> Nat] /\ TitleOf[i] \in Titles
    BY DEF Inv, TypeOK, Titles
  <1>2. CASE Orphans(TitleOf[i]) \ known = {}
    <2>1. Orphans(TitleOf[i]) \subseteq Found(i, known)
      BY <1>2 DEF Orphans, Found
    <2>2. QED BY <1>2, <2>1 DEF LeaveHidden
  <1>3. CASE Orphans(TitleOf[i]) \ known # {}
    BY <1>1, <1>3 DEF LeaveHidden
  <1>4. QED BY <1>2, <1>3

\* Filing one issue that stays unbound, after a failed call or in a crash.
LEMMA LeftUnbound ==
  ASSUME Inv, Inv', NEW i \in Items, state[i] = "queued", NEW known,
         Found(i, known) = {}, Filing(i), Len(filed') = Len(filed) + 1,
         LeaveHidden(i, known), UNCHANGED <<state, issue, spare>>,
         NEW t \in Titles, Covered(t)
  PROVE  Covered(t)'
  <1>1. Filed = {Len(filed) + 1}
    <2>1. Len(filed) \in Nat
      BY DEF Inv, TypeOK
    <2>2. QED BY <2>1 DEF Filed, Numbers
  <1>2. Orphans(t)' = Orphans(t) \cup {n \in Filed : t = TitleOf[i]}
    BY OrphansAfterFiling
  <1>3. Waiting(t)' = Waiting(t)
    BY DEF Waiting
  <1>4. /\ \/ hidden'[TitleOf[i]] = hidden[TitleOf[i]] + 1
           \/ Orphans(TitleOf[i]) = {}
        /\ t # TitleOf[i] => hidden'[t] = hidden[t]
    BY LeaveHiddenCounts
  <1>5. CASE t = TitleOf[i]
    <2>1. Orphans(t)' = Orphans(t) \cup {Len(filed) + 1}
      BY <1>1, <1>2, <1>5
    <2>2. Waiting(t) # {}
      BY <1>5 DEF Waiting
    <2>3. QED BY <1>3, <1>4, <1>5, <2>1, <2>2, StaysCovered
  <1>6. CASE t # TitleOf[i]
    <2>1. Orphans(t)' = Orphans(t)
      BY <1>2, <1>6
    <2>2. QED BY <1>3, <1>4, <1>6, <2>1, StaysCovered
  <1>7. QED BY <1>5, <1>6

\* Filing nothing and binding an issue of the listing, or filing issues and
\* binding the last of them.
LEMMA OpeningCovered ==
  ASSUME Inv, Inv', NEW i \in Items, NEW known, Opens(i, known),
         NEW t \in Titles, Covered(t)
  PROVE  Covered(t)'
  <1>1. /\ state[i] = "queued" /\ known \subseteq Numbers
        /\ TitleOf[i] \in Titles /\ Len(filed) \in Nat
        /\ spare \in [Titles -> Nat] /\ hidden \in [Titles -> Nat]
    <2>1. /\ Len(filed) \in Nat
          /\ spare \in [Titles -> Nat] /\ hidden \in [Titles -> Nat]
      BY SMTT(30) DEF Inv, TypeOK
    <2>2. QED BY <2>1 DEF Opens, Titles
  <1>2. t = TitleOf[i] => i \in Waiting(t)
    BY <1>1 DEF Waiting
  <1>3. t # TitleOf[i] => Waiting(t) \ {i} = Waiting(t)
    BY DEF Waiting
  <1>4. ASSUME NEW n, BindTo(i, n)
        PROVE  Binds(i, n) /\ Waiting(t)' = Waiting(t) \ {i}
    <2>1. Binds(i, n)
      BY <1>1, <1>4, BindToBinds
    <2>2. QED BY <2>1, WaitingAfter DEF Binds
  <1>5. CASE AdoptIssue(i, known)
    <2>1. PICK n \in Found(i, known) : BindTo(i, n)
      BY <1>5 DEF AdoptIssue
    <2>2. UNCHANGED <<filed, spare, hidden>>
      BY <1>5 DEF AdoptIssue
    <2>3. n \in Numbers \ Bound /\ filed[n].title = TitleOf[i] /\ n # 0
      BY <1>1, <2>1 DEF Found, Numbers
    <2>4. Filing(i) /\ Filed = {}
      <3>1. filed \in Seq(Issues)
        BY DEF Inv, TypeOK
      <3>2. QED BY <1>1, <2>2, <3>1 DEF Filing, Filed, Numbers
    <2>5. Orphans(t)' = Orphans(t) \ {n} /\ Waiting(t)' = Waiting(t) \ {i}
      BY <1>1, <1>4, <2>1, <2>3, <2>4, OrphansAfterFiling
    <2>6. n \in Orphans(t) <=> t = TitleOf[i]
      BY <2>3, OrphansAreUnbound
    <2>7. CASE t = TitleOf[i]
      BY <1>2, <2>2, <2>5, <2>6, <2>7, StaysCovered
    <2>8. CASE t # TitleOf[i]
      <3>1. Orphans(t)' = Orphans(t) /\ Waiting(t)' = Waiting(t)
        BY <1>3, <2>5, <2>6, <2>8
      <3>2. QED BY <2>2, <3>1, StaysCovered
    <2>9. QED BY <2>7, <2>8
  <1>6. ASSUME filed' = Append(filed, NewIssue(i)), BindTo(i, Len(filed) + 1)
        PROVE  Orphans(t)' = Orphans(t) /\ Waiting(t)' = Waiting(t) \ {i}
    <2>1. Filing(i) /\ Len(filed') = Len(filed) + 1
      BY <1>6, OneMoreIssue
    <2>2. Filed = {Len(filed) + 1}
      BY <1>1, <2>1 DEF Filed, Numbers
    <2>3. Binds(i, Len(filed) + 1) /\ Len(filed) + 1 # 0
      BY <1>1, <1>4, <1>6
    <2>4. Orphans(t)' = (Orphans(t) \cup {n \in Filed : t = TitleOf[i]}) \ {Len(filed) + 1}
      BY <1>1, <2>1, <2>3, OrphansAfterFiling
    <2>5. Len(filed) + 1 \notin Orphans(t)
      BY <1>1 DEF Orphans, Numbers
    <2>6. QED BY <1>4, <1>6, <2>2, <2>4, <2>5
  <1>7. CASE CreateIssue(i, known)
    <2>1. Found(i, known) = {}
      BY <1>7 DEF CreateIssue
    <2>2. CASE /\ filed' = Append(filed, NewIssue(i)) /\ BindTo(i, Len(filed) + 1)
               /\ LeaveHidden(i, known) /\ UNCHANGED spare
      <3>1. Orphans(t)' = Orphans(t) /\ Waiting(t)' = Waiting(t) \ {i}
        BY <1>6, <2>2
      <3>2. /\ \/ hidden'[TitleOf[i]] = hidden[TitleOf[i]] + 1
               \/ Orphans(TitleOf[i]) = {}
            /\ t # TitleOf[i] => hidden'[t] = hidden[t]
        BY <2>1, <2>2, LeaveHiddenCounts
      <3>3. CASE t = TitleOf[i]
        <4>1. \/ spare'[t] + hidden'[t] = spare[t] + hidden[t] + 1
              \/ Orphans(t) = {}
          BY <1>1, <2>2, <3>2, <3>3
        <4>2. QED BY <1>2, <3>1, <3>3, <4>1, StaysCovered
      <3>4. CASE t # TitleOf[i]
        BY <1>3, <2>2, <3>1, <3>2, <3>4, StaysCovered
      <3>5. QED BY <3>3, <3>4
    <2>3. CASE /\ filed' = filed \o <<NewIssue(i), NewIssue(i)>> /\ BindTo(i, Len(filed) + 2)
               /\ spare' = [spare EXCEPT ![TitleOf[i]] = @ + 1] /\ LeaveHidden(i, known)
      <3> DEFINE a == Len(filed) + 1
                 b == Len(filed) + 2
      <3>1. Filing(i) /\ Len(filed') = Len(filed) + 2
        BY <2>3, TwoMoreIssues
      <3>2. Filed = {a, b} /\ a # b /\ b # 0
        BY <1>1, <3>1 DEF Filed, Numbers
      <3>3. Binds(i, b) /\ Waiting(t)' = Waiting(t) \ {i}
        BY <1>4, <2>3
      <3>4. b \notin Orphans(t)
        BY <1>1 DEF Orphans, Numbers
      <3> HIDE DEF a, b
      <3>5. Orphans(t)' = (Orphans(t) \cup {n \in Filed : t = TitleOf[i]}) \ {b}
        BY <1>1, <3>1, <3>2, <3>3, OrphansAfterFiling
      <3>6. /\ \/ hidden'[TitleOf[i]] = hidden[TitleOf[i]] + 1
               \/ Orphans(TitleOf[i]) = {}
            /\ t # TitleOf[i] => hidden'[t] = hidden[t]
        BY <2>1, <2>3, LeaveHiddenCounts
      <3>7. CASE t = TitleOf[i]
        <4>1. Orphans(t)' = Orphans(t) \cup {a}
          BY <3>2, <3>4, <3>5, <3>7
        <4>2. spare'[t] = spare[t] + 1
          BY <1>1, <2>3, <3>7
        <4>3. QED BY <1>2, <3>3, <3>6, <3>7, <4>1, <4>2, StaysCovered
      <3>8. CASE t # TitleOf[i]
        <4>1. Orphans(t)' = Orphans(t) /\ Waiting(t)' = Waiting(t)
          BY <1>3, <3>3, <3>4, <3>5, <3>8
        <4>2. spare'[t] = spare[t]
          BY <1>1, <2>3, <3>8
        <4>3. QED BY <3>6, <3>8, <4>1, <4>2, StaysCovered
      <3>9. QED BY <3>7, <3>8
    <2>4. QED BY <1>7, <2>2, <2>3 DEF CreateIssue
  <1>8. CASE CreateFails(i, known)
    <2>1. Found(i, known) = {} /\ UNCHANGED <<issue, state, spare>>
      BY <1>8 DEF CreateFails
    <2>2. CASE filed' = Append(filed, NewIssue(i)) /\ LeaveHidden(i, known)
      <3>1. Filing(i) /\ Len(filed') = Len(filed) + 1
        BY <2>2, OneMoreIssue
      <3>2. QED BY <1>1, <2>1, <2>2, <3>1, LeftUnbound
    <2>3. CASE UNCHANGED <<filed, hidden>>
      BY <2>1, <2>3 DEF Covered, Orphans, Waiting, Numbers, Bound
    <2>4. QED BY <1>8, <2>2, <2>3 DEF CreateFails
  <1>9. CASE OpenUnlisted(i)
    <2>1. /\ Orphans(t)' = Orphans(t) /\ Waiting(t)' = Waiting(t) \ {i}
          /\ spare' = [spare EXCEPT ![TitleOf[i]] = @ + 1] /\ UNCHANGED hidden
      BY <1>6, <1>9 DEF OpenUnlisted
    <2>2. CASE t = TitleOf[i]
      <3>1. spare'[t] + hidden'[t] = spare[t] + hidden[t] + 1
        BY <1>1, <2>1, <2>2
      <3>2. QED BY <1>2, <2>1, <2>2, <3>1, StaysCovered
    <2>3. CASE t # TitleOf[i]
      <3>1. spare'[t] = spare[t]
        BY <1>1, <2>1, <2>3
      <3>2. QED BY <1>3, <2>1, <2>3, <3>1, StaysCovered
    <2>4. QED BY <2>2, <2>3
  <1>10. QED BY <1>5, <1>7, <1>8, <1>9 DEF Opens, OpenIssue

\* A change to the issue of an item changes no orphan.
LEMMA OrphansAfterLabelling ==
  ASSUME Inv, NEW i \in Items, Labelling(i), UNCHANGED issue, NEW t \in Titles
  PROVE  Orphans(t)' = Orphans(t)
  <1>1. issue[i] \in Bound /\ Bound' = Bound
    BY DEF Bound
  <1>2. QED BY <1>1 DEF Labelling, Orphans, Numbers

LEMMA StepCovered ==
  ASSUME Inv, Inv', OrphansWillBeAdopted, [Next]_vars
  PROVE  OrphansWillBeAdopted'
  <1> SUFFICES ASSUME NEW t \in Titles
               PROVE  Covered(t)'
    BY DEF OrphansWillBeAdopted, Covered, Waiting
  <1>1. Covered(t)
    BY DEF OrphansWillBeAdopted, Covered, Waiting
  <1>2. CASE UNCHANGED <<state, issue, filed, spare, hidden>>
    BY <1>1, <1>2 DEF Covered, Orphans, Waiting, Numbers, Bound
  <1>3. CASE StartPass
    BY <1>2, <1>3 DEF StartPass
  <1>4. ASSUME NEW i \in Items, NEW known, Opens(i, known)
        PROVE  Covered(t)'
    BY <1>1, <1>4, OpeningCovered
  <1>5. CASE CrashInPass
    <2>1. /\ UNCHANGED <<state, issue, spare>>
          /\ \/ UNCHANGED <<filed, hidden>>
             \/ \E i \in Items : /\ state[i] = "queued"
                                 /\ Found(i, pass.known) = {} /\ LeaveHidden(i, pass.known)
                                 /\ Filing(i) /\ Len(filed') = Len(filed) + 1
      BY <1>5, CrashEffect
    <2>2. QED BY <1>1, <1>2, <2>1, LeftUnbound
  <1>6. ASSUME NEW i \in Items, Supersede(i)
        PROVE  Covered(t)'
    <2>1. /\ UNCHANGED <<issue, hidden>> /\ state' = [state EXCEPT ![i] = "abandoned"]
          /\ \/ issue[i] # 0 /\ state[i] # "queued" /\ UNCHANGED spare /\ Labelling(i)
             \/ /\ state[i] = "queued" /\ UNCHANGED filed
                /\ spare' = [spare EXCEPT ![TitleOf[i]] = @ + 1]
      BY <1>6, SupersedeEffect
    <2>2. Waiting(t)' = Waiting(t) \ {i}
      BY <2>1, WaitingAfter
    <2>3. CASE issue[i] # 0 /\ state[i] # "queued" /\ UNCHANGED spare /\ Labelling(i)
      <3>1. Orphans(t)' = Orphans(t)
        BY <2>1, <2>3, OrphansAfterLabelling
      <3>2. Waiting(t)' = Waiting(t)
        BY <2>2, <2>3 DEF Waiting
      <3>3. QED BY <1>1, <2>1, <2>3, <3>1, <3>2, StaysCovered
    <2>4. CASE /\ state[i] = "queued" /\ UNCHANGED filed
               /\ spare' = [spare EXCEPT ![TitleOf[i]] = @ + 1]
      <3>1. Orphans(t)' = Orphans(t)
        BY <2>1, <2>4 DEF Orphans, Numbers, Bound
      <3>2. spare \in [Titles -> Nat] /\ hidden \in [Titles -> Nat]
        BY DEF Inv, TypeOK
      <3>3. CASE t = TitleOf[i]
        <4>1. i \in Waiting(t)
          BY <2>4, <3>3 DEF Waiting
        <4>2. spare'[t] + hidden'[t] = spare[t] + hidden[t] + 1
          BY <2>1, <2>4, <3>2, <3>3
        <4>3. QED BY <1>1, <2>2, <3>1, <4>1, <4>2, StaysCovered
      <3>4. CASE t # TitleOf[i]
        <4>1. Waiting(t)' = Waiting(t)
          BY <2>2, <3>4 DEF Waiting
        <4>2. spare'[t] = spare[t]
          BY <2>4, <3>2, <3>4
        <4>3. QED BY <1>1, <2>1, <3>1, <4>1, <4>2, StaysCovered
      <3>5. QED BY <3>3, <3>4
    <2>5. QED BY <2>1, <2>3, <2>4
  <1>7. ASSUME NEW i \in Items, LabelSteps(i)
        PROVE  Covered(t)'
    <2>1. OnItsIssue(i)
      BY <1>7, LabelStepsEffect
    <2>2. PICK s \in States \ {"queued"} : state' = [state EXCEPT ![i] = s]
      BY <2>1 DEF OnItsIssue
    <2>3. /\ UNCHANGED <<issue, spare, hidden>> /\ Labelling(i) /\ issue[i] # 0
      BY <2>1 DEF OnItsIssue, Labelling
    <2>4. Orphans(t)' = Orphans(t)
      BY <2>3, OrphansAfterLabelling
    <2>5. state[i] # "queued"
      BY <2>3, OfAnItem
    <2>6. Waiting(t)' = Waiting(t)
      <3>1. Waiting(t)' = Waiting(t) \ {i}
        BY <2>2, WaitingAfter
      <3>2. QED BY <2>5, <3>1 DEF Waiting
    <2>7. QED BY <1>1, <2>3, <2>4, <2>6, StaysCovered
  <1>8. QED BY <1>2, <1>3, <1>4, <1>5, <1>6, <1>7, Steps DEF vars

-----------------------------------------------------------------------------
(* Theorems *)

\* Types and bindings: each issue that open_issues creates or adopts is bound to
\* one work item of its title, and nothing touches an issue before that.
THEOREM BindingsAreSound == Spec => []Inv
  BY InitInv, StepInv, PTL DEF Spec

\* _sync_human_label: the needs-human label is on the issues of the items in
\* needs_human and failed, and on no other, unless the call was lost.
THEOREM LabelsTellStates == Spec => []LabelTellsState
  <1>1. Init => LabelTellsState
    BY DEF Init, LabelTellsState
  <1>2. QED BY <1>1, BindingsAreSound, StepTellsState, PTL DEF Spec

\* poll_human_labels: a retry label is acted on once, or taken off in vain once.
THEOREM RequestsAreCounted == Spec => []EachLabelCountsOnce
  <1>1. Init => EachLabelCountsOnce
    BY DEF Init, EachLabelCountsOnce
  <1>2. QED BY <1>1, BindingsAreSound, StepCountsOnce, PTL DEF Spec

\* _open_issue: an issue left behind by a crash or an error is one that a queued
\* item of its title adopts, but for those that a repeated post, a failed listing,
\* a supersession or a listing of one issue per title accounts for.
THEOREM OrphansAreCovered == Spec => []OrphansWillBeAdopted
  <1>1. Init => OrphansWillBeAdopted
    <2> SUFFICES ASSUME Init, NEW t \in Titles
                 PROVE  Covered(t)
      BY DEF OrphansWillBeAdopted, Covered, Waiting
    <2>1. Inv
      BY InitInv
    <2>2. Orphans(t) = {}
      BY DEF Init, Orphans, Numbers
    <2>3. Cardinality(Orphans(t)) = 0
      BY <2>2, FS_EmptySet
    <2>4. Cardinality(Waiting(t)) \in Nat /\ spare[t] \in Nat /\ hidden[t] \in Nat
      BY <2>1, OrphansAreUnbound
    <2>5. QED BY <2>3, <2>4 DEF Covered
  <1>2. QED BY <1>1, BindingsAreSound, StepCovered, PTL DEF Spec
=============================================================================
