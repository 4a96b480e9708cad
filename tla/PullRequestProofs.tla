------------------------- MODULE PullRequestProofs -------------------------
(***************************************************************************)
(* Machine-checked proofs about PullRequest: for any number of pull        *)
(* requests, pushes, retries and failing calls, what is offered to a human *)
(* has earned it at the commit that is offered.                            *)
(***************************************************************************)
EXTENDS PullRequest, TLAPS

-----------------------------------------------------------------------------
(* The transitions of an item under verification *)

\* What each handler of the polls makes of the states it is called in.
LEMMA PollMoves ==
  /\ WiAfter("session_active", "blocked") = "needs_human"
  /\ WiAfter(WiAfter("session_active", "pr_opened"), "checks_started")
       = "checks_running"
  /\ WiAfter("checks_running", "checks_green") = "review_pending"
  /\ WiAfter("review_pending", "review_completed") = "ready_for_human"
  /\ WiAfter("review_pending", "review_not_observed") = "needs_human"
  /\ \A s \in {"review_pending", "ready_for_human"} :
       WiAfter(s, "new_head_pushed") = "checks_running"
  /\ \A s \in {"checks_running", "review_pending", "ready_for_human"} :
       /\ WiAfter(WiAfter(s, "checks_red"), "retry_sent") = "session_active"
       /\ WiAfter(WiAfter(s, "checks_red"), "retries_exhausted") = "failed"
       /\ WiAfter(s, "pr_closed_unmerged") = "needs_human"
  /\ \A s \in PR_STATES :
       WiAfter(IF s \in {"ready_for_human", "needs_human"}
               THEN s ELSE WiAfter(s, "blocked"), "human_merged") = "merged"
  /\ \A s \in {"needs_human", "failed"} : WiAfter(s, "human_retry") = "issue_open"
  /\ WiAfter(WiAfter("issue_open", "dispatch_started"), "session_created")
       = "session_active"
  /\ \A s \in Sources.human_abandoned : WiAfter(s, "human_abandoned") = "abandoned"
  BY DEF WiAfter, Target, Sources, PR_STATES

\* Raising and resetting keep a level a level.
LEMMA LevelType ==
  ASSUME NEW l \in 0..5, NEW m \in 0..5
  PROVE  AtLeast(l, m) \in 0..5 /\ AtMost(l, m) \in 0..5
  BY DEF AtLeast, AtMost

-----------------------------------------------------------------------------
(* Each action keeps the invariant *)

\* The first state satisfies the invariant.
LEMMA InitEstablishes ==
  ASSUME PrAssumption, Init PROVE IndInv
  <1> USE DEF PrAssumption, Init
  <1>1. TypeOK
    <2>1. /\ rowHead \in [PRs -> 0..MaxHeads] /\ rowLevel \in [PRs -> 0..5]
          /\ rowState \in [PRs -> PrStates] /\ prHead \in [PRs -> 0..MaxHeads]
          /\ prState \in [PRs -> PrStates] /\ ci \in [PRs -> CiStates]
          /\ review \in [Heads -> ReviewStates]
      BY DEF PrStates, CiStates, ReviewStates, Heads, Level
    <2>2. /\ retries \in 0..Retries /\ raises \in 0..MaxRaises
          /\ messages \in 0..(Retries + MaxRaises)
          /\ pushes \in 0..MaxHeads /\ level \in 0..5
      BY DEF Level
    <2>3. QED BY <2>1, <2>2 DEF TypeOK, States
  <1>2. HubIsTrue /\ NamedPrsExist /\ SnapshotIsTrue /\ ReadyIsEarned
    BY DEF HubIsTrue, NamedPrsExist, SnapshotIsTrue, ReadyIsEarned,
           UnderVerification
  <1>3. RowsAreEarned /\ MessagesAreCounted
    BY DEF RowsAreEarned, MessagesAreCounted, LevelEarned, Level
  <1>4. QED BY <1>1, <1>2, <1>3 DEF IndInv

\* A row that is not touched keeps its claims.
LEMMA RowKept ==
  ASSUME IndInv, NEW p \in PRs, rowState[p] = "open",
         rowLevel'[p] = rowLevel[p], rowHead'[p] = rowHead[p],
         everGreen \subseteq everGreen', approved \subseteq approved',
         \A h \in Heads : review[h] = "completed" => review'[h] = "completed"
  PROVE  LevelEarned(rowLevel[p], rowHead[p])'
  <1>1. LevelEarned(rowLevel[p], rowHead[p]) BY DEF IndInv, RowsAreEarned
  <1>2. rowHead[p] \in 0..MaxHeads /\ rowLevel[p] \in 0..5
    BY DEF IndInv, TypeOK
  <1>3. CASE rowHead[p] \in Heads BY <1>1, <1>3 DEF LevelEarned
  <1>4. CASE rowHead[p] = 0
    <2>1. everGreen \subseteq Heads /\ 0 \notin Heads
      BY DEF IndInv, TypeOK, Heads
    <2>2. rowLevel[p] \in 0..1
      BY <1>1, <1>2, <1>4, <2>1 DEF LevelEarned, Level
    <2>3. QED BY <2>2 DEF LevelEarned, Level
  <1>5. QED BY <1>2, <1>3, <1>4 DEF Heads

\* A step that leaves the database's claims and the item alone, and takes no
\* green check, review, approval or opened PR away.
LEMMA OutsideMoves ==
  ASSUME IndInv, UNCHANGED <<state, wiPr, level, rowHead, rowLevel, rowState>>,
         everGreen \subseteq everGreen', approved \subseteq approved',
         \A h \in Heads : review[h] = "completed" => review'[h] = "completed",
         \A p \in PRs : prHead[p] # 0 => prHead'[p] # 0,
         report' # NoPr => prHead'[report'] # 0
  PROVE  RowsAreEarned' /\ ReadyIsEarned' /\ NamedPrsExist'
  <1>1. RowsAreEarned'
    <2> SUFFICES ASSUME NEW p \in PRs, rowState[p] = "open"
                 PROVE  LevelEarned(rowLevel[p], rowHead[p])'
      BY DEF RowsAreEarned
    <2>1. rowLevel'[p] = rowLevel[p] /\ rowHead'[p] = rowHead[p] OBVIOUS
    <2>2. QED BY <2>1, RowKept
  <1>2. ReadyIsEarned'
    <2>1. state = "ready_for_human" => rowHead[wiPr] \in Heads
      BY DEF IndInv, TypeOK, ReadyIsEarned
    <2>2. QED BY <2>1 DEF IndInv, ReadyIsEarned
  <1>3. NamedPrsExist'
    <2>1. wiPr \in PRs \cup {NoPr} BY DEF IndInv, TypeOK
    <2>2. QED BY <2>1 DEF IndInv, NamedPrsExist, UnderVerification
  <1>4. QED BY <1>1, <1>2, <1>3

\* What the outside does between the steps of the controller.
LEMMA PushKeeps ==
  ASSUME PrAssumption, IndInv, NEW p \in PRs, Push(p) PROVE IndInv'
  <1> USE DEF Push, dbVars, devinVars, ctlVars
  <1>1. TypeOK' BY DEF PrAssumption, IndInv, TypeOK, CiStates, Heads
  <1>2. \A q \in PRs : prHead[q] # 0 => prHead'[q] # 0
    BY DEF PrAssumption, IndInv, TypeOK
  <1>3. RowsAreEarned' /\ ReadyIsEarned' /\ NamedPrsExist'
    <2>1. report' # NoPr => prHead'[report'] # 0
      BY <1>2 DEF IndInv, NamedPrsExist, TypeOK
    <2>2. QED BY <1>2, <2>1, OutsideMoves
  <1>4. HubIsTrue' BY DEF PrAssumption, IndInv, HubIsTrue, TypeOK
  <1>5. SnapshotIsTrue' /\ MessagesAreCounted'
    BY DEF IndInv, SnapshotIsTrue, MessagesAreCounted
  <1>6. QED BY <1>1, <1>3, <1>4, <1>5 DEF IndInv

\* PRs are closed and reopened, checks run, commits are approved.
LEMMA HubKeeps ==
  ASSUME PrAssumption, IndInv,
         \/ \E p \in PRs : ClosePr(p) \/ RunChecks(p)
         \/ \E h \in Heads : Approve(h)
  PROVE  IndInv'
  <1> USE DEF ClosePr, RunChecks, Approve, dbVars, devinVars, ctlVars
  <1>1. TypeOK'
    <2>1. CASE \E p \in PRs : ClosePr(p)
      BY <2>1 DEF IndInv, TypeOK, PrStates
    <2>2. CASE \E p \in PRs : RunChecks(p)
      <3> PICK p \in PRs : RunChecks(p) BY <2>2
      <3>1. prHead[p] \in Heads BY DEF IndInv, TypeOK, Heads
      <3>2. everGreen' \subseteq Heads BY <3>1 DEF IndInv, TypeOK
      <3>3. ci' \in [PRs -> CiStates] BY DEF IndInv, TypeOK
      <3>4. QED BY <3>2, <3>3 DEF IndInv, TypeOK
    <2>3. CASE \E h \in Heads : Approve(h)
      BY <2>3 DEF IndInv, TypeOK
    <2>4. QED BY <2>1, <2>2, <2>3
  <1>2. RowsAreEarned' /\ ReadyIsEarned' /\ NamedPrsExist'
    <2>1. report # NoPr => prHead[report] # 0 BY DEF IndInv, NamedPrsExist
    <2>2. /\ UNCHANGED <<state, wiPr, level, rowHead, rowLevel, rowState>>
          /\ UNCHANGED <<prHead, review, report>>
          /\ everGreen \subseteq everGreen' /\ approved \subseteq approved'
      OBVIOUS
    <2>3. QED BY <2>1, <2>2, OutsideMoves
  <1>3. HubIsTrue' BY DEF IndInv, HubIsTrue, TypeOK
  <1>4. SnapshotIsTrue' /\ MessagesAreCounted'
    BY DEF IndInv, SnapshotIsTrue, MessagesAreCounted
  <1>5. QED BY <1>1, <1>2, <1>3, <1>4 DEF IndInv

\* Sessions report and work on, reviews end, time passes.
LEMMA DevinKeeps ==
  ASSUME PrAssumption, IndInv,
         Report \/ WakeUp \/ TimePasses \/ \E h \in Heads : EndReview(h)
  PROVE  IndInv'
  <1> USE DEF Report, WakeUp, TimePasses, EndReview, dbVars, hubVars, devinVars,
              ctlVars
  <1>1. TypeOK' BY DEF IndInv, TypeOK, ReviewStates
  <1>2. RowsAreEarned' /\ ReadyIsEarned' /\ NamedPrsExist'
    <2>1. /\ UNCHANGED <<state, wiPr, level, rowHead, rowLevel, rowState>>
          /\ UNCHANGED <<prHead, everGreen, approved>>
      OBVIOUS
    <2>2. report' # NoPr => prHead'[report'] # 0 BY DEF IndInv, NamedPrsExist
    <2>3. \A h \in Heads : review[h] = "completed" => review'[h] = "completed"
      BY DEF IndInv, TypeOK
    <2>4. QED BY <2>1, <2>2, <2>3, OutsideMoves
  <1>3. HubIsTrue' /\ SnapshotIsTrue' /\ MessagesAreCounted'
    BY DEF IndInv, HubIsTrue, SnapshotIsTrue, MessagesAreCounted
  <1>4. QED BY <1>1, <1>2, <1>3 DEF IndInv

\* Reading a snapshot changes no claim.
LEMMA FetchKeeps ==
  ASSUME PrAssumption, IndInv, Fetch PROVE IndInv'
  <1> USE DEF Fetch, dbVars, hubVars, devinVars
  <1>1. TypeOK'
    <2>1. wiPr \in PRs /\ prHead[wiPr] \in Heads
      BY DEF IndInv, TypeOK, NamedPrsExist, Heads
    <2>2. snap' \in Snapshots
      BY <2>1 DEF IndInv, TypeOK, Snapshots
    <2>3. QED BY <2>2 DEF IndInv, TypeOK
  <1>2. RowsAreEarned' /\ ReadyIsEarned' /\ NamedPrsExist'
    <2>1. report # NoPr => prHead[report] # 0 BY DEF IndInv, NamedPrsExist
    <2>2. QED BY <2>1, OutsideMoves
  <1>3. HubIsTrue' /\ MessagesAreCounted'
    BY DEF IndInv, HubIsTrue, MessagesAreCounted
  <1>4. SnapshotIsTrue' BY DEF IndInv, SnapshotIsTrue, HubIsTrue, TypeOK
  <1>5. QED BY <1>1, <1>2, <1>3, <1>4 DEF IndInv

\* A poll that is unwound changes no claim; one message more is one more raise.
LEMMA RaiseKeeps ==
  ASSUME PrAssumption, IndInv, PollRaises PROVE IndInv'
  <1> USE DEF PollRaises, PollEnds, dbVars, hubVars
  <1>1. messages' \in {messages, messages + 1} OBVIOUS
  <1>2. MessagesAreCounted' /\ messages' \in 0..(Retries + MaxRaises)
    BY <1>1 DEF PrAssumption, IndInv, MessagesAreCounted, TypeOK
  <1>3. TypeOK' BY <1>2 DEF PrAssumption, IndInv, TypeOK
  <1>4. RowsAreEarned' /\ ReadyIsEarned' /\ NamedPrsExist'
    <2>1. report # NoPr => prHead[report] # 0 BY DEF IndInv, NamedPrsExist
    <2>2. QED BY <2>1, OutsideMoves
  <1>5. HubIsTrue' /\ SnapshotIsTrue'
    BY DEF IndInv, HubIsTrue, SnapshotIsTrue
  <1>6. QED BY <1>2, <1>3, <1>4, <1>5 DEF IndInv

\* The polls and people's decisions that leave rows and levels alone.
LEMMA StateMoveKeeps ==
  ASSUME PrAssumption, IndInv,
         \/ PollSession /\ UNCHANGED <<wiPr, level, rowHead, rowLevel, rowState>>
                        /\ state' = WiAfter(state, "blocked")
         \/ HumanRetry \/ Redispatch \/ Abandon
  PROVE  IndInv'
  <1> USE DEF PollSession, RecordPr, HumanRetry, Redispatch, Abandon, dbVars,
              hubVars, devinVars, ctlVars
  <1>1. state' \in {"needs_human", "issue_open", "session_active", "abandoned"}
    BY PollMoves
  <1>2. TypeOK'
    <2>1. state' \in States BY <1>1 DEF States
    <2>2. CASE UNCHANGED <<retries, retriggered, report, messages>>
      BY <2>1, <2>2 DEF IndInv, TypeOK
    <2>3. CASE HumanRetry
      BY <2>1, <2>3 DEF PrAssumption, IndInv, TypeOK
    <2>4. CASE Redispatch
      BY <2>1, <2>4 DEF IndInv, TypeOK
    <2>5. CASE PollSession /\ ~UNCHANGED <<retries, retriggered, report, messages>>
      BY <2>5
    <2>6. QED BY <2>2, <2>3, <2>4, <2>5
  <1>3. RowsAreEarned'
    <2> SUFFICES ASSUME NEW p \in PRs, rowState'[p] = "open"
                 PROVE  LevelEarned(rowLevel[p], rowHead[p])'
      BY DEF RowsAreEarned
    <2>1. /\ UNCHANGED <<rowState, rowLevel, rowHead>>
          /\ UNCHANGED <<everGreen, approved, review>>
      OBVIOUS
    <2>2. QED BY <2>1, RowKept
  <1>4. ReadyIsEarned' BY <1>1 DEF ReadyIsEarned
  <1>5. NamedPrsExist' BY <1>1 DEF IndInv, NamedPrsExist, UnderVerification
  <1>6. HubIsTrue' BY DEF IndInv, HubIsTrue
  <1>7. SnapshotIsTrue' BY DEF IndInv, SnapshotIsTrue
  <1>8. MessagesAreCounted'
    BY DEF IndInv, MessagesAreCounted, TypeOK
  <1>9. QED BY <1>2, <1>3, <1>4, <1>5, <1>6, <1>7, <1>8 DEF IndInv

\* A session's report gives the row of its PR a head only where it had none.
LEMMA RecordPrKeeps ==
  ASSUME PrAssumption, IndInv, PollSession, report # NoPr, RecordPr(report)
  PROVE  IndInv'
  <1> USE DEF PollSession, RecordPr, hubVars, devinVars, ctlVars
  <1>0. /\ report \in PRs /\ prHead[report] # 0 /\ prHead[report] \in 0..MaxHeads
        /\ Level.pr_opened = 1
    BY DEF IndInv, TypeOK, NamedPrsExist, Level
  <1>1. state' = "checks_running" BY PollMoves
  <1>2. TypeOK'
    <2>1. AtLeast(level, 1) \in 0..5 /\ AtLeast(rowLevel[report], 1) \in 0..5
      BY <1>0, LevelType DEF IndInv, TypeOK
    <2>2. /\ level' \in 0..5 /\ rowLevel' \in [PRs -> 0..5]
          /\ rowHead' \in [PRs -> 0..MaxHeads]
      BY <1>0, <2>1 DEF IndInv, TypeOK, RaiseLevel
    <2>3. QED BY <1>0, <1>1, <2>2 DEF IndInv, TypeOK, States
  <1>3. RowsAreEarned'
    <2> SUFFICES ASSUME NEW p \in PRs, rowState'[p] = "open"
                 PROVE  LevelEarned(rowLevel[p], rowHead[p])'
      BY DEF RowsAreEarned
    <2>1. /\ rowHead[p] \in 0..MaxHeads /\ rowLevel[p] \in 0..5
          /\ rowHead \in [PRs -> 0..MaxHeads] /\ rowLevel \in [PRs -> 0..5]
      BY DEF IndInv, TypeOK
    <2>2. LevelEarned(rowLevel[p], rowHead[p]) BY DEF IndInv, RowsAreEarned
    <2>3. CASE p # report
      <3>1. rowLevel'[p] = rowLevel[p] /\ rowHead'[p] = rowHead[p]
        BY <2>1, <2>3 DEF RaiseLevel
      <3>2. QED BY <3>1, RowKept
    <2>4. CASE p = report
      <3>1. rowLevel'[p] = AtLeast(rowLevel[p], 1)
        BY <1>0, <2>1, <2>4 DEF RaiseLevel
      <3>2. CASE rowLevel[p] <= 1
        <4>1. rowLevel'[p] \in 0..1 BY <2>1, <3>1, <3>2 DEF AtLeast
        <4>2. QED BY <4>1 DEF LevelEarned, Level
      <3>3. CASE rowLevel[p] > 1
        <4>1. rowLevel'[p] = rowLevel[p] BY <2>1, <3>1, <3>3 DEF AtLeast
        <4>2. rowHead[p] \in everGreen
          BY <2>1, <2>2, <3>3 DEF LevelEarned, Level
        <4>3. rowHead[p] # 0 BY <4>2 DEF IndInv, TypeOK, Heads
        <4>4. rowHead'[p] = rowHead[p] BY <2>1, <2>4, <4>3
        <4>5. QED BY <4>1, <4>4, RowKept
      <3>4. QED BY <2>1, <3>2, <3>3
    <2>5. QED BY <2>3, <2>4
  <1>4. ReadyIsEarned' BY <1>1 DEF ReadyIsEarned
  <1>5. NamedPrsExist' BY <1>0, <1>1 DEF IndInv, NamedPrsExist
  <1>6. HubIsTrue' BY DEF IndInv, HubIsTrue
  <1>7. SnapshotIsTrue' BY DEF IndInv, SnapshotIsTrue
  <1>8. MessagesAreCounted' BY DEF IndInv, MessagesAreCounted
  <1>9. QED BY <1>2, <1>3, <1>4, <1>5, <1>6, <1>7, <1>8 DEF IndInv

-----------------------------------------------------------------------------
(* The polls of the pull request *)

\* The snapshot that is applied is about the item's PR, which has been opened.
LEMMA SnapOfItem ==
  ASSUME PrAssumption, IndInv, pc = "fetched"
  PROVE  /\ snap \in Snapshots /\ snap.pr = wiPr /\ wiPr \in PRs
         /\ snap.head \in Heads /\ state \in PR_STATES
         /\ prHead[wiPr] \in Heads
  BY DEF PrAssumption, IndInv, TypeOK, SnapshotIsTrue, NamedPrsExist, Snapshots, Heads

\* Whatever is raised over a reset level is earned if the new level is.
LEMMA ApplyLevelKeeps ==
  ASSUME PrAssumption, IndInv, pc = "fetched", NEW l \in 0..5,
         NEW h, h = snap.head, ApplyHead, ApplyLevel(l), LevelEarned(l, h)',
         UNCHANGED rowState,
         everGreen \subseteq everGreen', approved \subseteq approved',
         \A c \in Heads : review[c] = "completed" => review'[c] = "completed"
  PROVE  /\ RowsAreEarned'
         /\ level' \in 0..5 /\ rowLevel' \in [PRs -> 0..5]
         /\ rowHead' \in [PRs -> 0..MaxHeads]
  <1> DEFINE q == snap.pr
  <1>0. /\ q \in PRs /\ snap.head \in Heads /\ Level.pr_opened = 1
        /\ rowLevel \in [PRs -> 0..5] /\ rowHead \in [PRs -> 0..MaxHeads]
        /\ rowLevel[q] \in 0..5 /\ level \in 0..5
    BY SnapOfItem DEF IndInv, TypeOK, Snapshots, Level
  <1>1. Reverified(level) \in 0..5 /\ Reverified(rowLevel[q]) \in 0..5
    BY <1>0 DEF Reverified, AtMost
  <1>2. AtLeast(Reverified(level), l) \in 0..5
        /\ AtLeast(Reverified(rowLevel[q]), l) \in 0..5
    BY <1>1, LevelType
  <1>3. /\ level' \in 0..5 /\ rowLevel' \in [PRs -> 0..5]
        /\ rowHead' \in [PRs -> 0..MaxHeads]
    BY <1>0, <1>2 DEF ApplyHead, ApplyLevel, Heads
  <1>4. RowsAreEarned'
    <2> SUFFICES ASSUME NEW p \in PRs, rowState[p] = "open"
                 PROVE  LevelEarned(rowLevel[p], rowHead[p])'
      BY DEF RowsAreEarned
    <2>1. CASE p # q
      <3>1. rowLevel'[p] = rowLevel[p] /\ rowHead'[p] = rowHead[p]
        BY <1>0, <2>1 DEF ApplyHead, ApplyLevel
      <3>2. QED BY <3>1, RowKept
    <2>2. CASE p = q
      <3>1. /\ rowHead'[p] = snap.head
            /\ rowLevel'[p] = AtLeast(Reverified(rowLevel[p]), l)
        BY <1>0, <2>2 DEF ApplyHead, ApplyLevel
      <3>2. CASE rowLevel'[p] = l
        BY <3>1, <3>2 DEF LevelEarned
      <3>3. CASE rowLevel'[p] # l /\ NewHead
        <4>1. rowLevel'[p] \in 0..1
          BY <1>0, <2>2, <3>1, <3>3 DEF AtLeast, Reverified, AtMost
        <4>2. QED BY <4>1 DEF LevelEarned, Level
      <3>4. CASE rowLevel'[p] # l /\ ~NewHead
        <4>1. rowLevel'[p] = rowLevel[p]
          BY <1>0, <2>2, <3>1, <3>4 DEF AtLeast, Reverified
        <4>2. rowHead'[p] = rowHead[p]
          BY <2>2, <3>1, <3>4 DEF NewHead
        <4>3. QED BY <4>1, <4>2, RowKept
      <3>5. QED BY <3>2, <3>3, <3>4
    <2>3. QED BY <2>1, <2>2
  <1>5. QED BY <1>3, <1>4

\* A PR that was merged or closed ends the polls of its item, or hands it over.
LEMMA EndingStates ==
  ASSUME PrAssumption, IndInv, ApplyMerged \/ ApplyClosed
  PROVE  state' \in {"merged", "needs_human"}
  <1>1. state \in PR_STATES
    BY SnapOfItem DEF ApplyMerged, ApplyClosed
  <1>2. CASE ApplyMerged BY <1>1, <1>2, PollMoves DEF ApplyMerged
  <1>3. CASE ApplyClosed
    <2>1. WiAfter("pr_open", "pr_closed_unmerged") = "needs_human"
      BY DEF WiAfter, Target, Sources
    <2>2. QED BY <1>1, <1>3, <2>1, PollMoves DEF ApplyClosed, PR_STATES
  <1>4. QED BY <1>2, <1>3

\* A merge or a close leaves the item to people; its row is no longer open.
LEMMA EndKeeps ==
  ASSUME PrAssumption, IndInv, ApplyMerged \/ ApplyClosed PROVE IndInv'
  <1> USE DEF ApplyMerged, ApplyClosed, ApplyHead, PollEnds, hubVars, devinVars
  <1>0. /\ snap.pr \in PRs /\ snap.pr = wiPr /\ snap.head \in 0..MaxHeads
        /\ state \in PR_STATES /\ Level.merged = 5
    BY SnapOfItem DEF Heads, Level
  <1>1. state' \in {"merged", "needs_human"} BY EndingStates
  <1>2. TypeOK'
    <2>1. /\ rowHead' \in [PRs -> 0..MaxHeads] /\ rowState' \in [PRs -> PrStates]
          /\ state' \in States
      BY <1>0, <1>1 DEF IndInv, TypeOK, PrStates, States
    <2>2. level' \in 0..5 /\ rowLevel' \in [PRs -> 0..5]
      BY <1>0, LevelType DEF IndInv, TypeOK, RaiseLevel
    <2>3. QED BY <2>1, <2>2 DEF IndInv, TypeOK
  <1>3. RowsAreEarned'
    <2> SUFFICES ASSUME NEW p \in PRs, rowState'[p] = "open"
                 PROVE  LevelEarned(rowLevel[p], rowHead[p])'
      BY DEF RowsAreEarned
    <2>1. p # snap.pr /\ rowState[p] = "open"
      BY DEF IndInv, TypeOK
    <2>2. rowLevel'[p] = rowLevel[p] /\ rowHead'[p] = rowHead[p]
      BY <2>1 DEF IndInv, TypeOK, RaiseLevel
    <2>3. QED BY <2>1, <2>2, RowKept
  <1>4. ReadyIsEarned' BY <1>1 DEF ReadyIsEarned
  <1>5. NamedPrsExist' BY <1>1 DEF IndInv, NamedPrsExist, UnderVerification
  <1>6. HubIsTrue' BY DEF IndInv, HubIsTrue
  <1>7. SnapshotIsTrue' BY DEF SnapshotIsTrue
  <1>8. MessagesAreCounted' BY DEF IndInv, MessagesAreCounted
  <1>9. QED BY <1>2, <1>3, <1>4, <1>5, <1>6, <1>7, <1>8 DEF IndInv

\* The state in which the checks of an item under verification are weighed.
LEMMA ReverifiedStates ==
  ASSUME PrAssumption, IndInv, pc = "fetched", state # "needs_human"
  PROVE  /\ ReverifiedState \in
              {"checks_running", "review_pending", "ready_for_human"}
         /\ ReverifiedState = "ready_for_human" =>
              state = "ready_for_human" /\ ~NewHead
  <1>1. WiAfter("pr_open", "checks_started") = "checks_running"
    BY DEF WiAfter, Target, Sources
  <1>2. QED BY <1>1, SnapOfItem, PollMoves DEF ReverifiedState, PR_STATES

\* A poll that raises no level: owned by a human, or checks not green.
LEMMA UnraisedKeeps ==
  ASSUME PrAssumption, IndInv, ApplyOwned \/ ApplyRunning \/ ApplyRed
  PROVE  IndInv'
  <1> USE DEF ApplyOwned, ApplyRunning, ApplyRed, Weigh, PollEnds, hubVars, devinVars
  <1>0. Level.none = 0 /\ \A h : LevelEarned(0, h)'
    BY DEF LevelEarned, Level
  <1>1. /\ RowsAreEarned'
        /\ level' \in 0..5 /\ rowLevel' \in [PRs -> 0..5]
        /\ rowHead' \in [PRs -> 0..MaxHeads]
    <2>1. pc = "fetched" /\ ApplyHead /\ ApplyLevel(0) /\ UNCHANGED rowState
          /\ UNCHANGED <<everGreen, approved, review>>
      BY <1>0
    <2>2. QED BY <1>0, <2>1, ApplyLevelKeeps
  <1>2. state' \in States /\ (state' = "ready_for_human" =>
                                state = "ready_for_human" /\ ~NewHead)
    <2>1. CASE ApplyOwned BY <2>1 DEF IndInv, TypeOK
    <2>2. CASE ApplyRunning BY <2>2, ReverifiedStates DEF States
    <2>3. CASE ApplyRed BY <2>3, ReverifiedStates, PollMoves DEF States
    <2>4. QED BY <2>1, <2>2, <2>3
  <1>3. retries' \in 0..Retries /\ messages' \in 0..(Retries + MaxRaises)
        /\ MessagesAreCounted'
    BY DEF PrAssumption, IndInv, TypeOK, MessagesAreCounted
  <1>4. TypeOK'
    <2>1. /\ retriggered' = retriggered /\ report' = report
          /\ review' = review /\ late' = late /\ raises' = raises
          /\ rowState' = rowState /\ prHead' = prHead /\ prState' = prState
          /\ pushes' = pushes /\ ci' = ci /\ wiPr' = wiPr
          /\ everGreen' = everGreen /\ approved' = approved /\ pc' = "idle"
      BY DEF ApplyHead
    <2>2. depth' \in BOOLEAN
      <3>1. CASE ApplyOwned BY <3>1
      <3>2. CASE ~ApplyOwned BY <3>2 DEF Proved
      <3>3. QED BY <3>1, <3>2
    <2>3. QED BY <1>1, <1>2, <1>3, <2>1, <2>2 DEF IndInv, TypeOK
  <1>5. ReadyIsEarned'
    <2> SUFFICES ASSUME state' = "ready_for_human"
                 PROVE  /\ rowHead'[wiPr'] \in everGreen'
                        /\ review'[rowHead'[wiPr']] = "completed"
      BY DEF ReadyIsEarned
    <2>1. wiPr' = wiPr /\ rowHead'[wiPr] = rowHead[wiPr]
      BY <1>2, SnapOfItem DEF ApplyHead, NewHead, IndInv, TypeOK
    <2>2. QED BY <1>2, <2>1 DEF IndInv, ReadyIsEarned
  <1>6. NamedPrsExist' BY SnapOfItem DEF IndInv, NamedPrsExist, ApplyHead, TypeOK, PrAssumption
  <1>7. HubIsTrue' BY DEF IndInv, HubIsTrue
  <1>8. SnapshotIsTrue' BY DEF SnapshotIsTrue
  <1>9. QED BY <1>1, <1>3, <1>4, <1>5, <1>6, <1>7, <1>8 DEF IndInv

\* Triggering a review takes no completed review away.
LEMMA TriggerType ==
  ASSUME PrAssumption, IndInv, pc = "fetched",
         TriggerReview \/ UNCHANGED <<review, retriggered>>
  PROVE  /\ review' \in [Heads -> ReviewStates]
         /\ retriggered' \subseteq PRs \X Heads
         /\ \A h \in Heads : review[h] = "completed" => review'[h] = "completed"
  <1>1. /\ review \in [Heads -> ReviewStates] /\ retriggered \subseteq PRs \X Heads
        /\ snap.pr \in PRs /\ prHead[snap.pr] \in Heads
    BY SnapOfItem DEF IndInv, TypeOK
  <1>2. QED BY <1>1 DEF TriggerReview, ReviewStates

\* Green checks: the item is offered only for a completed review of this head.
LEMMA GreenKeeps ==
  ASSUME PrAssumption, IndInv, ApplyGreen PROVE IndInv'
  <1> USE DEF Weigh, PollEnds, hubVars
  <1> DEFINE green == IF ReverifiedState = "checks_running"
                      THEN WiAfter(ReverifiedState, "checks_green")
                      ELSE ReverifiedState
             reviewed == review[snap.head] = "completed"
  <1>0. /\ pc = "fetched" /\ snap.head \in Heads /\ snap.head \in everGreen
        /\ snap.pr = wiPr /\ wiPr \in PRs
        /\ ApplyHead /\ UNCHANGED rowState /\ UNCHANGED <<everGreen, approved>>
    BY SnapOfItem DEF ApplyGreen, IndInv, SnapshotIsTrue
  <1>1. TriggerReview \/ UNCHANGED <<review, retriggered>>
    BY DEF ApplyGreen
  <1>2. /\ review' \in [Heads -> ReviewStates]
        /\ retriggered' \subseteq PRs \X Heads
        /\ \A c \in Heads : review[c] = "completed" => review'[c] = "completed"
    BY <1>0, <1>1, TriggerType
  <1>3. green \in {"review_pending", "ready_for_human"}
        /\ (green = "ready_for_human" => state = "ready_for_human" /\ ~NewHead)
    BY <1>0, ReverifiedStates, PollMoves DEF ApplyGreen
  <1>4. green = "ready_for_human" => reviewed
    BY <1>0, <1>3 DEF IndInv, ReadyIsEarned, NewHead
  <1>5. PICK l \in 0..5 :
          /\ ApplyLevel(l) /\ LevelEarned(l, snap.head)
          /\ state' \in States
          /\ state' = "ready_for_human" => reviewed
    <2>1. /\ Level.ci_green = 2 /\ Level.review_completed = 3
          /\ Level.human_approved = 4
          /\ LevelEarned(Level.ci_green, snap.head)
          /\ reviewed => LevelEarned(Approval, snap.head) /\ Approval \in 0..5
      BY <1>0 DEF LevelEarned, Level, Approval
    <2>2. CASE green = "review_pending"
      <3>1. PICK o \in UNION {ReviewOutcomes(t) : t \in BOOLEAN} :
              /\ state' = AfterReview(green, o.to)
              /\ ApplyLevel(IF o.to = "review_completed"
                            THEN Approval ELSE Level.ci_green)
        BY <2>2 DEF ApplyGreen
      <3>2. /\ o.to \in {"wait", "review_not_observed", "review_completed"}
            /\ o.to = "review_completed" => reviewed
        BY <3>1 DEF ReviewOutcomes, ReviewOutcome
      <3>3. /\ state' \in {"review_pending", "needs_human", "ready_for_human"}
            /\ state' = "ready_for_human" => o.to = "review_completed"
        BY <2>2, <3>1, <3>2, PollMoves DEF AfterReview
      <3>4. QED BY <2>1, <3>1, <3>2, <3>3 DEF States
    <2>3. CASE green = "ready_for_human"
      <3>1. state' = green /\ ApplyLevel(Approval)
        BY <2>3 DEF ApplyGreen
      <3>2. QED BY <1>4, <2>1, <2>3, <3>1 DEF States
    <2>4. QED BY <1>3, <2>2, <2>3
  <1>6. /\ RowsAreEarned'
        /\ level' \in 0..5 /\ rowLevel' \in [PRs -> 0..5]
        /\ rowHead' \in [PRs -> 0..MaxHeads]
    <2> DEFINE h == snap.head
    <2>1. LevelEarned(l, h) /\ h \in Heads BY <1>0, <1>5
    <2> HIDE DEF h
    <2>2. \A c : c = h => (LevelEarned(l, c)
            => /\ l >= Level.ci_green => c \in everGreen'
               /\ l >= Level.review_completed => review'[c] = "completed"
               /\ l >= Level.human_approved => c \in approved')
      BY <1>0, <1>2, <2>1 DEF LevelEarned
    <2>3. \A c : c = h => LevelEarned(l, c)'
      BY <2>1, <2>2 DEF LevelEarned
    <2>4. ASSUME NEW c, c = snap.head PROVE LevelEarned(l, c)'
      BY <2>3, <2>4 DEF h
    <2>5. QED BY <1>0, <1>2, <1>5, <2>4, ApplyLevelKeeps
  <1>7. TypeOK'
    <2>1. depth' \in BOOLEAN /\ UNCHANGED <<retries, report, messages, raises>>
      BY DEF ApplyGreen, Proved
    <2>2. late' \in BOOLEAN BY DEF ApplyGreen
    <2>3. QED BY <1>0, <1>2, <1>5, <1>6, <2>1, <2>2 DEF ApplyGreen, ApplyHead, IndInv, TypeOK
  <1>8. ReadyIsEarned'
    <2> SUFFICES ASSUME state' = "ready_for_human"
                 PROVE  /\ rowHead'[wiPr'] \in everGreen'
                        /\ review'[rowHead'[wiPr']] = "completed"
      BY DEF ReadyIsEarned
    <2>1. wiPr' = wiPr /\ rowHead'[wiPr] = snap.head
      BY <1>0 DEF ApplyHead, IndInv, TypeOK
    <2>2. QED BY <1>0, <1>2, <1>5, <2>1
  <1>9. NamedPrsExist' /\ HubIsTrue' /\ SnapshotIsTrue' /\ MessagesAreCounted'
    <2>1. UNCHANGED <<wiPr, report, retries, messages, raises, prHead>>
          /\ pc' = "idle"
      BY DEF ApplyGreen, ApplyHead
    <2>2. UNCHANGED <<ci, pushes, everGreen>> BY DEF ApplyGreen
    <2>3. wiPr # NoPr BY <1>0 DEF PrAssumption
    <2>4. QED BY <2>1, <2>2, <2>3 DEF IndInv, NamedPrsExist, HubIsTrue,
                 SnapshotIsTrue, MessagesAreCounted, UnderVerification
  <1>10. QED BY <1>6, <1>7, <1>8, <1>9 DEF IndInv

-----------------------------------------------------------------------------
(* Offers *)

\* With green checks only a completed review of the fetched head leads to an offer.
LEMMA GreenOffers ==
  ASSUME PrAssumption, IndInv, ApplyGreen, state' = "ready_for_human"
  PROVE  /\ pc = "fetched" /\ snap.checks = "green"
         /\ rowHead'[wiPr] = snap.head /\ review[snap.head] = "completed"
  <1> DEFINE green == IF ReverifiedState = "checks_running"
                      THEN WiAfter(ReverifiedState, "checks_green")
                      ELSE ReverifiedState
  <1>1. /\ pc = "fetched" /\ snap.checks = "green" /\ ApplyHead
        /\ snap.pr = wiPr /\ wiPr \in PRs
    BY SnapOfItem DEF ApplyGreen, Weigh
  <1>2. rowHead'[wiPr] = snap.head
    BY <1>1 DEF ApplyHead, IndInv, TypeOK
  <1>3. /\ green \in {"review_pending", "ready_for_human"}
        /\ green = "ready_for_human" => state = "ready_for_human" /\ ~NewHead
    BY <1>1, ReverifiedStates, PollMoves DEF ApplyGreen, Weigh
  <1>4. CASE green = "ready_for_human"
    BY <1>1, <1>2, <1>3, <1>4 DEF IndInv, ReadyIsEarned, NewHead
  <1>5. CASE green = "review_pending"
    <2>1. PICK o \in UNION {ReviewOutcomes(t) : t \in BOOLEAN} :
            state' = AfterReview(green, o.to)
      BY <1>5 DEF ApplyGreen
    <2>2. /\ o.to \in {"wait", "review_not_observed", "review_completed"}
          /\ o.to = "review_completed" => review[snap.head] = "completed"
      BY <2>1 DEF ReviewOutcomes, ReviewOutcome
    <2>3. o.to = "review_completed"
      BY <1>5, <2>1, <2>2, PollMoves DEF AfterReview
    <2>4. QED BY <1>1, <1>2, <2>2, <2>3
  <1>6. QED BY <1>3, <1>4, <1>5

\* No other step makes an offer or moves one to another head.
LEMMA OtherStepsOfferNothing ==
  ASSUME PrAssumption, IndInv, [Next]_vars, ~ApplyGreen,
         state' = "ready_for_human"
  PROVE  state = "ready_for_human" /\ rowHead' = rowHead
  <1>1. CASE PollSession
    BY <1>1, PollMoves DEF PollSession, RecordPr
  <1>2. CASE HumanRetry \/ Redispatch \/ Abandon
    BY <1>2, PollMoves DEF HumanRetry, Redispatch, Abandon
  <1>3. CASE ApplyMerged \/ ApplyClosed BY <1>3, EndingStates
  <1>4. CASE ApplyOwned BY <1>4 DEF ApplyOwned
  <1>5. CASE ApplyRunning \/ ApplyRed
    <2>1. pc = "fetched" /\ state # "needs_human" /\ ApplyHead
      BY <1>5 DEF ApplyRunning, ApplyRed, Weigh
    <2>2. state = "ready_for_human" /\ ~NewHead
      <3>1. CASE ApplyRunning BY <2>1, <3>1, ReverifiedStates DEF ApplyRunning
      <3>2. CASE ApplyRed BY <2>1, <3>2, ReverifiedStates, PollMoves DEF ApplyRed
      <3>3. QED BY <1>5, <3>1, <3>2
    <2>3. QED BY <2>1, <2>2 DEF ApplyHead, NewHead, IndInv, TypeOK
  <1>6. CASE Fetch \/ PollRaises BY <1>6 DEF Fetch, PollRaises, dbVars
  <1>7. CASE EnvironmentStep /\ ~(HumanRetry \/ Abandon)
    BY <1>7 DEF EnvironmentStep, Report, WakeUp, TimePasses, Push, ClosePr,
                RunChecks, Approve, EndReview, dbVars
  <1>8. CASE UNCHANGED vars BY <1>8 DEF vars, dbVars
  <1>9. QED BY <1>1, <1>2, <1>3, <1>4, <1>5, <1>6, <1>7, <1>8
            DEF Next, ControllerStep, Apply

-----------------------------------------------------------------------------
(* The theorems *)

\* No step, and no stuttering, breaks the invariant.
LEMMA NextKeeps ==
  ASSUME PrAssumption, IndInv, [Next]_vars PROVE IndInv'
  <1>1. CASE PollSession
    <2>1. CASE report # NoPr /\ RecordPr(report) BY <1>1, <2>1, RecordPrKeeps
    <2>2. CASE ~(report # NoPr /\ RecordPr(report))
      BY <1>1, <2>2, StateMoveKeeps DEF PollSession
    <2>3. QED BY <2>1, <2>2
  <1>2. CASE Fetch \/ PollRaises BY <1>2, FetchKeeps, RaiseKeeps
  <1>3. CASE Apply BY <1>3, EndKeeps, UnraisedKeeps, GreenKeeps DEF Apply
  <1>4. CASE Redispatch \/ HumanRetry \/ Abandon BY <1>4, StateMoveKeeps
  <1>5. CASE Report \/ WakeUp \/ TimePasses \/ \E h \in Heads : EndReview(h)
    BY <1>5, DevinKeeps
  <1>6. CASE \E p \in PRs : Push(p) BY <1>6, PushKeeps
  <1>7. CASE \/ \E p \in PRs : ClosePr(p) \/ RunChecks(p)
             \/ \E h \in Heads : Approve(h)
    BY <1>7, HubKeeps
  <1>8. CASE UNCHANGED vars
    BY <1>8 DEF vars, dbVars, hubVars, devinVars, ctlVars, IndInv, TypeOK,
                HubIsTrue, NamedPrsExist, SnapshotIsTrue, RowsAreEarned,
                LevelEarned, ReadyIsEarned, MessagesAreCounted, UnderVerification
  <1>9. QED BY <1>1, <1>2, <1>3, <1>4, <1>5, <1>6, <1>7, <1>8
            DEF Next, ControllerStep, EnvironmentStep

\* Every reachable state has the types and the relations of the invariant, for
\* any number of PRs, pushes, retries and unwound transactions.
THEOREM PrInvariant == Spec => []IndInv
  <1>1. Init => IndInv BY PrAssumption, InitEstablishes
  <1>2. IndInv /\ [Next]_vars => IndInv' BY PrAssumption, NextKeeps
  <1>3. QED BY <1>1, <1>2, PTL DEF Spec

\* What is offered for merging was green and reviewed at the offered commit.
THEOREM OfferIsEarned == Spec => []ReadyIsEarned
  <1>1. IndInv => ReadyIsEarned BY DEF IndInv
  <1>2. QED BY <1>1, PrInvariant, PTL

\* An offer, and its move to another commit, rests on the checks and the review
\* of the very commit that the poll read.
THEOREM OffersAreOfThePolledHead == Spec => OfferIsOfThePolledHead
  <1>1. ASSUME IndInv, [Next]_vars, state' = "ready_for_human",
               state # "ready_for_human" \/ rowHead' # rowHead
        PROVE  /\ pc = "fetched" /\ snap.checks = "green"
               /\ rowHead'[wiPr] = snap.head /\ review[snap.head] = "completed"
    BY <1>1, PrAssumption, GreenOffers, OtherStepsOfferNothing
  <1>2. QED BY <1>1, PrInvariant, PTL DEF Spec, OfferIsOfThePolledHead

\* The level of an item's open PR is earned by the commit its row holds.
THEOREM LevelsAreEvidence == Spec => []EvidenceIsOfTheHead
  <1>1. IndInv => EvidenceIsOfTheHead
    BY PrAssumption DEF PrAssumption, IndInv, TypeOK, NamedPrsExist, RowsAreEarned, EvidenceIsOfTheHead
  <1>2. QED BY <1>1, PrInvariant, PTL

\* Retry messages are counted, up to the transactions that were unwound.
THEOREM RetriesAreCounted == Spec => []MessagesAreCounted
  <1>1. IndInv => MessagesAreCounted BY DEF IndInv
  <1>2. QED BY <1>1, PrInvariant, PTL
=============================================================================
