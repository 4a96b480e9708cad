--------------------------- MODULE DispatchProofs ---------------------------
(***************************************************************************)
(* Machine-checked proofs about Dispatch, for every set of items and       *)
(* sessions, every limit, and however often a create call is repeated.     *)
(***************************************************************************)
EXTENDS Dispatch, FiniteSetTheorems, TLAPS

-----------------------------------------------------------------------------
(* The transition table *)

\* The table leads from states to states.
LEMMA WiAfterType ==
  ASSUME NEW s \in States, NEW e \in Events
  PROVE  WiAfter(s, e) \in States
  BY DEF WiAfter, States, Events, Target, Sources

UnderWay == States \ UnboundStates

\* An item that is under way becomes unbound again only by a human retry.
LEMMA UnderWayStays ==
  ASSUME NEW s \in UnderWay, NEW e \in Events \ {"human_retry"}
  PROVE  WiAfter(s, e) \in UnderWay
  BY DEF WiAfter, States, Events, Target, Sources, UnboundStates, UnderWay

\* The moves of an item that is being dispatched, launched or cancelled.
LEMMA DispatchMoves ==
  /\ WiAfter("issue_open", "dispatch_started") = "dispatching"
  /\ WiAfter("dispatching", "session_adopted") = "session_active"
  /\ WiAfter("dispatching", "session_created") = "session_active"
  /\ WiAfter("dispatching", "dispatch_failed") = "issue_open"
  /\ WiAfter("dispatching", "blocked") = "needs_human"
  /\ WiAfter("session_active", "operator_cancelled") = "needs_human"
  /\ WiAfter("session_active", "blocked") = "needs_human"
  /\ WiAfter(WiAfter("session_active", "pr_opened"), "checks_started")
       = "checks_running"
  /\ WiAfter("queued", "issue_created") = "issue_open"
  BY DEF WiAfter, Target, Sources

\* A launch finds or makes the item's issue open.
LEMMA OpenedType ==
  ASSUME NEW s \in Sources.human_retry \cup {"queued", "issue_open"}
  PROVE  Opened(s) = "issue_open"
  BY DEF Opened, WiAfter, Target, Sources

\* What a PR poll leads to is under way, and a session is given its item back
\* only by a retry.
LEMMA PrOutcomesType ==
  ASSUME NEW s \in PR_STATES, NEW mayRetry \in BOOLEAN,
         NEW after \in PrOutcomes(s, mayRetry)
  PROVE  /\ after \in UnderWay
         /\ after = "session_active" => mayRetry
  <1>1. CASE after \in AfterMerge(s)
    <2>1. WiAfter(IF s \in {"ready_for_human", "needs_human"}
                  THEN s ELSE WiAfter(s, "blocked"), "human_merged") = "merged"
      BY DEF PR_STATES, WiAfter, Target, Sources
    <2>2. /\ WiAfter("merged", "rescan_started") = "awaiting_rescan"
          /\ WiAfter("awaiting_rescan", "rescan_verified") = "verified"
          /\ WiAfter("awaiting_rescan", "rescan_shows_present") = "needs_human"
      BY DEF WiAfter, Target, Sources
    <2>3. after \in {"merged", "awaiting_rescan", "verified", "needs_human"}
      BY <1>1, <2>1, <2>2 DEF AfterMerge
    <2>4. QED BY <2>3 DEF UnderWay, States, UnboundStates
  <1>2. CASE after \notin AfterMerge(s)
    BY <1>2 DEF PrOutcomes, AfterClose, Heads, AfterRed, AfterGreen, PR_STATES,
                WiAfter, Target, Sources, UnderWay, States, UnboundStates
  <1>3. QED BY <1>1, <1>2

-----------------------------------------------------------------------------
(* How the parts about sessions survive the four kinds of change *)

\* No change to sessions and bindings.
LEMMA SessionsKept ==
  ASSUME SessionsInv, UNCHANGED <<owner, siblings, status, session, rows>>
  PROVE  SessionsInv'
  BY DEF SessionsInv, SessionsExist, CallsAreApart, OneCallAtWork,
         OnlyRepeatsWorkBeside, BindingIsRecorded, Active, Tagged

\* A human retry or a relaunch takes the session off the item.
LEMMA SessionReleased ==
  ASSUME SessionsInv, NEW i \in Items, session \in [Items -> Sessions \cup {NoSession}],
         session' = [session EXCEPT ![i] = NoSession],
         UNCHANGED <<owner, siblings, status, rows>>
  PROVE  SessionsInv'
  BY DEF SessionsInv, SessionsExist, CallsAreApart, OneCallAtWork,
         OnlyRepeatsWorkBeside, BindingIsRecorded, Active, Tagged

\* Binding an item to one of its sessions, of the only call at work for it.
LEMMA SessionBound ==
  ASSUME SessionsInv, NEW i \in Items, NEW s \in Tagged(i),
         session \in [Items -> Sessions \cup {NoSession}],
         Exclusive(i, s),
         session' = [session EXCEPT ![i] = s],
         rows' = rows \cup {s},
         UNCHANGED <<owner, siblings, status>>
  PROVE  SessionsInv'
  <1>1. SessionsExist' /\ CallsAreApart'
    <2>1. status[s] # "none"
      BY SetsAssumption DEF SessionsInv, SessionsExist, Tagged
    <2>2. QED BY <2>1 DEF SessionsInv, SessionsExist, CallsAreApart, Active
  <1>2. OneCallAtWork'
    BY DEF SessionsInv, OneCallAtWork, Active
  <1>3. OnlyRepeatsWorkBeside'
    BY DEF SessionsInv, OnlyRepeatsWorkBeside, Active, Tagged, Exclusive
  <1>4. BindingIsRecorded'
    BY DEF SessionsInv, BindingIsRecorded, Tagged
  <1>5. QED BY <1>1, <1>2, <1>3, <1>4 DEF SessionsInv

\* Devin moves one existing session; it becomes active only if it was.
LEMMA SessionMoved ==
  ASSUME SessionsInv, NEW s \in Sessions, NEW to \in Statuses \ {"none"},
         status \in [Sessions -> Statuses],
         status[s] # "none", to \in {"exited", "stalled"} \/ Active(s),
         status' = [status EXCEPT ![s] = to],
         UNCHANGED <<owner, siblings, session, rows>>
  PROVE  SessionsInv'
  BY DEF SessionsInv, SessionsExist, CallsAreApart, OneCallAtWork, Statuses,
         OnlyRepeatsWorkBeside, BindingIsRecorded, Active, Tagged

\* Devin makes sessions, on one call, for an item that has none alive and holds
\* none.
LEMMA SessionPosted ==
  ASSUME SessionsInv,
         owner \in [Sessions -> Items \cup {NoItem}],
         siblings \in [Sessions -> SUBSET Sessions],
         status \in [Sessions -> Statuses],
         rows \subseteq Sessions, cur \in Items, session[cur] = NoSession,
         session \in [Items -> Sessions \cup {NoSession}],
         \A t \in Tagged(cur) : ~Active(t),
         NEW S \in SUBSET Sessions, Posted(S),
         UNCHANGED <<session, rows>>
  PROVE  /\ SessionsInv'
         /\ \A s \in S : /\ owner'[s] = cur /\ s \notin rows
                         /\ \A t \in Sessions : owner'[t] = cur /\ Active(t)'
                                                => t \in siblings'[s]
  <1>1. \A s \in S : status[s] = "none" /\ owner[s] = NoItem /\ s \notin rows
    BY DEF Posted, SessionsInv, SessionsExist
  <1>2. \A t \in Sessions :
          /\ owner'[t] = IF t \in S THEN cur ELSE owner[t]
          /\ siblings'[t] = IF t \in S THEN S ELSE siblings[t]
          /\ status'[t] = IF t \in S THEN "working" ELSE status[t]
    BY DEF Posted
  <1>3. \A t \in Sessions : Active(t)' <=> Active(t) \/ t \in S
    BY <1>1, <1>2 DEF Active
  <1>4. \A t \in Sessions : owner'[t] = cur /\ Active(t)' => t \in S
    BY <1>2, <1>3 DEF Tagged
  <1>5. \A s \in S : /\ owner'[s] = cur /\ s \notin rows
                     /\ \A t \in Sessions : owner'[t] = cur /\ Active(t)'
                                            => t \in siblings'[s]
    BY <1>1, <1>2, <1>4
  <1>6. SessionsExist'
    BY <1>1, <1>2, <1>3, SetsAssumption DEF SessionsInv, SessionsExist
  <1>7. CallsAreApart'
    <2>1. \A t \in Sessions \ S : siblings[t] \cap S = {}
      BY <1>1 DEF SessionsInv, CallsAreApart
    <2>2. QED BY <1>2, <2>1 DEF SessionsInv, CallsAreApart
  <1>8. OneCallAtWork'
    <2> SUFFICES ASSUME NEW s \in Sessions, NEW t \in Sessions,
                        Active(s)', Active(t)', owner'[s] = owner'[t]
                 PROVE  t \in siblings'[s]
      BY DEF OneCallAtWork
    <2>1. CASE owner'[s] = cur
      BY <1>2, <1>4, <2>1
    <2>2. CASE owner'[s] # cur
      BY <1>2, <1>3, <2>2 DEF SessionsInv, OneCallAtWork
    <2>3. QED BY <2>1, <2>2
  <1>9. OnlyRepeatsWorkBeside'
    <2> SUFFICES ASSUME NEW i \in Items, session[i] # NoSession,
                        NEW s \in Sessions, owner'[s] = i, Active(s)'
                 PROVE  s \in siblings'[session[i]]
      BY DEF OnlyRepeatsWorkBeside, Tagged
    <2>1. i # cur /\ session[i] \in Sessions /\ owner[session[i]] = i
      BY DEF SessionsInv, BindingIsRecorded
    <2>2. session[i] \notin S /\ s \notin S
      BY <1>1, <1>2, <2>1, SetsAssumption
    <2>3. QED BY <1>2, <1>3, <2>1, <2>2
          DEF SessionsInv, OnlyRepeatsWorkBeside, Tagged
  <1>10. BindingIsRecorded'
    BY <1>1, <1>2 DEF SessionsInv, BindingIsRecorded, Tagged
  <1>11. QED BY <1>5, <1>6, <1>7, <1>8, <1>9, <1>10 DEF SessionsInv

\* A message may bring back the session an item holds, and no other.
LEMMA MessagedSession ==
  ASSUME SessionsInv, NEW i \in Items, session[i] # NoSession,
         session \in [Items -> Sessions \cup {NoSession}],
         status \in [Sessions -> Statuses],
         Messaged(i), UNCHANGED <<owner, siblings, session, rows>>
  PROVE  /\ SessionsInv'
         /\ status' \in [Sessions -> Statuses]
         /\ \A t \in Sessions : t # session[i] => (Active(t)' <=> Active(t))
         /\ Active(session[i])' \/ ~Active(session[i])
  <1>1. PICK s \in Sessions : s = session[i]
    OBVIOUS
  <1>2. PICK to \in {status[s], "working"} : status' = [status EXCEPT ![s] = to]
    BY <1>1 DEF Messaged
  <1>3. owner[s] = i /\ s \in rows /\ status[s] # "none"
    BY <1>1 DEF SessionsInv, BindingIsRecorded, SessionsExist
  <1>4. \A t \in Sessions : status'[t] = IF t = s THEN to ELSE status[t]
    BY <1>2
  <1>5. \A t \in Sessions : t # s => (Active(t)' <=> Active(t))
    BY <1>4 DEF Active
  <1>6. \A t \in Sessions :
          Active(t) /\ owner[t] = i => t \in siblings[s] /\ s \in siblings[t]
    BY <1>1, <1>3 DEF SessionsInv, OnlyRepeatsWorkBeside, Tagged, CallsAreApart
  <1>7. SessionsExist' /\ CallsAreApart'
    BY <1>3, <1>4, SetsAssumption
    DEF SessionsInv, SessionsExist, CallsAreApart, Active, Statuses
  <1>8. OneCallAtWork'
    <2>1. s \in siblings[s]
      BY <1>3 DEF SessionsInv, CallsAreApart
    <2>2. QED BY <1>3, <1>5, <1>6, <2>1 DEF SessionsInv, OneCallAtWork
  <1>9. OnlyRepeatsWorkBeside'
    <2>1. s \in siblings[s]
      BY <1>3 DEF SessionsInv, CallsAreApart
    <2>2. QED BY <1>1, <1>3, <1>5, <2>1
          DEF SessionsInv, OnlyRepeatsWorkBeside, Tagged
  <1>10. BindingIsRecorded'
    BY DEF SessionsInv, BindingIsRecorded
  <1>11. QED
    BY <1>1, <1>2, <1>4, <1>5, <1>7, <1>8, <1>9, <1>10
    DEF SessionsInv, Statuses, Active

-----------------------------------------------------------------------------
(* The inductive step, one lemma per action or group of alike actions *)

\* Where the program counter makes no promise, none is to be kept.
LEMMA NoPromise ==
  ASSUME pc' \in {"idle", "poll", "recover", "dispatch"}
  PROVE  ControlState'
  BY DEF ControlState

\* A poll of the session keeps the item bound and under way.
LEMMA PollSessionStep ==
  ASSUME IndInv, NEW i \in Items, PollSession(i)
  PROVE  IndInv'
  <1> USE DEF IndInv
  <1>1. PICK after \in UnderWay :
          state' = [state EXCEPT ![i] = after] /\ UNCHANGED session
    BY DispatchMoves
    DEF PollSession, Polled, Move, UnderWay, States, UnboundStates, TypeOK
  <1>2. TypeOK'
    <2>1. state' \in [Items -> States]
      BY <1>1 DEF TypeOK, UnderWay
    <2>2. seen' \in [Sessions -> 0..Cap]
      BY DEF PollSession, TypeOK
    <2>3. hasPr' \in [Items -> BOOLEAN]
      BY DEF PollSession, TypeOK
    <2>4. QED BY <2>1, <2>2, <2>3
          DEF PollSession, Polled, TypeOK, devinVars, Places
  <1>3. SessionsInv'
    BY SessionsKept DEF PollSession, Polled, devinVars
  <1>4. BoundItemsAreUnderWay'
    BY <1>1 DEF BoundItemsAreUnderWay, TypeOK, UnderWay
  <1>5. ControlState'
    BY NoPromise DEF PollSession, Polled
  <1>6. QED BY <1>2, <1>3, <1>4, <1>5

\* A poll of the pull request keeps the item bound, and a retry message goes to
\* the session it is bound to (_retry_or_fail).
LEMMA PollPullRequestStep ==
  ASSUME IndInv, NEW i \in Items, PollPullRequest(i)
  PROVE  IndInv'
  <1> USE DEF IndInv
  <1>1. PICK after \in PrOutcomes(state[i],
                         retries[i] < Retries /\ session[i] # NoSession) :
          /\ state' = [state EXCEPT ![i] = after]
          /\ \/ /\ after = "session_active"
                /\ retries' = [retries EXCEPT ![i] = @ + 1]
                /\ Messaged(i)
             \/ after # "session_active" /\ UNCHANGED <<retries, status>>
    BY DEF PollPullRequest
  <1>2. /\ after \in UnderWay
        /\ after = "session_active" => retries[i] < Retries /\ session[i] # NoSession
    BY PrOutcomesType DEF PollPullRequest
  <1>3. TypeOK'
    <2>1. state' \in [Items -> States]
      BY <1>1, <1>2 DEF TypeOK, UnderWay
    <2>2. retries' \in [Items -> 0..Retries]
      BY <1>1, <1>2, LimitsAssumption DEF TypeOK
    <2>3. status' \in [Sessions -> Statuses]
      BY <1>1, <1>2, MessagedSession DEF PollPullRequest, Polled, TypeOK
    <2>4. QED BY <2>1, <2>2, <2>3
          DEF PollPullRequest, Polled, TypeOK, Places
  <1>4. SessionsInv'
    BY <1>1, <1>2, SessionsKept, MessagedSession DEF PollPullRequest, Polled, TypeOK
  <1>5. BoundItemsAreUnderWay'
    BY <1>1, <1>2 DEF PollPullRequest, BoundItemsAreUnderWay, TypeOK, UnderWay
  <1>6. ControlState'
    BY NoPromise DEF PollPullRequest, Polled
  <1>7. QED BY <1>3, <1>4, <1>5, <1>6

\* A retry releases the session; any other label or a closure keeps it.
LEMMA PollHumanLabelsStep ==
  ASSUME IndInv, NEW i \in Items, PollHumanLabels(i)
  PROVE  IndInv'
  <1> USE DEF IndInv
  <1>1. PICK e \in {"human_abandoned", "human_retry", "human_resolved"} :
          /\ Move(i, e)
          /\ state[i] \in {"needs_human", "failed", "issue_open",
                           "ready_for_human"}
          /\ \/ e = "human_retry" /\ session' = [session EXCEPT ![i] = NoSession]
                /\ retries' = [retries EXCEPT ![i] = 0]
             \/ e # "human_retry" /\ UNCHANGED <<session, retries>>
    BY DEF PollHumanLabels
  <1>2. state' \in [Items -> States]
    BY <1>1, WiAfterType DEF Move, Events, TypeOK
  <1>3. TypeOK'
    BY <1>1, <1>2, LimitsAssumption
    DEF PollHumanLabels, Polled, TypeOK, devinVars, Places
  <1>4. SessionsInv'
    BY <1>1, SessionsKept, SessionReleased
    DEF PollHumanLabels, Polled, devinVars, TypeOK
  <1>5. BoundItemsAreUnderWay'
    <2>1. CASE e = "human_retry"
      BY <1>1, <2>1 DEF Move, BoundItemsAreUnderWay, TypeOK
    <2>2. CASE e # "human_retry"
      <3>1. state[i] \in UnderWay => WiAfter(state[i], e) \in UnderWay
        BY <1>1, <2>2, UnderWayStays DEF Events
      <3>2. QED BY <1>1, <2>2, <3>1
            DEF Move, BoundItemsAreUnderWay, TypeOK, UnderWay
    <2>3. QED BY <2>1, <2>2
  <1>6. ControlState'
    BY NoPromise DEF PollHumanLabels, Polled
  <1>7. QED BY <1>3, <1>4, <1>5, <1>6

\* The evaluation of a scan moves items that no session is working for, or that
\* stay under way (apply_scan_run).
LEMMA ApplyClosureStep ==
  ASSUME IndInv, NEW i \in Items, ApplyClosure(i)
  PROVE  IndInv'
  <1> USE DEF IndInv
  <1>1. PICK after \in States :
          /\ state' = [state EXCEPT ![i] = after]
          /\ state[i] \in UnderWay => after \in UnderWay
    <2>1. state[i] \in States
      BY DEF TypeOK
    <2>2. CASE state[i] \in Sources.superseded /\ Move(i, "superseded")
      BY <2>1, <2>2, WiAfterType DEF Move, Events, Sources, UnderWay, UnboundStates
    <2>3. CASE Move(i, "rescan_started")
      BY <2>1, <2>3, WiAfterType, UnderWayStays DEF Move, Events
    <2>4. ASSUME NEW e \in {"rescan_verified", "rescan_shows_present"},
                 state' = [state EXCEPT ![i] =
                             WiAfter(WiAfter(@, "rescan_started"), e)]
          PROVE  \E after \in States :
                   /\ state' = [state EXCEPT ![i] = after]
                   /\ state[i] \in UnderWay => after \in UnderWay
      <3>1. /\ WiAfter(state[i], "rescan_started") \in States
            /\ state[i] \in UnderWay
                 => WiAfter(state[i], "rescan_started") \in UnderWay
        BY <2>1, WiAfterType, UnderWayStays DEF Events
      <3>2. QED BY <2>4, <3>1, WiAfterType, UnderWayStays DEF Events
    <2>5. QED BY <2>2, <2>3, <2>4 DEF ApplyClosure
  <1>2. TypeOK'
    BY <1>1 DEF ApplyClosure, Polled, TypeOK, devinVars, Places
  <1>3. SessionsInv'
    BY SessionsKept DEF ApplyClosure, Polled, devinVars
  <1>4. BoundItemsAreUnderWay'
    BY <1>1 DEF ApplyClosure, BoundItemsAreUnderWay, TypeOK, UnderWay
  <1>5. ControlState'
    BY NoPromise DEF ApplyClosure, Polled
  <1>6. QED BY <1>2, <1>3, <1>4, <1>5

\* An issue opened, nothing done, or the next phase begun.
LEMMA QuietTickStep ==
  ASSUME IndInv,
         \/ \E i \in Items : OpenIssue(i) \/ PollNothing(i) \/ PassOver(i)
         \/ StartTick \/ EndPoll \/ EndRecover \/ EndDispatch
  PROVE  IndInv'
  <1> USE DEF IndInv
  <1>1. /\ UNCHANGED <<session, failures, retries, hasPr, rows, seen, devinVars,
                       approved, cur, made, launching, granted, interrupts>>
        /\ todo' \in SUBSET Items
        /\ pc' \in {"idle", "poll", "recover", "dispatch"}
        /\ \/ UNCHANGED state
           \/ \E i \in Items : state[i] = "queued" /\ Move(i, "issue_created")
    BY DEF OpenIssue, PollNothing, PassOver, NextTarget, StartTick, EndPoll,
           EndRecover, EndDispatch, Polled, dbVars, devinVars, TypeOK
  <1>2. state' \in [Items -> States]
    BY <1>1, DispatchMoves DEF Move, TypeOK, States
  <1>3. TypeOK'
    BY <1>1, <1>2 DEF TypeOK, devinVars, Places
  <1>4. SessionsInv'
    BY <1>1, SessionsKept DEF devinVars
  <1>5. BoundItemsAreUnderWay'
    BY <1>1 DEF Move, BoundItemsAreUnderWay, TypeOK, UnboundStates
  <1>6. ControlState'
    BY <1>1, NoPromise
  <1>7. QED BY <1>3, <1>4, <1>5, <1>6

DbTypeOK ==
  /\ state \in [Items -> States]
  /\ session \in [Items -> Sessions \cup {NoSession}]
  /\ failures \in [Items -> 0..MaxFailures]
  /\ retries \in [Items -> 0..Retries]
  /\ hasPr \in [Items -> BOOLEAN]
  /\ rows \subseteq Sessions
  /\ seen \in [Sessions -> 0..Cap]

\* Binding a dispatching item to its session ...
LEMMA BindKeeps ==
  ASSUME IndInv, NEW i \in Items, NEW s \in Tagged(i), NEW acus \in 0..Cap,
         NEW e \in {"session_created", "session_adopted"},
         state[i] = "dispatching", Exclusive(i, s),
         Bind(i, s, acus, e), UNCHANGED devinVars
  PROVE  DbTypeOK' /\ SessionsInv' /\ BoundItemsAreUnderWay'
  <1> USE DEF IndInv
  <1>1. state' = [state EXCEPT ![i] = "session_active"]
    BY DispatchMoves DEF Bind, Move, TypeOK
  <1>2. s \in Sessions
    BY DEF Tagged
  <1>3. DbTypeOK'
    BY <1>1, <1>2 DEF Bind, TypeOK, DbTypeOK, States
  <1>4. SessionsInv'
    BY SessionBound DEF Bind, TypeOK, devinVars
  <1>5. BoundItemsAreUnderWay'
    BY <1>1 DEF Bind, BoundItemsAreUnderWay, TypeOK, UnboundStates
  <1>6. QED BY <1>3, <1>4, <1>5

\* ... and giving its dispatch up.
LEMMA FailKeeps ==
  ASSUME IndInv, NEW i \in Items, state[i] = "dispatching", FailDispatch(i)
  PROVE  DbTypeOK' /\ BoundItemsAreUnderWay' /\ UNCHANGED <<session, rows>>
  <1> USE DEF IndInv
  <1>1. PICK after \in {"issue_open", "needs_human"} :
          state' = [state EXCEPT ![i] = after]
    BY DispatchMoves DEF FailDispatch, Move
  <1>2. failures' \in [Items -> 0..MaxFailures]
    BY LimitsAssumption DEF FailDispatch, TypeOK
  <1>3. DbTypeOK'
    BY <1>1, <1>2 DEF FailDispatch, TypeOK, DbTypeOK, States
  <1>4. session[i] = NoSession
    BY DEF BoundItemsAreUnderWay, UnboundStates
  <1>5. BoundItemsAreUnderWay'
    BY <1>1, <1>4 DEF FailDispatch, BoundItemsAreUnderWay, TypeOK
  <1>6. QED BY <1>3, <1>5 DEF FailDispatch

\* The session an adoption picks is of the only call that may be at work.
LEMMA PreferredIsTheOne ==
  ASSUME IndInv, NEW i \in Items, NEW s \in Preferred(Adoptable(i))
  PROVE  /\ s \in Tagged(i) /\ s \in Sessions
         /\ Exclusive(i, s)
  BY DEF IndInv, SessionsInv, OneCallAtWork, Preferred, Adoptable, Tagged,
         Exclusive

\* _recover_dispatching binds a session of the one call at work, or gives up.
LEMMA RecoverStep ==
  ASSUME IndInv, NEW i \in Items, Recover(i)
  PROVE  IndInv'
  <1> USE DEF IndInv
  <1>1. CASE \E s \in Preferred(Adoptable(i)) :
               Bind(i, s, spent[s], "session_adopted")
    <2>1. PICK s \in Preferred(Adoptable(i)) :
            Bind(i, s, spent[s], "session_adopted")
      BY <1>1
    <2>2. DbTypeOK' /\ SessionsInv' /\ BoundItemsAreUnderWay'
      BY <2>1, PreferredIsTheOne, BindKeeps DEF Recover, TypeOK
    <2>3. QED BY <2>2, NoPromise
          DEF Recover, TypeOK, DbTypeOK, devinVars, ctlVars
  <1>2. CASE FailDispatch(i)
    BY <1>2, FailKeeps, SessionsKept, NoPromise
    DEF Recover, TypeOK, DbTypeOK, devinVars, ctlVars
  <1>3. QED BY <1>1, <1>2 DEF Recover

\* The reservation of dispatch() makes the item the one under dispatch.
LEMMA ReserveStep ==
  ASSUME IndInv, NEW i \in Items, Reserve(i)
  PROVE  IndInv'
  <1> USE DEF IndInv
  <1>1. /\ state[i] = "issue_open"
        /\ state' = [state EXCEPT ![i] = "dispatching"]
    BY DispatchMoves DEF Reserve, Dispatchable, Move
  <1>2. TypeOK'
    BY <1>1 DEF Reserve, TypeOK, devinVars, Places, States
  <1>3. SessionsInv'
    BY SessionsKept DEF Reserve, devinVars
  <1>4. BoundItemsAreUnderWay'
    BY <1>1 DEF Reserve, BoundItemsAreUnderWay, TypeOK, UnboundStates
  <1>5. ControlState'
    BY <1>1 DEF Reserve, ControlState, TypeOK
  <1>6. QED BY <1>2, <1>3, <1>4, <1>5

\* launch() takes the session off the item before it reserves it again.
LEMMA LaunchStep ==
  ASSUME IndInv, NEW i \in Items, Launch(i) \/ LaunchFails(i)
  PROVE  IndInv'
  <1> USE DEF IndInv
  <1>1. Opened(state[i]) = "issue_open"
    BY OpenedType DEF Launch, LaunchFails, Revoked, Launchable, Eligible, ActionStates
  <1>2. PICK after \in {"issue_open", "dispatching"} :
          /\ state' = [state EXCEPT ![i] = after]
          /\ Launch(i) => after = "dispatching"
    BY <1>1, DispatchMoves DEF Launch, LaunchFails, Revoked
  <1>3. session'[i] = NoSession
    BY DEF Launch, LaunchFails, Revoked, Launchable, Eligible, ActionStates,
           ResetForRelaunch, TypeOK,
           BoundItemsAreUnderWay, UnboundStates
  <1>4. TypeOK'
    <2>1. /\ session' \in [Items -> Sessions \cup {NoSession}]
          /\ retries' \in [Items -> 0..Retries]
      BY LimitsAssumption DEF Launch, LaunchFails, Revoked, ResetForRelaunch, TypeOK
    <2>2. approved' \in [Items -> BOOLEAN]
      BY DEF Launch, LaunchFails, Revoked, TypeOK
    <2>3. state' \in [Items -> States]
      BY <1>2 DEF TypeOK, States
    <2>4. QED BY <2>1, <2>2, <2>3
          DEF Launch, LaunchFails, Revoked, TypeOK, devinVars, ctlVars, Places
  <1>5. SessionsInv'
    BY SessionsKept, SessionReleased
    DEF Launch, LaunchFails, Revoked, ResetForRelaunch, TypeOK, devinVars
  <1>6. BoundItemsAreUnderWay'
    BY <1>2, <1>3
    DEF Launch, LaunchFails, Revoked, ResetForRelaunch, BoundItemsAreUnderWay, TypeOK
  <1>7. ControlState'
    BY <1>2 DEF Launch, LaunchFails, Revoked, Launchable, Eligible, ActionStates,
                ControlState, TypeOK, ctlVars
  <1>8. QED BY <1>4, <1>5, <1>6, <1>7

\* Leaving _dispatch_one keeps the types and needs no promise.
LEMMA ReturnKeeps ==
  ASSUME TypeOK, DispatchReturns
  PROVE  /\ pc' \in {"idle", "dispatch"} /\ todo' \subseteq Items
         /\ cur' \in Items \cup {NoItem} /\ made' \in Sessions \cup {NoSession}
         /\ launching' \in BOOLEAN /\ granted' \in BOOLEAN
         /\ interrupts' \in 0..MaxInterrupts
  BY DEF TypeOK, DispatchReturns

\* Adoption binds a session of the one call at work; otherwise none is, which
\* is what creating a session relies on (_adopt_tagged_session).
LEMMA AdoptTaggedStep ==
  ASSUME IndInv, AdoptTagged
  PROVE  IndInv'
  <1> USE DEF IndInv
  <1>1. cur \in Items /\ state[cur] = "dispatching"
    BY DEF AdoptTagged, ControlState
  <1>2. CASE /\ DispatchReturns
             /\ \E s \in Preferred(Adoptable(cur)) :
                  Bind(cur, s, spent[s], "session_adopted")
    <2>1. PICK s \in Preferred(Adoptable(cur)) :
            Bind(cur, s, spent[s], "session_adopted")
      BY <1>2
    <2>2. DbTypeOK' /\ SessionsInv' /\ BoundItemsAreUnderWay'
      BY <1>1, <2>1, PreferredIsTheOne, BindKeeps DEF AdoptTagged, TypeOK
    <2>3. QED BY <1>2, <2>2, ReturnKeeps, NoPromise
          DEF AdoptTagged, TypeOK, DbTypeOK, devinVars, Places
  <1>3. CASE DispatchReturns /\ FailDispatch(cur)
    BY <1>1, <1>3, FailKeeps, SessionsKept, ReturnKeeps, NoPromise
    DEF AdoptTagged, TypeOK, DbTypeOK, devinVars, Places
  <1>4. CASE /\ Adoptable(cur) = {} /\ pc' = "create"
             /\ UNCHANGED <<dbVars, todo, cur, made, launching, granted,
                            interrupts>>
    <2>1. TypeOK'
      BY <1>4 DEF AdoptTagged, TypeOK, dbVars, devinVars, Places
    <2>2. SessionsInv' /\ BoundItemsAreUnderWay'
      BY <1>4, SessionsKept
      DEF AdoptTagged, BoundItemsAreUnderWay, dbVars, devinVars
    <2>3. \A s \in Tagged(cur) : ~Active(s)
      BY <1>4 DEF Adoptable
    <2>4. ControlState'
      BY <1>1, <1>4, <2>3
      DEF AdoptTagged, ControlState, dbVars, devinVars, Tagged, Active
    <2>5. QED BY <2>1, <2>2, <2>4
  <1>5. QED BY <1>2, <1>3, <1>4 DEF AdoptTagged

\* The call is made for an item that has no session alive, so that whatever comes
\* of it is of one call.
LEMMA CreateSessionStep ==
  ASSUME IndInv, CreateSession
  PROVE  IndInv'
  <1> USE DEF IndInv
  <1>1. /\ cur \in Items /\ state[cur] = "dispatching"
        /\ session[cur] = NoSession
        /\ \A t \in Tagged(cur) : ~Active(t)
    BY DEF CreateSession, ControlState, BoundItemsAreUnderWay, UnboundStates
  <1>2. PICK S \in SUBSET Sessions :
          /\ Posted(S)
          /\ \/ /\ made' \in S /\ pc' = "record"
                /\ UNCHANGED <<dbVars, todo, cur, launching, granted, interrupts>>
             \/ FailDispatch(cur) /\ DispatchReturns
    BY DEF CreateSession
  <1>3. /\ owner' \in [Sessions -> Items \cup {NoItem}]
        /\ siblings' \in [Sessions -> SUBSET Sessions]
        /\ status' \in [Sessions -> Statuses]
        /\ spent' \in [Sessions -> 0..Cap] /\ approved' \in [Items -> BOOLEAN]
    BY <1>1, <1>2 DEF Posted, TypeOK, Statuses, CreateSession
  <1>4. CASE /\ made' \in S /\ pc' = "record"
             /\ UNCHANGED <<dbVars, todo, cur, launching, granted, interrupts>>
    <2>1. TypeOK'
      BY <1>3, <1>4 DEF TypeOK, dbVars, Places
    <2>2. /\ SessionsInv'
          /\ \A s \in S : /\ owner'[s] = cur /\ s \notin rows
                          /\ \A t \in Sessions : owner'[t] = cur /\ Active(t)'
                                                 => t \in siblings'[s]
      BY <1>1, <1>2, <1>4, SessionPosted DEF TypeOK, dbVars
    <2>3. BoundItemsAreUnderWay'
      BY <1>4 DEF BoundItemsAreUnderWay, dbVars
    <2>4. ControlState'
      BY <1>1, <1>4, <2>2 DEF ControlState, Exclusive, dbVars, Tagged, Active
    <2>5. QED BY <2>1, <2>2, <2>3, <2>4
  <1>5. CASE FailDispatch(cur) /\ DispatchReturns
    <2>1. /\ DbTypeOK' /\ BoundItemsAreUnderWay'
          /\ UNCHANGED <<session, rows>>
      BY <1>1, <1>5, FailKeeps
    <2>2. TypeOK'
      BY <1>3, <1>5, <2>1, ReturnKeeps DEF TypeOK, DbTypeOK, Places
    <2>3. SessionsInv'
      BY <1>1, <1>2, <2>1, SessionPosted DEF TypeOK
    <2>4. QED BY <1>5, <2>1, <2>2, <2>3, ReturnKeeps, NoPromise
  <1>6. QED BY <1>2, <1>4, <1>5

\* The session just created is bound to its item, and recorded.
LEMMA RecordSessionStep ==
  ASSUME IndInv, RecordSession
  PROVE  IndInv'
  <1> USE DEF IndInv
  <1>1. /\ cur \in Items /\ state[cur] = "dispatching"
        /\ made \in Tagged(cur) /\ Exclusive(cur, made)
    BY DEF RecordSession, ControlState
  <1>2. DbTypeOK' /\ SessionsInv' /\ BoundItemsAreUnderWay'
    BY <1>1, BindKeeps, LimitsAssumption DEF RecordSession
  <1>3. QED BY <1>2, ReturnKeeps, NoPromise
        DEF RecordSession, TypeOK, DbTypeOK, devinVars, Places

\* The operator's cancel, and a launch that only leaves its label.
LEMMA OperatorStepKeeps ==
  ASSUME IndInv,
         \/ \E i \in Items : LaunchInterrupted(i) \/ Cancel(i)
         \/ TerminateSession \/ RecordCancel
  PROVE  IndInv'
  <1> USE DEF IndInv
  <1>1. CASE \E i \in Items : LaunchInterrupted(i)
    <2>1. TypeOK'
      BY <1>1, LimitsAssumption DEF LaunchInterrupted, TypeOK, dbVars, devinVars
    <2>2. SessionsInv'
      BY <1>1, SessionsKept DEF LaunchInterrupted, dbVars, devinVars
    <2>3. BoundItemsAreUnderWay' /\ ControlState'
      BY <1>1 DEF LaunchInterrupted, Launchable, Eligible, ActionStates, BoundItemsAreUnderWay,
                  ControlState, dbVars
    <2>4. QED BY <2>1, <2>2, <2>3
  <1>2. CASE \E i \in Items : Cancel(i)
    <2>1. TypeOK'
      BY <1>2 DEF Cancel, Cancelable, TypeOK, dbVars, devinVars, Places
    <2>2. SessionsInv'
      BY <1>2, SessionsKept DEF Cancel, Cancelable, dbVars, devinVars
    <2>3. BoundItemsAreUnderWay' /\ ControlState'
      BY <1>2 DEF Cancel, Cancelable, BoundItemsAreUnderWay, ControlState, dbVars
    <2>4. QED BY <2>1, <2>2, <2>3
  <1>3. CASE TerminateSession
    <2>1. /\ cur \in Items /\ session[cur] \in Sessions
          /\ status[session[cur]] # "none"
      BY <1>3 DEF TerminateSession, ControlState, SessionsInv, SessionsExist,
                  TypeOK
    <2>2. TypeOK'
      BY <1>3, <2>1 DEF TerminateSession, TypeOK, dbVars, Places, Statuses
    <2>3. SessionsInv'
      BY <1>3, <2>1, SessionsKept, SessionMoved
      DEF TerminateSession, TypeOK, dbVars, Statuses
    <2>4. BoundItemsAreUnderWay' /\ ControlState'
      BY <1>3 DEF TerminateSession, BoundItemsAreUnderWay, ControlState, dbVars
    <2>5. QED BY <2>2, <2>3, <2>4
  <1>4. CASE RecordCancel
    <2>1. /\ cur \in Items /\ session[cur] \in Sessions
          /\ state' = [state EXCEPT ![cur] = "needs_human"]
      BY <1>4, DispatchMoves DEF RecordCancel, ControlState, Move, TypeOK
    <2>2. TypeOK'
      BY <1>4, <2>1
      DEF RecordCancel, TypeOK, devinVars, Places, States
    <2>3. SessionsInv'
      BY <1>4, SessionsKept DEF RecordCancel, devinVars
    <2>4. BoundItemsAreUnderWay'
      BY <1>4, <2>1
      DEF RecordCancel, BoundItemsAreUnderWay, TypeOK, UnboundStates
    <2>5. QED BY <1>4, <2>2, <2>3, <2>4, NoPromise DEF RecordCancel
  <1>5. QED BY <1>1, <1>2, <1>3, <1>4

\* A crash loses the program counter and commits nothing.
LEMMA InterruptStep ==
  ASSUME IndInv, Interrupt
  PROVE  IndInv'
  <1> USE DEF IndInv
  <1>1. TypeOK'
    <2>1. interrupts' \in 0..MaxInterrupts
      BY LimitsAssumption DEF Interrupt, TypeOK
    <2>2. QED BY <2>1 DEF Interrupt, TypeOK, dbVars, devinVars, Places
  <1>2. SessionsInv'
    BY SessionsKept DEF Interrupt, dbVars, devinVars
  <1>3. BoundItemsAreUnderWay'
    BY DEF Interrupt, BoundItemsAreUnderWay, dbVars
  <1>4. QED BY <1>1, <1>2, <1>3, NoPromise DEF Interrupt

\* A message sent before the tick is unwound comes to the session the item holds.
LEMMA RetryInterruptedStep ==
  ASSUME IndInv, NEW i \in Items, RetryInterrupted(i)
  PROVE  IndInv'
  <1> USE DEF IndInv
  <1>1. SessionsInv' /\ status' \in [Sessions -> Statuses]
    BY MessagedSession DEF RetryInterrupted, dbVars, TypeOK
  <1>2. interrupts' \in 0..MaxInterrupts
    BY LimitsAssumption DEF RetryInterrupted, TypeOK
  <1>3. TypeOK'
    BY <1>1, <1>2 DEF RetryInterrupted, TypeOK, dbVars, Places
  <1>4. BoundItemsAreUnderWay'
    BY DEF RetryInterrupted, BoundItemsAreUnderWay, dbVars
  <1>5. QED BY <1>1, <1>3, <1>4, NoPromise DEF RetryInterrupted

\* Members that join an item are told to the session it holds.
LEMMA MembersJoinStep ==
  ASSUME IndInv, NEW i \in Items, MembersJoin(i)
  PROVE  IndInv'
  <1> USE DEF IndInv
  <1>1. SessionsInv' /\ status' \in [Sessions -> Statuses]
    BY MessagedSession DEF MembersJoin, dbVars, TypeOK
  <1>2. TypeOK'
    BY <1>1 DEF MembersJoin, TypeOK, dbVars, ctlVars
  <1>3. BoundItemsAreUnderWay'
    BY DEF MembersJoin, BoundItemsAreUnderWay, dbVars
  <1>4. QED BY <1>1, <1>2, <1>3, NoPromise DEF MembersJoin, ctlVars

\* Devin moves a session that exists; a promise about the item under dispatch
\* only ever mentions sessions that are not active, or the new one.
LEMMA SessionStep ==
  ASSUME IndInv, NEW s \in Sessions, NEW from, NEW to \in Statuses \ {"none"},
         SetStatus(s, from, to), status[s] # "none",
         to \in {"exited", "stalled"} \/ Active(s)
  PROVE  IndInv'
  <1> USE DEF IndInv
  <1>1. TypeOK'
    BY DEF SetStatus, TypeOK, dbVars, ctlVars
  <1>2. SessionsInv'
    BY SessionMoved DEF SetStatus, TypeOK, dbVars
  <1>3. \A t \in Sessions : Active(t)' => Active(t)
    BY DEF SetStatus, Active, TypeOK
  <1>4. BoundItemsAreUnderWay' /\ ControlState'
    BY <1>3 DEF SetStatus, BoundItemsAreUnderWay, ControlState, Exclusive, Tagged, dbVars,
                ctlVars
  <1>5. QED BY <1>1, <1>2, <1>4

\* What Devin and people do between two steps of the controller.
LEMMA EnvironmentStepKeeps ==
  ASSUME IndInv, EnvironmentStep
  PROVE  IndInv'
  <1>1. ASSUME NEW s \in Sessions, Report(s) \/ WakeUp(s) \/ Exit(s) \/ Stall(s)
        PROVE  IndInv'
    <2>1. status[s] # "none" /\ Active(s)
      BY <1>1 DEF Report, WakeUp, Exit, Stall, SetStatus, Active
    <2>2. QED BY <1>1, <2>1, SessionStep DEF Report, WakeUp, Exit, Stall, Statuses
  <1>2. ASSUME NEW s \in Sessions, Spend(s)
        PROVE  IndInv'
    <2> USE DEF IndInv
    <2>1. TypeOK'
      BY <1>2, LimitsAssumption DEF Spend, TypeOK, dbVars, ctlVars
    <2>2. SessionsInv'
      BY <1>2, SessionsKept DEF Spend, dbVars
    <2>3. BoundItemsAreUnderWay' /\ ControlState'
      BY <1>2 DEF Spend, BoundItemsAreUnderWay, ControlState, Exclusive, Tagged, Active,
                  dbVars, ctlVars
    <2>4. QED BY <2>1, <2>2, <2>3
  <1>3. ASSUME NEW i \in Items, LabelApproval(i)
        PROVE  IndInv'
    <2> USE DEF IndInv
    <2>1. TypeOK'
      BY <1>3 DEF LabelApproval, TypeOK, dbVars, devinVars, ctlVars
    <2>2. SessionsInv'
      BY <1>3, SessionsKept DEF LabelApproval, dbVars, devinVars
    <2>3. BoundItemsAreUnderWay' /\ ControlState'
      BY <1>3 DEF LabelApproval, BoundItemsAreUnderWay, ControlState, Exclusive, Tagged,
                  Active, dbVars, devinVars, ctlVars
    <2>4. QED BY <2>1, <2>2, <2>3
  <1>4. QED BY <1>1, <1>2, <1>3 DEF EnvironmentStep

-----------------------------------------------------------------------------
(* The theorems *)

\* An empty database, and no session at Devin.
LEMMA InitEstablishes == Init => IndInv
  <1> SUFFICES ASSUME Init PROVE IndInv
    OBVIOUS
  <1>1. TypeOK
    <2>1. 0 \in 0..MaxFailures /\ 0 \in 0..Retries /\ 0 \in 0..Cap
          /\ 0 \in 0..MaxInterrupts
      BY LimitsAssumption
    <2>2. QED BY <2>1 DEF Init, TypeOK, States, Statuses, Places
  <1>2. SessionsInv
    BY SetsAssumption
    DEF Init, SessionsInv, SessionsExist, CallsAreApart, OneCallAtWork, Active, Tagged,
        OnlyRepeatsWorkBeside, BindingIsRecorded
  <1>3. BoundItemsAreUnderWay /\ ControlState
    BY DEF Init, BoundItemsAreUnderWay, ControlState
  <1>4. QED BY <1>1, <1>2, <1>3 DEF IndInv

\* A step that changes nothing keeps the invariant.
LEMMA StutterKeeps ==
  ASSUME IndInv, UNCHANGED vars
  PROVE  IndInv'
  <1> USE DEF IndInv
  <1>1. TypeOK'
    BY DEF vars, TypeOK, dbVars, devinVars, ctlVars
  <1>2. SessionsInv'
    BY SessionsKept DEF vars, dbVars, devinVars
  <1>3. BoundItemsAreUnderWay' /\ ControlState'
    BY DEF vars, BoundItemsAreUnderWay, ControlState, Exclusive, Tagged, Active, dbVars,
           devinVars, ctlVars
  <1>4. QED BY <1>1, <1>2, <1>3

\* Every step of the controller and of its surroundings keeps the invariant.
LEMMA NextKeeps ==
  ASSUME IndInv, [Next]_vars
  PROVE  IndInv'
  <1>0. ASSUME NEW i \in Items, MembersJoin(i)
        PROVE  IndInv'
    BY <1>0, MembersJoinStep
  <1>1. CASE TickStep
    <2>1. ASSUME NEW i \in Items,
                 PollItem(i) \/ Recover(i) \/ Reserve(i) \/ PassOver(i)
          PROVE  IndInv'
      BY <2>1, PollSessionStep, PollPullRequestStep, PollHumanLabelsStep,
         ApplyClosureStep, QuietTickStep, RecoverStep, ReserveStep DEF PollItem
    <2>2. CASE DispatchOne
      BY <2>2, AdoptTaggedStep, CreateSessionStep, RecordSessionStep
      DEF DispatchOne
    <2>3. CASE StartTick \/ EndPoll \/ EndRecover \/ EndDispatch
      BY <2>3, QuietTickStep
    <2>4. QED BY <1>1, <2>1, <2>2, <2>3 DEF TickStep
  <1>2. CASE OperatorStep
    BY <1>2, LaunchStep, OperatorStepKeeps DEF OperatorStep
  <1>3. CASE Interruption
    BY <1>3, InterruptStep, RetryInterruptedStep DEF Interruption
  <1>4. CASE EnvironmentStep
    BY <1>4, EnvironmentStepKeeps
  <1>5. CASE UNCHANGED vars
    BY <1>5, StutterKeeps
  <1>6. QED BY <1>0, <1>1, <1>2, <1>3, <1>4, <1>5 DEF Next, Tick

\* The inductive invariant of the dispatch code holds in every reachable state,
\* however many items, sessions, crashes and lost answers there are.
THEOREM DispatchInvariant == Spec => []IndInv
  <1>1. Init => IndInv
    BY InitEstablishes
  <1>2. IndInv /\ [Next]_vars => IndInv'
    BY NextKeeps
  <1>3. QED BY <1>1, <1>2, PTL DEF Spec

\* Every variable of the dispatch code keeps its type.
THEOREM DispatchTypeOK == Spec => []TypeOK
  <1>1. IndInv => TypeOK
    BY DEF IndInv
  <1>2. QED BY <1>1, DispatchInvariant, PTL

\* All sessions of a work item that can still produce work come from one create
\* call: reserving, adopting by tag and recording (_dispatch_one) survive every
\* crash, cancel, lost answer and human retry, and however often the client
\* repeats its calls no second call is made while the first one's can act.
THEOREM AtMostOneCallAtWork == Spec => []OneCallAtWork
  <1>1. IndInv => OneCallAtWork
    BY DEF IndInv, SessionsInv
  <1>2. QED BY <1>1, DispatchInvariant, PTL

\* While an item is bound to a session, every session of the item that can still
\* act was made by the same create call as that one.
THEOREM RepeatsOnlyWorkBeside == Spec => []OnlyRepeatsWorkBeside
  <1>1. IndInv => OnlyRepeatsWorkBeside
    BY DEF IndInv, SessionsInv
  <1>2. QED BY <1>1, DispatchInvariant, PTL

\* A bound session is on record and carries the tag of its one item.
THEOREM BindingsAreRecorded == Spec => []BindingIsRecorded
  <1>1. IndInv => BindingIsRecorded
    BY DEF IndInv, SessionsInv
  <1>2. QED BY <1>1, DispatchInvariant, PTL

-----------------------------------------------------------------------------
(* No item is left where no poll looks for it *)

\* NothingIsStranded of one item.
Placed(i) ==
  /\ state[i] \notin {"pr_open", "checks_failed"}
  /\ state[i] = "session_active" => session[i] # NoSession
  /\ state[i] \in {"checks_running", "review_pending", "ready_for_human"}
       => hasPr[i]

\* States that ask for neither a session nor a pull request.
RestStates == States \ { "session_active", "pr_open", "checks_running",
                         "checks_failed", "review_pending", "ready_for_human" }

\* Items a step does not touch stay where they were.
LEMMA PlacedStays ==
  ASSUME NothingIsStranded, NEW i \in Items,
         \A j \in Items \ {i} : /\ state'[j] = state[j]
                                /\ session'[j] = session[j]
                                /\ hasPr'[j] = hasPr[j],
         Placed(i)'
  PROVE  NothingIsStranded'
  BY DEF NothingIsStranded, Placed

\* An item a step brings to rest needs nothing more.
LEMMA PlacedAtRest ==
  ASSUME IndInv, NothingIsStranded, NEW i \in Items, NEW after \in RestStates,
         state' = [state EXCEPT ![i] = after],
         \A j \in Items \ {i} : session'[j] = session[j],
         UNCHANGED hasPr
  PROVE  NothingIsStranded'
  <1>1. /\ state'[i] = after
        /\ \A j \in Items \ {i} : state'[j] = state[j]
    BY DEF IndInv, TypeOK
  <1>2. Placed(i)'
    BY <1>1 DEF Placed, RestStates
  <1>3. QED BY <1>1, <1>2, PlacedStays

\* The verdict on a session sends its item on with its pull request, or to a
\* human; an item still at work keeps its session (_apply_snapshot).
LEMMA PollSessionPlaces ==
  ASSUME IndInv, NothingIsStranded, NEW i \in Items, PollSession(i)
  PROVE  NothingIsStranded'
  <1> USE DEF IndInv
  <1>1. CASE Move(i, "blocked") /\ UNCHANGED <<session, hasPr>>
    <2>1. state' = [state EXCEPT ![i] = "needs_human"]
      BY <1>1, DispatchMoves DEF PollSession, Move, TypeOK
    <2>2. QED BY <1>1, <2>1, PlacedAtRest DEF RestStates, States
  <1>2. CASE /\ hasPr' = [hasPr EXCEPT ![i] = TRUE]
             /\ state' = [state EXCEPT ![i] =
                            WiAfter(WiAfter(@, "pr_opened"), "checks_started")]
             /\ UNCHANGED session
    <2>1. state' = [state EXCEPT ![i] = "checks_running"]
      BY <1>2, DispatchMoves DEF PollSession, TypeOK
    <2>2. Placed(i)'
      BY <1>2, <2>1 DEF Placed, TypeOK
    <2>3. QED BY <1>2, <2>1, <2>2, PlacedStays DEF TypeOK
  <1>3. CASE UNCHANGED <<state, session, hasPr>>
    BY <1>3 DEF NothingIsStranded
  <1>4. QED BY <1>1, <1>2, <1>3 DEF PollSession

\* No outcome of a pull request poll is a state the next poll passes over
\* (_apply_pr fires the follow-up of pr_open and checks_failed itself).
LEMMA PrOutcomesPlaced ==
  ASSUME NEW s \in PR_STATES, NEW mayRetry \in BOOLEAN,
         NEW after \in PrOutcomes(s, mayRetry)
  PROVE  after \notin {"pr_open", "checks_failed"}
  <1>1. CASE after \in AfterMerge(s)
    <2>1. WiAfter(IF s \in {"ready_for_human", "needs_human"}
                  THEN s ELSE WiAfter(s, "blocked"), "human_merged") = "merged"
      BY DEF PR_STATES, WiAfter, Target, Sources
    <2>2. /\ WiAfter("merged", "rescan_started") = "awaiting_rescan"
          /\ WiAfter("awaiting_rescan", "rescan_verified") = "verified"
          /\ WiAfter("awaiting_rescan", "rescan_shows_present") = "needs_human"
      BY DEF WiAfter, Target, Sources
    <2>3. QED BY <1>1, <2>1, <2>2 DEF AfterMerge
  <1>2. CASE after \notin AfterMerge(s)
    BY <1>2 DEF PrOutcomes, AfterClose, Heads, AfterRed, AfterGreen, PR_STATES,
                WiAfter, Target, Sources
  <1>3. QED BY <1>1, <1>2

\* A poll of the pull request leaves the pull request, and goes back to a
\* session only if there is one.
LEMMA PollPullRequestPlaces ==
  ASSUME IndInv, NothingIsStranded, NEW i \in Items, PollPullRequest(i)
  PROVE  NothingIsStranded'
  <1> USE DEF IndInv
  <1>1. PICK after \in PrOutcomes(state[i],
                         retries[i] < Retries /\ session[i] # NoSession) :
          state' = [state EXCEPT ![i] = after]
    BY DEF PollPullRequest
  <1>2. /\ after = "session_active" => session[i] # NoSession
        /\ after \notin {"pr_open", "checks_failed"}
        /\ hasPr[i] /\ UNCHANGED <<session, hasPr>>
    BY <1>1, PrOutcomesType, PrOutcomesPlaced DEF PollPullRequest
  <1>3. /\ state'[i] = after
        /\ \A j \in Items \ {i} : state'[j] = state[j]
    BY <1>1 DEF TypeOK
  <1>4. Placed(i)'
    BY <1>2, <1>3 DEF Placed
  <1>5. QED BY <1>2, <1>3, <1>4, PlacedStays

\* Humans and scans bring items to rest.
LEMMA RestingMoves ==
  ASSUME IndInv, NothingIsStranded, NEW i \in Items,
         PollHumanLabels(i) \/ ApplyClosure(i) \/ OpenIssue(i)
  PROVE  NothingIsStranded'
  <1> USE DEF IndInv
  <1>1. CASE PollHumanLabels(i)
    <2>1. PICK e \in {"human_abandoned", "human_retry", "human_resolved"} :
            /\ Move(i, e)
            /\ state[i] \in {"needs_human", "failed", "issue_open",
                             "ready_for_human"}
            /\ state[i] \notin {"needs_human", "failed"} => e = "human_abandoned"
      BY <1>1 DEF PollHumanLabels
    <2>2. WiAfter(state[i], e) \in RestStates
      BY <2>1 DEF WiAfter, Target, Sources, RestStates, States
    <2>3. \A j \in Items \ {i} : session'[j] = session[j]
      BY <1>1 DEF PollHumanLabels, TypeOK
    <2>4. QED BY <1>1, <2>1, <2>2, <2>3, PlacedAtRest DEF Move, PollHumanLabels
  <1>2. CASE ApplyClosure(i)
    <2>1. PICK after \in RestStates : state' = [state EXCEPT ![i] = after]
      <3>1. /\ \A s \in Sources.superseded : WiAfter(s, "superseded") = "abandoned"
            /\ \A s \in Sources.rescan_started :
                 WiAfter(s, "rescan_started") = "awaiting_rescan"
            /\ WiAfter("awaiting_rescan", "rescan_verified") = "verified"
            /\ WiAfter("awaiting_rescan", "rescan_shows_present") = "needs_human"
        BY DEF WiAfter, Target, Sources
      <3>2. {"abandoned", "awaiting_rescan", "verified", "needs_human"}
              \subseteq RestStates
        BY DEF RestStates, States
      <3>3. QED BY <1>2, <3>1, <3>2 DEF ApplyClosure, Move
    <2>2. QED BY <1>2, <2>1, PlacedAtRest DEF ApplyClosure
  <1>3. CASE OpenIssue(i)
    <2>1. state' = [state EXCEPT ![i] = "issue_open"]
      BY <1>3 DEF OpenIssue, Move, WiAfter, Target, Sources
    <2>2. QED BY <1>3, <2>1, PlacedAtRest DEF OpenIssue, RestStates, States
  <1>4. QED BY <1>1, <1>2, <1>3

\* A dispatch ends with a session, or gives the item back to the queue.
LEMMA DispatchPlaces ==
  ASSUME IndInv, NothingIsStranded, NEW i \in Items, state[i] = "dispatching",
         \/ FailDispatch(i)
         \/ \E s \in Sessions : \E acus :
              \/ Bind(i, s, acus, "session_adopted")
              \/ Bind(i, s, acus, "session_created")
  PROVE  NothingIsStranded'
  <1> USE DEF IndInv
  <1>1. CASE FailDispatch(i)
    <2>1. PICK after \in {"issue_open", "needs_human"} :
            state' = [state EXCEPT ![i] = after]
      BY <1>1, DispatchMoves DEF FailDispatch, Move
    <2>2. QED BY <1>1, <2>1, PlacedAtRest DEF FailDispatch, RestStates, States
  <1>2. ASSUME NEW s \in Sessions, NEW acus,
               NEW e \in {"session_adopted", "session_created"},
               Bind(i, s, acus, e)
        PROVE  NothingIsStranded'
    <2>1. /\ state' = [state EXCEPT ![i] = "session_active"]
          /\ session' = [session EXCEPT ![i] = s] /\ UNCHANGED hasPr
      BY <1>2, DispatchMoves DEF Bind, Move, TypeOK
    <2>2. Placed(i)'
      BY <2>1, SetsAssumption DEF Placed, TypeOK
    <2>3. QED BY <2>1, <2>2, PlacedStays DEF TypeOK
  <1>3. QED BY <1>1, <1>2

\* A reservation, a launch and a cancel leave the item where the next tick or
\* the recovery finds it.
LEMMA OperatorPlaces ==
  ASSUME IndInv, NothingIsStranded,
         \/ RecordCancel
         \/ \E i \in Items : Reserve(i) \/ Launch(i) \/ LaunchFails(i)
  PROVE  NothingIsStranded'
  <1> USE DEF IndInv
  <1>1. CASE RecordCancel
    <2>1. cur \in Items /\ state' = [state EXCEPT ![cur] = "needs_human"]
      BY <1>1, DispatchMoves DEF RecordCancel, ControlState, Move, TypeOK
    <2>2. QED BY <1>1, <2>1, PlacedAtRest DEF RecordCancel, RestStates, States
  <1>2. ASSUME NEW i \in Items, Reserve(i)
        PROVE  NothingIsStranded'
    <2>1. state' = [state EXCEPT ![i] = "dispatching"]
      BY <1>2, DispatchMoves DEF Reserve, Dispatchable, Move
    <2>2. QED BY <1>2, <2>1, PlacedAtRest DEF Reserve, RestStates, States
  <1>3. ASSUME NEW i \in Items, Launch(i) \/ LaunchFails(i)
        PROVE  NothingIsStranded'
    <2>1. Opened(state[i]) = "issue_open"
      BY <1>3, OpenedType DEF Launch, LaunchFails, Launchable, Eligible, ActionStates
    <2>2. PICK after \in {"issue_open", "dispatching"} :
            state' = [state EXCEPT ![i] = after]
      BY <1>3, <2>1, DispatchMoves DEF Launch, LaunchFails
    <2>3. \A j \in Items \ {i} : session'[j] = session[j]
      BY <1>3 DEF Launch, LaunchFails, ResetForRelaunch, TypeOK
    <2>4. QED BY <1>3, <2>2, <2>3, PlacedAtRest
          DEF Launch, LaunchFails, RestStates, States
  <1>4. QED BY <1>1, <1>2, <1>3

\* Every other step leaves the items alone.
LEMMA StepPlaces ==
  ASSUME IndInv, NothingIsStranded, [Next]_vars
  PROVE  NothingIsStranded'
  <1>1. CASE UNCHANGED <<state, session, hasPr>>
    BY <1>1 DEF NothingIsStranded
  <1>2. ASSUME NEW i \in Items, PollItem(i)
        PROVE  NothingIsStranded'
    BY <1>1, <1>2, PollSessionPlaces, PollPullRequestPlaces, RestingMoves
    DEF PollItem, PollNothing, dbVars
  <1>3. ASSUME NEW i \in Items, Recover(i)
        PROVE  NothingIsStranded'
    <2>1. state[i] = "dispatching"
      BY <1>3 DEF Recover
    <2>2. CASE FailDispatch(i)
      BY <2>1, <2>2, DispatchPlaces
    <2>3. ASSUME NEW s \in Preferred(Adoptable(i)),
                 Bind(i, s, spent[s], "session_adopted")
          PROVE  NothingIsStranded'
      <3>1. s \in Sessions
        BY PreferredIsTheOne
      <3>2. QED BY <2>1, <2>3, <3>1, DispatchPlaces
    <2>4. QED BY <1>3, <2>2, <2>3 DEF Recover
  <1>4. CASE DispatchOne
    <2>1. cur \in Items /\ state[cur] = "dispatching"
      BY <1>4 DEF DispatchOne, AdoptTagged, CreateSession, RecordSession, IndInv,
                  ControlState
    <2>2. CASE FailDispatch(cur)
      BY <2>1, <2>2, DispatchPlaces
    <2>3. ASSUME NEW s \in Preferred(Adoptable(cur)),
                 Bind(cur, s, spent[s], "session_adopted")
          PROVE  NothingIsStranded'
      <3>1. s \in Sessions
        BY <2>1, PreferredIsTheOne
      <3>2. QED BY <2>1, <2>3, <3>1, DispatchPlaces
    <2>4. CASE RecordSession
      <3>1. made \in Sessions
        BY <2>4 DEF RecordSession, IndInv, ControlState, Tagged
      <3>2. QED BY <2>1, <2>4, <3>1, DispatchPlaces DEF RecordSession
    <2>5. QED BY <1>1, <1>4, <2>2, <2>3, <2>4
          DEF DispatchOne, AdoptTagged, CreateSession, dbVars
  <1>5. CASE OperatorStep
    BY <1>1, <1>5, OperatorPlaces
    DEF OperatorStep, TerminateSession, LaunchInterrupted, Cancel, dbVars
  <1>6. CASE \/ StartTick \/ EndPoll \/ EndRecover \/ EndDispatch
             \/ \E i \in Items : Reserve(i) \/ PassOver(i)
    BY <1>1, <1>6, OperatorPlaces
    DEF StartTick, EndPoll, EndRecover, EndDispatch, PassOver, dbVars
  <1>7. CASE EnvironmentStep \/ Interruption \/ UNCHANGED vars
    BY <1>1, <1>7
    DEF EnvironmentStep, Report, WakeUp, Exit, Stall, SetStatus, Spend, LabelApproval,
        Interruption, Interrupt, RetryInterrupted, vars, dbVars
  <1>8. CASE \E i \in Items : MembersJoin(i)
    BY <1>1, <1>8 DEF MembersJoin, dbVars
  <1>9. QED
    BY <1>2, <1>3, <1>4, <1>5, <1>6, <1>7, <1>8 DEF Next, Tick, TickStep

\* No step, no crash and no failed call leaves an item in a state that the polls
\* do not look at, or without what they look it up by.
THEOREM NothingIsEverStranded == Spec => []NothingIsStranded
  <1>1. Init => NothingIsStranded
    BY DEF Init, NothingIsStranded
  <1>2. IndInv /\ NothingIsStranded /\ [Next]_vars => NothingIsStranded'
    BY StepPlaces
  <1>3. QED BY <1>1, <1>2, DispatchInvariant, PTL DEF Spec

-----------------------------------------------------------------------------
(* What was checked when an item was reserved still holds when its session is *)
(* created, some steps later                                                  *)

Reserving == {"adopt", "create"}

\* A reservation under way is the only thing that moves an item: its steps are
\* the controller's own, and it commits nothing before the session is created.
LEMMA ReservationStays ==
  ASSUME IndInv, [Next]_vars, pc \in Reserving, pc' \in Reserving
  PROVE  UNCHANGED dbVars
  <1>1. CASE TickStep
    BY <1>1
    DEF TickStep, StartTick, EndPoll, EndRecover, EndDispatch, DispatchOne,
        AdoptTagged, CreateSession, RecordSession, DispatchReturns, PollItem,
        PollSession, PollPullRequest, PollHumanLabels, ApplyClosure, OpenIssue,
        PollNothing, Polled, Recover, Reserve, PassOver, NextTarget, Reserving
  <1>2. CASE OperatorStep
    BY <1>2
    DEF OperatorStep, TerminateSession, RecordCancel, Launch, LaunchFails,
        LaunchInterrupted, Launchable, Cancel, Reserving
  <1>3. CASE Interruption \/ EnvironmentStep \/ UNCHANGED vars
    BY <1>3
    DEF Interruption, Interrupt, RetryInterrupted, EnvironmentStep, Report,
        WakeUp, Exit, Stall, SetStatus, Spend, LabelApproval, vars, Reserving
  <1>4. CASE \E i \in Items : MembersJoin(i)
    BY <1>4 DEF MembersJoin, Reserving
  <1>5. QED BY <1>1, <1>2, <1>3, <1>4 DEF Next, Tick

\* A dispatch begins with the reservation of the loop or of a launch.
LEMMA ReservationBegins ==
  ASSUME IndInv, [Next]_vars, pc \notin Reserving, pc' \in Reserving
  PROVE  \E i \in Items : Reserve(i) \/ Launch(i)
  <1>1. CASE TickStep
    BY <1>1
    DEF TickStep, StartTick, EndPoll, EndRecover, EndDispatch, DispatchOne,
        AdoptTagged, CreateSession, RecordSession, DispatchReturns, PollItem,
        PollSession, PollPullRequest, PollHumanLabels, ApplyClosure, OpenIssue,
        PollNothing, Polled, Recover, ctlVars, PassOver, NextTarget, Reserving
  <1>2. CASE OperatorStep
    BY <1>2
    DEF OperatorStep, TerminateSession, RecordCancel, LaunchFails,
        LaunchInterrupted, Launchable, Cancel, ctlVars, Reserving
  <1>3. CASE Interruption \/ EnvironmentStep \/ UNCHANGED vars
    BY <1>3
    DEF Interruption, Interrupt, RetryInterrupted, EnvironmentStep, Report,
        WakeUp, Exit, Stall, SetStatus, Spend, LabelApproval, vars, ctlVars, Reserving
  <1>4. CASE \E i \in Items : MembersJoin(i)
    BY <1>4 DEF MembersJoin, ctlVars, Reserving
  <1>5. QED BY <1>1, <1>2, <1>3, <1>4 DEF Next, Tick

\* A session that did not exist starts to work only by a create call: a message
\* goes to a session on record, and nothing else makes one.
LEMMA OnlyCreateStarts ==
  ASSUME IndInv, [Next]_vars, NEW s \in Sessions,
         status[s] = "none", status'[s] = "working"
  PROVE  pc = "create"
  <1>1. ASSUME NEW i \in Items, session[i] # NoSession, Messaged(i)
        PROVE  status'[s] = "none"
    <2>1. session[i] \in Sessions /\ status[session[i]] # "none"
      BY <1>1 DEF IndInv, TypeOK, SessionsInv, SessionsExist, BindingIsRecorded
    <2>2. QED BY <1>1, <2>1 DEF Messaged, IndInv, TypeOK
  <1>2. ASSUME NEW i \in Items, PollPullRequest(i)
        PROVE  FALSE
    <2>1. PICK after \in PrOutcomes(state[i],
                            retries[i] < Retries /\ session[i] # NoSession) :
            \/ after = "session_active" /\ Messaged(i)
            \/ UNCHANGED status
      BY <1>2 DEF PollPullRequest
    <2>2. after = "session_active" => session[i] # NoSession
      BY <1>2, PrOutcomesType DEF PollPullRequest
    <2>3. QED BY <1>1, <2>1, <2>2
  <1>3. CASE TickStep
    BY <1>2, <1>3
    DEF TickStep, StartTick, EndPoll, EndRecover, EndDispatch, DispatchOne,
        AdoptTagged, CreateSession, RecordSession, PollItem, PollSession,
        PollHumanLabels, ApplyClosure, OpenIssue, PollNothing, Recover, Reserve,
        PassOver, devinVars
  <1>4. CASE OperatorStep
    <2>1. CASE TerminateSession
      <3>1. session[cur] \in Sessions
        BY <2>1 DEF TerminateSession, IndInv, TypeOK, ControlState
      <3>2. QED BY <2>1, <3>1 DEF TerminateSession, IndInv, TypeOK
    <2>2. QED BY <1>4, <2>1
          DEF OperatorStep, RecordCancel, Launch, LaunchFails, LaunchInterrupted,
              Cancel, devinVars
  <1>5. CASE Interruption
    BY <1>1, <1>5 DEF Interruption, Interrupt, RetryInterrupted, devinVars
  <1>6. CASE EnvironmentStep \/ UNCHANGED vars
    BY <1>6 DEF EnvironmentStep, Report, WakeUp, Exit, Stall, SetStatus, Spend,
                LabelApproval, vars, devinVars, IndInv, TypeOK
  <1>7. CASE \E i \in Items : MembersJoin(i)
    BY <1>1, <1>7 DEF MembersJoin
  <1>8. QED BY <1>3, <1>4, <1>5, <1>6, <1>7 DEF Next, Tick

\* At the limit when an item is reserved, the items in flight are not beyond it
\* when its session is asked for.
CapacityInv == pc \in Reserving => Cardinality(ActiveItems) <= MaxConcurrent

\* One more element makes a finite set at most one larger.
LEMMA AtMostOneMore ==
  ASSUME NEW S, IsFiniteSet(S), NEW x
  PROVE  /\ IsFiniteSet(S \cup {x})
         /\ Cardinality(S \cup {x}) <= Cardinality(S) + 1
  <1>1. Cardinality(S) \in Nat
    BY FS_CardinalityType
  <1>2. /\ IsFiniteSet(S \cup {x})
        /\ Cardinality(S \cup {x}) =
             IF x \in S THEN Cardinality(S) ELSE Cardinality(S) + 1
    BY FS_AddElement
  <1>3. QED BY <1>1, <1>2

\* A reservation adds at most the reserved item to the items in flight.
LEMMA OneMoreInFlight ==
  ASSUME IndInv, NEW i \in Items, Reserve(i) \/ Launch(i)
  PROVE  /\ Cardinality(ActiveItems) < MaxConcurrent
         /\ ActiveItems' \subseteq ActiveItems \cup {i}
  <1>1. ~AtCapacity
    BY DEF Reserve, Launch, Launchable, Eligible
  <1>2. Cardinality(ActiveItems) \in Nat
    BY SetsAssumption, FS_Subset, FS_CardinalityType DEF ActiveItems
  <1>3. \A j \in Items \ {i} : state'[j] = state[j]
    BY DEF Reserve, Launch, Move, IndInv, TypeOK
  <1>4. QED BY <1>1, <1>2, <1>3, LimitsAssumption DEF AtCapacity, ActiveItems

LEMMA CapacityStep ==
  ASSUME IndInv, CapacityInv, [Next]_vars
  PROVE  CapacityInv'
  <1>1. ASSUME pc \in Reserving, pc' \in Reserving
        PROVE  Cardinality(ActiveItems)' <= MaxConcurrent
    <2>1. ActiveItems' = ActiveItems
      BY <1>1, ReservationStays DEF dbVars, ActiveItems
    <2>2. QED BY <1>1, <2>1 DEF CapacityInv
  <1>2. ASSUME pc \notin Reserving, pc' \in Reserving
        PROVE  Cardinality(ActiveItems)' <= MaxConcurrent
    <2>1. PICK i \in Items : Reserve(i) \/ Launch(i)
      BY <1>2, ReservationBegins
    <2>2. /\ Cardinality(ActiveItems) < MaxConcurrent
          /\ ActiveItems' \subseteq ActiveItems \cup {i}
      BY <2>1, OneMoreInFlight
    <2>3. IsFiniteSet(ActiveItems)
      BY SetsAssumption, FS_Subset DEF ActiveItems
    <2>4. /\ IsFiniteSet(ActiveItems \cup {i})
          /\ Cardinality(ActiveItems \cup {i}) <= Cardinality(ActiveItems) + 1
      BY <2>3, AtMostOneMore
    <2>5. Cardinality(ActiveItems') <= Cardinality(ActiveItems \cup {i})
      BY <2>2, <2>4, FS_Subset
    <2>6. /\ Cardinality(ActiveItems) \in Nat
          /\ Cardinality(ActiveItems \cup {i}) \in Nat
          /\ Cardinality(ActiveItems') \in Nat
      BY <2>2, <2>3, <2>4, FS_Subset, FS_CardinalityType
    <2>7. QED BY <2>2, <2>4, <2>5, <2>6, LimitsAssumption
  <1>3. QED BY <1>1, <1>2 DEF CapacityInv

\* CreationWithinCapacity (_active_session_count): whichever path reserved the
\* item, and whatever the steps in between, the session is asked for within
\* max_concurrent_sessions.
THEOREM CreationStaysWithinCapacity == Spec => CreationWithinCapacity
  <1>1. Init => CapacityInv
    BY DEF Init, CapacityInv, Reserving
  <1>2. IndInv /\ CapacityInv /\ [Next]_vars => CapacityInv'
    BY CapacityStep
  <1>3. IndInv /\ CapacityInv /\ [Next]_vars =>
          [(\E s \in Sessions : status[s] = "none" /\ status'[s] = "working")
             => Cardinality(ActiveItems) <= MaxConcurrent]_vars
    BY OnlyCreateStarts DEF CapacityInv, Reserving
  <1>4. QED BY <1>1, <1>2, <1>3, DispatchInvariant, PTL
            DEF Spec, CreationWithinCapacity

-----------------------------------------------------------------------------
(* The budget *)

\* What was left for one more session when the item was reserved is still left
\* when it is asked for.
BudgetInv == pc \in Reserving => WithinBudget

\* Rows, spending and the sessions held by items in flight decide the budget.
LEMMA SameBudget ==
  ASSUME UNCHANGED <<rows, seen>>, Reserved' = Reserved
  PROVE  WithinBudget' = WithinBudget
  <1>1. Committed' = Committed
    BY DEF Committed, MapThenSumSet, MapThenFoldSet
  <1>2. QED BY <1>1 DEF WithinBudget

\* An item that is reserved held no session, or not in a state that counts, so
\* the reservation itself commits no budget.
LEMMA ReservationCommitsNothing ==
  ASSUME IndInv, NEW i \in Items, Reserve(i) \/ Launch(i)
  PROVE  /\ WithinBudget
         /\ UNCHANGED <<rows, seen>>
         /\ Reserved' = Reserved
  <1>1. WithinBudget /\ UNCHANGED <<rows, seen>>
    BY DEF Reserve, Launch, Launchable, Eligible, Dispatchable
  <1>2. \A j \in Items \ {i} : state'[j] = state[j] /\ session'[j] = session[j]
    BY DEF Reserve, Launch, ResetForRelaunch, Move, IndInv, TypeOK
  <1>3. ~ \E s \in rows : i \in ActiveItems /\ session[i] = s
    BY SetsAssumption
    DEF Reserve, Dispatchable, Launch, Launchable, Eligible, ActionStates, Sources,
        IndInv, TypeOK, BoundItemsAreUnderWay, UnboundStates, ActiveItems,
        ACTIVE_WORK_ITEM_STATES
  <1>4. session'[i] \notin Sessions
    BY SetsAssumption
    DEF Reserve, Dispatchable, Launch, Launchable, Eligible, ActionStates,
        ResetForRelaunch, IndInv, TypeOK, BoundItemsAreUnderWay, UnboundStates
  <1>5. rows \subseteq Sessions
    BY DEF IndInv, TypeOK
  <1>6. QED BY <1>1, <1>2, <1>3, <1>4, <1>5 DEF Reserved, ActiveItems

LEMMA BudgetStep ==
  ASSUME IndInv, BudgetInv, [Next]_vars
  PROVE  BudgetInv'
  <1>1. ASSUME pc \in Reserving, pc' \in Reserving
        PROVE  WithinBudget'
    <2>1. UNCHANGED <<rows, seen>> /\ Reserved' = Reserved
      BY <1>1, ReservationStays DEF dbVars, Reserved, ActiveItems
    <2>2. QED BY <1>1, <2>1, SameBudget DEF BudgetInv
  <1>2. ASSUME pc \notin Reserving, pc' \in Reserving
        PROVE  WithinBudget'
    BY <1>2, ReservationBegins, ReservationCommitsNothing, SameBudget
  <1>3. QED BY <1>1, <1>2 DEF BudgetInv

\* CreationWithinBudget (_acu_budget_position): no step between the check and
\* the create call takes away the budget that was checked.
THEOREM CreationStaysWithinBudget == Spec => CreationWithinBudget
  <1>1. Init => BudgetInv
    BY DEF Init, BudgetInv, Reserving
  <1>2. IndInv /\ BudgetInv /\ [Next]_vars => BudgetInv'
    BY BudgetStep
  <1>3. IndInv /\ BudgetInv /\ [Next]_vars =>
          [(\E s \in Sessions : status[s] = "none" /\ status'[s] = "working")
             => WithinBudget]_vars
    BY OnlyCreateStarts DEF BudgetInv, Reserving
  <1>4. QED BY <1>1, <1>2, <1>3, DispatchInvariant, PTL
            DEF Spec, CreationWithinBudget

-----------------------------------------------------------------------------
(* Dispatch implements SessionLease, and what follows for the life of a binding *)

\* What a step of Dispatch can be, as far as sessions are concerned.
Keeps == UNCHANGED <<session, rows, owner, siblings>>
         /\ \A s \in Sessions : Active(s)' <=> Active(s)

Ends(s) == /\ UNCHANGED <<session, rows, owner, siblings>>
           /\ s \in Sessions /\ ~Active(s)'
           /\ \A t \in Sessions \ {s} : Active(t)' <=> Active(t)

Releases(i) == /\ state[i] \in {"needs_human", "failed"}
               /\ session' = [session EXCEPT ![i] = NoSession]
               /\ UNCHANGED <<rows, owner, siblings, status>>

Takes(i, s) == /\ state[i] = "dispatching"
               /\ s \in Tagged(i) /\ s \in Sessions
               /\ Exclusive(i, s)
               /\ Active(s) \/ s \notin rows
               /\ session' = [session EXCEPT ![i] = s]
               /\ rows' = rows \cup {s}
               /\ UNCHANGED <<owner, siblings, status>>

Starts(i, S) == /\ state[i] = "dispatching"
                /\ \A t \in Tagged(i) : ~Active(t)
                /\ \A s \in S : owner[s] = NoItem
                /\ owner' = [s \in Sessions |-> IF s \in S THEN i ELSE owner[s]]
                /\ siblings' = [s \in Sessions |-> IF s \in S THEN S
                                                              ELSE siblings[s]]
                /\ \A t \in Sessions : Active(t)' <=> Active(t) \/ t \in S
                /\ UNCHANGED <<session, rows>>

Resumes(i) == /\ session[i] \in Sessions
              /\ \A t \in Sessions : Active(t)' <=> Active(t) \/ t = session[i]
              /\ UNCHANGED <<session, rows, owner, siblings>>

LeaseStep == \/ Keeps
             \/ \E s \in Sessions : Ends(s)
             \/ \E i \in Items : Releases(i) \/ Resumes(i)
             \/ \E i \in Items, s \in Sessions : Takes(i, s)
             \/ \E i \in Items, S \in SUBSET Sessions : Starts(i, S)

\* A message brings the session of the item back, or changes nothing.
LEMMA MessageLeaseStep ==
  ASSUME IndInv, NEW i \in Items, session[i] # NoSession, Messaged(i),
         UNCHANGED <<session, rows, owner, siblings>>
  PROVE  LeaseStep
  <1> USE DEF IndInv
  <1>1. /\ \A t \in Sessions : t # session[i] => (Active(t)' <=> Active(t))
        /\ Active(session[i])' \/ ~Active(session[i])
    BY MessagedSession DEF TypeOK
  <1>2. session[i] \in Sessions
    BY DEF TypeOK
  <1>3. CASE Active(session[i])'
    BY <1>1, <1>2, <1>3 DEF LeaseStep, Resumes
  <1>4. CASE ~Active(session[i])'
    BY <1>1, <1>2, <1>4 DEF LeaseStep, Keeps
  <1>5. QED BY <1>3, <1>4

\* A poll of an item, a label or a closure keeps, resumes or releases its session.
LEMMA PollLeaseStep ==
  ASSUME IndInv, NEW i \in Items, PollItem(i)
  PROVE  LeaseStep
  <1>1. UNCHANGED <<owner, siblings, rows>> \/ PollSession(i)
    BY DEF PollItem, PollPullRequest, PollHumanLabels, ApplyClosure,
           OpenIssue, PollNothing, Polled, dbVars
  <1>2. CASE PollPullRequest(i) /\ ~UNCHANGED status
    <2>1. PICK after \in PrOutcomes(state[i],
                            retries[i] < Retries /\ session[i] # NoSession) :
            after = "session_active" /\ Messaged(i)
      BY <1>2 DEF PollPullRequest
    <2>2. session[i] # NoSession
      BY <1>2, <2>1, PrOutcomesType DEF PollPullRequest
    <2>3. QED BY <1>2, <2>1, <2>2, MessageLeaseStep DEF PollPullRequest, Polled
  <1>3. CASE UNCHANGED status
    <2>1. UNCHANGED <<owner, siblings, rows>>
      BY <1>1 DEF PollSession, Polled
    <2>2. \A s \in Sessions : Active(s)' <=> Active(s)
      BY <1>3 DEF Active
    <2>3. (UNCHANGED session) \/ Releases(i)
      BY <1>3, <2>1 DEF PollItem, PollSession, PollPullRequest, PollHumanLabels,
                  ApplyClosure, OpenIssue, PollNothing, dbVars, Releases
    <2>4. QED BY <2>1, <2>2, <2>3 DEF LeaseStep, Keeps
  <1>4. QED
    BY <1>2, <1>3 DEF PollItem, PollSession, PollHumanLabels, ApplyClosure,
                      OpenIssue, PollNothing

\* Binding a dispatching item to a session of the call at work is taking it (_wi with
\* session_created or session_adopted).
LEMMA BindLeaseStep ==
  ASSUME IndInv, NEW i \in Items, NEW s \in Sessions,
         NEW acus, NEW e, Bind(i, s, acus, e),
         state[i] = "dispatching", s \in Tagged(i),
         Exclusive(i, s),
         Active(s) \/ s \notin rows, UNCHANGED devinVars
  PROVE  LeaseStep
  BY DEF Bind, LeaseStep, Takes, devinVars

\* Adopting by tag, in a dispatch or in recovery, takes a session or none.
LEMMA AdoptLeaseStep ==
  ASSUME IndInv, NEW i \in Items, state[i] = "dispatching",
         UNCHANGED devinVars,
         \/ FailDispatch(i)
         \/ \E s \in Preferred(Adoptable(i)) :
              Bind(i, s, spent[s], "session_adopted")
  PROVE  LeaseStep
  <1>1. CASE FailDispatch(i)
    BY <1>1 DEF FailDispatch, LeaseStep, Keeps, devinVars, Active
  <1>2. ASSUME NEW s \in Preferred(Adoptable(i)),
               Bind(i, s, spent[s], "session_adopted")
        PROVE  LeaseStep
    <2>1. Active(s) \/ s \notin rows
      BY DEF Preferred, Adoptable
    <2>2. QED BY <1>2, <2>1, PreferredIsTheOne, BindLeaseStep
  <1>3. QED BY <1>1, <1>2

\* What a create call makes is started by one request.
LEMMA CreateLeaseStep ==
  ASSUME IndInv, CreateSession
  PROVE  LeaseStep
  <1> USE DEF IndInv
  <1>1. /\ cur \in Items /\ state[cur] = "dispatching"
        /\ \A t \in Tagged(cur) : ~Active(t)
    BY DEF CreateSession, ControlState
  <1>2. PICK S \in SUBSET Sessions :
          Posted(S) /\ UNCHANGED <<session, rows>>
    BY DEF CreateSession, FailDispatch, dbVars
  <1>3. \A s \in S : owner[s] = NoItem
    BY <1>2 DEF Posted, SessionsInv, SessionsExist
  <1>4. \A t \in Sessions : Active(t)' <=> Active(t) \/ t \in S
    BY <1>2 DEF Posted, Active
  <1>5. Starts(cur, S)
    BY <1>1, <1>2, <1>3, <1>4 DEF Posted, Starts
  <1>6. QED BY <1>1, <1>5 DEF LeaseStep

\* Every step of Dispatch is a step of the lease or none of its business.
LEMMA NextLeaseStep ==
  ASSUME IndInv, [Next]_vars
  PROVE  LeaseStep
  <1> USE DEF IndInv
  <1>1. CASE DispatchOne
    <2>1. CASE AdoptTagged
      <3>1. cur \in Items /\ state[cur] = "dispatching"
        BY <2>1 DEF AdoptTagged, ControlState
      <3>2. CASE Adoptable(cur) = {} /\ UNCHANGED dbVars
        BY <2>1, <3>2 DEF AdoptTagged, LeaseStep, Keeps, Active, dbVars, devinVars
      <3>3. QED BY <2>1, <3>1, <3>2, AdoptLeaseStep DEF AdoptTagged, dbVars
    <2>2. CASE CreateSession
      BY <2>2, CreateLeaseStep
    <2>3. CASE RecordSession
      BY <2>3, BindLeaseStep DEF RecordSession, ControlState, Tagged
    <2>4. QED BY <1>1, <2>1, <2>2, <2>3 DEF DispatchOne
  <1>2. CASE TickStep
    <2>1. ASSUME NEW i \in Items, PollItem(i)
          PROVE  LeaseStep
      BY <2>1, PollLeaseStep
    <2>2. ASSUME NEW i \in Items, Recover(i)
          PROVE  LeaseStep
      BY <2>2, AdoptLeaseStep DEF Recover
    <2>3. CASE \/ StartTick \/ EndPoll \/ EndRecover \/ EndDispatch
               \/ \E i \in Items : Reserve(i) \/ PassOver(i)
      BY <2>3 DEF StartTick, EndPoll, EndRecover, EndDispatch, Reserve, PassOver,
                  dbVars, devinVars, LeaseStep, Keeps, Active
    <2>4. QED BY <1>1, <1>2, <2>1, <2>2, <2>3 DEF TickStep
  <1>3. CASE OperatorStep
    <2>1. ASSUME NEW i \in Items, Launch(i) \/ LaunchFails(i)
          PROVE  LeaseStep
      <3>1. UNCHANGED <<owner, siblings, status, rows>>
        BY <2>1 DEF Launch, LaunchFails, devinVars
      <3>2. (UNCHANGED session) \/ Releases(i)
        BY <2>1, <3>1
        DEF Launch, LaunchFails, ResetForRelaunch, Releases, Sources
      <3>3. QED BY <3>1, <3>2 DEF LeaseStep, Keeps, Active
    <2>2. CASE \/ RecordCancel
               \/ \E i \in Items : LaunchInterrupted(i) \/ Cancel(i)
      BY <2>2 DEF RecordCancel, LaunchInterrupted, Cancel, dbVars, devinVars,
                  LeaseStep, Keeps, Active
    <2>3. CASE TerminateSession
      <3>1. session[cur] \in Sessions
        BY <2>3 DEF TerminateSession, ControlState, TypeOK
      <3>2. UNCHANGED <<session, rows, owner, siblings>>
        BY <2>3 DEF TerminateSession, dbVars
      <3>3. CASE UNCHANGED status
        <4>1. \A s \in Sessions : Active(s)' <=> Active(s)
          BY <3>3 DEF Active
        <4>2. QED BY <3>2, <4>1 DEF Keeps, LeaseStep
      <3>4. CASE status' = [status EXCEPT ![session[cur]] = "exited"]
        <4>1. PICK s \in Sessions : s = session[cur]
          BY <3>1
        <4>2. \A t \in Sessions :
                status'[t] = IF t = s THEN "exited" ELSE status[t]
          BY <3>4, <4>1 DEF TypeOK
        <4>3. Ends(s)
          BY <3>2, <4>2 DEF Ends, Active
        <4>4. QED BY <4>3 DEF LeaseStep
      <3>5. QED BY <2>3, <3>3, <3>4 DEF TerminateSession
    <2>4. QED BY <1>3, <2>1, <2>2, <2>3 DEF OperatorStep
  <1>4. CASE EnvironmentStep
    <2>1. ASSUME NEW s \in Sessions, Report(s) \/ WakeUp(s) \/ Exit(s) \/ Stall(s)
          PROVE  LeaseStep
      <3>1. Keeps \/ Ends(s)
        BY <2>1 DEF Report, WakeUp, Exit, Stall, SetStatus, Keeps, Ends, Active, TypeOK,
                    dbVars
      <3>2. QED BY <3>1 DEF LeaseStep
    <2>2. CASE \/ \E s \in Sessions : Spend(s)
               \/ \E i \in Items : LabelApproval(i)
      BY <2>2 DEF Spend, LabelApproval, dbVars, devinVars, LeaseStep, Keeps,
                  Active
    <2>3. QED BY <1>4, <2>1, <2>2 DEF EnvironmentStep
  <1>5. CASE Interrupt \/ UNCHANGED vars
    BY <1>5 DEF Interrupt, vars, dbVars, devinVars, LeaseStep, Keeps, Active
  <1>6. ASSUME NEW i \in Items, RetryInterrupted(i)
        PROVE  LeaseStep
    BY <1>6, MessageLeaseStep DEF RetryInterrupted, dbVars
  <1>7. ASSUME NEW i \in Items, MembersJoin(i)
        PROVE  LeaseStep
    BY <1>7, MessageLeaseStep DEF MembersJoin, dbVars
  <1>8. QED BY <1>2, <1>3, <1>4, <1>5, <1>6, <1>7 DEF Next, Tick, Interruption

-----------------------------------------------------------------------------
(* The refinement *)

\* Dispatch implements the lease: what the controller, Devin, people and
\* crashes do to sessions is a behaviour of SessionLease.
THEOREM DispatchImplementsLease == Spec => ImplementsLease
  <1>1. Init => Lease!Init
    BY DEF Init, Lease!Init, Active
  <1>2. IndInv /\ [Next]_vars => [Lease!Next]_(Lease!leaseVars)
    <2> SUFFICES ASSUME IndInv, [Next]_vars
                 PROVE  [Lease!Next]_(Lease!leaseVars)
      OBVIOUS
    <2>1. LeaseStep
      BY NextLeaseStep
    <2>2. CASE Keeps
      BY <2>2 DEF Keeps, Lease!leaseVars
    <2>3. ASSUME NEW s \in Sessions, Ends(s)
          PROVE  Lease!End(s)
      BY <2>3 DEF Ends, Lease!End
    <2>4. ASSUME NEW i \in Items, Releases(i)
          PROVE  Lease!Release(i)
      BY <2>4 DEF Releases, Lease!Release, Active
    <2>5. ASSUME NEW i \in Items, NEW s \in Sessions, Takes(i, s)
          PROVE  Lease!Take(i, s)
      <3>1. session[i] = NoSession
        BY <2>5 DEF Takes, IndInv, BoundItemsAreUnderWay, UnboundStates
      <3>2. QED BY <2>5, <3>1
            DEF Takes, Exclusive, Lease!Take, Lease!Works, Tagged, Active
    <2>6. ASSUME NEW i \in Items, NEW S \in SUBSET Sessions, Starts(i, S)
          PROVE  Lease!Start(i, S)
      <3>1. session[i] = NoSession
        BY <2>6 DEF Starts, IndInv, BoundItemsAreUnderWay, UnboundStates
      <3>2. QED BY <2>6, <3>1 DEF Starts, Lease!Start, Lease!Works, Tagged
    <2>7. ASSUME NEW i \in Items, Resumes(i)
          PROVE  Lease!Resume(i)
      BY <2>7, SetsAssumption DEF Resumes, Lease!Resume
    <2>8. QED BY <2>1, <2>2, <2>3, <2>4, <2>5, <2>6, <2>7
          DEF LeaseStep, Lease!Next
  <1>3. QED BY <1>1, <1>2, DispatchInvariant, PTL
        DEF Spec, ImplementsLease, Lease!Spec

\* A recorded session that has ended is never bound again: neither the session
\* an operator stopped nor one that exited comes back through a retry.
THEOREM EndedSessionIsReleased == Spec => EndedSessionStaysReleased
  <1>1. IndInv /\ [Next]_vars =>
          \A i \in Items : \A s \in rows :
            ~Active(s) /\ session'[i] = s => session[i] = s
    <2> SUFFICES ASSUME IndInv, [Next]_vars, NEW i \in Items, NEW s \in rows,
                        ~Active(s), session'[i] = s
                 PROVE  session[i] = s
      OBVIOUS
    <2>1. s \in Sessions /\ s # NoSession
      BY SetsAssumption DEF IndInv, TypeOK
    <2>2. LeaseStep
      BY NextLeaseStep
    <2>3. QED BY <2>1, <2>2
          DEF LeaseStep, Keeps, Ends, Releases, Resumes, Takes, Starts, IndInv,
              TypeOK
  <1>2. QED BY <1>1, DispatchInvariant, PTL DEF Spec, EndedSessionStaysReleased

\* An item loses the session it is bound to only by a human's decision.
THEOREM SessionsAreReleasedByHumans == Spec => OnlyHumansRelease
  <1>1. IndInv /\ [Next]_vars =>
          \A i \in Items :
            session[i] # NoSession /\ session'[i] # session[i]
              => state[i] \in {"needs_human", "failed"}
    <2> SUFFICES ASSUME IndInv, [Next]_vars, NEW i \in Items,
                        session[i] # NoSession, session'[i] # session[i]
                 PROVE  state[i] \in {"needs_human", "failed"}
      OBVIOUS
    <2>1. LeaseStep
      BY NextLeaseStep
    <2>2. state[i] # "dispatching"
      BY DEF IndInv, BoundItemsAreUnderWay, UnboundStates
    <2>3. QED BY <2>1, <2>2
          DEF LeaseStep, Keeps, Ends, Releases, Resumes, Takes, Starts, IndInv,
              TypeOK
  <1>2. QED BY <1>1, DispatchInvariant, PTL DEF Spec, OnlyHumansRelease
=============================================================================
