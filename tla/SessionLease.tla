---------------------------- MODULE SessionLease ----------------------------
(***************************************************************************)
(* What the dispatch code promises about Devin sessions, without states,   *)
(* reservations, crashes or labels.  A request for a session may make      *)
(* several, because the client repeats a call whose answer was lost; a     *)
(* work item has the sessions of at most one request alive, holds at most  *)
(* one session, and while it holds one only that session and those of the  *)
(* same request work for it.  A session the controller has once held is    *)
(* held again only while it is alive, and comes back to life only for its  *)
(* holder.  Dispatch implements this specification.                        *)
(***************************************************************************)
CONSTANTS Items, Sessions, NoItem, NoSession

VARIABLES
  owner,       \* the item a session was started for
  siblings,    \* the sessions the same request started, itself included
  alive,       \* sessions that can still produce work
  holder,      \* the session an item holds
  taken        \* sessions that have been held

leaseVars == <<owner, siblings, alive, holder, taken>>

Init ==
  /\ owner = [s \in Sessions |-> NoItem]
  /\ siblings = [s \in Sessions |-> {}]
  /\ alive = {} /\ taken = {}
  /\ holder = [i \in Items |-> NoSession]

Works(i) == {s \in alive : owner[s] = i}

\* One request is made for an item that has nothing alive and holds nothing.
Start(i, S) ==
  /\ holder[i] = NoSession /\ Works(i) = {}
  /\ \A s \in S : owner[s] = NoItem
  /\ owner' = [s \in Sessions |-> IF s \in S THEN i ELSE owner[s]]
  /\ siblings' = [s \in Sessions |-> IF s \in S THEN S ELSE siblings[s]]
  /\ alive' = alive \cup S
  /\ UNCHANGED <<holder, taken>>

Take(i, s) ==
  /\ holder[i] = NoSession
  /\ owner[s] = i /\ Works(i) \subseteq siblings[s]
  /\ s \in alive \/ s \notin taken
  /\ holder' = [holder EXCEPT ![i] = s]
  /\ taken' = taken \cup {s}
  /\ UNCHANGED <<owner, siblings, alive>>

Release(i) ==
  /\ holder' = [holder EXCEPT ![i] = NoSession]
  /\ UNCHANGED <<owner, siblings, alive, taken>>

End(s) ==
  /\ alive' = alive \ {s}
  /\ UNCHANGED <<owner, siblings, holder, taken>>

\* The holder asks for more work.
Resume(i) ==
  /\ holder[i] # NoSession
  /\ alive' = alive \cup {holder[i]}
  /\ UNCHANGED <<owner, siblings, holder, taken>>

Next ==
  \/ \E i \in Items, S \in SUBSET Sessions : Start(i, S)
  \/ \E i \in Items, s \in Sessions : Take(i, s)
  \/ \E i \in Items : Release(i) \/ Resume(i)
  \/ \E s \in Sessions : End(s)

Spec == Init /\ [][Next]_leaseVars
=============================================================================
