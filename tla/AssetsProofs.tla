---------------------------- MODULE AssetsProofs ----------------------------
(***************************************************************************)
(* How often an asset may exist at Devin, and when a sync writes nothing,  *)
(* for any assets, processes, edits and faults.                            *)
(***************************************************************************)
EXTENDS Assets, FiniteSetTheorems, SequenceTheorems, TLAPS

Words    == UNION {{f.title, f.body} : f \in UNION {Files(s) : s \in Slugs}}
Contents == [title : Words, body : Words \cup {"edited"}]
Asset    == [kind : {"playbook", "knowledge"}, content : Contents,
             by : Slugs \cup {"hand"}, gone : BOOLEAN]

IsRun(r) ==
  /\ DOMAIN r = {"pc", "bundle", "dry", "listed", "rows", "todo", "snapshot", "call",
                 "calm", "alone", "moved"}
  /\ r.pc \in {"idle", "notes", "next", "held"}
  /\ r.alone \in BOOLEAN /\ (r.alone => r.pc # "idle")
  /\ r.pc # "idle" => r.bundle \in [Slugs -> Contents]
  /\ r.todo \subseteq Slugs
  /\ r.pc = "held" => r.todo # {}

ATypeOK ==
  /\ tree \in [Slugs -> UNION {Files(s) : s \in Slugs}]
  /\ \A s \in Slugs : tree[s] \in Files(s)
  /\ remote \in Seq(Asset)
  /\ row = [s \in Slugs |-> row[s]]
  /\ sync = [p \in Syncers |-> sync[p]]
  /\ \A p \in Syncers : IsRun(sync[p])

\* A copy that only its recorded id finds.
Retitled(s, i) == remote[i].content.title # tree[s].title

\* The process has listed the assets of the kind of s.
HasListed(p, s) == sync[p].pc \in {"next", "held"} \/ (sync[p].pc = "notes" /\ s \in Kinds)

\* It has listed them, and not yet come to s.
Awaits(p, s) ==
  \/ sync[p].pc = "notes" /\ s \in Kinds
  \/ sync[p].pc = "next" /\ s \in sync[p].todo
  \/ sync[p].pc = "held" /\ s \in sync[p].todo \ {Upcoming(p)}

\* What a process under way makes of s: it has the title of the tree, and
\* goes by the recorded id where the title would not do.
Follows(p, s) ==
  /\ sync[p].bundle[s].title = tree[s].title
  /\ \A i \in Copies(s) : Retitled(s, i) =>
       /\ HasListed(p, s) => i \in DOMAIN sync[p].listed
       /\ sync[p].pc \in {"next", "held"} => sync[p].rows[s].id = i
       /\ sync[p].pc = "held" /\ s = Upcoming(p) => sync[p].call.id = i

\* One that is alone has every copy in its listing.
Sees(p, s) ==
  \A i \in Copies(s) :
    /\ i \in DOMAIN sync[p].listed
    /\ sync[p].listed[i].kind = AssetKind(s)
    /\ Retitled(s, i) \/ sync[p].listed[i].content.title = sync[p].bundle[s].title

OneEach(s)  == \A i, j \in Copies(s) : i = j
Findable(s) == \A i \in Copies(s) : Retitled(s, i) => row[s].id = i

SlugInv(s) ==
  /\ OneEach(s) /\ Findable(s)
  /\ \A p \in Syncers : sync[p].pc # "idle" =>
       /\ Follows(p, s)
       /\ sync[p].alone /\ Awaits(p, s) => Sees(p, s)

\* A lone process has the others idle.
AloneInv ==
  \A p, q \in Syncers : sync[p].alone /\ q # p => sync[q].pc = "idle"

\* The kind of an asset is that of its file; what is listed has been made, and
\* the first listing has playbooks only.
KindInv ==
  /\ \A i \in DOMAIN remote :
       remote[i].by # "hand" => remote[i].kind = AssetKind(remote[i].by)
  /\ \A p \in Syncers : sync[p].pc # "idle" =>
       \A i \in DOMAIN sync[p].listed :
         i \in DOMAIN remote /\ (sync[p].pc = "notes" => remote[i].kind = "playbook")

IndInv ==
  /\ ATypeOK /\ AloneInv /\ KindInv
  /\ \A s \in Slugs \ excused : SlugInv(s)

-----------------------------------------------------------------------------
(* What a process does to what it knows of an asset *)

\* It ends, or goes on with what it had and does not come to s.
RunKeeps(q, s) ==
  \/ sync'[q].pc = "idle"
  \/ /\ sync[q].pc # "idle"
     /\ sync'[q].bundle = sync[q].bundle
     /\ sync'[q].listed = sync[q].listed
     /\ sync'[q].pc \in {"next", "held"} =>
          sync[q].pc \in {"next", "held"} /\ sync'[q].rows = sync[q].rows
     /\ sync'[q].pc = "notes" => sync[q].pc = "notes"
     /\ sync'[q].alone => sync[q].alone
     /\ Awaits(q, s)' => Awaits(q, s)
     /\ sync'[q].pc = "held" /\ s = Upcoming(q)' =>
          sync[q].pc = "held" /\ s = Upcoming(q) /\ sync'[q].call = sync[q].call

\* Devin, the tree and the rows have of s what they had.
Quiet(s) ==
  /\ Copies(s)' \subseteq Copies(s)
  /\ \A i \in Copies(s)' : remote'[i].content.title = remote[i].content.title
  /\ tree'[s].title = tree[s].title
  /\ row'[s] = row[s]

LEMMA QuietKeeps ==
  ASSUME NEW s \in Slugs, SlugInv(s), Quiet(s), \A q \in Syncers : RunKeeps(q, s)
  PROVE  SlugInv(s)'
  <1>1. \A i \in Copies(s)' : i \in Copies(s) /\ (Retitled(s, i)' <=> Retitled(s, i))
    BY DEF Quiet, Retitled
  <1>2. OneEach(s)' /\ Findable(s)'
    BY <1>1 DEF SlugInv, OneEach, Findable, Quiet
  <1>3. ASSUME NEW q \in Syncers, sync'[q].pc # "idle"
        PROVE  /\ Follows(q, s)'
               /\ sync'[q].alone /\ Awaits(q, s)' => Sees(q, s)'
    <2>1. Follows(q, s) /\ (sync[q].alone /\ Awaits(q, s) => Sees(q, s))
      BY <1>3 DEF SlugInv, RunKeeps
    <2>2. HasListed(q, s)' => HasListed(q, s)
      BY <1>3 DEF RunKeeps, HasListed
    <2>3. Follows(q, s)'
      BY <1>1, <1>3, <2>1, <2>2 DEF RunKeeps, Follows, Quiet
    <2>4. ASSUME sync'[q].alone, Awaits(q, s)'
          PROVE  Sees(q, s)'
      BY <1>1, <1>3, <2>1, <2>4 DEF RunKeeps, Sees
    <2>5. QED BY <2>3, <2>4
  <1>4. QED BY <1>2, <1>3 DEF SlugInv
-----------------------------------------------------------------------------
(* The steps of one process *)

\* Assets stay what they are, whatever is made or edited.
Kept ==
  /\ \A i \in DOMAIN remote : i \in DOMAIN remote' /\ remote'[i].kind = remote[i].kind
  /\ \A i \in DOMAIN remote' : remote'[i].by # "hand" =>
       remote'[i].kind = AssetKind(remote'[i].by)

LEMMA IdleIsRun == IsRun(Idle)
  BY DEF IsRun, Idle

LEMMA FirstIsIn ==
  ASSUME NEW slugs, slugs # {}
  PROVE  FirstOf(slugs) \in slugs
  <1> DEFINE first == IF slugs \cap Kinds # {} THEN slugs \cap Kinds ELSE slugs
  <1>1. \E s \in first : TRUE
    OBVIOUS
  <1>2. FirstOf(slugs) \in first
    BY <1>1 DEF FirstOf
  <1>3. QED BY <1>2

\* One process goes on, or ends; it was under way, and is no more alone than before.
Goes(p, r) ==
  /\ sync[p].pc # "idle" /\ IsRun(r) /\ r.pc # "notes"
  /\ r.alone => sync[p].alone
  /\ r.pc # "idle" => \A i \in DOMAIN r.listed : i \in DOMAIN remote
  /\ sync' = [sync EXCEPT ![p] = r]

LEMMA GoesOn ==
  ASSUME IndInv, NEW p \in Syncers, NEW r, Goes(p, r), Kept
  PROVE  /\ sync' = [q \in Syncers |-> sync'[q]]
         /\ \A q \in Syncers : IsRun(sync'[q])
         /\ sync'[p] = r /\ \A q \in Syncers \ {p} : sync'[q] = sync[q]
         /\ AloneInv' /\ KindInv'
  <1>1. /\ sync' = [q \in Syncers |-> sync'[q]]
        /\ sync'[p] = r /\ \A q \in Syncers \ {p} : sync'[q] = sync[q]
    BY DEF IndInv, ATypeOK, Goes
  <1>2. \A q \in Syncers : IsRun(sync'[q])
    BY <1>1 DEF IndInv, ATypeOK, Goes
  <1>3. AloneInv'
    BY <1>1 DEF IndInv, AloneInv, Goes, IsRun
  <1>4. KindInv'
    BY <1>1 DEF IndInv, KindInv, Goes, Kept
  <1>5. QED BY <1>1, <1>2, <1>3, <1>4

\* Where nothing but the place of a process changes.
LEMMA ProcessGoes ==
  ASSUME IndInv, NEW p \in Syncers, NEW r, Goes(p, r),
         UNCHANGED <<tree, remote, row, excused>>,
         r.pc = "idle" \/ /\ sync[p].pc = "next"
                          /\ r = [sync[p] EXCEPT !.todo = @ \ {Upcoming(p)}]
  PROVE  IndInv'
  <1>1. Kept
    BY DEF Kept, IndInv, KindInv
  <1>2. /\ sync' = [q \in Syncers |-> sync'[q]]
        /\ \A q \in Syncers : IsRun(sync'[q])
        /\ sync'[p] = r /\ \A q \in Syncers \ {p} : sync'[q] = sync[q]
        /\ AloneInv' /\ KindInv'
    BY <1>1, GoesOn
  <1>3. ATypeOK'
    BY <1>2 DEF IndInv, ATypeOK
  <1>4. ASSUME NEW s \in Slugs \ excused
        PROVE  SlugInv(s)'
    <2>1. SlugInv(s) /\ Quiet(s)
      BY DEF IndInv, Quiet, Copies, Present
    <2>2. ASSUME NEW q \in Syncers
          PROVE  RunKeeps(q, s)
      <3>1. CASE q = p /\ r.pc = "idle"
        BY <1>2, <3>1 DEF RunKeeps
      <3>2. CASE q = p /\ r.pc # "idle"
        <4>1. /\ sync[p].pc = "next"
              /\ r = [sync[p] EXCEPT !.todo = @ \ {Upcoming(p)}] /\ IsRun(sync[p])
          BY <3>2 DEF IndInv, ATypeOK
        <4>2. /\ r.pc = "next" /\ r.todo = sync[p].todo \ {Upcoming(p)}
              /\ r.bundle = sync[p].bundle /\ r.listed = sync[p].listed
              /\ r.rows = sync[p].rows /\ r.alone = sync[p].alone
          BY <4>1 DEF IsRun
        <4>3. QED BY <1>2, <3>2, <4>1, <4>2 DEF RunKeeps, Awaits
      <3>3. CASE q # p
        <4>1. sync'[q] = sync[q]
          BY <1>2, <3>3
        <4>2. QED BY <4>1 DEF RunKeeps, Awaits, Upcoming
      <3>4. QED BY <3>1, <3>2, <3>3
    <2>3. QED BY <2>1, <2>2, QuietKeeps
  <1>5. QED BY <1>2, <1>3, <1>4 DEF IndInv

\* A process ends without having changed a thing at Devin.
LEMMA EndKeeps ==
  ASSUME IndInv, NEW p \in Syncers, Ambiguous(p) \/ Finish(p) \/ Crash(p)
  PROVE  IndInv'
  <1>1. Goes(p, Idle) /\ UNCHANGED <<tree, remote, row, excused>>
    BY IdleIsRun DEF Ambiguous, Finish, Crash, Stop, Goes, Idle
  <1>2. QED BY <1>1, ProcessGoes DEF Idle

LEMMA SkipKeeps ==
  ASSUME IndInv, NEW p \in Syncers, Skip(p)
  PROVE  IndInv'
  <1> DEFINE r == [sync[p] EXCEPT !.todo = @ \ {Upcoming(p)}]
  <1>1. IsRun(sync[p])
    BY DEF IndInv, ATypeOK
  <1>2. /\ IsRun(r) /\ r.pc = sync[p].pc /\ r.alone = sync[p].alone
        /\ r.listed = sync[p].listed
    BY <1>1 DEF IsRun, Skip
  <1>3. Goes(p, r) /\ UNCHANGED <<tree, remote, row, excused>>
    BY <1>2 DEF Skip, Goes, IndInv, KindInv
  <1>4. sync[p].pc = "next"
    BY DEF Skip
  <1> HIDE DEF r
  <1>5. QED BY <1>3, <1>4, ProcessGoes DEF r

\* Two that differ in what they know of other transactions only.
Alike(a, b) ==
  /\ IsRun(b) /\ a.pc = b.pc /\ a.bundle = b.bundle /\ a.listed = b.listed
  /\ a.rows = b.rows /\ a.todo = b.todo /\ a.call = b.call /\ a.alone = b.alone

LEMMA CommittedRuns ==
  ASSUME NEW runs, \A q \in Syncers : IsRun(runs[q])
  PROVE  /\ Committed(runs) = [q \in Syncers |-> Committed(runs)[q]]
         /\ \A q \in Syncers : /\ Alike(runs[q], Committed(runs)[q])
                               /\ Committed(runs)[q].calm = runs[q].calm
                               /\ Committed(runs)[q].moved = runs[q].moved
  <1>1. Committed(runs) = [q \in Syncers |-> Committed(runs)[q]]
    BY DEF Committed
  <1>2. ASSUME NEW q \in Syncers
        PROVE  /\ Alike(runs[q], Committed(runs)[q])
               /\ Committed(runs)[q].calm = runs[q].calm
               /\ Committed(runs)[q].moved = runs[q].moved
    <2>1. CASE Committed(runs)[q] = runs[q]
      BY <2>1 DEF Alike
    <2>2. CASE Committed(runs)[q] = [runs[q] EXCEPT !.snapshot = "stale"]
      BY <2>2 DEF Alike, IsRun
    <2>3. QED BY <2>1, <2>2 DEF Committed
  <1>3. QED BY <1>1, <1>2

LEMMA ElsewhereKeeps ==
  ASSUME IndInv, Elsewhere
  PROVE  IndInv'
  <1>1. /\ sync' = [q \in Syncers |-> sync'[q]]
        /\ \A q \in Syncers : Alike(sync[q], sync'[q])
    BY CommittedRuns DEF IndInv, ATypeOK, Elsewhere
  <1>2. UNCHANGED <<tree, remote, row, excused>>
    BY DEF Elsewhere
  <1>3. ATypeOK'
    BY <1>1, <1>2 DEF IndInv, ATypeOK, Alike
  <1>4. AloneInv' /\ KindInv'
    BY <1>1, <1>2 DEF IndInv, AloneInv, KindInv, Alike
  <1>5. ASSUME NEW s \in Slugs \ excused
        PROVE  SlugInv(s)'
    <2>1. SlugInv(s) /\ Quiet(s)
      BY <1>2 DEF IndInv, Quiet, Copies, Present
    <2>2. \A q \in Syncers : RunKeeps(q, s)
      BY <1>1 DEF Alike, RunKeeps, Awaits, Upcoming
    <2>3. QED BY <2>1, <2>2, QuietKeeps
  <1>6. QED BY <1>2, <1>3, <1>4, <1>5 DEF IndInv

\* A process that begins has the titles of the tree, and the playbooks there are.
LEMMA BeginKeeps ==
  ASSUME IndInv, NEW p \in Syncers, NEW dry \in BOOLEAN, Begin(p, dry)
  PROVE  IndInv'
  <1> DEFINE r == sync'[p]
  <1>1. /\ UNCHANGED <<tree, remote, row, excused>>
        /\ sync' = [q \in Syncers |-> sync'[q]]
        /\ r.pc = "notes" /\ r.bundle = [s \in Slugs |-> Content(tree[s])]
        /\ r.listed = [i \in Listing("playbook") |-> remote[i]]
        /\ r.alone \in BOOLEAN /\ (r.alone => Others(p) = {})
        /\ r.todo = {}
    BY DEF Begin, Idle
  <1>2. \A s \in Slugs : Content(tree[s]) \in Contents
    BY DEF Content, Contents, Words, IndInv, ATypeOK
  <1>3. IsRun(r)
    <2>1. DOMAIN r = DOMAIN Idle
      BY DEF Begin, Idle
    <2>2. QED BY <1>1, <1>2, <2>1 DEF IsRun, Idle
  <1>4. ASSUME NEW q \in Syncers \ {p}
        PROVE  /\ IsRun(sync'[q]) /\ ~sync'[q].alone
               /\ sync'[q].pc = sync[q].pc /\ sync'[q].bundle = sync[q].bundle
               /\ sync'[q].listed = sync[q].listed /\ sync'[q].rows = sync[q].rows
               /\ sync'[q].todo = sync[q].todo /\ sync'[q].call = sync[q].call
    <2>1. sync'[q] = [sync[q] EXCEPT !.calm = FALSE, !.alone = FALSE] /\ IsRun(sync[q])
      BY DEF Begin, IndInv, ATypeOK
    <2>2. QED BY <2>1 DEF IsRun
  <1> HIDE DEF r
  <1>5. ATypeOK'
    BY <1>1, <1>3, <1>4 DEF IndInv, ATypeOK, r
  <1>6. AloneInv'
    BY <1>1, <1>4 DEF AloneInv, Others, r
  <1>7. KindInv'
    BY <1>1, <1>4 DEF IndInv, KindInv, Listing, Present, r
  <1>8. ASSUME NEW s \in Slugs \ excused
        PROVE  SlugInv(s)'
    <2>1. SlugInv(s) /\ Copies(s)' = Copies(s)
          /\ \A i \in Copies(s) : Retitled(s, i)' <=> Retitled(s, i)
      BY <1>1 DEF IndInv, Copies, Present, Retitled
    <2>2. OneEach(s)' /\ Findable(s)'
      BY <1>1, <2>1 DEF SlugInv, OneEach, Findable
    <2>3. ASSUME NEW q \in Syncers \ {p}, sync'[q].pc # "idle"
          PROVE  Follows(q, s)'
      <3>1. Follows(q, s)
        BY <1>4, <2>1, <2>3 DEF SlugInv
      <3>2. QED BY <1>1, <1>4, <2>1, <3>1 DEF Follows, HasListed, Upcoming
    <2>4. ASSUME s \in Kinds, NEW i \in Copies(s)
          PROVE  i \in DOMAIN r.listed /\ r.listed[i] = remote[i]
                 /\ remote[i].kind = AssetKind(s)
      <3>1. i \in DOMAIN remote /\ ~remote[i].gone /\ remote[i].kind = AssetKind(s)
        BY <2>4, AssetsAssumption DEF Copies, Present, IndInv, KindInv, Slugs
      <3>2. i \in Listing("playbook")
        BY <2>4, <3>1 DEF Listing, Present, AssetKind
      <3>3. QED BY <1>1, <3>1, <3>2
    <2>5. r.bundle[s].title = tree[s].title
      BY <1>1 DEF Content
    <2>6. Follows(p, s)'
      BY <1>1, <2>1, <2>4, <2>5 DEF Follows, HasListed, r
    <2>7. Awaits(p, s)' => Sees(p, s)'
      BY <1>1, <2>1, <2>4, <2>5 DEF Awaits, Sees, Retitled, r
    <2>8. QED BY <1>4, <2>2, <2>3, <2>6, <2>7 DEF SlugInv
  <1>9. QED BY <1>1, <1>5, <1>6, <1>7, <1>8 DEF IndInv

\* The rows it reads have the id of every copy that its title would miss, and
\* its listings have every copy.
LEMMA ReadRowsKeeps ==
  ASSUME IndInv, NEW p \in Syncers, ReadRows(p)
  PROVE  IndInv'
  <1> DEFINE old == sync[p].listed
             new == [i \in DOMAIN old \cup Listing("knowledge") |->
                       IF i \in DOMAIN old THEN old[i] ELSE remote[i]]
             r   == [sync[p] EXCEPT !.pc = "next", !.rows = row, !.todo = Slugs,
                                    !.snapshot = "first", !.listed = new]
  <1>1. IsRun(sync[p]) /\ sync[p].pc = "notes"
    BY DEF IndInv, ATypeOK, ReadRows
  <1>2. /\ sync' = [sync EXCEPT ![p] = r]
        /\ UNCHANGED <<tree, remote, row, excused>>
    BY DEF ReadRows
  <1>3. /\ IsRun(r) /\ r.pc = "next" /\ r.rows = row /\ r.todo = Slugs /\ r.listed = new
        /\ r.bundle = sync[p].bundle /\ r.alone = sync[p].alone
    <2> HIDE DEF new
    <2> HIDE DEF new
    <2>1. /\ DOMAIN r = DOMAIN sync[p]
          /\ r.pc = "next" /\ r.rows = row /\ r.todo = Slugs /\ r.listed = new
          /\ r.bundle = sync[p].bundle /\ r.alone = sync[p].alone
      BY <1>1 DEF IsRun
    <2> HIDE DEF r
    <2>2. QED BY <1>1, <2>1 DEF IsRun
  <1> HIDE DEF r
  <1>4. \A i \in DOMAIN old : i \in DOMAIN remote /\ remote[i].kind = "playbook"
    BY <1>1 DEF IndInv, KindInv
  <1>5. Goes(p, r) /\ Kept
    BY <1>1, <1>2, <1>3, <1>4 DEF Goes, Kept, IndInv, KindInv, Listing, Present
  <1>6. /\ sync' = [q \in Syncers |-> sync'[q]]
        /\ \A q \in Syncers : IsRun(sync'[q])
        /\ sync'[p] = r /\ \A q \in Syncers \ {p} : sync'[q] = sync[q]
        /\ AloneInv' /\ KindInv'
    BY <1>5, GoesOn
  <1>7. ATypeOK'
    BY <1>2, <1>6 DEF IndInv, ATypeOK
  <1>8. ASSUME NEW s \in Slugs \ excused
        PROVE  SlugInv(s)'
    <2>1. SlugInv(s) /\ Follows(p, s) /\ Copies(s)' = Copies(s)
          /\ \A i \in Copies(s) : Retitled(s, i)' <=> Retitled(s, i)
      BY <1>1, <1>2 DEF IndInv, SlugInv, Copies, Present, Retitled
    <2>2. OneEach(s)' /\ Findable(s)'
      BY <1>2, <2>1 DEF SlugInv, OneEach, Findable
    <2>3. ASSUME NEW q \in Syncers \ {p}, sync'[q].pc # "idle"
          PROVE  /\ Follows(q, s)'
                 /\ sync'[q].alone /\ Awaits(q, s)' => Sees(q, s)'
      <3>1. /\ sync'[q] = sync[q] /\ Follows(q, s)
            /\ sync[q].alone /\ Awaits(q, s) => Sees(q, s)
        BY <1>6, <2>1, <2>3 DEF SlugInv
      <3>2. QED BY <1>2, <2>1, <3>1 DEF Follows, HasListed, Upcoming, Awaits, Sees
    <2>4. ASSUME s \in Notes, NEW i \in Copies(s)
          PROVE  i \in DOMAIN new /\ new[i] = remote[i] /\ remote[i].kind = AssetKind(s)
      <3>1. i \in DOMAIN remote /\ ~remote[i].gone /\ remote[i].kind = AssetKind(s)
        BY <2>4, AssetsAssumption DEF Copies, Present, IndInv, KindInv, Slugs
      <3>2. AssetKind(s) = "knowledge"
        BY <2>4, AssetsAssumption DEF AssetKind
      <3>3. i \in Listing("knowledge") /\ i \notin DOMAIN old
        BY <1>4, <3>1, <3>2 DEF Listing, Present
      <3>4. QED BY <3>1, <3>3
    <2>5. s \in Kinds => HasListed(p, s) /\ Awaits(p, s)
      BY <1>1 DEF HasListed, Awaits
    <2>6. Follows(p, s)'
      <3>1. ASSUME NEW i \in Copies(s), Retitled(s, i)
            PROVE  i \in DOMAIN new /\ row[s].id = i
        BY <2>1, <2>4, <2>5, <3>1 DEF Follows, SlugInv, Findable, Slugs
      <3>2. QED BY <1>2, <1>3, <1>6, <2>1, <3>1 DEF Follows
    <2>7. ASSUME r.alone
          PROVE  Sees(p, s)'
      <3>1. ASSUME NEW i \in Copies(s)
            PROVE  /\ i \in DOMAIN new /\ new[i].kind = AssetKind(s)
                   /\ Retitled(s, i) \/ new[i].content.title = sync[p].bundle[s].title
        <4>1. CASE s \in Kinds
          BY <1>1, <1>3, <2>1, <2>5, <2>7, <3>1, <4>1 DEF SlugInv, Sees
        <4>2. CASE s \in Notes
          BY <2>1, <2>4, <3>1, <4>2 DEF Follows, Retitled
        <4>3. QED BY <4>1, <4>2 DEF Slugs
      <3>2. QED BY SMTT(30), <1>2, <1>3, <1>6, <2>1, <3>1 DEF Sees
    <2>8. QED BY <1>6, <2>2, <2>3, <2>6, <2>7 DEF SlugInv
  <1>9. QED BY <1>2, <1>6, <1>7, <1>8 DEF IndInv

-----------------------------------------------------------------------------
(* Finding an asset *)

\* A copy whose title has changed is found by its id.
LEMMA RetitledIsLocated ==
  ASSUME IndInv, NEW p \in Syncers, sync[p].pc = "next", NEW s \in Slugs \ excused,
         NEW i \in Copies(s), Retitled(s, i)
  PROVE  Located(p, s) = {i}
  <1>1. /\ i \in DOMAIN sync[p].listed /\ sync[p].rows[s].id = i /\ row[s].id = i
    BY DEF IndInv, SlugInv, Follows, Findable, HasListed
  <1>2. i # 0
    BY DEF IndInv, ATypeOK, Copies, Present
  <1>3. RecordedId(p, s) = i
    BY <1>1, <1>2 DEF RecordedId, NoRow
  <1>4. QED BY <1>1, <1>3 DEF Located

\* A lone process that finds nothing leaves no copy out.
LEMMA NothingLocated ==
  ASSUME IndInv, NEW p \in Syncers, sync[p].pc = "next", sync[p].alone,
         NEW s \in Slugs \ excused, s \in sync[p].todo, Located(p, s) = {}
  PROVE  Copies(s) = {}
  <1> SUFFICES ASSUME NEW i \in Copies(s)
               PROVE  FALSE
    OBVIOUS
  <1>1. ~Retitled(s, i)
    BY RetitledIsLocated
  <1>2. /\ i \in DOMAIN sync[p].listed /\ sync[p].listed[i].kind = AssetKind(s)
        /\ sync[p].listed[i].content.title = sync[p].bundle[s].title
    BY <1>1 DEF IndInv, SlugInv, Awaits, Sees
  <1>3. i \in Titled(p, s)
    BY <1>2 DEF Titled
  <1>4. QED BY <1>3 DEF Located

\* What a process locates it has listed.
LEMMA LocatedExists ==
  ASSUME IndInv, NEW p \in Syncers, sync[p].pc = "next", NEW s \in Slugs,
         NEW i \in Located(p, s)
  PROVE  i \in DOMAIN sync[p].listed /\ i \in DOMAIN remote
  BY DEF Located, Titled, IndInv, KindInv

-----------------------------------------------------------------------------
(* What a sync does at Devin *)

\* A call takes effect some number of times, once at least if it is answered.
LEMMA OutcomeCounts ==
  ASSUME NEW o \in Request
  PROVE  o.landed \in Nat /\ (o.answered => o.landed > 0)
  <1>1. PICK script \in Scripts(Attempts) : o = Outcome(script)
    BY DEF Request
  <1> DEFINE final == {i \in 1 .. Len(script) : script[i] \in {"answered", "refused"}}
             n     == IF final = {} THEN Len(script) ELSE Min(final)
             made  == Made(script)
  <1>2. script \in [1 .. 4 -> Replies]
    BY <1>1 DEF Scripts, Attempts
  <1>3. Len(script) = 4 /\ script \in Seq(Replies)
    <2>1. script \in Seq(Replies) /\ DOMAIN script = 1 .. 4
      BY <1>2, SeqDef
    <2>2. QED BY <2>1
  <1>4. n \in 1 .. 4
    <2>1. ASSUME final # {}
          PROVE  \E m \in final : \A k \in final : m <= k
      <3>1. final \subseteq 1 .. 4
        BY <1>3
      <3>2. CASE 1 \in final
        BY <3>1, <3>2
      <3>3. CASE 1 \notin final /\ 2 \in final
        BY <3>1, <3>3
      <3>4. CASE 1 \notin final /\ 2 \notin final /\ 3 \in final
        BY <3>1, <3>4
      <3>5. CASE 1 \notin final /\ 2 \notin final /\ 3 \notin final
        BY <2>1, <3>1, <3>5
      <3>6. QED BY <3>2, <3>3, <3>4, <3>5
    <2> HIDE DEF final
    <2>2. final # {} => Min(final) \in final
      BY <2>1 DEF Min
    <2>3. final \subseteq 1 .. 4
      BY <1>3 DEF final
    <2>4. CASE final = {}
      BY <1>3, <2>4
    <2>5. CASE final # {}
      <3>1. n = Min(final)
        BY <2>5
      <3>2. QED BY <2>2, <2>3, <2>5, <3>1
    <2>6. QED BY <2>4, <2>5
  <1>5. made = SubSeq(script, 1, n)
    BY DEF Made
  <1> HIDE DEF n
  <1>6. DOMAIN made = 1 .. n /\ Len(made) = n
    BY <1>3, <1>4, <1>5
  <1>7. IsFiniteSet(DOMAIN made)
    BY <1>4, <1>6, FS_Interval
  <1> HIDE DEF made
  <1> DEFINE landed == {i \in DOMAIN made : made[i] \in {"answered", "lost"}}
  <1>8. IsFiniteSet(landed) /\ Cardinality(landed) \in Nat
    BY <1>7, FS_Subset, FS_CardinalityType
  <1>9. ASSUME Last(made) = "answered"
        PROVE  Cardinality(landed) > 0
    <2>1. n \in landed
      BY <1>4, <1>6, <1>9 DEF Last
    <2> HIDE DEF landed
    <2>2. Cardinality(landed) # 0
      BY <1>8, <2>1, FS_EmptySet
    <2>3. QED BY <1>8, <2>2
  <1>10. QED BY <1>1, <1>8, <1>9 DEF Outcome, made

\* Some more assets are made, all alike.
LEMMA MadeMore ==
  ASSUME remote \in Seq(Asset), NEW n \in Nat, NEW a \in Asset,
         remote' = remote \o [i \in 1 .. n |-> a]
  PROVE  /\ remote' \in Seq(Asset) /\ Len(remote') = Len(remote) + n
         /\ \A i \in DOMAIN remote : i \in DOMAIN remote' /\ remote'[i] = remote[i]
         /\ \A i \in DOMAIN remote' \ DOMAIN remote : remote'[i] = a
         /\ n <= 1 => \A i, j \in DOMAIN remote' \ DOMAIN remote : i = j
  <1> DEFINE more == [i \in 1 .. n |-> a]
  <1>1. more \in Seq(Asset) /\ Len(more) = n
    OBVIOUS
  <1>2. \A i \in 1 .. n : more[i] = a
    OBVIOUS
  <1>3. remote' = remote \o more
    OBVIOUS
  <1> HIDE DEF more
  <1>4. /\ remote' \in Seq(Asset) /\ Len(remote') = Len(remote) + n
        /\ \A i \in 1 .. Len(remote) + n :
             remote'[i] = IF i <= Len(remote) THEN remote[i] ELSE more[i - Len(remote)]
    BY SMTT(30), <1>1, <1>3, ConcatProperties
  <1>5. /\ DOMAIN remote = 1 .. Len(remote) /\ Len(remote) \in Nat
        /\ DOMAIN remote' = 1 .. Len(remote) + n
    BY <1>4
  <1>6. ASSUME NEW i \in DOMAIN remote
        PROVE  i \in DOMAIN remote' /\ remote'[i] = remote[i]
    BY <1>4, <1>5
  <1>7. ASSUME NEW i \in DOMAIN remote' \ DOMAIN remote
        PROVE  remote'[i] = a /\ i > Len(remote) /\ i <= Len(remote) + n /\ i \in Nat
    <2>1. i \in Nat /\ i > Len(remote) /\ i <= Len(remote) + n
      BY <1>5
    <2>2. i - Len(remote) \in 1 .. n
      BY <1>5, <2>1
    <2>3. QED BY <1>2, <1>4, <1>5, <2>1, <2>2
  <1>8. QED BY <1>4, <1>5, <1>6, <1>7

\* A process that has its answer holds what it was told.
Holds(p, r, call) ==
  /\ r.pc = "held" /\ r.call = call
  /\ r.bundle = sync[p].bundle /\ r.listed = sync[p].listed /\ r.rows = sync[p].rows
  /\ r.todo = sync[p].todo /\ r.alone = sync[p].alone
  /\ r.calm = sync[p].calm /\ r.moved = sync[p].moved

LEMMA AnsweredHolds ==
  ASSUME IndInv, NEW p \in Syncers, sync[p].pc = "next", sync[p].todo # {},
         NEW s, NEW call, Answered(p, s, call)
  PROVE  \E r : Goes(p, r) /\ Holds(p, r, call)
  <1>1. PICK r : /\ sync' = [sync EXCEPT ![p] = r]
                 /\ r = [sync[p] EXCEPT !.pc = "held", !.call = call,
                           !.snapshot = IF sync[p].snapshot = "none" /\ sync[p].rows[s] # NoRow
                                        THEN "fresh" ELSE sync[p].snapshot]
    BY DEF Answered
  <1>2. IsRun(sync[p])
    BY DEF IndInv, ATypeOK
  <1>3. DOMAIN r = DOMAIN sync[p] /\ Holds(p, r, call)
    BY <1>1, <1>2 DEF IsRun, Holds
  <1>4. IsRun(r)
    BY <1>2, <1>3 DEF IsRun, Holds
  <1>5. Goes(p, r)
    BY <1>1, <1>3, <1>4 DEF Goes, Holds, IndInv, KindInv
  <1>6. QED BY <1>3, <1>5

\* What a call leaves of the process, answered or not.
LEMMA AnsweredRun ==
  ASSUME IndInv, NEW p \in Syncers, sync[p].pc = "next", sync[p].todo # {},
         NEW s, NEW call, Answered(p, s, call) \/ Stop(p)
  PROVE  \E r : Goes(p, r) /\ (r.pc = "idle" \/ Holds(p, r, call))
  <1>1. CASE Stop(p)
    <2>1. Goes(p, Idle) /\ Idle.pc = "idle"
      BY <1>1, IdleIsRun DEF Stop, Goes, Idle
    <2>2. QED BY <2>1
  <1>2. CASE Answered(p, s, call)
    BY <1>2, AnsweredHolds
  <1>3. QED BY <1>1, <1>2

\* The call of a process is about the asset it has come to.
Calls(p, r) ==
  /\ sync[p].pc = "next" /\ sync[p].todo # {} /\ Goes(p, r)
  /\ r.pc = "idle" \/ /\ r.pc = "held"
                      /\ r.bundle = sync[p].bundle /\ r.listed = sync[p].listed
                      /\ r.rows = sync[p].rows /\ r.todo = sync[p].todo

LEMMA CallKeepsOthers ==
  ASSUME IndInv, NEW p \in Syncers, NEW r, Calls(p, r), Kept,
         NEW t \in Slugs \ excused, t # Upcoming(p), Quiet(t)
  PROVE  SlugInv(t)'
  <1>1. /\ sync'[p] = r /\ \A q \in Syncers \ {p} : sync'[q] = sync[q]
    BY GoesOn DEF Calls
  <1>2. ASSUME NEW q \in Syncers
        PROVE  RunKeeps(q, t)
    <2>1. CASE q = p
      BY <1>1, <2>1 DEF Calls, Goes, RunKeeps, Awaits, Upcoming
    <2>2. CASE q # p
      BY <1>1, <2>2 DEF RunKeeps, Awaits, Upcoming
    <2>3. QED BY <2>1, <2>2
  <1>3. QED BY <1>2, QuietKeeps DEF IndInv

\* Whatever a create call makes, a second copy is excused: a lone process that
\* finds no copy has none, and the copy has the title of the tree.
LEMMA CreateKeeps ==
  ASSUME IndInv, NEW p \in Syncers, Create(p)
  PROVE  IndInv'
  <1>1. PICK s, made : /\ s = Upcoming(p)
                       /\ made = [kind |-> AssetKind(s), content |-> sync[p].bundle[s],
                                  by |-> s, gone |-> FALSE]
    OBVIOUS
  <1>2. /\ sync[p].pc = "next" /\ sync[p].todo # {} /\ Located(p, s) = {}
        /\ UNCHANGED <<tree, row>>
    BY <1>1 DEF Create
  <1>3. PICK o \in Request :
          /\ remote' = remote \o [i \in 1 .. o.landed |-> made]
          /\ excused' = IF o.landed > 1 \/ ~sync[p].alone THEN excused \cup {s} ELSE excused
          /\ IF o.answered
             THEN Answered(p, s, [id |-> Len(remote'), action |-> "created"])
             ELSE Stop(p)
    BY <1>1 DEF Create
  <1>4. PICK r : Calls(p, r)
    <2>1. PICK call : Answered(p, s, call) \/ Stop(p)
      BY <1>3
    <2>2. QED BY <1>2, <2>1, AnsweredRun DEF Calls, Holds
  <1>5. s \in sync[p].todo /\ s \in Slugs /\ sync[p].bundle[s] \in Contents
    BY <1>1, <1>2, FirstIsIn DEF Upcoming, IndInv, ATypeOK, IsRun
  <1>6. made \in Asset /\ made.kind = AssetKind(s) /\ made.by = s
        /\ made.content = sync[p].bundle[s] /\ o.landed \in Nat
    BY <1>1, <1>5, OutcomeCounts DEF Asset, AssetKind
  <1>7. /\ remote' \in Seq(Asset)
        /\ \A i \in DOMAIN remote : i \in DOMAIN remote' /\ remote'[i] = remote[i]
        /\ \A i \in DOMAIN remote' \ DOMAIN remote : remote'[i] = made
        /\ o.landed <= 1 => \A i, j \in DOMAIN remote' \ DOMAIN remote : i = j
    <2>1. remote \in Seq(Asset)
      BY DEF IndInv, ATypeOK
    <2>2. remote' = remote \o [i \in 1 .. o.landed |-> made]
      BY <1>3
    <2>3. made \in Asset /\ o.landed \in Nat
      BY <1>6
    <2>4. QED BY <2>1, <2>2, <2>3, MadeMore
  <1>8. Kept
    BY <1>6, <1>7 DEF Kept, IndInv, KindInv
  <1>9. /\ sync' = [q \in Syncers |-> sync'[q]]
        /\ \A q \in Syncers : IsRun(sync'[q])
        /\ sync'[p] = r /\ \A q \in Syncers \ {p} : sync'[q] = sync[q]
        /\ AloneInv' /\ KindInv'
    BY <1>4, <1>8, GoesOn DEF Calls
  <1>10. ATypeOK'
    BY <1>2, <1>7, <1>9 DEF IndInv, ATypeOK
  <1>11. ASSUME NEW t \in Slugs \ excused', t # s
         PROVE  SlugInv(t)'
    <2>1. t \in Slugs \ excused
      BY <1>3, <1>11
    <2>2. Quiet(t)
      BY <1>2, <1>6, <1>7, <1>11 DEF Quiet, Copies, Present
    <2>3. QED BY <1>1, <1>4, <1>8, <1>11, <2>1, <2>2, CallKeepsOthers
  <1>12. ASSUME s \notin excused'
         PROVE  SlugInv(s)'
    <2>1. s \in Slugs \ excused /\ sync[p].alone /\ o.landed <= 1
      BY <1>3, <1>5, <1>6, <1>12
    <2>2. Copies(s) = {}
      BY <1>2, <1>5, <2>1, NothingLocated
    <2>3. Follows(p, s)
      BY <1>2, <2>1 DEF IndInv, SlugInv
    <2>4. ASSUME NEW i \in Copies(s)'
          PROVE  i \in DOMAIN remote' \ DOMAIN remote /\ ~Retitled(s, i)'
      <3>1. i \notin DOMAIN remote
        BY <1>7, <2>2, <2>4 DEF Copies, Present
      <3>2. i \in DOMAIN remote' /\ remote'[i] = made
        BY <1>7, <2>4, <3>1 DEF Copies, Present
      <3>3. QED BY <1>2, <1>6, <2>3, <3>1, <3>2 DEF Follows, Retitled
    <2>5. OneEach(s)' /\ Findable(s)'
      BY <1>7, <2>1, <2>4 DEF OneEach, Findable
    <2>6. \A q \in Syncers \ {p} : sync'[q].pc = "idle"
      BY <1>9, <2>1 DEF IndInv, AloneInv
    <2>7. ASSUME sync'[p].pc # "idle"
          PROVE  Follows(p, s)' /\ ~Awaits(p, s)'
      <3>1. /\ sync'[p].pc = "held" /\ sync'[p].bundle = sync[p].bundle
            /\ sync'[p].todo = sync[p].todo
        BY <1>4, <1>9, <2>7 DEF Calls
      <3>2. Follows(p, s)'
        BY <1>2, <2>3, <2>4, <3>1 DEF Follows
      <3>3. QED BY <1>1, <3>1, <3>2 DEF Awaits, Upcoming
    <2>8. QED BY <2>5, <2>6, <2>7 DEF SlugInv
  <1>13. QED BY <1>9, <1>10, <1>11, <1>12 DEF IndInv

\* An update gives the asset the title of its file; one that another file's
\* process retitles is excused.
LEMMA UpdateKeeps ==
  ASSUME IndInv, NEW p \in Syncers, Update(p)
  PROVE  IndInv'
  <1>1. PICK s : s = Upcoming(p)
    OBVIOUS
  <1>2. PICK i : Located(p, s) = {i}
    BY <1>1 DEF Update
  <1>3. /\ sync[p].pc = "next" /\ sync[p].todo # {} /\ UNCHANGED <<tree, row>>
        /\ \/ UNCHANGED <<remote, excused>>
           \/ /\ remote' = [remote EXCEPT ![i].content = sync[p].bundle[s]]
              /\ excused' = IF remote'[i].content.title # remote[i].content.title
                            THEN excused \cup ({remote[i].by} \ {s, "hand"}) ELSE excused
    BY <1>1, <1>2 DEF Update
  <1>4. PICK r : /\ Calls(p, r)
                 /\ r.pc = "idle" \/ r.call.id = i
    <2>1. PICK call : /\ call.id = i
                      /\ Answered(p, s, call) \/ Stop(p)
      <3>1. \/ Answered(p, s, [id |-> i, action |-> "unchanged"])
            \/ Answered(p, s, [id |-> i, action |-> "updated"])
            \/ Stop(p)
        BY <1>1, <1>2 DEF Update
      <3>2. PICK action : Answered(p, s, [id |-> i, action |-> action]) \/ Stop(p)
        BY <3>1
      <3>3. [id |-> i, action |-> action].id = i
        OBVIOUS
      <3>4. WITNESS [id |-> i, action |-> action]
      <3>5. QED BY <3>2, <3>3, Zenon
    <2>2. PICK r : Goes(p, r) /\ (r.pc = "idle" \/ Holds(p, r, call))
      BY <1>3, <2>1, AnsweredRun
    <2>3. QED BY <1>3, <2>1, <2>2 DEF Calls, Holds
  <1>5. s \in sync[p].todo /\ s \in Slugs /\ sync[p].bundle[s] \in Contents
    BY <1>1, <1>3, FirstIsIn DEF Upcoming, IndInv, ATypeOK, IsRun
  <1>6. i \in DOMAIN remote /\ remote \in Seq(Asset)
    BY <1>2, <1>3, <1>5, LocatedExists DEF IndInv, ATypeOK
  <1>7. /\ remote' \in Seq(Asset) /\ DOMAIN remote' = DOMAIN remote
        /\ \A k \in DOMAIN remote :
             /\ remote'[k].kind = remote[k].kind /\ remote'[k].by = remote[k].by
             /\ remote'[k].gone = remote[k].gone
             /\ k # i => remote'[k] = remote[k]
        /\ \/ UNCHANGED <<remote, excused>>
           \/ remote'[i].content = sync[p].bundle[s]
    <2>1. CASE UNCHANGED <<remote, excused>>
      BY <1>6, <2>1
    <2>2. CASE remote' = [remote EXCEPT ![i].content = sync[p].bundle[s]]
      <3>1. /\ remote[i] \in Asset
            /\ [remote[i] EXCEPT !.content = sync[p].bundle[s]] \in Asset
        <4>1. ASSUME NEW a \in Asset, NEW c \in Contents
              PROVE  [a EXCEPT !.content = c] \in Asset
          BY <4>1 DEF Asset
        <4>2. remote[i] \in Asset
          BY <1>6
        <4>3. QED BY <1>5, <4>1, <4>2
      <3>2. remote' = [remote EXCEPT ![i] = [remote[i] EXCEPT !.content = sync[p].bundle[s]]]
        BY <2>2
      <3>3. remote' \in Seq(Asset) /\ DOMAIN remote' = DOMAIN remote
        BY <1>6, <3>1, <3>2
      <3>4. remote'[i] = [remote[i] EXCEPT !.content = sync[p].bundle[s]]
        BY <1>6, <3>2
      <3>5. \A k \in DOMAIN remote : k # i => remote'[k] = remote[k]
        BY <1>6, <3>2
      <3>6. QED BY <1>6, <3>1, <3>3, <3>4, <3>5 DEF Asset
    <2>3. QED BY <1>3, <2>1, <2>2
  <1>8. Kept
    BY <1>7 DEF Kept, IndInv, KindInv
  <1>9. /\ sync' = [q \in Syncers |-> sync'[q]]
        /\ \A q \in Syncers : IsRun(sync'[q])
        /\ sync'[p] = r /\ \A q \in Syncers \ {p} : sync'[q] = sync[q]
        /\ AloneInv' /\ KindInv'
    BY <1>4, <1>8, GoesOn DEF Calls
  <1>10. ATypeOK'
    BY <1>3, <1>7, <1>9 DEF IndInv, ATypeOK
  <1>11. \A t : Copies(t)' = Copies(t)
    BY <1>7 DEF Copies, Present
  <1>12. ASSUME NEW t \in Slugs \ excused', t # s
         PROVE  SlugInv(t)'
    <2>1. t \in Slugs \ excused
      BY <1>3, <1>12
    <2>2. ASSUME NEW k \in Copies(t)
          PROVE  remote'[k].content.title = remote[k].content.title
      <3>1. k \in DOMAIN remote /\ remote[k].by = t
        BY <2>2 DEF Copies, Present
      <3>2. CASE k = i
        BY <1>3, <1>12, <3>1, <3>2, AssetsAssumption DEF Slugs
      <3>3. CASE k # i
        BY <1>7, <3>1, <3>3
      <3>4. QED BY <3>2, <3>3
    <2>3. Quiet(t)
      BY <1>3, <1>11, <2>2 DEF Quiet
    <2>4. QED BY <1>1, <1>4, <1>8, <1>12, <2>1, <2>3, CallKeepsOthers
  <1>13. ASSUME s \notin excused'
         PROVE  SlugInv(s)'
    <2>1. s \in Slugs \ excused /\ SlugInv(s) /\ Follows(p, s)
      BY <1>3, <1>5, <1>13 DEF IndInv, SlugInv
    <2>2. ASSUME NEW k \in Copies(s), Retitled(s, k)'
          PROVE  Retitled(s, k) /\ i = k
      <3>1. k \in DOMAIN remote
        BY <2>2 DEF Copies, Present
      <3>2. Retitled(s, k)
        <4>1. CASE remote'[k] = remote[k]
          BY <1>3, <2>2, <4>1 DEF Retitled
        <4>2. CASE remote'[k] # remote[k]
          <5>1. k = i /\ remote'[k].content = sync[p].bundle[s]
            BY <1>7, <3>1, <4>2
          <5>2. QED BY <1>3, <2>1, <2>2, <5>1 DEF Follows, Retitled
        <4>3. QED BY <4>1, <4>2
      <3>3. Located(p, s) = {k}
        BY <1>3, <2>1, <2>2, <3>2, RetitledIsLocated
      <3>4. QED BY <1>2, <3>2, <3>3
    <2>3. OneEach(s)' /\ Findable(s)'
      BY <1>3, <1>11, <2>1, <2>2 DEF SlugInv, OneEach, Findable
    <2>4. ASSUME NEW q \in Syncers \ {p}, sync'[q].pc # "idle"
          PROVE  Follows(q, s)' /\ ~sync'[q].alone
      <3>1. sync'[q] = sync[q] /\ Follows(q, s)
        BY <1>9, <2>1, <2>4 DEF SlugInv
      <3>2. Follows(q, s)'
        BY <1>3, <1>11, <2>2, <3>1 DEF Follows, HasListed, Upcoming
      <3>3. QED BY <1>3, <3>1, <3>2 DEF IndInv, AloneInv
    <2>5. ASSUME sync'[p].pc # "idle"
          PROVE  Follows(p, s)' /\ ~Awaits(p, s)'
      <3>1. /\ sync'[p].pc = "held" /\ sync'[p].bundle = sync[p].bundle
            /\ sync'[p].todo = sync[p].todo /\ sync'[p].rows = sync[p].rows
            /\ sync'[p].listed = sync[p].listed /\ sync'[p].call.id = i
        BY <1>4, <1>9, <2>5 DEF Calls
      <3>2. Follows(p, s)'
        BY <1>3, <1>11, <2>1, <2>2, <3>1 DEF Follows, HasListed
      <3>3. QED BY <1>1, <3>1, <3>2 DEF Awaits, Upcoming
    <2>6. QED BY <2>3, <2>4, <2>5 DEF SlugInv
  <1>14. QED BY <1>9, <1>10, <1>12, <1>13 DEF IndInv

\* The row gets the id that finds the copy.
LEMMA PersistKeeps ==
  ASSUME IndInv, NEW p \in Syncers, Persist(p)
  PROVE  IndInv'
  <1>1. PICK s : s = Upcoming(p)
    OBVIOUS
  <1>2. sync[p].pc = "held" /\ UNCHANGED <<tree, remote, excused>> /\ IsRun(sync[p])
    BY DEF Persist, IndInv, ATypeOK
  <1>3. s \in sync[p].todo /\ s \in Slugs
    BY <1>1, <1>2, FirstIsIn DEF Upcoming, IsRun
  <1>4. CASE Stop(p) /\ row' = row
    <2>1. Goes(p, Idle)
      BY <1>2, <1>4, IdleIsRun DEF Stop, Goes, Idle
    <2>2. QED BY <1>2, <1>4, <2>1, ProcessGoes DEF Idle
  <1>5. ASSUME ~(Stop(p) /\ row' = row)
        PROVE  IndInv'
    <2>1. PICK r, runs : /\ r = [sync[p] EXCEPT !.pc = "next", !.todo = @ \ {s},
                                   !.call = NoCall, !.snapshot = "none"]
                         /\ runs = [sync EXCEPT ![p] = r]
      OBVIOUS
    <2>2. /\ row' = [row EXCEPT ![s] = [id |-> sync[p].call.id, sha |-> sync[p].bundle[s]]]
          /\ sync' = Committed(runs)
      BY <1>1, <1>5, <2>1 DEF Persist
    <2>3. /\ DOMAIN r = DOMAIN sync[p] /\ r.pc = "next" /\ r.todo = sync[p].todo \ {s}
          /\ r.bundle = sync[p].bundle /\ r.listed = sync[p].listed
          /\ r.rows = sync[p].rows /\ r.alone = sync[p].alone
      BY <1>2, <2>1 DEF IsRun
    <2>4. IsRun(r)
      BY <1>2, <2>3 DEF IsRun
    <2>5. runs[p] = r /\ \A q \in Syncers \ {p} : runs[q] = sync[q]
      BY <2>1 DEF IndInv, ATypeOK
    <2>6. \A q \in Syncers : IsRun(runs[q])
      BY <2>4, <2>5 DEF IndInv, ATypeOK
    <2>7. /\ sync' = [q \in Syncers |-> sync'[q]]
          /\ \A q \in Syncers : Alike(runs[q], sync'[q])
      BY <2>2, <2>6, CommittedRuns
    <2>8. /\ row' = [t \in Slugs |-> row'[t]] /\ row'[s].id = sync[p].call.id
          /\ \A t \in Slugs \ {s} : row'[t] = row[t]
      BY <1>3, <2>2 DEF IndInv, ATypeOK
    <2>9. ATypeOK'
      BY <1>2, <2>7, <2>8 DEF IndInv, ATypeOK, Alike
    <2>10. AloneInv' /\ KindInv'
      BY <1>2, <2>3, <2>5, <2>7 DEF IndInv, AloneInv, KindInv, Alike
    <2>11. ASSUME NEW t \in Slugs \ excused, t # s
           PROVE  SlugInv(t)'
      <3>1. SlugInv(t) /\ Quiet(t)
        BY <1>2, <2>8, <2>11 DEF IndInv, Quiet, Copies, Present
      <3>2. ASSUME NEW q \in Syncers
            PROVE  RunKeeps(q, t)
        <4>1. CASE q = p
          BY <1>1, <1>2, <2>3, <2>5, <2>7, <2>11, <4>1 DEF Alike, RunKeeps, Awaits, Upcoming
        <4>2. CASE q # p
          BY <2>5, <2>7, <4>2 DEF Alike, RunKeeps, Awaits, Upcoming
        <4>3. QED BY <4>1, <4>2
      <3>3. QED BY <3>1, <3>2, QuietKeeps
    <2>12. ASSUME s \notin excused
           PROVE  SlugInv(s)'
      <3>1. SlugInv(s) /\ Follows(p, s) /\ Copies(s)' = Copies(s)
            /\ \A i \in Copies(s) : Retitled(s, i)' <=> Retitled(s, i)
        BY <1>2, <1>3, <2>12 DEF IndInv, SlugInv, Copies, Present, Retitled
      <3>2. OneEach(s)' /\ Findable(s)'
        BY <1>1, <1>2, <2>8, <3>1 DEF SlugInv, OneEach, Findable, Follows
      <3>3. ASSUME NEW q \in Syncers \ {p}, sync'[q].pc # "idle"
            PROVE  /\ Follows(q, s)'
                   /\ sync'[q].alone /\ Awaits(q, s)' => Sees(q, s)'
        <4>1. /\ Alike(sync[q], sync'[q]) /\ Follows(q, s)
              /\ sync[q].alone /\ Awaits(q, s) => Sees(q, s)
          BY <2>5, <2>7, <3>1, <3>3 DEF SlugInv, Alike
        <4>2. QED BY <1>2, <3>1, <4>1 DEF Alike, Follows, HasListed, Upcoming, Awaits, Sees
      <3>4. /\ Alike(r, sync'[p])
        BY <2>5, <2>7
      <3>5. Follows(p, s)'
        BY <1>2, <2>3, <3>1, <3>4 DEF Alike, Follows, HasListed
      <3>6. ~Awaits(p, s)'
        BY <2>3, <3>4 DEF Alike, Awaits
      <3>7. QED BY <3>2, <3>3, <3>5, <3>6 DEF SlugInv
    <2>13. QED BY <1>2, <2>9, <2>10, <2>11, <2>12 DEF IndInv
  <1>6. QED BY <1>4, <1>5

-----------------------------------------------------------------------------
(* What others do *)

\* Where every process keeps what it had, and only other assets are new.
LEMMA OutsideKeeps ==
  ASSUME IndInv, remote' \in Seq(Asset), Kept,
         tree' = tree, row' = row, excused' = excused,
         sync' = [q \in Syncers |-> sync'[q]],
         \A q \in Syncers : Alike(sync[q], sync'[q]),
         \A s \in Slugs : Quiet(s)
  PROVE  IndInv'
  <1>1. ATypeOK'
    BY DEF IndInv, ATypeOK, Alike
  <1>2. AloneInv' /\ KindInv'
    BY DEF IndInv, AloneInv, KindInv, Kept, Alike
  <1>3. \A s \in Slugs \ excused : SlugInv(s)'
    <2>1. \A s \in Slugs, q \in Syncers : RunKeeps(q, s)
      BY DEF Alike, RunKeeps, Awaits, Upcoming
    <2>2. QED BY <2>1, QuietKeeps DEF IndInv
  <1>4. QED BY <1>1, <1>2, <1>3 DEF IndInv

LEMMA HandMadeKeeps ==
  ASSUME IndInv, NEW s \in Slugs, HandMade(s)
  PROVE  IndInv'
  <1>1. PICK a : /\ a = [kind |-> AssetKind(s), by |-> "hand", gone |-> FALSE,
                         content |-> [Content(tree[s]) EXCEPT !.body = "edited"]]
                 /\ remote' = Append(remote, a)
    BY DEF HandMade
  <1>2. UNCHANGED <<tree, row, sync, excused>>
    BY DEF HandMade
  <1>3. a \in Asset /\ a.by = "hand"
    <2>1. [Content(tree[s]) EXCEPT !.body = "edited"] \in Contents
      BY DEF Content, Contents, Words, IndInv, ATypeOK
    <2>2. QED BY <1>1, <2>1 DEF Asset, AssetKind
  <1>4. remote \in Seq(Asset)
    BY DEF IndInv, ATypeOK
  <1>5. /\ remote' \in Seq(Asset) /\ DOMAIN remote' = DOMAIN remote \cup {Len(remote) + 1}
        /\ \A i \in DOMAIN remote : remote'[i] = remote[i]
        /\ remote'[Len(remote) + 1] = a
    BY <1>1, <1>3, <1>4, AppendProperties, LenProperties
  <1>6. Kept
    BY <1>3, <1>5 DEF Kept, IndInv, KindInv
  <1>7. \A t \in Slugs : Quiet(t)
    BY <1>2, <1>3, <1>5, AssetsAssumption DEF Quiet, Copies, Present, Slugs
  <1>8. /\ sync' = [q \in Syncers |-> sync'[q]]
        /\ \A q \in Syncers : Alike(sync[q], sync'[q])
    BY <1>2 DEF IndInv, ATypeOK, Alike
  <1>9. QED BY <1>2, <1>5, <1>6, <1>7, <1>8, OutsideKeeps

LEMMA MeddleKeeps ==
  ASSUME IndInv, NEW i \in Present, Meddle(i)
  PROVE  IndInv'
  <1>1. UNCHANGED <<tree, row, excused>>
    BY DEF Meddle
  <1>2. i \in DOMAIN remote /\ remote \in Seq(Asset)
    BY DEF Present, IndInv, ATypeOK
  <1>3. PICK a : /\ a \in Asset /\ a.kind = remote[i].kind /\ a.by = remote[i].by
                 /\ a.content.title = remote[i].content.title
                 /\ remote' = [remote EXCEPT ![i] = a]
    <2>1. ASSUME NEW b \in Asset
          PROVE  /\ [b EXCEPT !.gone = TRUE] \in Asset
                 /\ [b EXCEPT !.content = [b.content EXCEPT !.body = "edited"]] \in Asset
                 /\ [b.content EXCEPT !.body = "edited"].title = b.content.title
      <3>1. ASSUME NEW c \in Contents
            PROVE  /\ [c EXCEPT !.body = "edited"] \in Contents
                   /\ [c EXCEPT !.body = "edited"].title = c.title
        BY DEF Contents
      <3>2. b.content \in Contents
        BY DEF Asset
      <3>3. [b EXCEPT !.gone = TRUE] \in Asset
        BY DEF Asset
      <3>4. ASSUME NEW c \in Contents
            PROVE  [b EXCEPT !.content = c] \in Asset
        BY DEF Asset
      <3>5. QED BY <3>1, <3>2, <3>3, <3>4
    <2>2. remote[i] \in Asset
      BY <1>2
    <2>3. CASE remote' = [remote EXCEPT ![i].gone = TRUE]
      <3>1. PICK a : a = [remote[i] EXCEPT !.gone = TRUE]
        OBVIOUS
      <3>2. /\ a \in Asset /\ a.kind = remote[i].kind /\ a.by = remote[i].by
            /\ a.content = remote[i].content
        BY <2>1, <2>2, <3>1 DEF Asset
      <3>3. QED BY <2>3, <3>1, <3>2
    <2>4. CASE remote' = [remote EXCEPT ![i].content.body = "edited"]
      <3>1. PICK c, a : /\ c = [remote[i].content EXCEPT !.body = "edited"]
                        /\ a = [remote[i] EXCEPT !.content = c]
        OBVIOUS
      <3>2. a \in Asset /\ c.title = remote[i].content.title
        BY <2>1, <2>2, <3>1
      <3>3. a.kind = remote[i].kind /\ a.by = remote[i].by /\ a.content = c
        BY <2>2, <3>1 DEF Asset
      <3>4. remote' = [remote EXCEPT ![i] = a]
        BY <2>4, <3>1
      <3>5. QED BY <3>2, <3>3, <3>4
    <2>5. QED BY <2>3, <2>4 DEF Meddle
  <1>4. /\ remote' \in Seq(Asset) /\ DOMAIN remote' = DOMAIN remote
        /\ remote'[i] = a /\ \A k \in DOMAIN remote : k # i => remote'[k] = remote[k]
    BY <1>2, <1>3
  <1>5. Kept
    BY <1>3, <1>4 DEF Kept, IndInv, KindInv
  <1>6. \A t \in Slugs : Quiet(t)
    BY <1>1, <1>2, <1>3, <1>4 DEF Quiet, Copies, Present
  <1>7. ASSUME NEW q \in Syncers
        PROVE  Alike(sync[q], sync'[q])
    <2>1. IsRun(sync[q])
      BY DEF IndInv, ATypeOK
    <2>2. CASE sync'[q] = sync[q]
      BY <2>1, <2>2 DEF Alike
    <2>3. CASE sync'[q] = [sync[q] EXCEPT !.calm = FALSE, !.moved = TRUE]
      BY <2>1, <2>3 DEF Alike, IsRun
    <2>4. QED BY <2>2, <2>3 DEF Meddle
  <1>8. sync' = [q \in Syncers |-> sync'[q]]
    BY DEF Meddle
  <1>9. QED BY <1>1, <1>4, <1>5, <1>6, <1>7, <1>8, OutsideKeeps

\* A new title is excused while a process is under way, or a copy is not the
\* recorded one.
LEMMA EditTreeKeeps ==
  ASSUME IndInv, NEW s \in Slugs, EditTree(s)
  PROVE  IndInv'
  <1>1. UNCHANGED <<remote, row, sync>>
    BY DEF EditTree
  <1>2. PICK f \in Files(s) :
          /\ tree' = [tree EXCEPT ![s] = f]
          /\ excused' = IF f.title # tree[s].title
                           /\ (Spare(s) \/ \E p \in Syncers : sync[p].pc # "idle")
                        THEN excused \cup {s} ELSE excused
    BY DEF EditTree
  <1>3. /\ tree' \in [Slugs -> UNION {Files(t) : t \in Slugs}]
        /\ tree'[s] = f /\ \A t \in Slugs \ {s} : tree'[t] = tree[t]
    BY <1>2 DEF IndInv, ATypeOK
  <1>4. ATypeOK'
    BY <1>1, <1>3 DEF IndInv, ATypeOK
  <1>5. AloneInv' /\ KindInv'
    BY <1>1 DEF IndInv, AloneInv, KindInv
  <1>6. ASSUME NEW t \in Slugs \ excused'
        PROVE  SlugInv(t)'
    <2>1. t \in Slugs \ excused /\ SlugInv(t)
      BY <1>2, <1>6 DEF IndInv
    <2>2. CASE tree'[t].title = tree[t].title
      <3>1. Quiet(t)
        BY <1>1, <2>2 DEF Quiet, Copies, Present
      <3>2. \A q \in Syncers : RunKeeps(q, t)
        BY <1>1 DEF RunKeeps, Awaits, Upcoming
      <3>3. QED BY <2>1, <3>1, <3>2, QuietKeeps
    <2>3. CASE tree'[t].title # tree[t].title
      <3>1. t = s /\ ~Spare(s) /\ \A p \in Syncers : sync[p].pc = "idle"
        BY <1>2, <1>3, <1>6, <2>3
      <3>2. Copies(t)' = Copies(t) /\ \A i \in Copies(t) : i = row[t].id
        BY <1>1, <3>1 DEF Copies, Present, Spare
      <3>3. QED BY <1>1, <2>1, <3>1, <3>2 DEF SlugInv, OneEach, Findable
    <2>4. QED BY <2>2, <2>3
  <1>7. QED BY <1>4, <1>5, <1>6 DEF IndInv

-----------------------------------------------------------------------------
(* Theorems *)

LEMMA Starts == AInit => IndInv
  <1> SUFFICES ASSUME AInit
               PROVE  IndInv
    OBVIOUS
  <1>1. ATypeOK
    BY IdleIsRun DEF AInit, ATypeOK
  <1>2. AloneInv /\ KindInv
    BY DEF AInit, AloneInv, KindInv, Idle
  <1>3. ASSUME NEW s \in Slugs
        PROVE  SlugInv(s)
    BY DEF AInit, SlugInv, OneEach, Findable, Copies, Present, Idle
  <1>4. QED BY <1>1, <1>2, <1>3 DEF IndInv

LEMMA Steps ==
  ASSUME IndInv, [ANext]_avars
  PROVE  IndInv'
  <1>1. CASE ANext
    BY <1>1, BeginKeeps, ReadRowsKeeps, EndKeeps, SkipKeeps, CreateKeeps, UpdateKeeps,
       PersistKeeps, ElsewhereKeeps, EditTreeKeeps, HandMadeKeeps, MeddleKeeps DEF ANext
  <1>2. CASE UNCHANGED avars
    <2>1. UNCHANGED <<tree, remote, row, sync, excused>>
      BY <1>2 DEF avars
    <2>2. \A q \in Syncers : Alike(sync[q], sync'[q])
      BY <2>1 DEF Alike, IndInv, ATypeOK
    <2>3. QED BY <2>1, <2>2, OutsideKeeps DEF Kept, Quiet, Copies, Present, IndInv, ATypeOK, KindInv
  <1>3. QED BY <1>1, <1>2

\* AssetSyncer, a process by itself or several: what rows, listings and calls in
\* flight know of the copies at Devin (IndInv, above).
THEOREM AssetsInvariant == ASpec => []IndInv
  BY Starts, Steps, PTL DEF ASpec

\* OneCopyEach (AssetSyncer: "adopted, never duplicated"): for any assets, number
\* of processes, edits and faults, an asset is twice at Devin only for a repeated
\* POST, two syncs side by side, or a title that changed hands or was changed
\* while its id was not recorded.
THEOREM AssetsAreNotDuplicated == ASpec => []OneCopyEach
  <1>1. ASSUME IndInv, NEW s \in Slugs, s \notin excused
        PROVE  ~(Cardinality(Copies(s)) > 1)
    <2>1. \A i, j \in Copies(s) : i = j
      BY <1>1 DEF IndInv, SlugInv, OneEach
    <2>2. CASE Copies(s) = {}
      BY <2>2, FS_EmptySet
    <2>3. ASSUME NEW i \in Copies(s)
          PROVE  ~(Cardinality(Copies(s)) > 1)
      <3>1. Copies(s) = {i}
        BY <2>1
      <3>2. QED BY <3>1, FS_Singleton
    <2>4. QED BY <2>2, <2>3
  <1>2. IndInv => OneCopyEach
    BY <1>1 DEF OneCopyEach
  <1>3. QED BY <1>2, AssetsInvariant, PTL

-----------------------------------------------------------------------------
(* A second sync *)

\* The recorded id is of an asset of the kind of the file.
OfKind(i, s) == i \in DOMAIN remote /\ remote[i].kind = AssetKind(s)

RowFits(s) == row[s] # NoRow => OfKind(row[s].id, s)

\* So are the ids a process knows; and it has listed nothing that was gone.
RunFits(p) ==
  /\ \A i \in DOMAIN sync[p].listed :
       /\ i \in DOMAIN remote /\ remote[i].kind = sync[p].listed[i].kind
       /\ ~sync[p].listed[i].gone
  /\ sync[p].pc \in {"next", "held"} =>
       \A s \in Slugs : sync[p].rows[s] # NoRow => OfKind(sync[p].rows[s].id, s)
  /\ sync[p].pc = "held" => OfKind(sync[p].call.id, Upcoming(p))

\* What nobody touched since is there, and is as its row says unless another
\* file's sync has written it.
Untouched(s) ==
  row[s] # NoRow /\ s \notin disturbed =>
    /\ ~remote[row[s].id].gone
    /\ Contended(row[s].id, s) \/ remote[row[s].id].content = row[s].sha

Sole(p) == sync[p].alone /\ ~sync[p].moved

\* It has not come to s, or has not yet begun to go through them.
AheadOf(p, s) ==
  \/ sync[p].pc = "notes"
  \/ sync[p].pc = "next" /\ s \in sync[p].todo
  \/ sync[p].pc = "held" /\ s \in sync[p].todo \ {Upcoming(p)}

\* What a process left alone has listed is still there, and still so unless it
\* wrote it for another file; and so it is with what it holds.
Faithful(p) ==
  /\ \A i \in DOMAIN sync[p].listed : ~remote[i].gone
  /\ \A s \in Slugs, i \in DOMAIN sync[p].listed :
       AheadOf(p, s) => Contended(i, s) \/ remote[i] = sync[p].listed[i]
  /\ sync[p].pc = "held" =>
       /\ ~remote[sync[p].call.id].gone
       /\ \/ Contended(sync[p].call.id, Upcoming(p))
          \/ remote[sync[p].call.id].content = sync[p].bundle[Upcoming(p)]

\* A process that has nothing to do finds each asset by its row, and writes those
\* only that are another file's as well.
Calm(p) ==
  /\ sync[p].pc # "idle" /\ Sole(p)
  /\ sync[p].call.action # "created"
  /\ sync[p].call.action = "updated" =>
       sync[p].pc = "held" /\ Contended(sync[p].call.id, Upcoming(p))
  /\ \A s \in Slugs :
       /\ row[s] # NoRow /\ row[s].sha = sync[p].bundle[s]
       /\ ~remote[row[s].id].gone /\ (s \in disturbed => Contended(row[s].id, s))
       /\ sync[p].pc \in {"next", "held"} =>
            sync[p].rows[s] # NoRow /\ sync[p].rows[s].id = row[s].id
       /\ HasListed(p, s) => row[s].id \in DOMAIN sync[p].listed
  /\ sync[p].pc = "held" => sync[p].call.id = row[Upcoming(p)].id

RunInv(p) ==
  /\ sync[p].pc # "idle" => RunFits(p) /\ (Sole(p) => Faithful(p))
  /\ sync[p].calm => Calm(p)

CalmInv ==
  /\ \A s \in Slugs : RowFits(s) /\ Untouched(s)
  /\ \A p \in Syncers : RunInv(p)

\* Assets stay of their kind.
Later == \A i \in DOMAIN remote : i \in DOMAIN remote' /\ remote'[i].kind = remote[i].kind

\* What existed is as it was.
Still == \A i \in DOMAIN remote : i \in DOMAIN remote' /\ remote'[i] = remote[i]

LEMMA StillIsLater ==
  ASSUME Still
  PROVE  Later
  BY DEF Still, Later

LEMMA ContendedStays ==
  ASSUME written \subseteq written', NEW i, NEW s, Contended(i, s)
  PROVE  Contended(i, s)'
  BY DEF Contended

\* A process with the same to do, that knows no more than it did.
Same(q) ==
  /\ Alike(sync[q], sync'[q])
  /\ sync'[q].calm => sync[q].calm
  /\ ~sync'[q].moved => ~sync[q].moved

LEMMA SameFits ==
  ASSUME NEW q \in Syncers, Same(q), Later, RunFits(q)
  PROVE  RunFits(q)'
  <1>1. /\ sync'[q].pc = sync[q].pc /\ sync'[q].bundle = sync[q].bundle
        /\ sync'[q].listed = sync[q].listed /\ sync'[q].rows = sync[q].rows
        /\ sync'[q].call = sync[q].call /\ Upcoming(q)' = Upcoming(q)
    BY DEF Same, Alike, Upcoming
  <1>2. ASSUME NEW i \in DOMAIN sync[q].listed
        PROVE  /\ i \in DOMAIN remote' /\ remote'[i].kind = sync[q].listed[i].kind
               /\ ~sync[q].listed[i].gone
    BY DEF Later, RunFits
  <1>3. ASSUME sync[q].pc \in {"next", "held"}, NEW s \in Slugs, sync[q].rows[s] # NoRow
        PROVE  OfKind(sync[q].rows[s].id, s)'
    BY <1>1, <1>3 DEF Later, RunFits, OfKind
  <1>4. ASSUME sync[q].pc = "held"
        PROVE  OfKind(sync[q].call.id, Upcoming(q))'
    BY <1>1, <1>4 DEF Later, RunFits, OfKind
  <1>5. QED BY <1>1, <1>2, <1>3, <1>4 DEF RunFits

LEMMA SameFaithful ==
  ASSUME NEW q \in Syncers, Same(q), Still, written \subseteq written', RunFits(q), Faithful(q)
  PROVE  Faithful(q)'
  <1>1. /\ sync'[q].pc = sync[q].pc /\ sync'[q].bundle = sync[q].bundle
        /\ sync'[q].listed = sync[q].listed /\ sync'[q].call = sync[q].call
        /\ Upcoming(q)' = Upcoming(q) /\ \A s \in Slugs : AheadOf(q, s)' => AheadOf(q, s)
    BY DEF Same, Alike, AheadOf, Upcoming
  <1>2. \A i \in DOMAIN sync[q].listed : i \in DOMAIN remote /\ remote'[i] = remote[i]
    BY DEF Still, RunFits
  <1>3. \A i \in DOMAIN sync[q].listed : ~remote'[i].gone
    BY <1>2 DEF Faithful
  <1>4. ASSUME NEW s \in Slugs, NEW i \in DOMAIN sync[q].listed, AheadOf(q, s)'
        PROVE  Contended(i, s)' \/ remote'[i] = sync[q].listed[i]
    BY <1>1, <1>2, <1>4, ContendedStays DEF Faithful
  <1>5. ASSUME sync[q].pc = "held"
        PROVE  /\ ~remote'[sync[q].call.id].gone
               /\ \/ Contended(sync[q].call.id, Upcoming(q))'
                  \/ remote'[sync[q].call.id].content = sync[q].bundle[Upcoming(q)]
    <2>1. remote'[sync[q].call.id] = remote[sync[q].call.id]
      BY <1>5 DEF Still, RunFits, OfKind
    <2>2. Contended(sync[q].call.id, Upcoming(q)) => Contended(sync[q].call.id, Upcoming(q))'
      BY <1>1 DEF Contended
    <2>3. QED BY <1>5, <2>1, <2>2 DEF Faithful
  <1>6. QED BY <1>1, <1>3, <1>4, <1>5 DEF Faithful, Contended

\* While a process is under way the others are neither alone nor calm.
LEMMA OthersFit ==
  ASSUME IndInv, CalmInv, NEW p \in Syncers, sync[p].pc # "idle", Later,
         NEW q \in Syncers \ {p}, Same(q)
  PROVE  RunInv(q)'
  <1>1. ~sync[q].alone
    BY DEF IndInv, AloneInv
  <1>2. ~Sole(q)' /\ ~sync'[q].calm
    BY <1>1 DEF Same, Alike, Sole, CalmInv, RunInv, Calm
  <1>3. sync'[q].pc # "idle" => RunFits(q)'
    BY SameFits DEF Same, Alike, CalmInv, RunInv
  <1>4. QED BY <1>2, <1>3 DEF RunInv

LEMMA UnchangedIsSame ==
  ASSUME IndInv, NEW q \in Syncers, sync'[q] = sync[q]
  PROVE  Same(q)
  BY DEF Same, Alike, IndInv, ATypeOK

LEMMA IdleFits ==
  ASSUME NEW p \in Syncers, sync'[p] = Idle
  PROVE  RunInv(p)'
  BY DEF RunInv, Idle

\* The rows are what they were, and what existed is as it was.
LEMMA RowsFit ==
  ASSUME CalmInv, Still, row' = row, disturbed \subseteq disturbed',
         written \subseteq written', NEW s \in Slugs
  PROVE  RowFits(s)' /\ Untouched(s)'
  <1>1. RowFits(s) /\ Untouched(s)
    BY DEF CalmInv
  <1>2. RowFits(s)'
    BY <1>1 DEF RowFits, OfKind, Still
  <1>3. Contended(row[s].id, s) => Contended(row[s].id, s)'
    BY DEF Contended
  <1>4. Untouched(s)'
    BY <1>1, <1>3 DEF RowFits, OfKind, Untouched, Still
  <1>5. QED BY <1>2, <1>4

-----------------------------------------------------------------------------

LEMMA EndCalm ==
  ASSUME IndInv, CalmInv, NEW p \in Syncers, sync[p].pc # "idle", Stop(p),
         UNCHANGED <<remote, row, disturbed, written>>
  PROVE  CalmInv'
  <1>1. Still /\ Later
    BY StillIsLater DEF Still
  <1>2. sync'[p] = Idle /\ \A q \in Syncers \ {p} : sync'[q] = sync[q]
    BY DEF Stop, IndInv, ATypeOK
  <1>3. \A q \in Syncers : RunInv(q)'
    BY <1>1, <1>2, IdleFits, OthersFit, UnchangedIsSame
  <1>4. QED BY <1>1, <1>3, RowsFit DEF CalmInv

LEMMA SkipCalm ==
  ASSUME IndInv, CalmInv, NEW p \in Syncers, Skip(p)
  PROVE  CalmInv'
  <1> DEFINE r == sync'[p]
  <1>1. Still /\ Later /\ UNCHANGED <<remote, row, disturbed, written>>
    BY StillIsLater DEF Still, Skip
  <1>2. sync[p].pc = "next" /\ \A q \in Syncers \ {p} : sync'[q] = sync[q]
    BY DEF Skip, IndInv, ATypeOK
  <1>3. /\ r.pc = "next" /\ r.todo = sync[p].todo \ {Upcoming(p)}
        /\ r.bundle = sync[p].bundle /\ r.listed = sync[p].listed /\ r.rows = sync[p].rows
        /\ r.call = sync[p].call /\ r.alone = sync[p].alone /\ r.moved = sync[p].moved
        /\ r.calm = sync[p].calm
    <2>1. sync'[p] = [sync[p] EXCEPT !.todo = sync[p].todo \ {Upcoming(p)}] /\ IsRun(sync[p])
      BY DEF Skip, IndInv, ATypeOK
    <2>2. QED BY <1>2, <2>1 DEF IsRun
  <1> HIDE DEF r
  <1>4. RunInv(p)
    BY DEF CalmInv
  <1>5. RunFits(p)'
    BY <1>1, <1>2, <1>3, <1>4 DEF RunInv, RunFits, OfKind, r
  <1>6. Sole(p)' => Faithful(p)'
    BY <1>1, <1>2, <1>3, <1>4 DEF RunInv, Sole, Faithful, Contended, AheadOf, r
  <1>7. ASSUME r.calm
        PROVE  Calm(p)'
    <2>1. Calm(p)
      BY <1>3, <1>4, <1>7 DEF RunInv
    <2>2. r.call.action \notin {"created", "updated"}
      BY <1>2, <1>3, <2>1 DEF Calm
    <2>3. QED BY <1>1, <1>2, <1>3, <2>1, <2>2 DEF Sole, Calm, Contended, HasListed, r
  <1>8. RunInv(p)'
    BY <1>5, <1>6, <1>7 DEF RunInv, r
  <1>9. \A q \in Syncers : RunInv(q)'
    BY <1>1, <1>2, <1>8, OthersFit, UnchangedIsSame
  <1>10. QED BY <1>1, <1>9, RowsFit DEF CalmInv

\* A process begins calm when every row says what its file and its asset say.
LEMMA BeginCalm ==
  ASSUME IndInv, CalmInv, NEW p \in Syncers, NEW dry \in BOOLEAN, Begin(p, dry)
  PROVE  CalmInv'
  <1> DEFINE r == sync'[p]
  <1>1. Still /\ Later /\ UNCHANGED <<remote, row, disturbed, written>>
    BY StillIsLater DEF Still, Begin
  <1>2. /\ r.pc = "notes" /\ r.bundle = [s \in Slugs |-> Content(tree[s])]
        /\ r.listed = [i \in Listing("playbook") |-> remote[i]]
        /\ r.moved = FALSE /\ r.call = NoCall /\ r.alone = (Others(p) = {})
        /\ r.calm = (Ready /\ disturbed = {} /\ Others(p) = {})
    BY DEF Begin, Idle
  <1>3. ASSUME NEW q \in Syncers \ {p}
        PROVE  RunInv(q)'
    <2>1. sync'[q] = [sync[q] EXCEPT !.calm = FALSE, !.alone = FALSE] /\ IsRun(sync[q])
      BY DEF Begin, IndInv, ATypeOK
    <2>2. /\ ~sync'[q].alone /\ ~sync'[q].calm
          /\ sync'[q].pc = sync[q].pc /\ sync'[q].bundle = sync[q].bundle
          /\ sync'[q].listed = sync[q].listed /\ sync'[q].rows = sync[q].rows
          /\ sync'[q].todo = sync[q].todo /\ sync'[q].call = sync[q].call
      BY <2>1 DEF IsRun
    <2>3. sync'[q].pc # "idle" => RunFits(q)'
      BY <1>1, <2>2 DEF CalmInv, RunInv, RunFits, OfKind, Upcoming
    <2>4. QED BY <2>2, <2>3 DEF RunInv, Sole
  <1> HIDE DEF r
  <1>4. \A i \in DOMAIN r.listed : i \in DOMAIN remote /\ ~remote[i].gone /\ r.listed[i] = remote[i]
    BY <1>2 DEF Listing, Present
  <1>5. \A s \in Slugs : r.bundle[s] = Content(tree[s])
    BY <1>2
  <1>6. RunFits(p)' /\ Faithful(p)'
    BY <1>1, <1>2, <1>4, <1>5 DEF RunFits, Faithful, r
  <1>7. ASSUME r.calm
        PROVE  Calm(p)'
    <2>1. Ready /\ disturbed = {} /\ Others(p) = {}
      BY <1>2, <1>7
    <2>2. ASSUME NEW s \in Slugs
          PROVE  /\ row[s] # NoRow /\ s \notin disturbed /\ row[s].sha = r.bundle[s]
                 /\ ~remote[row[s].id].gone
                 /\ s \in Kinds => row[s].id \in DOMAIN r.listed
      <3>1. row[s] # NoRow /\ row[s].sha = Content(tree[s])
        BY <2>1 DEF Ready, Missing, Drifted
      <3>2. OfKind(row[s].id, s) /\ ~remote[row[s].id].gone
        BY <2>1, <3>1 DEF CalmInv, RowFits, Untouched
      <3>3. s \in Kinds => row[s].id \in Listing("playbook")
        BY <3>2 DEF Listing, Present, OfKind, AssetKind
      <3>4. QED BY <1>2, <1>5, <2>1, <3>1, <3>2, <3>3
    <2>3. r.call.action \notin {"created", "updated"}
      BY <1>2 DEF NoCall
    <2>4. QED BY <1>1, <1>2, <2>1, <2>2, <2>3 DEF Calm, Sole, HasListed, r
  <1>8. RunInv(p)'
    BY <1>6, <1>7 DEF RunInv, r
  <1>9. QED BY <1>1, <1>3, <1>8, RowsFit DEF CalmInv

LEMMA ReadRowsCalm ==
  ASSUME IndInv, CalmInv, NEW p \in Syncers, ReadRows(p)
  PROVE  CalmInv'
  <1> DEFINE old == sync[p].listed
             new == [i \in DOMAIN old \cup Listing("knowledge") |->
                       IF i \in DOMAIN old THEN old[i] ELSE remote[i]]
             r   == sync'[p]
  <1>1. Still /\ Later /\ UNCHANGED <<remote, row, disturbed, written>>
    BY StillIsLater DEF Still, ReadRows
  <1>2. sync[p].pc = "notes" /\ \A q \in Syncers \ {p} : sync'[q] = sync[q]
    BY DEF ReadRows, IndInv, ATypeOK
  <1>3. /\ r.pc = "next" /\ r.listed = new /\ r.rows = row
        /\ r.bundle = sync[p].bundle /\ r.call = sync[p].call
        /\ r.alone = sync[p].alone /\ r.moved = sync[p].moved /\ r.calm = sync[p].calm
    <2>1. sync'[p] = [sync[p] EXCEPT !.pc = "next", !.listed = new, !.rows = row, !.todo = Slugs,
                                     !.snapshot = "first"] /\ IsRun(sync[p])
      BY DEF ReadRows, IndInv, ATypeOK
    <2> HIDE DEF new
    <2>2. QED BY <2>1 DEF IsRun
  <1>4. RunInv(p) /\ RunFits(p)
    BY <1>2 DEF CalmInv, RunInv
  <1>5. /\ DOMAIN new = DOMAIN old \cup Listing("knowledge")
        /\ \A i \in DOMAIN new : i \in DOMAIN old => new[i] = old[i]
        /\ \A i \in DOMAIN new : i \notin DOMAIN old => new[i] = remote[i] /\ ~remote[i].gone
        /\ \A i \in DOMAIN new : i \in DOMAIN remote
    <2>1. \A i \in DOMAIN old : i \in DOMAIN remote
      BY <1>4 DEF RunFits
    <2>2. \A i \in Listing("knowledge") : i \in DOMAIN remote /\ ~remote[i].gone
      BY DEF Listing, Present
    <2> HIDE DEF old
    <2>3. DOMAIN new = DOMAIN old \cup Listing("knowledge")
      OBVIOUS
    <2>4. \A i \in DOMAIN new : new[i] = IF i \in DOMAIN old THEN old[i] ELSE remote[i]
      OBVIOUS
    <2> HIDE DEF new
    <2>5. QED BY <2>1, <2>2, <2>3, <2>4
  <1> HIDE DEF new, r
  <1>6. RunFits(p)'
    <2>1. \A s \in Slugs : RowFits(s)
      BY DEF CalmInv
    <2>2. ASSUME NEW i \in DOMAIN new
          PROVE  i \in DOMAIN remote /\ remote[i].kind = new[i].kind /\ ~new[i].gone
      BY <1>4, <1>5 DEF RunFits
    <2>3. QED BY <1>1, <1>3, <1>4, <2>1, <2>2 DEF RunFits, RowFits, OfKind, r
  <1>7. ASSUME Sole(p)'
        PROVE  Faithful(p)'
    <2>1. Faithful(p)
      BY <1>2, <1>3, <1>4, <1>7 DEF RunInv, Sole, r
    <2>2. ASSUME NEW s \in Slugs, NEW i \in DOMAIN new
          PROVE  Contended(i, s) \/ remote[i] = new[i]
      BY <1>2, <1>5, <2>1 DEF Faithful, AheadOf
    <2>3. \A i \in DOMAIN new : ~remote[i].gone
      BY <1>5, <2>1 DEF Faithful
    <2>4. QED BY <1>1, <1>3, <2>2, <2>3 DEF Faithful, Contended, r
  <1>8. ASSUME r.calm
        PROVE  Calm(p)'
    <2>1. Calm(p)
      BY <1>3, <1>4, <1>8 DEF RunInv
    <2>2. ASSUME NEW s \in Slugs
          PROVE  row[s].id \in DOMAIN new
      <3>1. OfKind(row[s].id, s)
        BY <2>1 DEF CalmInv, RowFits, Calm
      <3>2. CASE s \in Kinds
        BY <1>2, <1>5, <2>1, <3>2 DEF Calm, HasListed
      <3>3. CASE s \notin Kinds
        <4>1. ~remote[row[s].id].gone
          BY <2>1 DEF Calm
        <4>2. row[s].id \in Listing("knowledge")
          BY <3>1, <3>3, <4>1 DEF Listing, Present, OfKind, AssetKind
        <4>3. QED BY <1>5, <4>2
      <3>4. QED BY <3>2, <3>3
    <2>3. QED BY <1>1, <1>2, <1>3, <2>1, <2>2 DEF Calm, Sole, HasListed, Contended, r
  <1>9. RunInv(p)'
    BY <1>6, <1>7, <1>8 DEF RunInv, r
  <1>10. QED BY <1>1, <1>2, <1>9, RowsFit, OthersFit, UnchangedIsSame DEF CalmInv

LEMMA EndsCalm ==
  ASSUME IndInv, CalmInv, NEW p \in Syncers, Ambiguous(p) \/ Finish(p) \/ Crash(p)
  PROVE  CalmInv'
  BY EndCalm DEF Ambiguous, Finish, Crash

\* What others do that no process and no row notices.
LEMMA UnnoticedCalm ==
  ASSUME IndInv, CalmInv, Still, UNCHANGED <<row, disturbed, written>>,
         \A q \in Syncers : /\ Alike(sync[q], sync'[q])
                            /\ sync'[q].calm = sync[q].calm /\ sync'[q].moved = sync[q].moved
  PROVE  CalmInv'
  <1>1. ASSUME NEW q \in Syncers
        PROVE  RunInv(q)'
    <2>1. Same(q) /\ Later /\ RunInv(q)
      BY StillIsLater DEF Same, CalmInv
    <2>2. sync'[q].pc # "idle" => RunFits(q)' /\ (Sole(q)' => Faithful(q)')
      BY <2>1, SameFits, SameFaithful DEF RunInv, Sole, Same, Alike
    <2>3. ASSUME Calm(q)
          PROVE  Calm(q)'
      <3>1. /\ sync'[q].pc = sync[q].pc /\ sync'[q].bundle = sync[q].bundle
            /\ sync'[q].listed = sync[q].listed /\ sync'[q].rows = sync[q].rows
            /\ sync'[q].call = sync[q].call /\ sync'[q].alone = sync[q].alone
            /\ sync'[q].moved = sync[q].moved /\ sync'[q].todo = sync[q].todo
        BY DEF Alike
      <3>2. \A s \in Slugs : remote'[row[s].id] = remote[row[s].id]
        BY <2>3 DEF Still, CalmInv, RowFits, OfKind, Calm
      <3>3. QED BY <2>3, <3>1, <3>2 DEF Calm, Sole, Contended, HasListed, Upcoming
    <2>4. QED BY <2>1, <2>2, <2>3 DEF RunInv
  <1>2. QED BY <1>1, RowsFit DEF CalmInv

LEMMA ElsewhereCalm ==
  ASSUME IndInv, CalmInv, Elsewhere
  PROVE  CalmInv'
  <1>1. Still /\ UNCHANGED <<row, disturbed, written>>
    BY DEF Elsewhere, Still
  <1>2. QED BY <1>1, CommittedRuns, UnnoticedCalm DEF IndInv, ATypeOK, Elsewhere

LEMMA EditTreeCalm ==
  ASSUME IndInv, CalmInv, NEW s \in Slugs, EditTree(s)
  PROVE  CalmInv'
  <1>1. Still /\ UNCHANGED <<row, disturbed, written, sync>>
    BY DEF EditTree, Still
  <1>2. QED BY <1>1, UnnoticedCalm DEF IndInv, ATypeOK, Alike

LEMMA HandMadeCalm ==
  ASSUME IndInv, CalmInv, NEW s \in Slugs, HandMade(s)
  PROVE  CalmInv'
  <1>1. UNCHANGED <<row, disturbed, written, sync>>
    BY DEF HandMade
  <1>2. PICK a : remote' = Append(remote, a)
    BY DEF HandMade
  <1>3. Still
    BY <1>2 DEF Still, IndInv, ATypeOK
  <1>4. QED BY <1>1, <1>3, UnnoticedCalm DEF IndInv, ATypeOK, Alike

\* Whoever's row has the asset is disturbed, and whoever is under way has moved.
LEMMA MeddleCalm ==
  ASSUME IndInv, CalmInv, NEW i \in Present, Meddle(i)
  PROVE  CalmInv'
  <1>1. /\ row' = row /\ disturbed' = disturbed \cup {s \in Slugs : row[s].id = i}
        /\ written' = written
    BY DEF Meddle
  <1>2. i \in DOMAIN remote /\ remote \in Seq(Asset)
    BY DEF Present, IndInv, ATypeOK
  <1>3. PICK a : a.kind = remote[i].kind /\ remote' = [remote EXCEPT ![i] = a]
    <2>1. remote[i] \in Asset
      BY <1>2
    <2>2. CASE remote' = [remote EXCEPT ![i].gone = TRUE]
      BY <2>1, <2>2 DEF Asset
    <2>3. CASE remote' = [remote EXCEPT ![i].content.body = "edited"]
      <3>1. PICK c, a : /\ c = [remote[i].content EXCEPT !.body = "edited"]
                        /\ a = [remote[i] EXCEPT !.content = c]
        OBVIOUS
      <3>2. a.kind = remote[i].kind
        BY <2>1, <3>1 DEF Asset
      <3>3. remote' = [remote EXCEPT ![i] = a]
        BY <2>3, <3>1
      <3>4. QED BY <3>2, <3>3
    <2>4. QED BY <2>2, <2>3 DEF Meddle
  <1>4. /\ DOMAIN remote' = DOMAIN remote
        /\ remote'[i] = a /\ \A k \in DOMAIN remote : k # i => remote'[k] = remote[k]
    BY <1>2, <1>3
  <1>5. Later
    BY <1>3, <1>4 DEF Later
  <1>6. ASSUME NEW s \in Slugs
        PROVE  RowFits(s)' /\ Untouched(s)'
    <2>1. RowFits(s) /\ Untouched(s)
      BY DEF CalmInv
    <2>2. RowFits(s)'
      BY <1>1, <1>5, <2>1 DEF RowFits, OfKind, Later
    <2>3. Untouched(s)'
      BY <1>1, <1>4, <2>1 DEF RowFits, OfKind, Untouched, Contended
    <2>4. QED BY <2>2, <2>3
  <1>7. ASSUME NEW q \in Syncers
        PROVE  RunInv(q)'
    <2>1. IsRun(sync[q]) /\ RunInv(q)
      BY DEF IndInv, ATypeOK, CalmInv
    <2>2. CASE sync[q].pc = "idle"
      <3>1. sync'[q] = sync[q]
        BY <2>2 DEF Meddle
      <3>2. QED BY <2>1, <2>2, <3>1 DEF RunInv, Calm
    <2>3. CASE sync[q].pc # "idle"
      <3>1. sync'[q] = [sync[q] EXCEPT !.calm = FALSE, !.moved = TRUE]
        BY <2>3 DEF Meddle
      <3>2. Alike(sync[q], sync'[q]) /\ ~sync'[q].calm /\ sync'[q].moved
        BY <2>1, <3>1 DEF Alike, IsRun
      <3>3. RunFits(q)'
        BY <1>5, <2>1, <2>3, <3>2, SameFits DEF Same, RunInv
      <3>4. QED BY <3>2, <3>3 DEF RunInv, Sole
    <2>4. QED BY <2>2, <2>3
  <1>8. QED BY <1>6, <1>7 DEF CalmInv

\* A process that has nothing to do finds every asset by its row, and each as its
\* file says but for those that are written for another file too.
LEMMA CalmLocates ==
  ASSUME IndInv, CalmInv, NEW p \in Syncers, sync[p].pc = "next", sync[p].calm,
         NEW s \in Slugs, s \in sync[p].todo
  PROVE  /\ Located(p, s) = {row[s].id}
         /\ \/ Contended(row[s].id, s)
            \/ sync[p].listed[row[s].id].content = sync[p].bundle[s]
  <1>1. RunFits(p) /\ Faithful(p) /\ Calm(p) /\ RowFits(s) /\ Untouched(s)
    BY DEF CalmInv, RunInv, Calm
  <1>2. /\ row[s] # NoRow /\ row[s].sha = sync[p].bundle[s]
        /\ s \in disturbed => Contended(row[s].id, s)
        /\ sync[p].rows[s] # NoRow /\ sync[p].rows[s].id = row[s].id
        /\ row[s].id \in DOMAIN sync[p].listed
    BY <1>1 DEF Calm, HasListed
  <1>3. RecordedId(p, s) = row[s].id
    BY <1>2 DEF RecordedId
  <1>4. Contended(row[s].id, s) \/ sync[p].listed[row[s].id] = remote[row[s].id]
    BY <1>1, <1>2 DEF Faithful, AheadOf
  <1>5. QED BY <1>1, <1>2, <1>3, <1>4 DEF Located, Untouched

\* What a process knows that has just had its answer.
LEMMA HeldFits ==
  ASSUME NEW p \in Syncers, sync[p].pc = "next", RunFits(p), Later,
         NEW r, NEW call, Holds(p, r, call), sync'[p] = r, OfKind(call.id, Upcoming(p))'
  PROVE  RunFits(p)'
  <1>1. /\ r.pc = "held" /\ r.call = call /\ r.bundle = sync[p].bundle
        /\ r.listed = sync[p].listed /\ r.rows = sync[p].rows
    BY DEF Holds
  <1>2. ASSUME NEW i \in DOMAIN sync[p].listed
        PROVE  /\ i \in DOMAIN remote' /\ remote'[i].kind = sync[p].listed[i].kind
               /\ ~sync[p].listed[i].gone
    BY DEF Later, RunFits
  <1>3. ASSUME NEW s \in Slugs, sync[p].rows[s] # NoRow
        PROVE  OfKind(sync[p].rows[s].id, s)'
    <2>1. OfKind(sync[p].rows[s].id, s)
      BY <1>3 DEF RunFits
    <2>2. sync'[p].rows = sync[p].rows
      BY <1>1
    <2>3. QED BY <2>1, <2>2 DEF OfKind, Later
  <1>4. QED BY <1>1, <1>2, <1>3 DEF RunFits

LEMMA CreateCalm ==
  ASSUME IndInv, CalmInv, NEW p \in Syncers, Create(p)
  PROVE  CalmInv'
  <1>1. PICK s, made : /\ s = Upcoming(p)
                       /\ made = [kind |-> AssetKind(s), content |-> sync[p].bundle[s],
                                  by |-> s, gone |-> FALSE]
    OBVIOUS
  <1>2. /\ sync[p].pc = "next" /\ sync[p].todo # {} /\ Located(p, s) = {} /\ row' = row
    BY <1>1 DEF Create
  <1>3. PICK o \in Request :
          /\ remote' = remote \o [i \in 1 .. o.landed |-> made]
          /\ disturbed' = IF o.landed > 0 THEN disturbed \cup {s} ELSE disturbed
          /\ written \subseteq written'
          /\ IF o.answered
             THEN Answered(p, s, [id |-> Len(remote'), action |-> "created"])
             ELSE Stop(p)
    BY <1>1 DEF Create
  <1>4. s \in sync[p].todo /\ s \in Slugs /\ sync[p].bundle[s] \in Contents
    BY <1>1, <1>2, FirstIsIn DEF Upcoming, IndInv, ATypeOK, IsRun
  <1>5. made \in Asset /\ made.kind = AssetKind(s) /\ ~made.gone
        /\ made.content = sync[p].bundle[s]
        /\ o.landed \in Nat /\ (o.answered => o.landed > 0)
    BY <1>1, <1>4, OutcomeCounts DEF Asset, AssetKind
  <1>6. remote \in Seq(Asset)
    BY DEF IndInv, ATypeOK
  <1>7. /\ \A i \in DOMAIN remote : i \in DOMAIN remote' /\ remote'[i] = remote[i]
        /\ o.answered => Len(remote') \in DOMAIN remote' /\ remote'[Len(remote')] = made
    <2>1. /\ remote' \in Seq(Asset) /\ Len(remote') = Len(remote) + o.landed
          /\ \A i \in DOMAIN remote : i \in DOMAIN remote' /\ remote'[i] = remote[i]
          /\ \A i \in DOMAIN remote' \ DOMAIN remote : remote'[i] = made
      <3>1. remote' = remote \o [i \in 1 .. o.landed |-> made]
        BY <1>3
      <3>2. made \in Asset /\ o.landed \in Nat
        BY <1>5
      <3>3. QED BY <1>6, <3>1, <3>2, MadeMore
    <2>2. o.answered => Len(remote') \in DOMAIN remote' \ DOMAIN remote
      BY <1>5, <1>6, <2>1
    <2>3. QED BY <2>1, <2>2
  <1>8. Still /\ Later
    BY <1>7, StillIsLater DEF Still
  <1>9. ~sync[p].calm
    BY <1>2, <1>4, CalmLocates
  <1>10. CASE Stop(p)
    <2>1. sync'[p] = Idle /\ \A q \in Syncers \ {p} : sync'[q] = sync[q]
      BY <1>10 DEF Stop, IndInv, ATypeOK
    <2>2. \A q \in Syncers : RunInv(q)'
      BY <1>2, <1>8, <2>1, IdleFits, OthersFit, UnchangedIsSame
    <2>3. QED BY <1>2, <1>3, <1>8, <2>2, RowsFit DEF CalmInv
  <1>11. ASSUME o.answered, Answered(p, s, [id |-> Len(remote'), action |-> "created"])
         PROVE  CalmInv'
    <2>1. PICK call : Answered(p, s, call) /\ call.id = Len(remote')
      BY <1>11
    <2>2. PICK r : Goes(p, r) /\ Holds(p, r, call)
      BY <1>2, <2>1, AnsweredHolds
    <2>3. sync'[p] = r /\ \A q \in Syncers \ {p} : sync'[q] = sync[q]
      BY <2>2 DEF Goes, IndInv, ATypeOK
    <2>4. Upcoming(p)' = s
      BY <1>1, <2>2, <2>3 DEF Holds, Upcoming
    <2>5. call.id \in DOMAIN remote' /\ remote'[call.id] = made
      BY <1>7, <1>11, <2>1
    <2>6. RunInv(p) /\ RunFits(p)
      BY <1>2 DEF CalmInv, RunInv
    <2>7. OfKind(call.id, Upcoming(p))'
      BY <1>5, <2>4, <2>5 DEF OfKind
    <2>8. RunFits(p)'
      BY <1>2, <1>8, <2>2, <2>3, <2>6, <2>7, HeldFits
    <2>9. ASSUME Sole(p)'
          PROVE  Faithful(p)'
      <3>1. Faithful(p)
        BY <1>2, <2>2, <2>3, <2>6, <2>9 DEF Holds, RunInv, Sole
      <3>2. \A i \in DOMAIN r.listed : i \in DOMAIN sync[p].listed /\ remote'[i] = remote[i]
        BY <1>7, <2>2, <2>6 DEF Holds, RunFits
      <3>3. ASSUME NEW t \in Slugs, NEW i \in DOMAIN r.listed, AheadOf(p, t)'
            PROVE  Contended(i, t)' \/ remote'[i] = r.listed[i]
        <4>1. AheadOf(p, t)
          BY <1>2, <2>2, <2>3, <3>3 DEF Holds, AheadOf
        <4>2. Contended(i, t) \/ remote'[i] = r.listed[i]
          BY <2>2, <3>1, <3>2, <4>1 DEF Holds, Faithful
        <4>3. QED BY <1>3, <4>2, ContendedStays
      <3>4. \A i \in DOMAIN r.listed : ~remote'[i].gone
        BY <2>2, <3>1, <3>2 DEF Holds, Faithful
      <3>5. ~remote'[call.id].gone /\ remote'[call.id].content = sync[p].bundle[s]
        BY <1>5, <2>5
      <3>6. QED BY <2>2, <2>3, <2>4, <3>3, <3>4, <3>5 DEF Holds, Faithful, Contended
    <2>10. RunInv(p)'
      BY <1>9, <2>2, <2>3, <2>8, <2>9 DEF RunInv, Holds
    <2>11. \A q \in Syncers : RunInv(q)'
      BY <1>2, <1>8, <2>3, <2>10, OthersFit, UnchangedIsSame
    <2>12. QED BY <1>2, <1>3, <1>8, <2>11, RowsFit DEF CalmInv
  <1>12. QED BY <1>3, <1>10, <1>11

\* What a process takes for its own is of the kind of the file.
LEMMA LocatedOfKind ==
  ASSUME IndInv, CalmInv, NEW p \in Syncers, sync[p].pc = "next", NEW s \in Slugs,
         NEW i \in Located(p, s)
  PROVE  i \in DOMAIN sync[p].listed /\ OfKind(i, s)
  <1>1. RunFits(p) /\ RowFits(s)
    BY DEF CalmInv, RunInv
  <1>2. i \in DOMAIN sync[p].listed /\ i \in DOMAIN remote
    BY LocatedExists
  <1>3. i # 0
    BY <1>2 DEF IndInv, ATypeOK
  <1>4. CASE i = RecordedId(p, s)
    <2>1. sync[p].rows[s] # NoRow
      BY <1>3, <1>4 DEF RecordedId
    <2>2. CASE i = sync[p].rows[s].id
      BY <1>1, <1>2, <2>1, <2>2 DEF RunFits
    <2>3. CASE i = row[s].id
      BY <1>1, <1>2, <1>3, <2>3 DEF RowFits, NoRow
    <2>4. QED BY <1>2, <1>4, <2>1, <2>2, <2>3 DEF RecordedId
  <1>5. CASE i \in Titled(p, s)
    BY <1>1, <1>2, <1>5 DEF Titled, OfKind, RunFits
  <1>6. QED BY <1>4, <1>5 DEF Located

\* An update is of one asset, and makes it contended for every other file.
LEMMA UpdateCalm ==
  ASSUME IndInv, CalmInv, NEW p \in Syncers, Update(p)
  PROVE  CalmInv'
  <1>1. PICK s : s = Upcoming(p)
    OBVIOUS
  <1>2. PICK i : Located(p, s) = {i}
    BY <1>1 DEF Update
  <1>3. sync[p].pc = "next" /\ sync[p].todo # {} /\ row' = row
    BY DEF Update
  <1>4. s \in sync[p].todo /\ s \in Slugs /\ sync[p].bundle[s] \in Contents
    BY <1>1, <1>3, FirstIsIn DEF Upcoming, IndInv, ATypeOK, IsRun
  <1>5. /\ i \in DOMAIN sync[p].listed /\ OfKind(i, s) /\ i \in DOMAIN remote
        /\ remote \in Seq(Asset)
    BY <1>2, <1>3, <1>4, LocatedOfKind DEF IndInv, ATypeOK, OfKind
  <1>6. RunInv(p) /\ RunFits(p)
    BY <1>3 DEF CalmInv, RunInv
  <1>7. sync[p].calm => /\ i = row[s].id
                        /\ Contended(i, s) \/ sync[p].listed[i].content = sync[p].bundle[s]
    BY <1>2, <1>3, <1>4, CalmLocates
  <1>8. CASE /\ sync[p].listed[i].content = sync[p].bundle[s]
             /\ Answered(p, s, [id |-> i, action |-> "unchanged"])
             /\ UNCHANGED <<remote, disturbed, written>>
    <2>1. PICK call : /\ Answered(p, s, call)
                      /\ call.id = i /\ call.action = "unchanged"
      BY <1>8
    <2>2. PICK r : Goes(p, r) /\ Holds(p, r, call)
      BY <1>3, <2>1, AnsweredHolds
    <2>3. sync'[p] = r /\ \A q \in Syncers \ {p} : sync'[q] = sync[q]
      BY <2>2 DEF Goes, IndInv, ATypeOK
    <2>4. Upcoming(p)' = s
      BY <1>1, <2>2, <2>3 DEF Holds, Upcoming
    <2>5. Still /\ Later
      BY <1>8, StillIsLater DEF Still
    <2>6. OfKind(call.id, Upcoming(p))'
      BY <1>5, <1>8, <2>1, <2>4 DEF OfKind
    <2>7. RunFits(p)'
      BY <1>3, <1>6, <2>2, <2>3, <2>5, <2>6, HeldFits
    <2>8. ASSUME Sole(p)'
          PROVE  Faithful(p)'
      <3>1. Faithful(p)
        BY <1>3, <2>2, <2>3, <1>6, <2>8 DEF Holds, RunInv, Sole
      <3>2. \A t \in Slugs : AheadOf(p, t)' => AheadOf(p, t)
        BY <1>3, <2>2, <2>3 DEF Holds, AheadOf
      <3>3. Contended(i, s) \/ remote[i] = sync[p].listed[i]
        BY <1>3, <1>4, <1>5, <3>1 DEF Faithful, AheadOf
      <3>4. ~remote[i].gone
        BY <1>5, <3>1 DEF Faithful
      <3>5. QED
        BY <1>8, <2>1, <2>2, <2>3, <2>4, <3>1, <3>2, <3>3, <3>4 DEF Holds, Faithful, Contended
    <2>9. ASSUME sync'[p].calm
          PROVE  Calm(p)'
      <3>1. Calm(p) /\ i = row[s].id
        BY <1>6, <1>7, <2>2, <2>3, <2>9 DEF Holds, RunInv
      <3>2. /\ r.pc = "held" /\ r.call = call /\ r.bundle = sync[p].bundle
            /\ r.listed = sync[p].listed /\ r.rows = sync[p].rows
            /\ r.alone = sync[p].alone /\ r.moved = sync[p].moved
        BY <2>2 DEF Holds
      <3>3. Sole(p)'
        BY <2>3, <3>1, <3>2 DEF Calm, Sole
      <3>4. QED
        BY <1>3, <1>8, <2>1, <2>3, <2>4, <3>1, <3>2, <3>3 DEF Calm, HasListed, Contended
    <2>10. RunInv(p)'
      BY <2>7, <2>8, <2>9 DEF RunInv
    <2>11. \A q \in Syncers : RunInv(q)'
      BY <1>3, <2>3, <2>5, <2>10, OthersFit, UnchangedIsSame
    <2>12. QED BY <1>3, <1>8, <2>5, <2>11, RowsFit DEF CalmInv
  <1>9. ASSUME sync[p].listed[i].content # sync[p].bundle[s],
               NEW o \in Request,
               remote' = IF o.landed > 0 /\ ~remote[i].gone
                         THEN [remote EXCEPT ![i].content = sync[p].bundle[s]] ELSE remote,
               disturbed' = IF o.landed > 0 THEN disturbed \cup {s} ELSE disturbed,
               written' = IF o.landed > 0 THEN written \cup {<<i, s>>} ELSE written,
               IF o.answered /\ ~remote[i].gone
               THEN Answered(p, s, [id |-> i, action |-> "updated"]) ELSE Stop(p)
        PROVE  CalmInv'
    <2>1. /\ DOMAIN remote' = DOMAIN remote
          /\ \A k \in DOMAIN remote : k # i => remote'[k] = remote[k]
          /\ remote'[i].kind = remote[i].kind /\ remote'[i].gone = remote[i].gone
          /\ remote' = remote \/ o.landed > 0
          /\ o.landed > 0 /\ ~remote[i].gone => remote'[i].content = sync[p].bundle[s]
      <3>1. CASE remote' = remote /\ ~(o.landed > 0 /\ ~remote[i].gone)
        BY <3>1
      <3>2. CASE /\ o.landed > 0
                 /\ remote' = [remote EXCEPT ![i].content = sync[p].bundle[s]]
        <4>1. PICK a : a = [remote[i] EXCEPT !.content = sync[p].bundle[s]]
          OBVIOUS
        <4>2. remote[i] \in Asset
          BY <1>5
        <4>3. a.kind = remote[i].kind /\ a.gone = remote[i].gone
              /\ a.content = sync[p].bundle[s]
          BY <4>1, <4>2 DEF Asset
        <4>4. remote' = [remote EXCEPT ![i] = a]
          BY <3>2, <4>1
        <4>5. QED BY <1>5, <3>2, <4>3, <4>4
      <3>3. QED BY <1>9, <3>1, <3>2
    <2>2. Later
      BY <2>1 DEF Later
    <2>3. /\ written \subseteq written'
          /\ remote' = remote \/ \A t \in Slugs \ {s} : Contended(i, t)'
      BY <1>4, <1>9, <2>1 DEF Contended
    <2>4. ASSUME NEW t \in Slugs
          PROVE  RowFits(t)' /\ Untouched(t)'
      <3>1. RowFits(t) /\ Untouched(t)
        BY DEF CalmInv
      <3>2. RowFits(t)'
        BY <1>3, <2>2, <3>1 DEF RowFits, OfKind, Later
      <3>3. ASSUME row[t] # NoRow, t \notin disturbed'
            PROVE  /\ ~remote'[row[t].id].gone
                   /\ Contended(row[t].id, t)' \/ remote'[row[t].id].content = row[t].sha
        <4>1. t \notin disturbed /\ (o.landed > 0 => t # s)
          BY <1>9, <3>3
        <4>2. /\ row[t].id \in DOMAIN remote /\ ~remote[row[t].id].gone
              /\ Contended(row[t].id, t) \/ remote[row[t].id].content = row[t].sha
          BY <3>1, <3>3, <4>1 DEF RowFits, OfKind, Untouched
        <4>3. ~remote'[row[t].id].gone
          BY <2>1, <4>2
        <4>4. CASE Contended(row[t].id, t)
          BY <1>3, <2>3, <4>3, <4>4 DEF Contended
        <4>5. CASE remote' = remote
          BY <1>3, <2>3, <4>2, <4>5 DEF Contended
        <4>6. CASE remote' # remote /\ ~Contended(row[t].id, t)
          BY <1>3, <2>1, <2>3, <4>1, <4>2, <4>3, <4>6 DEF Contended
        <4>7. QED BY <4>4, <4>5, <4>6
      <3>4. Untouched(t)'
        BY <1>3, <3>3 DEF Untouched, Contended
      <3>5. QED BY <3>2, <3>4
    <2>5. CASE Stop(p)
      <3>1. sync'[p] = Idle /\ \A q \in Syncers \ {p} : sync'[q] = sync[q]
        BY <2>5 DEF Stop, IndInv, ATypeOK
      <3>2. \A q \in Syncers : RunInv(q)'
        BY <1>3, <2>2, <3>1, IdleFits, OthersFit, UnchangedIsSame
      <3>3. QED BY <2>4, <3>2 DEF CalmInv
    <2>6. ASSUME o.answered, ~remote[i].gone, Answered(p, s, [id |-> i, action |-> "updated"])
          PROVE  CalmInv'
      <3>1. PICK call : Answered(p, s, call) /\ call.id = i /\ call.action = "updated"
        BY <2>6
      <3>2. PICK r : Goes(p, r) /\ Holds(p, r, call)
        BY <1>3, <3>1, AnsweredHolds
      <3>3. sync'[p] = r /\ \A q \in Syncers \ {p} : sync'[q] = sync[q]
        BY <3>2 DEF Goes, IndInv, ATypeOK
      <3>4. Upcoming(p)' = s
        BY <1>1, <3>2, <3>3 DEF Holds, Upcoming
      <3>5. OfKind(call.id, Upcoming(p))'
        BY <1>5, <2>1, <3>1, <3>4 DEF OfKind
      <3>6. RunFits(p)'
        BY <1>3, <1>6, <2>2, <3>2, <3>3, <3>5, HeldFits
      <3>7. ASSUME Sole(p)'
            PROVE  Faithful(p)'
        <4>1. Faithful(p)
          BY <1>3, <1>6, <3>2, <3>3, <3>7 DEF Holds, RunInv, Sole
        <4>2. \A k \in DOMAIN r.listed : k \in DOMAIN sync[p].listed /\ k \in DOMAIN remote
          BY <1>6, <3>2 DEF Holds, RunFits
        <4>3. \A k \in DOMAIN r.listed : ~remote'[k].gone
          BY <2>1, <3>2, <4>1, <4>2 DEF Holds, Faithful
        <4>4. ASSUME NEW t \in Slugs, NEW k \in DOMAIN r.listed, AheadOf(p, t)'
              PROVE  Contended(k, t)' \/ remote'[k] = r.listed[k]
          <5>1. t # s /\ AheadOf(p, t)
            BY <1>3, <3>2, <3>3, <3>4, <4>4 DEF Holds, AheadOf
          <5>2. Contended(k, t) \/ remote[k] = r.listed[k]
            BY <3>2, <4>1, <4>2, <5>1 DEF Holds, Faithful
          <5>3. Contended(k, t) => Contended(k, t)'
            BY <2>3, ContendedStays
          <5>4. remote'[k] = remote[k] \/ Contended(k, t)'
            BY <2>1, <2>3, <4>2, <5>1
          <5>5. QED BY <5>2, <5>3, <5>4
        <4>5. ~remote'[i].gone /\ remote'[i].content = sync[p].bundle[s]
          BY <2>1, <2>6, OutcomeCounts
        <4>6. QED BY <3>1, <3>2, <3>3, <3>4, <4>3, <4>4, <4>5 DEF Holds, Faithful, Contended
      <3>8. ASSUME sync'[p].calm
            PROVE  Calm(p)'
        <4>1. Calm(p) /\ i = row[s].id /\ Contended(i, s)
          BY <1>6, <1>7, <1>9, <3>2, <3>3, <3>8 DEF Holds, RunInv
        <4>2. Contended(i, s)'
          BY <2>3, <4>1, ContendedStays
        <4>3. ASSUME NEW t \in Slugs
              PROVE  /\ ~remote'[row[t].id].gone
                     /\ t \in disturbed' => Contended(row[t].id, t)'
          <5>1. /\ row[t] # NoRow /\ ~remote[row[t].id].gone
                /\ t \in disturbed => Contended(row[t].id, t)
            BY <4>1 DEF Calm
          <5>2. row[t].id \in DOMAIN remote
            BY <5>1 DEF CalmInv, RowFits, OfKind
          <5>3. ~remote'[row[t].id].gone
            BY <2>1, <5>1, <5>2
          <5>4. ASSUME t \in disturbed'
                PROVE  Contended(row[t].id, t)'
            <6>1. CASE t = s
              BY <1>3, <4>1, <4>2, <6>1 DEF Contended
            <6>2. CASE t \in disturbed
              BY <1>3, <2>3, <5>1, <6>2 DEF Contended
            <6>3. QED BY <1>9, <5>4, <6>1, <6>2
          <5>5. QED BY <5>3, <5>4
        <4>4. /\ r.pc = "held" /\ r.call = call /\ r.bundle = sync[p].bundle
              /\ r.listed = sync[p].listed /\ r.rows = sync[p].rows
              /\ r.alone = sync[p].alone /\ r.moved = sync[p].moved
          BY <3>2 DEF Holds
        <4>5. /\ Sole(p)' /\ sync'[p].call.action = "updated"
              /\ Contended(sync[p].call.id, Upcoming(p))' /\ sync'[p].call.id = row'[s].id
          BY <1>3, <3>1, <3>3, <3>4, <4>1, <4>2, <4>4 DEF Calm, Sole, Contended
        <4>6. ASSUME NEW t \in Slugs
              PROVE  /\ row'[t] # NoRow /\ row'[t].sha = r.bundle[t]
                     /\ r.rows[t] # NoRow /\ r.rows[t].id = row'[t].id
                     /\ row'[t].id \in DOMAIN r.listed
          BY <1>3, <4>1, <4>4 DEF Calm, HasListed
        <4>7. QED
          BY <1>3, <3>3, <3>4, <4>3, <4>4, <4>5, <4>6 DEF Calm, HasListed, Contended
      <3>9. RunInv(p)'
        BY <3>6, <3>7, <3>8 DEF RunInv
      <3>10. \A q \in Syncers : RunInv(q)'
        BY <1>3, <2>2, <3>3, <3>9, OthersFit, UnchangedIsSame
      <3>11. QED BY <2>4, <3>10 DEF CalmInv
    <2>7. QED BY <1>9, <2>5, <2>6
  <1>10. QED BY <1>1, <1>2, <1>8, <1>9 DEF Update

\* The row says of the asset what a process left alone has just written.
LEMMA PersistCalm ==
  ASSUME IndInv, CalmInv, NEW p \in Syncers, Persist(p)
  PROVE  CalmInv'
  <1>1. PICK s : s = Upcoming(p)
    OBVIOUS
  <1>2. sync[p].pc = "held" /\ remote' = remote /\ written' = written /\ IsRun(sync[p])
    BY DEF Persist, IndInv, ATypeOK
  <1>3. s \in sync[p].todo /\ s \in Slugs
    BY <1>1, <1>2, FirstIsIn DEF Upcoming, IsRun
  <1>4. CASE Stop(p) /\ UNCHANGED <<row, disturbed>>
    BY <1>2, <1>4, EndCalm
  <1>5. ASSUME ~(Stop(p) /\ UNCHANGED <<row, disturbed>>)
        PROVE  CalmInv'
    <2>1. PICK r, runs, new : /\ r = [sync[p] EXCEPT !.pc = "next", !.todo = @ \ {s},
                                        !.call = NoCall, !.snapshot = "none"]
                              /\ runs = [sync EXCEPT ![p] = r]
                              /\ new = [id |-> sync[p].call.id, sha |-> sync[p].bundle[s]]
      OBVIOUS
    <2>2. /\ row' = [row EXCEPT ![s] = new] /\ sync' = Committed(runs)
          /\ disturbed' = IF Sole(p) THEN disturbed \ {s} ELSE disturbed \cup {s}
      BY <1>1, <1>5, <2>1 DEF Persist, Sole
    <2>3. /\ DOMAIN r = DOMAIN sync[p] /\ r.pc = "next" /\ r.todo = sync[p].todo \ {s}
          /\ r.call = NoCall
          /\ r.bundle = sync[p].bundle /\ r.listed = sync[p].listed
          /\ r.rows = sync[p].rows /\ r.alone = sync[p].alone
          /\ r.calm = sync[p].calm /\ r.moved = sync[p].moved
      BY <1>2, <2>1 DEF IsRun
    <2>4. IsRun(r)
      BY <1>2, <2>3 DEF IsRun
    <2>5. runs[p] = r /\ \A q \in Syncers \ {p} : runs[q] = sync[q]
      BY <2>1 DEF IndInv, ATypeOK
    <2>6. \A q \in Syncers : IsRun(runs[q])
      BY <2>4, <2>5 DEF IndInv, ATypeOK
    <2>7. \A q \in Syncers : /\ Alike(runs[q], sync'[q])
                             /\ sync'[q].calm = runs[q].calm /\ sync'[q].moved = runs[q].moved
      BY <2>2, <2>6, CommittedRuns
    <2>8. /\ row'[s] = new /\ new.id = sync[p].call.id /\ new.sha = sync[p].bundle[s]
          /\ \A t \in Slugs \ {s} : row'[t] = row[t]
      BY <1>3, <2>1, <2>2 DEF IndInv, ATypeOK
    <2>9. RunInv(p) /\ RunFits(p) /\ (Sole(p) => Faithful(p))
      BY <1>2 DEF CalmInv, RunInv
    <2>10. Later
      BY <1>2 DEF Later
    <2>11. ASSUME NEW t \in Slugs
           PROVE  RowFits(t)' /\ Untouched(t)'
      <3>1. CASE t = s
        <4>1. OfKind(new.id, s)
          BY <1>1, <1>2, <2>8, <2>9 DEF RunFits
        <4>2. Sole(p) => /\ ~remote[new.id].gone
                         /\ Contended(new.id, s) \/ remote[new.id].content = new.sha
          BY <1>1, <1>2, <2>8, <2>9 DEF Faithful
        <4>3. ~Sole(p) => s \in disturbed'
          BY <2>2
        <4>4. RowFits(s)'
          BY <1>2, <2>8, <4>1 DEF RowFits, OfKind
        <4>5. Untouched(s)'
          BY <1>2, <2>8, <4>2, <4>3 DEF Untouched, Contended
        <4>6. QED BY <3>1, <4>4, <4>5
      <3>2. CASE t # s
        BY <1>2, <2>2, <2>8, <3>2 DEF CalmInv, RowFits, OfKind, Untouched, Contended
      <3>3. QED BY <3>1, <3>2
    <2>12. /\ sync'[p].pc = "next" /\ sync'[p].todo = sync[p].todo \ {s}
           /\ sync'[p].bundle = sync[p].bundle /\ sync'[p].listed = sync[p].listed
           /\ sync'[p].rows = sync[p].rows /\ sync'[p].alone = sync[p].alone
           /\ sync'[p].calm = sync[p].calm /\ sync'[p].moved = sync[p].moved
           /\ sync'[p].call = NoCall
      BY <2>3, <2>5, <2>7 DEF Alike
    <2>13. RunFits(p)'
      BY <1>2, <2>9, <2>12 DEF RunFits, OfKind
    <2>14. Sole(p)' => Faithful(p)'
      BY <1>1, <1>2, <2>9, <2>12 DEF Sole, Faithful, Contended, AheadOf
    <2>15. ASSUME sync'[p].calm
           PROVE  Calm(p)'
      <3>1. Calm(p)
        BY <2>9, <2>12, <2>15 DEF RunInv
      <3>2. /\ sync[p].call.id = row[s].id /\ row[s].id \in DOMAIN remote
            /\ row[s].sha = sync[p].bundle[s]
        BY <1>1, <1>2, <1>3, <3>1 DEF Calm, CalmInv, RowFits, OfKind
      <3>3. row'[s] # NoRow /\ row'[s].id = row[s].id /\ row'[s].sha = row[s].sha
        BY <2>8, <3>2 DEF NoRow, IndInv, ATypeOK
      <3>4. ASSUME NEW t \in Slugs
            PROVE  /\ row'[t] # NoRow /\ row'[t].sha = sync[p].bundle[t]
                   /\ row'[t].id = row[t].id /\ (t \in disturbed' => t \in disturbed)
        <4>1. Sole(p)
          BY <3>1 DEF Calm
        <4>2. QED BY <2>2, <2>8, <3>1, <3>3, <4>1 DEF Calm
      <3>5. QED BY <1>2, <2>12, <3>1, <3>4 DEF Calm, Sole, HasListed, Contended, NoCall
    <2>16. RunInv(p)'
      BY <2>13, <2>14, <2>15 DEF RunInv
    <2>17. ASSUME NEW q \in Syncers \ {p}
           PROVE  RunInv(q)'
      BY <1>2, <2>5, <2>7, <2>10, OthersFit DEF Same
    <2>18. QED BY <2>11, <2>16, <2>17 DEF CalmInv
  <1>6. QED BY <1>4, <1>5

LEMMA StartsCalm == AInit => CalmInv
  BY DEF AInit, CalmInv, RowFits, Untouched, RunInv, Idle

LEMMA StepsCalm ==
  ASSUME IndInv, CalmInv, [ANext]_avars
  PROVE  CalmInv'
  <1>1. CASE ANext
    BY <1>1, BeginCalm, ReadRowsCalm, EndsCalm, SkipCalm, CreateCalm, UpdateCalm,
       PersistCalm, ElsewhereCalm, EditTreeCalm, HandMadeCalm, MeddleCalm DEF ANext
  <1>2. CASE UNCHANGED avars
    <2>1. Still /\ UNCHANGED <<row, disturbed, written, sync>>
      BY <1>2 DEF avars, Still
    <2>2. QED BY <2>1, UnnoticedCalm DEF IndInv, ATypeOK, Alike
  <1>3. QED BY <1>1, <1>2

\* SecondSyncWritesNothing (AssetSyncer.sync: "A second sync against an unchanged
\* tree makes no write call at all", assets.py:8): for any tree that load_assets
\* accepts, number of processes, edits and faults, all that such a sync can write is
\* an asset that was written for another file as well.
THEOREM SecondSyncIsQuiet == ASpec => []SecondSyncWritesNothing
  <1>1. CalmInv => SecondSyncWritesNothing
    BY DEF CalmInv, RunInv, Calm, SecondSyncWritesNothing
  <1>2. IndInv /\ CalmInv /\ [ANext]_avars => CalmInv'
    BY StepsCalm
  <1>3. QED BY <1>1, <1>2, StartsCalm, AssetsInvariant, PTL DEF ASpec
=============================================================================
