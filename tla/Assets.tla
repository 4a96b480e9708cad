------------------------------- MODULE Assets -------------------------------
(***************************************************************************)
(* Devin's playbooks and knowledge notes against the files of the tree:    *)
(* AssetSyncer.sync lists what Devin has, finds each asset by the recorded *)
(* id or by title, writes what differs, and commits one row per asset.     *)
(* The rows are read in a deferred transaction, so the commit of another   *)
(* process between a read and the write that follows makes it fail.        *)
(***************************************************************************)
EXTENDS Client

CONSTANTS
  Kinds,      \* the work-item kinds: a playbook each, of the same name
  Notes,      \* the knowledge notes
  Files(_),   \* what the file of an asset may hold
  Syncers,    \* processes that run `assets sync`
  MaxSyncs, MaxEvents, MaxFaults

Slugs == Kinds \cup Notes

ASSUME AssetsAssumption ==
  /\ Kinds \cap Notes = {}
  /\ "hand" \notin Kinds \cup Notes
  /\ {MaxSyncs, MaxEvents, MaxFaults} \subseteq Nat

VARIABLES
  tree,      \* the files, by slug
  remote,    \* Devin: the assets ever made, by id
  row,       \* devin_assets, by slug
  sync,      \* the runs of `assets sync`, by process
  syncs, events, faults,
  disturbed, \* ghost: files whose asset people or their own sync changed since its row was committed
  written,   \* ghost: the writes that landed, as ids and the files they were for
  excused    \* ghost: assets that may have been made twice

avars == <<tree, remote, row, sync, syncs, events, faults, disturbed, written, excused>>

AssetKind(slug) == IF slug \in Kinds THEN "playbook" ELSE "knowledge"
Content(file) == [title |-> file.title, body |-> file.body]

NoRow  == [id |-> 0, sha |-> 0]
NoCall == [id |-> 0, action |-> "none"]
Idle   == [pc |-> "idle", bundle |-> 0, dry |-> FALSE, listed |-> <<>>, rows |-> 0, todo |-> {},
           snapshot |-> "none", call |-> NoCall, calm |-> FALSE, alone |-> FALSE, moved |-> FALSE]

AInit ==
  /\ tree \in {t \in [Slugs -> UNION {Files(s) : s \in Slugs}] : \A s \in Slugs : t[s] \in Files(s)}
  /\ remote = <<>>
  /\ row = [s \in Slugs |-> NoRow]
  /\ sync = [p \in Syncers |-> Idle]
  /\ syncs = 0 /\ events = 0 /\ faults = 0
  /\ disturbed = {} /\ written = {} /\ excused = {}

(***************************************************************************)
(* The committed files, and what the live controller may start from.       *)
(***************************************************************************)

\* load_assets: every file in order (its front matter, its kind, a macro of its
\* own), at least one note, and no note name twice.  Titles of playbooks may repeat.
LoadAssets(t) ==
  /\ \A s \in Slugs : t[s].inOrder
  /\ Notes # {}
  /\ IsInjective([s \in Notes |-> t[s].title])

\* A mutant: a file whose title is the recorded one has not drifted.
DriftedTitle == {s \in {t \in Slugs : row[t] # NoRow} : row[s].sha.title # tree[s].title}

Missing == {s \in Slugs : row[s] = NoRow}
Drifted == {s \in Slugs \ Missing : row[s].sha # Content(tree[s])}

\* build_live_orchestrator starts with the recorded ids.
Ready == LoadAssets(tree) /\ Missing = {} /\ Drifted = {}

(***************************************************************************)
(* One sync.                                                               *)
(***************************************************************************)

Present == {i \in DOMAIN remote : ~remote[i].gone}
Others(p) == {q \in Syncers \ {p} : sync[q].pc # "idle"}

Listing(kind) == {i \in Present : remote[i].kind = kind}

Titled(p, s) ==
  LET known == sync[p].listed
  IN  {i \in DOMAIN known : known[i].kind = AssetKind(s)
                            /\ known[i].content.title = sync[p].bundle[s].title}

\* load_assets, then list_playbooks.
Begin(p, dry) ==
  /\ sync[p].pc = "idle" /\ syncs < MaxSyncs
  /\ LoadAssets(tree) /\ PagesSuffice(Listing("playbook"))
  /\ syncs' = syncs + 1
  /\ sync' = [q \in Syncers |->
       IF q # p THEN [sync[q] EXCEPT !.calm = FALSE, !.alone = FALSE]
       ELSE [Idle EXCEPT !.pc = "notes", !.bundle = [s \in Slugs |-> Content(tree[s])],
                         !.dry = dry, !.listed = [i \in Listing("playbook") |-> remote[i]],
                         !.alone = Others(p) = {},
                         !.calm = Ready /\ disturbed = {} /\ Others(p) = {}]]
  /\ UNCHANGED <<tree, remote, row, events, faults, disturbed, written, excused>>

\* list_notes, then the first read of the transaction.
ReadRows(p) ==
  LET first  == sync[p].listed
      listed == [i \in DOMAIN first \cup Listing("knowledge") |->
                   IF i \in DOMAIN first THEN first[i] ELSE remote[i]]
  IN  /\ sync[p].pc = "notes" /\ PagesSuffice(Listing("knowledge"))
      /\ sync' = [sync EXCEPT ![p] =
           [sync[p] EXCEPT !.pc = "next", !.listed = listed, !.rows = row, !.todo = Slugs,
                           !.snapshot = "first"]]
      /\ UNCHANGED <<tree, remote, row, syncs, events, faults, disturbed, written, excused>>

\* The playbooks first, then the notes, each in a fixed order.
FirstOf(slugs) ==
  CHOOSE s \in IF slugs \cap Kinds # {} THEN slugs \cap Kinds ELSE slugs : TRUE

Upcoming(p) == FirstOf(sync[p].todo)

\* The row's attributes are read again after a commit, never within a snapshot.
RecordedId(p, s) ==
  IF sync[p].rows[s] = NoRow THEN 0
  ELSE IF sync[p].snapshot \in {"first", "stale"} THEN sync[p].rows[s].id ELSE row[s].id

\* A mutant: an asset without a recorded id is always new.
LocatedById(p, s) ==
  IF RecordedId(p, s) \in DOMAIN sync[p].listed THEN {RecordedId(p, s)} ELSE {}

Located(p, s) ==
  IF RecordedId(p, s) \in DOMAIN sync[p].listed THEN {RecordedId(p, s)} ELSE Titled(p, s)

Stop(p) == sync' = [sync EXCEPT ![p] = Idle]

\* The call is made and its answer awaits the commit.
Answered(p, s, call) ==
  sync' = [sync EXCEPT ![p] =
    [sync[p] EXCEPT !.pc = "held", !.call = call,
                    !.snapshot = IF @ = "none" /\ sync[p].rows[s] # NoRow THEN "fresh" ELSE @]]

Faulty(outcome) ==
  /\ outcome.landed # 1 \/ ~outcome.answered => faults < MaxFaults
  /\ faults' = IF outcome.landed # 1 \/ ~outcome.answered THEN faults + 1 ELSE faults

\* Several assets of the title, and none recorded: nothing is touched.
Ambiguous(p) ==
  /\ sync[p].pc = "next" /\ sync[p].todo # {}
  /\ Cardinality(Located(p, Upcoming(p))) > 1
  /\ Stop(p)
  /\ UNCHANGED <<tree, remote, row, syncs, events, faults, disturbed, written, excused>>

\* A dry run goes on without a call, whatever it finds.
Skip(p) ==
  /\ sync[p].pc = "next" /\ sync[p].todo # {} /\ sync[p].dry
  /\ Cardinality(Located(p, Upcoming(p))) <= 1
  /\ sync' = [sync EXCEPT ![p].todo = @ \ {Upcoming(p)}]
  /\ UNCHANGED <<tree, remote, row, syncs, events, faults, disturbed, written, excused>>

Create(p) ==
  LET s == Upcoming(p)
      made == [kind |-> AssetKind(s), content |-> sync[p].bundle[s], by |-> s, gone |-> FALSE]
  IN  /\ sync[p].pc = "next" /\ sync[p].todo # {} /\ ~sync[p].dry
      /\ Located(p, s) = {}
      /\ \E o \in Request :
           /\ Faulty(o)
           /\ remote' = remote \o [i \in 1 .. o.landed |-> made]
           /\ disturbed' = IF o.landed > 0 THEN disturbed \cup {s} ELSE disturbed
           /\ written' = written \cup {<<i, s>> : i \in DOMAIN remote' \ DOMAIN remote}
           /\ excused' = IF o.landed > 1 \/ ~sync[p].alone THEN excused \cup {s} ELSE excused
           /\ IF o.answered
              THEN Answered(p, s, [id |-> Len(remote'), action |-> "created"])
              ELSE Stop(p)
      /\ UNCHANGED <<tree, row, syncs, events>>

\* The call is left out when what was listed is what the file says; an asset
\* deleted meanwhile is refused.
Update(p) ==
  LET s == Upcoming(p)
  IN  /\ sync[p].pc = "next" /\ sync[p].todo # {} /\ ~sync[p].dry
      /\ \E i \in Located(p, s) :
           /\ Located(p, s) = {i}
           /\ IF sync[p].listed[i].content = sync[p].bundle[s]
              THEN /\ Answered(p, s, [id |-> i, action |-> "unchanged"])
                   /\ UNCHANGED <<remote, disturbed, written, excused, faults>>
              ELSE \E o \in Request :
                     /\ Faulty(o)
                     /\ remote' = IF o.landed > 0 /\ ~remote[i].gone
                                  THEN [remote EXCEPT ![i].content = sync[p].bundle[s]]
                                  ELSE remote
                     /\ disturbed' = IF o.landed > 0 THEN disturbed \cup {s} ELSE disturbed
                     /\ written' = IF o.landed > 0 THEN written \cup {<<i, s>>} ELSE written
                     /\ excused' = IF remote'[i].content.title # remote[i].content.title
                                   THEN excused \cup ({remote[i].by} \ {s, "hand"}) ELSE excused
                     /\ IF o.answered /\ ~remote[i].gone
                        THEN Answered(p, s, [id |-> i, action |-> "updated"])
                        ELSE Stop(p)
      /\ UNCHANGED <<tree, row, syncs, events>>

\* Another process has committed: what was read before is out of date.
Committed(runs) ==
  [q \in Syncers |-> IF runs[q].snapshot \in {"first", "fresh"}
                     THEN [runs[q] EXCEPT !.snapshot = "stale"] ELSE runs[q]]

\* _persist: one commit per asset.  It fails behind another commit, or when
\* another sync has inserted the row; the id Devin gave is lost with it.
Persist(p) ==
  LET s == Upcoming(p)
      refused == sync[p].snapshot = "stale" \/ (sync[p].rows[s] = NoRow /\ row[s] # NoRow)
  IN  /\ sync[p].pc = "held"
      /\ IF refused
         THEN Stop(p) /\ UNCHANGED <<row, disturbed>>
         ELSE /\ row' = [row EXCEPT ![s] = [id |-> sync[p].call.id, sha |-> sync[p].bundle[s]]]
              /\ sync' = Committed([sync EXCEPT ![p] =
                   [sync[p] EXCEPT !.pc = "next", !.todo = @ \ {s}, !.call = NoCall,
                                   !.snapshot = "none"]])
              /\ disturbed' = IF sync[p].alone /\ ~sync[p].moved THEN disturbed \ {s} ELSE disturbed \cup {s}
      /\ UNCHANGED <<tree, remote, syncs, events, faults, written, excused>>

Finish(p) ==
  /\ sync[p].pc = "next" /\ sync[p].todo = {}
  /\ Stop(p)
  /\ UNCHANGED <<tree, remote, row, syncs, events, faults, disturbed, written, excused>>

Crash(p) ==
  /\ sync[p].pc = "held" /\ faults < MaxFaults
  /\ faults' = faults + 1
  /\ Stop(p)
  /\ UNCHANGED <<tree, remote, row, syncs, events, disturbed, written, excused>>

(***************************************************************************)
(* Everybody else: people at Devin and in the tree, the controller.        *)
(***************************************************************************)

Event == events < MaxEvents /\ events' = events + 1

\* A commit of the controller or of an ingest.
Elsewhere ==
  /\ Committed(sync) # sync
  /\ sync' = Committed(sync)
  /\ UNCHANGED <<tree, remote, row, syncs, events, faults, disturbed, written, excused>>

Spare(s) == \E i \in Present : remote[i].by = s /\ i # row[s].id

EditTree(s) ==
  /\ Event
  /\ \E f \in Files(s) :
       /\ f # tree[s]
       /\ tree' = [tree EXCEPT ![s] = f]
       /\ excused' = IF f.title # tree[s].title
                        /\ (Spare(s) \/ \E p \in Syncers : sync[p].pc # "idle")
                     THEN excused \cup {s} ELSE excused
  /\ UNCHANGED <<remote, row, sync, syncs, faults, disturbed, written>>

\* An asset is edited or deleted at Devin.
Meddle(i) ==
  /\ Event
  /\ \/ remote' = [remote EXCEPT ![i].content.body = "edited"]
     \/ remote' = [remote EXCEPT ![i].gone = TRUE]
  /\ disturbed' = disturbed \cup {s \in Slugs : row[s].id = i}
  /\ sync' = [p \in Syncers |-> IF sync[p].pc = "idle" THEN sync[p]
                               ELSE [sync[p] EXCEPT !.calm = FALSE, !.moved = TRUE]]
  /\ UNCHANGED <<tree, row, syncs, faults, written, excused>>

\* Somebody makes an asset by hand, under a title of the tree.
HandMade(s) ==
  /\ Event
  /\ remote' = Append(remote, [kind |-> AssetKind(s), by |-> "hand", gone |-> FALSE,
                               content |-> [Content(tree[s]) EXCEPT !.body = "edited"]])
  /\ UNCHANGED <<tree, row, sync, syncs, faults, disturbed, written, excused>>

ANext ==
  \/ \E p \in Syncers :
       \/ \E dry \in BOOLEAN : Begin(p, dry)
       \/ ReadRows(p) \/ Ambiguous(p) \/ Skip(p) \/ Create(p) \/ Update(p)
       \/ Persist(p) \/ Finish(p) \/ Crash(p)
  \/ Elsewhere
  \/ \E s \in Slugs : EditTree(s) \/ HandMade(s)
  \/ \E i \in Present : Meddle(i)

ASpec == AInit /\ [][ANext]_avars

(***************************************************************************)
(* What a sync promises.                                                   *)
(***************************************************************************)

\* A sync for another file has made the asset or written it: two playbooks of
\* one title, of which load_assets knows nothing, may both be bound to it.
Contended(i, s) == \E t \in Slugs \ {s} : <<i, t>> \in written

\* "A second sync against an unchanged tree makes no write call at all"
\* (assets.py:8).  Of one that starts when the recorded hashes agree with the tree
\* (persisted_assets), Devin being left alone since, it is true but for one case:
\* nothing is created, however the earlier syncs failed and whatever was made by
\* hand meanwhile, and what is updated was written for another file as well.
SecondSyncWritesNothing ==
  \A p \in Syncers : sync[p].calm =>
    /\ sync[p].call.action # "created"
    /\ sync[p].call.action = "updated" => Contended(sync[p].call.id, Upcoming(p))

\* The sentence without that case.
SecondSyncIsSilent ==
  \A p \in Syncers : sync[p].calm => sync[p].call.action \notin {"created", "updated"}

\* "adopted, never duplicated" (assets.py:185): syncs leave two copies of an
\* asset at Devin only after a repeated POST, side by side, when the title was
\* changed while an id was unrecorded, or when an asset that takes it for its
\* own, for it had the same title, gives it another.
Copies(s) == {i \in Present : remote[i].by = s}
OneCopyEach == \A s \in Slugs : Cardinality(Copies(s)) > 1 => s \in excused

\* "Any transaction that talks to GitHub or Devin between a read and a write must
\* use write_scope" (db.py:14): without a crash, an asset made at Devin gets its
\* row.  The sync uses session_scope, and a commit elsewhere takes the row away.
EffectsAreRecorded ==
  [][\A p \in Syncers :
       sync[p].call.action = "created" /\ sync'[p].pc = "idle" => faults' > faults]_avars
=============================================================================
