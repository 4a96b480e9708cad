------------------------------- MODULE Schema -------------------------------
(***************************************************************************)
(* How processes bring one SQLite file to the schema of the code when they *)
(* open it (db.py): look at the recorded version, apply the steps after it *)
(* one transaction each, create what is missing, check the version or      *)
(* record it.  Nothing holds a lock from one of these to the next, so the  *)
(* controller, an `ingest` and the dashboard may do this at the same time. *)
(***************************************************************************)
EXTENDS Integers

CONSTANTS
  Processes,     \* processes that open the file
  Together,      \* whether more than one may be opening it
  Abandoned,     \* whether an older release may have died before its first row
  MaxOpens       \* bound on openings

ASSUME SchemaAssumption ==
  Together \in BOOLEAN /\ Abandoned \in BOOLEAN /\ MaxOpens \in Nat

SCHEMA_VERSION == 6
Steps == 3..SCHEMA_VERSION               \* _MIGRATIONS
Altering == Steps \ {5}                  \* the steps with statements

VARIABLES
  version,       \* of the last schema_version row, 0 without one
  applied,       \* the steps whose columns the tables have
  tables,        \* "none", those of an older release, or "all"
  at,            \* where each process is in init_db
  left,          \* the step migrate is at, in its range
  opens

svars == <<version, applied, tables, at, left, opens>>

Opening == {"look", "migrate", "step", "create", "check", "record"}
Serving == {"writing", "reading"}

STypeOK ==
  /\ version \in Nat \ {1}
  /\ applied \subseteq Steps
  /\ tables \in {"none", "older", "all"}
  /\ at \in [Processes -> {"out"} \cup Opening \cup Serving]
  /\ left \in [Processes -> 3..SCHEMA_VERSION + 1]
  /\ opens \in 0..MaxOpens

\* No file yet, the file of this release, of an older or of the next one.
SInit ==
  /\ \/ version = 0 /\ applied = {} /\ tables = "none"
     \/ /\ version \in 2..SCHEMA_VERSION
        /\ applied = 3..version
        /\ tables = IF version = SCHEMA_VERSION THEN "all" ELSE "older"
     \/ version = SCHEMA_VERSION + 1 /\ applied = Steps /\ tables = "all"
     \/ /\ Abandoned
        /\ version = 0 /\ tables = "older"
        /\ \E v \in 2..SCHEMA_VERSION - 1 : applied = 3..v
  /\ at = [p \in Processes |-> "out"]
  /\ left = [p \in Processes |-> 3]
  /\ opens = 0

Goes(p, place) == at' = [at EXCEPT ![p] = place]
Database == <<version, applied, tables>>

Open(p) ==
  /\ at[p] = "out" /\ opens < MaxOpens
  /\ Together \/ \A q \in Processes : at[q] \notin Opening
  /\ opens' = opens + 1
  /\ Goes(p, "look")
  /\ UNCHANGED <<Database, left>>

\* init_db: without tables, and without a row, there is nothing to migrate.
Look(p) ==
  /\ at[p] = "look"
  /\ Goes(p, IF version \in 1..SCHEMA_VERSION - 1 THEN "migrate" ELSE "create")
  /\ UNCHANGED <<Database, left, opens>>

\* Mutant: the range starts one version late.
MigrateLate(p) ==
  /\ at[p] = "migrate"
  /\ IF version > SCHEMA_VERSION
     THEN Goes(p, "out") /\ UNCHANGED left
     ELSE /\ Goes(p, "step")
          /\ left' = [left EXCEPT ![p] = IF version < SCHEMA_VERSION THEN version + 2
                                         ELSE SCHEMA_VERSION + 1]
  /\ UNCHANGED <<Database, opens>>

\* migrate reads the version again.
Migrate(p) ==
  /\ at[p] = "migrate"
  /\ IF version > SCHEMA_VERSION
     THEN Goes(p, "out") /\ UNCHANGED left
     ELSE Goes(p, "step") /\ left' = [left EXCEPT ![p] = version + 1]
  /\ UNCHANGED <<Database, opens>>

\* One transaction: the statements of a step and its row.  A statement fails on
\* columns that are already there.
Step(p) ==
  /\ at[p] = "step" /\ left[p] \in Steps
  /\ IF left[p] \in Altering \cap applied
     THEN Goes(p, "out") /\ UNCHANGED <<version, applied, left>>
     ELSE /\ applied' = applied \cup {left[p]}
          /\ version' = left[p]
          /\ left' = [left EXCEPT ![p] = @ + 1]
          /\ UNCHANGED at
  /\ UNCHANGED <<tables, opens>>

Migrated(p) ==
  /\ at[p] = "step" /\ left[p] > SCHEMA_VERSION
  /\ Goes(p, "create")
  /\ UNCHANGED <<Database, left, opens>>

\* create_all adds tables, never a column to one that is there.
CreateAll(p) ==
  /\ at[p] = "create"
  /\ applied' = IF tables = "none" THEN Steps ELSE applied
  /\ tables' = "all"
  /\ Goes(p, "check")
  /\ UNCHANGED <<version, left, opens>>

\* _check_schema_version
CheckVersion(p) ==
  /\ at[p] = "check"
  /\ Goes(p, CASE version = 0              -> "record"
               [] version = SCHEMA_VERSION -> "writing"
               [] OTHER                    -> "out")
  /\ UNCHANGED <<Database, left, opens>>

RecordVersion(p) ==
  /\ at[p] = "record"
  /\ version' = SCHEMA_VERSION
  /\ Goes(p, "writing")
  /\ UNCHANGED <<applied, tables, left, opens>>

\* open_database_readonly only checks; refusing is no step.
OpenReadonly(p) ==
  /\ at[p] = "out" /\ opens < MaxOpens
  /\ opens' = opens + 1
  /\ tables # "none" /\ version = SCHEMA_VERSION
  /\ Goes(p, "reading")
  /\ UNCHANGED <<Database, left>>

\* The process ends or dies, or a transaction fails: "database is locked".
Leave(p) ==
  /\ at[p] # "out"
  /\ Goes(p, "out")
  /\ UNCHANGED <<Database, left, opens>>

SNext ==
  \E p \in Processes :
    \/ Open(p) \/ Look(p) \/ Migrate(p) \/ Step(p) \/ Migrated(p)
    \/ CreateAll(p) \/ CheckVersion(p) \/ RecordVersion(p) \/ OpenReadonly(p) \/ Leave(p)

SSpec == SInit /\ [][SNext]_svars

-----------------------------------------------------------------------------
(* Properties *)

\* Code that works on the file finds every column and table it names, whoever
\* else is opening, upgrading or dying over the same file (init_db,
\* _check_schema_version).
ServesItsSchema ==
  \A p \in Processes : at[p] = "writing" => applied = Steps /\ tables = "all"

\* The same for the dashboard, which only looks at the row: violated while an
\* upgrade has recorded the last step and not yet created the new tables.
ReadsItsSchema ==
  \A p \in Processes : at[p] = "reading" => applied = Steps /\ tables = "all"

\* A recorded version is not taken back.  With two upgrades of a version-4 file
\* at once it is: step 5 has no statements, the slower process records it after
\* the faster one has recorded 6, and from then on every opening fails on the
\* column of step 6 (_current_version takes the last row, not the highest).
VersionNeverFalls == [][version' >= version]_version

-----------------------------------------------------------------------------
(* The inductive invariant behind ServesItsSchema *)

\* A recorded version vouches for its columns, and no row for a new file.
RowsVouch ==
  /\ 3..version \cap Steps \subseteq applied
  /\ version = 0 /\ tables # "none" => applied = Steps
  /\ tables = "none" => version = 0

\* What each place in init_db may rely on.
PlaceVouches(p) ==
  /\ at[p] \in {"migrate", "step"} => version # 0
  /\ at[p] = "step" => 3..(left[p] - 1) \subseteq applied
  /\ at[p] \in {"check", "record", "writing"} => tables = "all"
  /\ at[p] \in {"record", "writing"} => applied = Steps

SInv == STypeOK /\ RowsVouch /\ \A p \in Processes : PlaceVouches(p)
=============================================================================
