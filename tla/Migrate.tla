------------------------------ MODULE Migrate -------------------------------
(***************************************************************************)
(* migrate.py: the db-migrate container, which brings the compliance and   *)
(* account schemas of any earlier installation up to date.  setup.sh and   *)
(* update.sh start it, and so does every `compose up`: two may overlap.     *)
(* What it commits in one transaction is one action.                        *)
(*                                                                         *)
(* The schema and the seeded rows have a core part and a goods part, made  *)
(* by four files before the files were merged into two.                     *)
(***************************************************************************)
EXTENDS Naturals

CONSTANTS
    Runners,    \* containers that may run migrate.py
    Databases,  \* the databases the system may start from
    MaxFailures,\* bound: runs killed, connections lost
    MaxResets   \* bound: runs with --reset

Parts == {"core", "goods"}
MIGRATIONS == {"tables", "seed"}    \* combined_create_tables, combined_seed
Legacy == {"create_table", "hvnl_seed", "create_goods_tables", "goods_seed"}
LEGACY_VERSIONS ==
    [tables |-> {"create_table", "create_goods_tables"},
     seed |-> {"hvnl_seed", "goods_seed"}]
Version == MIGRATIONS \cup Legacy

(* rows: "none", as seeded ("initial"), or edited in the web app since *)
Database == [tables : SUBSET Parts, rows : [Parts -> {"none", "initial", "edited"}],
             tracked : BOOLEAN, versions : SUBSET Version]

ASSUME MigrateAssumption ==
    /\ Databases \subseteq Database
    /\ MaxFailures \in Nat
    /\ MaxResets \in Nat

VARIABLES
    db,         \* the database
    pc,         \* next transaction of each run; "idle": not started
    reset,      \* --reset was given
    had,        \* had_tracking
    applied,    \* applied
    failures,   \* failures so far
    resets,     \* resets so far
    stale,      \* history: runs during which another one reset the schemas
    origin      \* history: the database at the start or as --reset left it

vars == <<db, pc, reset, had, applied, failures, resets, stale, origin>>

Steps == {"reset", "look", "track", "adopt", "tables", "seed"}
TypeOK ==
    /\ db \in Database
    /\ pc \in [Runners -> Steps \cup {"idle", "done", "failed"}]
    /\ reset \in [Runners -> BOOLEAN]
    /\ had \in [Runners -> BOOLEAN]
    /\ applied \in [Runners -> SUBSET Version]
    /\ failures \in 0..MaxFailures
    /\ resets \in 0..MaxResets
    /\ stale \in SUBSET Runners
    /\ origin \in Database

Init ==
    /\ db \in Databases
    /\ pc = [r \in Runners |-> "idle"]
    /\ reset = [r \in Runners |-> FALSE]
    /\ had = [r \in Runners |-> FALSE]
    /\ applied = [r \in Runners |-> {}]
    /\ failures = 0
    /\ resets = 0
    /\ stale = {}
    /\ origin = db

Running(r) == pc[r] \in Steps
Goto(r, step) == pc' = [pc EXCEPT ![r] = step]
Settled == UNCHANGED <<reset, failures, resets, stale, origin>>

ResetAnyway(flag) == "reset"                           \* variant
FirstStep(flag) == IF flag THEN "reset" ELSE "look"

(* An assumption on the operator: a first run, an adoption and a --reset are  *)
(* not given company; any number of later runs overlap.                       *)
MayStart(flag) == \A q \in Runners : Running(q) => had[q] /\ ~flag

Start(r, flag) ==
    /\ ~Running(r)
    /\ MayStart(flag)
    /\ flag => resets < MaxResets
    /\ Goto(r, FirstStep(flag))
    /\ reset' = [reset EXCEPT ![r] = flag]
    /\ had' = [had EXCEPT ![r] = FALSE]
    /\ applied' = [applied EXCEPT ![r] = {}]
    /\ resets' = IF flag THEN resets + 1 ELSE resets
    /\ stale' = stale \ {r}
    /\ UNCHANGED <<db, failures, origin>>

\* variant: the history is kept outside the schemas
DroppedTables == [db EXCEPT !.tables = {}, !.rows = [p \in Parts |-> "none"]]
(* DROP SCHEMA IF EXISTS compliance, account CASCADE; commit *)
Dropped == [tables |-> {}, rows |-> [p \in Parts |-> "none"],
            tracked |-> FALSE, versions |-> {}]
Reset(r) ==
    /\ pc[r] = "reset"
    /\ db' = Dropped
    /\ origin' = Dropped
    /\ stale' = stale \cup {q \in Runners \ {r} : Running(q) \/ pc[q] = "done"}
    /\ Goto(r, "look")
    /\ UNCHANGED <<reset, had, applied, failures, resets>>

(* Is there a schema_migrations?  Another run may commit its own before     *)
(* this one gets to CREATE TABLE IF NOT EXISTS.                             *)
Look(r) ==
    /\ pc[r] = "look"
    /\ had' = [had EXCEPT ![r] = db.tracked]
    /\ Goto(r, "track")
    /\ UNCHANGED <<db, applied>> /\ Settled

Track(r) ==
    /\ pc[r] = "track"
    /\ db' = [db EXCEPT !.tracked = TRUE]
    /\ Goto(r, "adopt")
    /\ UNCHANGED <<had, applied>> /\ Settled

(* The versions a run counts as applied, given the database and whether it *)
(* found a tracking table: what is recorded, and what the recorded older   *)
(* files cover (both of the two that were merged, or nothing) ...          *)
PartlyCovered(versions) ==                             \* variant
    {name \in MIGRATIONS : LEGACY_VERSIONS[name] \cap versions # {}}
LegacyApplied(versions) ==
    {name \in MIGRATIONS : name \notin versions /\ LEGACY_VERSIONS[name] \subseteq versions}
(* ... or, without one, what the core tables show for both parts. *)
Found(d) ==
    IF "core" \notin d.tables THEN {}
    ELSE MIGRATIONS \cup (IF d.rows["goods"] # "none"
                          THEN {"create_goods_tables", "goods_seed"} ELSE {})
Adopted(d, hadTracking) ==
    IF hadTracking THEN d.versions \cup LegacyApplied(d.versions) ELSE Found(d)

(* Record them in one transaction. *)
Adopt(r) ==
    /\ pc[r] = "adopt"
    /\ db.tracked
    /\ applied' = [applied EXCEPT ![r] = Adopted(db, had[r])]
    /\ db' = [db EXCEPT !.versions = @ \cup Adopted(db, had[r])]
    /\ Goto(r, "tables")
    /\ UNCHANGED had /\ Settled

(* combined_create_tables.sql: IF NOT EXISTS throughout *)
TablesApplied(d) == [d EXCEPT !.tables = Parts]
(* combined_seed.sql: plain INSERTs, which fail on existing rows *)
MayApply(name) ==
    name = "seed" => /\ db.tables = Parts
                     /\ \A p \in Parts : db.rows[p] = "none"
SeedApplied(d) == [d EXCEPT !.rows = [p \in Parts |-> "initial"]]
ApplyFile(name) == IF name = "tables" THEN TablesApplied(db) ELSE SeedApplied(db)

OnlyFirst(name) == "done"  \* variant
After(name) == IF name = "tables" THEN "seed" ELSE "done"

(* schema_migrations is there and has no such version yet *)
MayRecord(name) == db.tracked /\ name \notin db.versions

(* variant of Apply: the file is committed, its row in schema_migrations is not *)
ApplyUnrecorded(r) ==
    \E name \in MIGRATIONS :
        /\ pc[r] = name
        /\ name \notin applied[r]
        /\ MayApply(name)
        /\ db' = ApplyFile(name)
        /\ Goto(r, After(name))
        /\ UNCHANGED <<had, applied>> /\ Settled

(* The file and its row in schema_migrations, in one transaction; a version *)
(* somebody else has recorded meanwhile breaks the primary key.             *)
Apply(r) ==
    \E name \in MIGRATIONS :
        /\ pc[r] = name
        /\ name \notin applied[r]
        /\ MayApply(name) /\ MayRecord(name)
        /\ db' = [ApplyFile(name) EXCEPT !.versions = @ \cup {name}]
        /\ Goto(r, After(name))
        /\ UNCHANGED <<had, applied>> /\ Settled

Skip(r) ==
    \E name \in MIGRATIONS :
        /\ pc[r] = name
        /\ name \in applied[r]
        /\ Goto(r, After(name))
        /\ UNCHANGED <<db, had, applied>> /\ Settled

(* A statement fails: rollback and raise. *)
Refused(r) ==
    /\ \/ pc[r] = "adopt" /\ ~db.tracked
       \/ \E name \in MIGRATIONS :
             /\ pc[r] = name
             /\ name \notin applied[r]
             /\ ~MayApply(name) \/ ~MayRecord(name)
    /\ Goto(r, "failed")
    /\ UNCHANGED <<db, had, applied>> /\ Settled

(* The container is killed or loses its connection between two commits, or *)
(* two CREATE TABLE statements for the tracking table collide.              *)
Fail(r) ==
    /\ Running(r)
    /\ failures < MaxFailures
    /\ failures' = failures + 1
    /\ Goto(r, "failed")
    /\ UNCHANGED <<db, reset, had, applied, resets, stale, origin>>

(* An administrator edits rows of the seed. *)
Edit ==
    /\ \E p \in Parts :
          /\ db.rows[p] = "initial"
          /\ db' = [db EXCEPT !.rows[p] = "edited"]
    /\ UNCHANGED <<pc, reset, had, applied, failures, resets, stale, origin>>

Run(r) == Reset(r) \/ Look(r) \/ Track(r) \/ Adopt(r) \/ Apply(r) \/ Skip(r) \/ Refused(r)

Next ==
    \/ \E r \in Runners : (\E flag \in BOOLEAN : Start(r, flag)) \/ Run(r) \/ Fail(r)
    \/ Edit

Spec == Init /\ [][Next]_vars

-----------------------------------------------------------------------------
Whole(d) == d.tables = Parts /\ \A p \in Parts : d.rows[p] # "none"
Complete(d) == Whole(d) /\ d.tracked /\ MIGRATIONS \subseteq d.versions

(* What a run that starts on d would count as applied *)
Counted(d) == Adopted(d, d.tracked)

(* A run that starts on d would not replay the seeds over rows that are there. *)
CanFinish(d) == "seed" \in Counted(d) \/ \A p \in Parts : d.rows[p] = "none"

(* Made by the older setup.sh: no history, the core tables and rows there   *)
(* (migrate.py:118-119), the goods tables perhaps.                          *)
OldSetup(d) ==
    /\ ~d.tracked /\ d.versions = {}
    /\ "core" \in d.tables /\ d.rows["core"] # "none"
    /\ d.rows["goods"] # "none" => "goods" \in d.tables

(* All of it counts as applied, and some of it is not there: the goods part *)
(* of an older setup, which the adoption takes for present (migrate.py:120). *)
Short(d) == MIGRATIONS \subseteq Counted(d) /\ ~Whole(d)

(* "compliance schema is up to date" (migrate.py:148) is true whenever it   *)
(* is printed, unless another run drops the schemas meanwhile; from an older *)
(* setup without its goods part it never is, and from nothing else.         *)
DoneMeansComplete ==
    \A r \in Runners \ stale : pc[r] = "done" => (Complete(db) <=> ~Short(origin))

(* While nobody is at work, the next run can finish just when it could at   *)
(* the start or after the last --reset: no run, however it ended, left rows  *)
(* that the next would insert again, and none got over those an older list   *)
(* left between its two seeds (migrate.py:104-108).  But a run killed while  *)
(* it adopts an older setup leaves an empty history (migrate.py:95-130).     *)
Retryable ==
    (\A r \in Runners : ~Running(r)) =>
        \/ CanFinish(db) <=> CanFinish(origin)
        \/ OldSetup(origin) /\ failures > 0

(* "An interrupted run can be retried safely" (migrate.py:5-6). *)
RetriedRunsCanFinish == (\A r \in Runners : ~Running(r)) => CanFinish(db)

(* Only --reset takes an administrator's edit back (migrate.py:7). *)
EditsSurvive ==
    [][\A p \in Parts :
          db.rows[p] = "edited" =>
              \/ db'.rows[p] = "edited"
              \/ \E r \in Runners : reset[r] /\ pc[r] = "reset" /\ pc'[r] = "look"]_vars

-----------------------------------------------------------------------------
(***************************************************************************)
(* The inductive invariant behind these properties.  A run that found no    *)
(* history works alone; what holds beyond that depends on the database the  *)
(* system started from or was reset to.                                     *)
(***************************************************************************)

(* The history says what the tables hold, in whole merged files, and without *)
(* a history there is nothing: a fresh database, or one whose migrations     *)
(* stopped behind a file of the present list, or behind no or both files of  *)
(* the older list's seeds.                                                   *)
Applied(d) == IF d.tracked THEN Counted(d) ELSE {}
Consistent(d) ==
    /\ "tables" \in Applied(d) => d.tables = Parts
    /\ IF "seed" \in Applied(d) THEN Whole(d) ELSE \A p \in Parts : d.rows[p] = "none"
    /\ ~d.tracked => d.versions = {} /\ "core" \notin d.tables

(* A history that covers no seed beside seeded rows: an older list stopped  *)
(* between its two seeds, or an adoption that was killed.                    *)
Stuck(d) == d.tracked /\ ~CanFinish(d)

(* An older setup that was adopted without its goods part *)
AdoptedShort(d) == d.tracked /\ Short(d) /\ "core" \in d.tables /\ d.rows["core"] # "none"

(* What every release left, wherever it stopped, and what the older setup    *)
(* left, of which the code takes the core schema and seeds for present       *)
(* (migrate.py:118-119).                                                     *)
Left(d) == Consistent(d) \/ OldSetup(d) \/ Stuck(d) \/ AdoptedShort(d)

Alone(r) == \A q \in Runners \ {r} : ~Running(q)

(* A run before and at its decision what to adopt *)
Deciding(r) ==
    /\ pc[r] = "reset" => reset[r] /\ Alone(r)
    /\ pc[r] = "look" => \A q \in Runners \ {r} : Running(q) => had[q]
    /\ pc[r] \in {"reset", "look"} => ~had[r]
    /\ pc[r] \in {"track", "adopt", "tables", "seed"} /\ ~had[r] => Alone(r)
    /\ pc[r] \in {"track", "adopt"} /\ ~had[r] =>
          /\ db.versions = {} /\ ~origin.tracked
          /\ Consistent(origin) => "core" \notin db.tables
    /\ pc[r] = "track" /\ ~had[r] => ~db.tracked

(* What a run relies on afterwards is recorded, and stays so *)
Recorded(r) ==
    /\ Running(r) /\ had[r] => db.tracked
    /\ pc[r] \in {"adopt", "tables", "seed"} => db.tracked
    /\ pc[r] \in {"tables", "seed"} => applied[r] \subseteq db.versions
    /\ pc[r] = "seed" => "tables" \in db.versions

(* An older setup is adopted whole: its rows are left alone, and nothing of  *)
(* the older list is ever recorded but what the goods rows show.             *)
FromOldSetup ==
    /\ "core" \in db.tables /\ db.rows["core"] # "none"
    /\ origin.tables \subseteq db.tables
    /\ db.rows["goods"] # "none" <=> origin.rows["goods"] # "none"
    /\ ~db.tracked => db.versions = {}
    /\ "create_table" \notin db.versions /\ "hvnl_seed" \notin db.versions
    /\ "seed" \in db.versions => "tables" \in db.versions
    /\ db.tracked /\ "seed" \notin db.versions =>
          failures > 0 \/ \E r \in Runners : pc[r] = "adopt" /\ ~had[r]

(* Of an adopted older setup nothing is applied any more. *)
FromAdoptedShort ==
    /\ AdoptedShort(db)
    /\ \A r \in Runners : pc[r] \in {"tables", "seed"} => MIGRATIONS \subseteq applied[r]

FromOrigin ==
    /\ Left(origin)
    /\ origin.tracked => db.tracked
    /\ Consistent(origin) => Consistent(db)
    /\ OldSetup(origin) => FromOldSetup
    /\ Stuck(origin) => Stuck(db) /\ \A r \in Runners : pc[r] # "done"
    /\ AdoptedShort(origin) => FromAdoptedShort

MigrateInv ==
    /\ TypeOK
    /\ FromOrigin
    /\ \A r \in Runners : Deciding(r) /\ Recorded(r)
    /\ DoneMeansComplete

(* The operator starts a failed migration again; containers are scheduled. *)
FairSpec ==
    /\ Spec
    /\ \A r \in Runners : WF_vars(Run(r)) /\ WF_vars(pc[r] # "done" /\ Start(r, FALSE))

(* Retried runs end with the schema up to date, unless the older files left  *)
(* what no run can finish or what every run takes for finished.              *)
Migrates == <>[](Complete(db) \/ ~CanFinish(db) \/ Short(origin))
=============================================================================
