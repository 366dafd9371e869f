------------------------------ MODULE NhvrLoad ------------------------------
(***************************************************************************)
(* load-nhvr.sh: every GeoPackage is loaded into a staging table, which is *)
(* reduced to one row per road segment and network and swapped under the   *)
(* compliance API.  Every SQL statement outside BEGIN ... COMMIT is its own *)
(* transaction, and ogr2ogr commits a file in groups of features, so each   *)
(* step below may be the last one of a run.  The script takes no lock: a    *)
(* load whose terminal was closed can still be at work in its container     *)
(* when the operator starts the next one, hence a set of Loaders.           *)
(*                                                                         *)
(* A row is its key (osm_way_id, network_name) and its access code; the    *)
(* geometry, description and manager follow the row and are left out.      *)
(***************************************************************************)
EXTENDS Integers, SequencesExt

CONSTANTS
    Loaders,     \* containers that may run load-nhvr.sh, at most one run each
    Files,       \* the GeoPackage names
    Segments,    \* pairs of osm_way_id and network_name
    Contents,    \* what hvn_road_segments of a file may hold
    MaxRuns,     \* bound: loads started in one behaviour
    MaxReplaced  \* bound: changes of the GeoPackage folder

(* "Approved", "Approved with Conditions", "Restricted", any other access_code *)
Codes == {"approved", "conditional", "restricted", "unknown"}
Row == [segment : Segments, code : Codes]

ASSUME LoadAssumption ==
    /\ Contents \subseteq SUBSET Row
    /\ MaxRuns \in Nat /\ MaxReplaced \in Nat

\* a folder holds finitely many features
ASSUME FilesAreFinite ==
    IsFiniteSet(Files) /\ \A rows \in Contents : IsFiniteSet(rows)

TableNames == {"staging", "dedup", "live", "old"}
Table == [rows : SUBSET Row, indexed : BOOLEAN]
Step == {"clear", "load", "dropDedup", "makeDedup", "swap", "dropOld",
         "dropStaging", "index"}

VARIABLES
    folder,      \* NHVR_GPKG_DIR: the files there and their contents
    tables,      \* schema nhvr_access: the tables there
    pc,          \* next step of each loader; "ready", "done" (exit 0), "failed"
    todo,        \* files of the loop still to load
    first,       \* first=1: no file loaded yet
    runs,        \* loads started
    replaced,    \* changes of the folder
    alone        \* history: loaders that no other load ran beside, and whose
                 \* folder did not change, since they started

vars == <<folder, tables, pc, todo, first, runs, replaced, alone>>

TypeOK ==
    /\ DOMAIN folder \subseteq Files
    /\ folder \in [DOMAIN folder -> Contents]
    /\ DOMAIN tables \subseteq TableNames
    /\ tables \in [DOMAIN tables -> Table]
    /\ pc \in [Loaders -> Step \cup {"ready", "done", "failed"}]
    /\ todo \in [Loaders -> SUBSET Files]
    /\ first \in [Loaders -> BOOLEAN]
    /\ runs \in 0..MaxRuns
    /\ replaced \in 0..MaxReplaced
    /\ alone \in SUBSET Loaders

Running(l) == pc[l] \in Step
Exists(t) == t \in DOMAIN tables
Dropped(t, catalog) == [u \in DOMAIN catalog \ {t} |-> catalog[u]]
Stored(t, table, catalog) ==
    [u \in DOMAIN catalog \cup {t} |-> IF u = t THEN table ELSE catalog[u]]
Renamed(t, u, catalog) == Stored(u, catalog[t], Dropped(t, catalog))

Init ==
    /\ folder \in [Files -> Contents]
    /\ tables = [t \in {} |-> [rows |-> {}, indexed |-> FALSE]]
    /\ pc = [l \in Loaders |-> "ready"]
    /\ todo = [l \in Loaders |-> {}]
    /\ first = [l \in Loaders |-> TRUE]
    /\ runs = 0
    /\ replaced = 0
    /\ alone = {}

Goto(l, step) == pc' = [pc EXCEPT ![l] = step]
Settled == UNCHANGED <<folder, runs, replaced, alone>>
Keeps == UNCHANGED <<todo, first>> /\ Settled

(* gpkgs=(...): the list of files is taken once, when the run starts *)
Start(l) ==
    /\ ~Running(l)
    /\ runs < MaxRuns
    /\ DOMAIN folder # {}
    /\ Goto(l, "clear")
    /\ todo' = [todo EXCEPT ![l] = DOMAIN folder]
    /\ first' = [first EXCEPT ![l] = TRUE]
    /\ runs' = runs + 1
    /\ alone' = IF \E k \in Loaders \ {l} : Running(k) THEN {} ELSE {l}
    /\ UNCHANGED <<folder, tables, replaced>>

(* variants of Clear: the live table is dropped, or nothing is *)
ClearedInPlace(l) ==
    /\ pc[l] = "clear"
    /\ tables' = Dropped("live", Dropped("staging", tables))
    /\ Goto(l, "load")
    /\ Keeps
StagingAppendedTo(l) ==
    /\ pc[l] = "clear"
    /\ first' = [first EXCEPT ![l] = FALSE]
    /\ Goto(l, "load")
    /\ UNCHANGED <<tables, todo>> /\ Settled

(* DROP TABLE IF EXISTS ..._staging CASCADE *)
Clear(l) ==
    /\ pc[l] = "clear"
    /\ tables' = Dropped("staging", tables)
    /\ Goto(l, "load")
    /\ Keeps

(* ogr2ogr of one file of the loop.  Without -append the table must not   *)
(* exist yet; with -append it is made if missing.  The glob fixes the order *)
(* of the files; here any order will do.                                    *)
MayLoad(l, f) ==
    /\ pc[l] = "load"
    /\ f \in todo[l] \cap DOMAIN folder
    /\ first[l] => ~Exists("staging")
StagedRows == IF Exists("staging") THEN tables["staging"].rows ELSE {}
Appended(rows) ==
    Stored("staging", [rows |-> StagedRows \cup rows, indexed |-> FALSE], tables)

LoadFile(l) ==
    \E f \in Files :
        /\ MayLoad(l, f)
        /\ tables' = Appended(folder[f])
        /\ todo' = [todo EXCEPT ![l] = @ \ {f}]
        /\ first' = [first EXCEPT ![l] = FALSE]
        /\ Goto(l, IF todo[l] = {f} THEN "dropDedup" ELSE "load")
        /\ Settled

DropDedup(l) ==
    /\ pc[l] = "dropDedup"
    /\ tables' = Dropped("dedup", tables)
    /\ Goto(l, "makeDedup")
    /\ Keeps

(* SELECT DISTINCT ON (osm_way_id, network_name) ... ORDER BY ... CASE ... *)
(* DESC: one row of each key, of the highest rank                          *)
Rank(code) ==
    CASE code = "restricted" -> 2
      [] code = "conditional" -> 1
      [] code = "approved" -> 0
      [] code = "unknown" -> -1
(* variants: ORDER BY ... ASC, no DISTINCT ON *)
LeastRestrictive(rows) ==
    {r \in rows : \A s \in rows : s.segment = r.segment => Rank(s.code) >= Rank(r.code)}
EveryRow(rows) == rows
MostRestrictive(rows) ==
    {r \in rows : \A s \in rows : s.segment = r.segment => Rank(s.code) <= Rank(r.code)}

MakeDedup(l) ==
    /\ pc[l] = "makeDedup"
    /\ Exists("staging")
    /\ ~Exists("dedup")
    /\ tables' = Stored("dedup", [rows |-> MostRestrictive(tables["staging"].rows),
                                  indexed |-> FALSE], tables)
    /\ Goto(l, "swap")
    /\ Keeps

(* BEGIN; DROP old; RENAME live TO old; RENAME dedup TO live; COMMIT: the  *)
(* renames take exclusive locks, so others see all of it or nothing.       *)
LiveAside(catalog) ==
    LET cleared == Dropped("old", catalog)
    IN IF "live" \in DOMAIN cleared THEN Renamed("live", "old", cleared) ELSE cleared
Swap(l) ==
    /\ pc[l] = "swap"
    /\ Exists("dedup")
    /\ tables' = Renamed("dedup", "live", LiveAside(tables))
    /\ Goto(l, "dropOld")
    /\ Keeps

(* variant: the old table is left for the next load to drop *)
OldKept(l) == pc[l] = "dropOld" /\ Goto(l, "dropStaging") /\ UNCHANGED tables /\ Keeps
DropOld(l) ==
    /\ pc[l] = "dropOld"
    /\ tables' = Dropped("old", tables)
    /\ Goto(l, "dropStaging")
    /\ Keeps

DropStaging(l) ==
    /\ pc[l] = "dropStaging"
    /\ tables' = Dropped("staging", tables)
    /\ Goto(l, "index")
    /\ Keeps

(* CREATE INDEX IF NOT EXISTS x ON live: index names belong to the schema, *)
(* and an index moves with its table, so an index x left on any other      *)
(* table makes this a no-op.  Then ANALYZE and the row count, exit 0.       *)
IndexThere == \E t \in DOMAIN tables : tables[t].indexed
CreateIndex(l) ==
    /\ pc[l] = "index"
    /\ Exists("live")
    /\ tables' = IF IndexThere THEN tables
                 ELSE [tables EXCEPT !["live"].indexed = TRUE]
    /\ Goto(l, "done")
    /\ Keeps

(* A command fails, or the container is killed, at any step (set -e,       *)
(* ON_ERROR_STOP).  The statement of the step has no effect, but ogr2ogr    *)
(* keeps the groups of features it has committed.                           *)
Interrupted(l) ==
    /\ Running(l)
    /\ Goto(l, "failed")
    /\ \/ UNCHANGED tables
       \/ \E f \in Files :
             /\ MayLoad(l, f)
             /\ \E part \in SUBSET folder[f] : tables' = Appended(part)
    /\ Keeps

(* The operator adds, replaces or removes a file. *)
ReplaceFile ==
    /\ replaced < MaxReplaced
    /\ \E f \in Files :
          folder' \in {[g \in DOMAIN folder \cup {f} |->
                           IF g = f THEN c ELSE folder[g]] : c \in Contents}
                      \cup {[g \in DOMAIN folder \ {f} |-> folder[g]]}
    /\ folder' # folder
    /\ replaced' = replaced + 1
    /\ alone' = {}
    /\ UNCHANGED <<tables, pc, todo, first, runs>>

Load(l) ==
    \/ Clear(l) \/ LoadFile(l) \/ DropDedup(l) \/ MakeDedup(l) \/ Swap(l)
    \/ DropOld(l) \/ DropStaging(l) \/ CreateIndex(l)

Next ==
    \/ \E l \in Loaders : Start(l) \/ Load(l) \/ Interrupted(l)
    \/ ReplaceFile

Spec == Init /\ [][Next]_vars

-----------------------------------------------------------------------------
FolderRows == UNION {folder[f] : f \in DOMAIN folder}

(* A load that nothing disturbed publishes, from its swap on, every segment *)
(* of every GeoPackage with its most restrictive code, and has indexed the  *)
(* live table when it exits 0, whatever earlier loads left behind.          *)
(* load-nhvr.sh:2 "Loads every NHVR GeoPackage".                            *)
DoneMeansLoaded ==
    \A l \in alone :
        pc[l] \in {"dropOld", "dropStaging", "index", "done"} =>
            /\ Exists("live")
            /\ tables["live"].rows = MostRestrictive(FolderRows)
            /\ pc[l] = "done" => tables["live"].indexed

(* The API never loses the table, nor sees it change except in a swap, and  *)
(* it never holds two rows of one key, even when loads run beside each      *)
(* other (load-nhvr.sh:3-5).                                                *)
OneRowPerKey(rows) == \A r, s \in rows : r.segment = s.segment => r = s
LiveStays ==
    [][Exists("live") =>
          /\ "live" \in DOMAIN tables'
          /\ \/ tables'["live"].rows = tables["live"].rows
             \/ \E l \in Loaders : pc[l] = "swap" /\ pc'[l] = "dropOld"
      ]_vars
LiveIsClean == Exists("live") => OneRowPerKey(tables["live"].rows)

Import == INSTANCE NhvrImport

(* The routing tiles and PostGIS agree: whatever order the importer reads  *)
(* the features in, the status it writes into the OSM extract is the one    *)
(* the API answers with; rows whose code neither knows are in PostGIS only. *)
(* load-nhvr.sh:53 "Same conflict rule as import-nhvr.py".                   *)
AgreesWithImporter ==
    \A l \in alone : pc[l] = "done" =>
        \A features \in SetToSeqs(FolderRows) :
            LET networks == Import!ReadGpkgs(features) IN
            \A segment \in Segments, code \in Codes \ {"unknown"} :
                [segment |-> segment, code |-> code] \in tables["live"].rows
                    <=> networks[segment] = Rank(code)

-----------------------------------------------------------------------------
(***************************************************************************)
(* The inductive invariant behind these properties.  What the tables hold  *)
(* at each step of an undisturbed load:                                     *)
(***************************************************************************)
StagedSoFar(l) ==
    /\ Exists("staging")
    /\ tables["staging"].rows = UNION {folder[f] : f \in DOMAIN folder \ todo[l]}
LoadedTable(t) == Exists(t) /\ tables[t].rows = MostRestrictive(FolderRows)

Progress(l) ==
    /\ \A k \in Loaders \ {l} : ~Running(k)
    /\ pc[l] = "clear" => first[l] /\ todo[l] = DOMAIN folder /\ todo[l] # {}
    /\ pc[l] = "load" =>
          /\ todo[l] # {} /\ todo[l] \subseteq DOMAIN folder
          /\ first[l] => todo[l] = DOMAIN folder /\ ~Exists("staging")
          /\ ~first[l] => StagedSoFar(l)
    /\ pc[l] \in {"dropDedup", "makeDedup"} => todo[l] = {} /\ StagedSoFar(l)
    /\ pc[l] = "swap" => LoadedTable("dedup")
    /\ pc[l] \in {"dropOld", "dropStaging", "index", "done"} => LoadedTable("live")
    /\ pc[l] \in {"dropStaging", "index"} => ~Exists("old")
    /\ pc[l] = "done" => tables["live"].indexed

(* Tables under construction are clean and carry no index, whoever made them *)
BuildsAreClean ==
    /\ Exists("staging") => ~tables["staging"].indexed
    /\ Exists("dedup") => ~tables["dedup"].indexed /\ OneRowPerKey(tables["dedup"].rows)

LoadInv ==
    /\ TypeOK
    /\ BuildsAreClean
    /\ LiveIsClean
    /\ \A l \in alone : Progress(l)

=============================================================================
