------------------------------- MODULE Deploy -------------------------------
(***************************************************************************)
(* The data pipeline of one host: update.sh, setup.sh and the functions of *)
(* scripts/lib.sh they share.  One run of a script at a time merges the    *)
(* NHVR GeoPackages into the base OSM extract, reloads PostGIS, builds     *)
(* routing tiles and swaps them under the running Valhalla server.         *)
(*                                                                         *)
(* A file is abstracted to the versions of the two inputs it was derived   *)
(* from.  A fingerprint (size and mtime of the input files) is abstracted  *)
(* to the version it identifies.  Both scripts run under `set -e`: a       *)
(* failing command ends the run where it stands.                           *)
(***************************************************************************)
EXTENDS Naturals, Sequences

CONSTANTS
    Commands,       \* the command lines the operator may type
    ValhallaLocal,  \* valhalla_is_local: this host builds and serves tiles
    Revert,         \* the operator may put an earlier input file back
    Faults,         \* the kinds of fault that may occur
    MaxVersion,     \* bound: input versions are 1..MaxVersion
    MaxFaults       \* bound: faults in one behaviour

Flags == {"force", "db", "tiles", "simple", "keepOld", "rollback",
          "skipPbf", "skipDb", "skipTiles"}
Command == [tool : {"update", "setup"}, flags : SUBSET Flags]
FaultKinds == {"kill",       \* the run is killed (Ctrl-C, reboot)
               "command",    \* a container job fails
               "unhandled",  \* mv, cp or compose up fails during a swap or rollback
               "unhealthy"}  \* Valhalla does not answer /status in time

ASSUME ScopeAssumption ==
    /\ Commands \subseteq Command
    /\ ValhallaLocal \in BOOLEAN
    /\ Revert \in BOOLEAN
    /\ Faults \subseteq FaultKinds
    /\ MaxVersion \in Nat \ {0}
    /\ MaxFaults \in Nat

(***************************************************************************)
(* Version 0 stands for "nothing": no fingerprint, no table, no file.      *)
(***************************************************************************)
Version == 0..MaxVersion
Versions == [base : Version, nhvr : Version]
Nothing == [base |-> 0, nhvr |-> 0]

(* admin: the base extract behind the admin database the tiles were built with *)
Product == [kind : {"absent", "partial", "whole"},
            base : Version, nhvr : Version, admin : Version]
Absent == [kind |-> "absent", base |-> 0, nhvr |-> 0, admin |-> 0]
Partial == [Absent EXCEPT !.kind = "partial"]
MergedPbf(v) == [kind |-> "whole", base |-> v.base, nhvr |-> v.nhvr, admin |-> 0]
AdminDb(base) == [kind |-> "whole", base |-> base, nhvr |-> 0, admin |-> base]
TilesFrom(pbf, adminDb) == [pbf EXCEPT !.admin = adminDb.base]
IsThere(p) == p.kind # "absent"
BuiltFrom(p, v) == p.kind = "whole" /\ p.base = v.base /\ p.nhvr = v.nhvr

(* TILE_ITEMS, in its order; the items that do not depend on the inputs *)
(* (valhalla.json, file_hashes.txt, timezones, speeds) are left out.     *)
TileItems == <<"tiles", "tar", "admins", "pbf">>
Items == {"tiles", "tar", "admins", "pbf"}
Directory == [Items -> Product]
Empty == [item \in Items |-> Absent]

VARIABLES
    inputs,     \* versions of OSM_PBF_FILE and of the GeoPackages now on disk
    state,      \* .state/data: STATE_PBF and STATE_GPKG
    live,       \* custom_files
    build,      \* custom_files/.build
    old,        \* custom_files/.old, contents
    hasOld,     \* custom_files/.old exists
    db,         \* GeoPackage version in nhvr_access.nhvr_network_access
    valhalla,   \* the tiles the running server has open; Absent: stopped
    cmd,        \* the command line of the current run
    pc,         \* where the current run stands; "idle": no run
    cur,        \* CUR_PBF, CUR_GPKG
    i,          \* index in the loop over the tile items
    faults,     \* faults so far
    \* history variables
    verified,   \* custom_files when a promotion, an in-place build or a
                \* --rollback last ended with a healthy Valhalla
    exit,       \* how the last run ended
    mixed       \* setup.sh or a --rollback has been run

disk == <<live, build, old, hasOld>>
local == <<cmd, pc, cur, i>>
history == <<verified, exit, mixed>>
vars == <<inputs, state, disk, db, valhalla, local, faults, history>>

PC == {"idle", "uptodate", "import", "load", "build", "clear", "stop", "swap",
       "aside", "rebuild", "up", "health", "rbStop", "rbSwap", "rbHealth",
       "stackUp", "record"}
NoCommand == [tool |-> "update", flags |-> {}]

TypeOK ==
    /\ inputs \in Versions /\ state \in Versions /\ cur \in Versions
    /\ live \in Directory /\ build \in Directory /\ old \in Directory
    /\ hasOld \in BOOLEAN
    /\ db \in Version
    /\ valhalla \in Product
    /\ cmd \in Command
    /\ pc \in PC
    /\ i \in 1..(Len(TileItems) + 1)
    /\ faults \in 0..MaxFaults
    /\ verified \in Directory
    /\ exit \in {"none", "ok", "failed", "killed"}
    /\ mixed \in BOOLEAN

(***************************************************************************)
(* The host before its first setup, and a host installed at version 1.     *)
(***************************************************************************)
Installed ==
    LET t == [kind |-> "whole", base |-> 1, nhvr |-> 1, admin |-> 1]
    IN [tiles |-> t, tar |-> t, admins |-> AdminDb(1),
        pbf |-> MergedPbf([base |-> 1, nhvr |-> 1])]

Init ==
    /\ inputs = [base |-> 1, nhvr |-> 1]
    /\ \/ /\ live = Empty /\ state = Nothing /\ db = 0 /\ valhalla = Absent
       \/ /\ live = Installed /\ state = inputs /\ db = 1
          /\ valhalla = Installed["tar"]
    /\ verified = live
    /\ build = Empty /\ old = Empty /\ hasOld = FALSE
    /\ cmd = NoCommand /\ pc = "idle" /\ cur = Nothing /\ i = 1
    /\ faults = 0 /\ exit = "none" /\ mixed = FALSE

(***************************************************************************)
(* Input files may be replaced at any time, during a run too.              *)
(***************************************************************************)
ReplaceInputs(v) ==
    /\ v # inputs /\ v.base >= 1 /\ v.nhvr >= 1
    /\ Revert \/ (v.base >= inputs.base /\ v.nhvr >= inputs.nhvr)
    /\ inputs' = v
    /\ UNCHANGED <<state, disk, db, valhalla, local, faults, history>>

-----------------------------------------------------------------------------
(* The control structure of the two scripts. *)

IsUpdate == cmd.tool = "update"
Has(flag) == flag \in cmd.flags
Simple == IsUpdate /\ Has("simple") /\ ~Has("tiles")

PbfChangedFor(c, v) == "force" \in c.flags \/ v.base # state.base
GpkgChangedFor(c, v) == "force" \in c.flags \/ v.nhvr # state.nhvr
PbfChanged == PbfChangedFor(cmd, cur)

AfterLoad ==
    IF IsUpdate
    THEN IF ~ValhallaLocal THEN "record" ELSE "build"
    ELSE IF ValhallaLocal /\ ~Has("skipTiles") THEN "build" ELSE "stackUp"
AfterImport == IF ~IsUpdate /\ Has("skipDb") THEN AfterLoad ELSE "load"
AfterHealthy ==
    IF ~IsUpdate THEN "stackUp" ELSE IF Has("tiles") THEN "idle" ELSE "record"

(* The run ends: its shell variables are gone. *)
End(status) ==
    /\ pc' = "idle" /\ exit' = status
    /\ cmd' = NoCommand /\ cur' = Nothing /\ i' = 1

Goto(step) ==
    /\ pc' = step
    /\ UNCHANGED <<cmd, cur, exit>>

Fault(kind) ==
    /\ kind \in Faults /\ faults < MaxFaults
    /\ faults' = faults + 1
NoFault == UNCHANGED faults

-----------------------------------------------------------------------------
(* Starting a run.  Invocations the script refuses change nothing. *)

Begin(c, step) ==
    /\ pc = "idle"
    /\ cmd' = c /\ pc' = step /\ cur' = inputs
    /\ UNCHANGED <<inputs, state, db, valhalla, i, faults, verified, exit>>
    /\ mixed' = (mixed \/ c.tool = "setup" \/ "rollback" \in c.flags)

StartRollback(c) ==
    /\ c.tool = "update" /\ "rollback" \in c.flags
    /\ ValhallaLocal /\ hasOld
    /\ Begin(c, "rbStop")
    /\ UNCHANGED disk

StartDbOnly(c) ==
    /\ c.tool = "update" /\ "db" \in c.flags /\ "rollback" \notin c.flags
    /\ Begin(c, "load")
    /\ UNCHANGED disk

(* --tiles-only copies the live merged extract and never imports *)
StartTilesOnly(c) ==
    /\ c.tool = "update" /\ "tiles" \in c.flags
    /\ c.flags \cap {"db", "rollback"} = {}
    /\ ValhallaLocal /\ IsThere(live["pbf"])
    /\ Begin(c, "build")
    /\ build' = [Empty EXCEPT !["pbf"] = live["pbf"]]
    /\ UNCHANGED <<live, old, hasOld>>

IsFullUpdate(c) ==
    c.tool = "update" /\ c.flags \cap {"db", "tiles", "rollback"} = {}

\* mutants: the GeoPackages are not compared; no early exit
OnlyPbfCompared(c) == ~PbfChangedFor(c, inputs)
NeverUpToDate(c) == FALSE
NothingChanged(c) == ~PbfChangedFor(c, inputs) /\ ~GpkgChangedFor(c, inputs)

StartUpToDate(c) ==
    /\ IsFullUpdate(c)
    /\ NothingChanged(c)
    /\ Begin(c, "uptodate")
    /\ UNCHANGED disk

StartFull(c) ==
    /\ IsFullUpdate(c)
    /\ ~NothingChanged(c)
    /\ Begin(c, IF ValhallaLocal THEN "import" ELSE "load")
    /\ UNCHANGED disk

StartSetup(c) ==
    /\ c.tool = "setup"
    /\ Begin(c, IF ValhallaLocal THEN "import"
                ELSE IF "skipDb" \in c.flags THEN "stackUp" ELSE "load")
    /\ UNCHANGED disk

Start(c) ==
    \/ StartRollback(c) \/ StartDbOnly(c) \/ StartTilesOnly(c)
    \/ StartUpToDate(c) \/ StartFull(c) \/ StartSetup(c)

(* "NHVR data and tiles are up to date" *)
UpToDate ==
    /\ pc = "uptodate"
    /\ End("ok") /\ NoFault
    /\ UNCHANGED <<inputs, state, disk, db, valhalla, verified, mixed>>

-----------------------------------------------------------------------------
(* Import, database load and tile build. *)

(* nhvr-tools import reads both inputs as they are now; the output is *)
(* renamed into place, so it is all or nothing.                        *)
Import ==
    /\ pc = "import" /\ (IsUpdate \/ ~Has("skipPbf"))
    /\ build' = [Empty EXCEPT !["pbf"] = MergedPbf(inputs)]
    /\ Goto(AfterImport) /\ NoFault
    /\ UNCHANGED <<inputs, state, live, old, hasOld, db, valhalla, i, verified, mixed>>

(* setup.sh --skip-pbf *)
ReusePbf ==
    /\ pc = "import" /\ ~IsUpdate /\ Has("skipPbf")
    /\ IF Has("skipTiles")
       THEN build' = Empty
       ELSE /\ IsThere(live["pbf"])
            /\ build' = [Empty EXCEPT !["pbf"] = live["pbf"]]
    /\ Goto(AfterImport) /\ NoFault
    /\ UNCHANGED <<inputs, state, live, old, hasOld, db, valhalla, i, verified, mixed>>

ReuseRefused ==
    /\ pc = "import" /\ ~IsUpdate /\ Has("skipPbf") /\ ~Has("skipTiles")
    /\ ~IsThere(live["pbf"])
    /\ build' = Empty
    /\ End("failed") /\ NoFault
    /\ UNCHANGED <<inputs, state, live, old, hasOld, db, valhalla, verified, mixed>>

(* nhvr-tools load-db reads the GeoPackages as they are now and swaps the *)
(* table in one transaction.                                               *)
LoadDb ==
    /\ pc = "load"
    /\ db' = inputs.nhvr
    /\ IF IsUpdate /\ Has("db") THEN End("ok") /\ NoFault
       ELSE Goto(AfterLoad) /\ NoFault /\ UNCHANGED i
    /\ UNCHANGED <<inputs, state, disk, valhalla, verified, mixed>>

\* mutant: the admin database is always copied, as setup.sh does
AlwaysCopyAdmins == TRUE

(* seed_build_from_live copies the admin database when it may be reused; *)
(* the builder makes one only when asked to and none is there.            *)
CopyAdmins == ~IsUpdate \/ Has("tiles") \/ ~PbfChanged
BuildAdmins == ~IsUpdate \/ (~Has("tiles") /\ PbfChanged)
AdminsAfterBuild(seed, pbf) ==
    IF ~IsThere(seed) /\ BuildAdmins THEN AdminDb(pbf.base) ELSE seed

Built(pbf, adminDb) ==
    [tiles |-> TilesFrom(pbf, adminDb), tar |-> TilesFrom(pbf, adminDb),
     admins |-> adminDb, pbf |-> pbf]

BuildTiles ==
    /\ pc = "build" /\ ~Simple
    /\ LET seed == IF CopyAdmins THEN live["admins"] ELSE Absent
       IN build' = Built(build["pbf"], AdminsAfterBuild(seed, build["pbf"]))
    /\ Goto("clear") /\ NoFault
    /\ UNCHANGED <<inputs, state, live, old, hasOld, db, valhalla, i, verified, mixed>>

(* --simple only seeds .build here; the build happens in custom_files *)
SkipBuild ==
    /\ pc = "build" /\ Simple
    /\ build' = [build EXCEPT !["admins"] =
                    IF CopyAdmins THEN live["admins"] ELSE Absent]
    /\ Goto("clear") /\ NoFault
    /\ UNCHANGED <<inputs, state, live, old, hasOld, db, valhalla, i, verified, mixed>>

(* rm -rf .old; mkdir -p .old *)
ClearOld ==
    /\ pc = "clear"
    /\ old' = Empty /\ hasOld' = TRUE
    /\ Goto("stop") /\ NoFault
    /\ UNCHANGED <<inputs, state, live, build, db, valhalla, i, verified, mixed>>

(* compose stop valhalla || true: it is taken to stop a running server *)
StopValhalla(here, next) ==
    /\ pc = here
    /\ valhalla' = Absent
    /\ Goto(next) /\ i' = 1 /\ NoFault
    /\ UNCHANGED <<inputs, state, disk, db, verified, mixed>>

\* mutant: the files are swapped under the running server
SwapUnderServer ==
    /\ pc = "stop"
    /\ Goto(IF Simple THEN "aside" ELSE "swap") /\ i' = 1 /\ NoFault
    /\ UNCHANGED <<inputs, state, disk, db, valhalla, verified, mixed>>
Stop == StopValhalla("stop", IF Simple THEN "aside" ELSE "swap")

-----------------------------------------------------------------------------
(* promote_build: the swap loop, one rename per step. *)

Item == TileItems[i]
\* mutant: the loop over the items stops one short
OneItemShort == i < Len(TileItems)
MoreItems == i <= Len(TileItems)

MoveAside ==
    /\ pc = "swap" /\ MoreItems
    /\ IsThere(build[Item]) /\ IsThere(live[Item])
    /\ old' = [old EXCEPT ![Item] = live[Item]]
    /\ live' = [live EXCEPT ![Item] = Absent]
    /\ NoFault
    /\ UNCHANGED <<inputs, state, build, hasOld, db, valhalla, local, history>>

MoveIn ==
    /\ pc = "swap" /\ MoreItems
    /\ IsThere(build[Item]) /\ ~IsThere(live[Item])
    /\ live' = [live EXCEPT ![Item] = build[Item]]
    /\ build' = [build EXCEPT ![Item] = Absent]
    /\ i' = i + 1 /\ Goto("swap") /\ NoFault
    /\ UNCHANGED <<inputs, state, old, hasOld, db, valhalla, verified, mixed>>

KeepItem ==
    /\ pc = "swap" /\ MoreItems
    /\ ~IsThere(build[Item])
    /\ i' = i + 1 /\ Goto("swap") /\ NoFault
    /\ UNCHANGED <<inputs, state, disk, db, valhalla, verified, mixed>>

-----------------------------------------------------------------------------
(* update.sh --simple: move aside, copy the extract, build in place. *)

\* mutant: the merged extract is overwritten without being moved aside
AsideWithoutPbf == IF PbfChanged THEN <<"tiles", "tar", "admins">> ELSE <<"tiles", "tar">>
AsideItems ==
    IF PbfChanged THEN <<"tiles", "tar", "pbf", "admins">>
    ELSE <<"tiles", "tar", "pbf">>

SimpleAside ==
    /\ pc = "aside" /\ i <= Len(AsideItems)
    /\ LET item == AsideItems[i] IN
       IF IsThere(live[item])
       THEN /\ old' = [old EXCEPT ![item] = live[item]]
            /\ live' = [live EXCEPT ![item] = Absent]
       ELSE UNCHANGED <<old, live>>
    /\ i' = i + 1 /\ Goto("aside") /\ NoFault
    /\ UNCHANGED <<inputs, state, build, hasOld, db, valhalla, verified, mixed>>

CopyPbf ==
    /\ pc = "aside" /\ i > Len(AsideItems)
    /\ live' = [live EXCEPT !["pbf"] = build["pbf"]]
    /\ Goto("rebuild") /\ NoFault
    /\ UNCHANGED <<inputs, state, build, old, hasOld, db, valhalla, i, verified, mixed>>

Rebuild ==
    /\ pc = "rebuild"
    /\ live' = Built(live["pbf"], AdminsAfterBuild(live["admins"], live["pbf"]))
    /\ Goto("up") /\ NoFault
    /\ UNCHANGED <<inputs, state, build, old, hasOld, db, valhalla, i, verified, mixed>>

RebuildFails ==
    /\ pc = "rebuild" /\ Fault("command")
    /\ live' = [live EXCEPT !["tiles"] = Partial]
    /\ Goto("rbStop")
    /\ UNCHANGED <<inputs, state, build, old, hasOld, db, valhalla, i, verified, mixed>>

-----------------------------------------------------------------------------
(* compose up -d valhalla.  On a running container it does nothing.  The  *)
(* entrypoint makes a missing tar from the tile directory, and builds the *)
(* tiles itself when there is neither; the server opens the tar.          *)

Opened(dir) ==
    IF IsThere(dir["tar"]) THEN dir
    ELSE IF IsThere(dir["tiles"]) THEN [dir EXCEPT !["tar"] = dir["tiles"]]
    ELSE IF IsThere(dir["pbf"])
    THEN Built(dir["pbf"], dir["admins"])
    ELSE dir

ComposeUp ==
    IF valhalla # Absent THEN UNCHANGED <<live, valhalla>>
    ELSE live' = Opened(live) /\ valhalla' = live'["tar"]

Up ==
    /\ pc = "up" \/ (pc = "swap" /\ ~MoreItems)
    /\ ComposeUp
    /\ Goto("health") /\ NoFault
    /\ UNCHANGED <<inputs, state, build, old, hasOld, db, i, verified, mixed>>

KeepsOld == Has("keepOld") /\ IsUpdate /\ ~Simple

Healthy ==
    /\ pc = "health"
    /\ verified' = live /\ UNCHANGED mixed
    /\ IF KeepsOld THEN UNCHANGED <<old, hasOld>>
       ELSE old' = Empty /\ hasOld' = FALSE
    /\ IF AfterHealthy = "idle" THEN End("ok") ELSE Goto(AfterHealthy) /\ UNCHANGED i
    /\ NoFault
    /\ UNCHANGED <<inputs, state, live, build, db, valhalla>>

NothingToRestore == ~Simple /\ old = Empty

Unhealthy ==
    /\ pc = "health" /\ Fault("unhealthy")
    /\ IF NothingToRestore THEN End("failed") ELSE Goto("rbStop") /\ UNCHANGED i
    /\ UNCHANGED <<inputs, state, disk, db, valhalla, verified, mixed>>

-----------------------------------------------------------------------------
(* rollback_build.  .failed only receives files, so it is left out. *)

RollbackStop == StopValhalla("rbStop", "rbSwap")

MoveFailed ==
    /\ pc = "rbSwap" /\ MoreItems
    /\ IsThere(old[Item]) /\ IsThere(live[Item])
    /\ live' = [live EXCEPT ![Item] = Absent]
    /\ NoFault
    /\ UNCHANGED <<inputs, state, build, old, hasOld, db, valhalla, local, history>>

Restore ==
    /\ pc = "rbSwap" /\ MoreItems
    /\ IsThere(old[Item]) /\ ~IsThere(live[Item])
    /\ live' = [live EXCEPT ![Item] = old[Item]]
    /\ old' = [old EXCEPT ![Item] = Absent]
    /\ i' = i + 1 /\ Goto("rbSwap") /\ NoFault
    /\ UNCHANGED <<inputs, state, build, hasOld, db, valhalla, verified, mixed>>

NotBackedUp ==
    /\ pc = "rbSwap" /\ MoreItems
    /\ ~IsThere(old[Item])
    /\ i' = i + 1 /\ Goto("rbSwap") /\ NoFault
    /\ UNCHANGED <<inputs, state, disk, db, valhalla, verified, mixed>>

RollbackUp ==
    /\ pc = "rbSwap" /\ ~MoreItems
    /\ ComposeUp
    /\ Goto("rbHealth") /\ NoFault
    /\ UNCHANGED <<inputs, state, build, old, hasOld, db, i, verified, mixed>>

RollbackHealthy ==
    /\ pc = "rbHealth"
    /\ verified' = IF Has("rollback") THEN live ELSE verified
    /\ UNCHANGED mixed
    /\ End(IF Has("rollback") THEN "ok" ELSE "failed") /\ NoFault
    /\ UNCHANGED <<inputs, state, disk, db, valhalla>>

RollbackUnhealthy ==
    /\ pc = "rbHealth" /\ Fault("unhealthy")
    /\ End("failed")
    /\ UNCHANGED <<inputs, state, disk, db, valhalla, verified, mixed>>

-----------------------------------------------------------------------------
(* The end of a full run. *)

(* setup.sh: compose up -d of the whole stack *)
StackUp ==
    /\ pc = "stackUp"
    /\ IF ValhallaLocal THEN ComposeUp ELSE UNCHANGED <<live, valhalla>>
    /\ Goto("record") /\ NoFault
    /\ UNCHANGED <<inputs, state, build, old, hasOld, db, i, verified, mixed>>

\* mutants: update.sh takes the fingerprints at its end; the GeoPackage line
\* keeps its old value
StateAtEnd == inputs
StateWithoutGpkg == [cur EXCEPT !.nhvr = state.nhvr]

(* update.sh records the fingerprints taken at its start, setup.sh those *)
(* of the moment, and only for the halves it did not skip.               *)
StateToWrite ==
    IF IsUpdate THEN cur
    ELSE [base |-> IF Has("skipPbf") \/ Has("skipTiles") \/ ~ValhallaLocal
                   THEN state.base ELSE inputs.base,
          nhvr |-> IF Has("skipDb") THEN state.nhvr ELSE inputs.nhvr]

WriteState ==
    /\ pc = "record"
    /\ state' = StateToWrite
    /\ End("ok") /\ NoFault
    /\ UNCHANGED <<inputs, disk, db, valhalla, verified, mixed>>

-----------------------------------------------------------------------------
(* Faults that end the run. *)

(* import, load-db, the tile build or compose up fails, or promote_build *)
(* finds a directory it cannot write: `set -e` or die ends the run.       *)
CommandFails ==
    /\ pc \in {"import", "load", "stackUp"} \/ (pc \in {"build", "clear"} /\ ~Simple)
    /\ Fault("command")
    /\ End("failed")
    /\ UNCHANGED <<inputs, state, disk, db, valhalla, verified, mixed>>

(* move_tiles or require_host_control dies, a plain mv or cp fails, or   *)
(* compose up fails, in the middle of a swap or a rollback: no handler    *)
(* restores anything.                                                     *)
UnhandledFails ==
    /\ pc \in {"swap", "aside", "up", "rbStop", "rbSwap"}
    /\ Fault("unhandled")
    /\ End("failed")
    /\ UNCHANGED <<inputs, state, disk, db, valhalla, verified, mixed>>

(* A kill may catch the in-place build half way, or write_state between *)
(* truncating the file and writing its lines.                            *)
Kill ==
    /\ pc # "idle" /\ Fault("kill")
    /\ \/ UNCHANGED live
       \/ pc = "rebuild" /\ live' = [live EXCEPT !["tiles"] = Partial]
    /\ \/ UNCHANGED state
       \/ pc = "record" /\ state' \in {Nothing, [StateToWrite EXCEPT !.nhvr = 0]}
    /\ End("killed")
    /\ UNCHANGED <<inputs, build, old, hasOld, db, valhalla, verified, mixed>>

-----------------------------------------------------------------------------
Promote == MoveAside \/ MoveIn \/ KeepItem
InPlace == SimpleAside \/ CopyPbf \/ Rebuild
Rollback == RollbackStop \/ MoveFailed \/ Restore \/ NotBackedUp
            \/ RollbackUp \/ RollbackHealthy

(* What a run does when nothing goes wrong with the step *)
Script ==
    \/ UpToDate \/ Import \/ ReusePbf \/ ReuseRefused \/ LoadDb
    \/ BuildTiles \/ SkipBuild \/ ClearOld \/ Stop
    \/ Promote \/ InPlace \/ Up \/ Healthy \/ Rollback
    \/ StackUp \/ WriteState

Failure ==
    RebuildFails \/ Unhealthy \/ RollbackUnhealthy \/ CommandFails \/ UnhandledFails \/ Kill

Next ==
    \/ \E v \in Versions : ReplaceInputs(v)
    \/ \E c \in Commands : Start(c)
    \/ Script
    \/ Failure

Spec == Init /\ [][Next]_vars

-----------------------------------------------------------------------------
(* Properties. *)

FreshFor(v) ==
    /\ db = v.nhvr
    /\ ValhallaLocal => BuiltFrom(valhalla, v)

(* When update.sh reports that data and tiles are up to date, PostGIS holds *)
(* the GeoPackages it looked at and the running server serves tiles built   *)
(* from them and from the extract it looked at (update.sh:178-182).          *)
UpToDateIsTrue == pc = "uptodate" => FreshFor(cur)

(* ... and those tiles were built with the admin database of that extract *)
(* (update.sh:212-220, lib.sh:306), whatever updates failed before.         *)
AdminsAreCurrent ==
    (pc = "uptodate" /\ ValhallaLocal /\ ~mixed) => valhalla.admin = cur.base

(* custom_files has held a release that passed its health check *)
HasRelease == verified["tar"].kind = "whole"

(* An update that fails by itself leaves every file of the release that    *)
(* last passed its health check in custom_files, and the server has it open *)
(* (README.md:182-184: "the previous tiles are restored"), whatever step    *)
(* failed.                                                                  *)
RestoredOnFailure ==
    (pc = "idle" /\ exit = "failed" /\ HasRelease /\ ~mixed) =>
        /\ \A item \in Items :
              IsThere(verified[item]) => live[item] = verified[item]
        /\ valhalla = verified["tar"]

(* Between runs custom_files holds one build, whichever one step failed, in *)
(* setups and rollbacks too: directory, tar and merged extract agree, and a *)
(* restart of the server opens what it serves now.                          *)
OneRelease ==
    (pc = "idle" /\ HasRelease /\ faults <= 1) =>
        /\ live["tiles"] = live["tar"]
        /\ BuiltFrom(live["tar"], live["pbf"])
        /\ ValhallaLocal => valhalla = live["tar"]

(* The pipeline as DataRelease sees it. *)
Release == INSTANCE DataRelease WITH
    recorded <- state,
    table <- db,
    serving <- IF valhalla.kind = "whole"
               THEN [base |-> valhalla.base, nhvr |-> valhalla.nhvr]
               ELSE Nothing

(* Every behaviour of the scripts is one of DataRelease: state is advanced *)
(* only to what table and server already hold, never while stopped, and    *)
(* Valhalla stops only while the state asks for an update.                  *)
PublishesReleases == Release!Spec

(***************************************************************************)
(* Someone keeps running plain ./update.sh; a run that is not killed takes *)
(* its next step.  Faults are finitely many by MaxFaults, input changes by *)
(* MaxVersion when Revert is FALSE.                                        *)
(***************************************************************************)
PlainUpdate == [tool |-> "update", flags |-> {}]
FairSpec == Spec /\ WF_vars(Script) /\ SF_vars(Start(PlainUpdate))

(* Retried runs converge: from some point on, the products derive from the *)
(* current inputs, the state says so and Valhalla is up.                    *)
Converges == <>[](state = inputs /\ FreshFor(inputs))
=============================================================================
