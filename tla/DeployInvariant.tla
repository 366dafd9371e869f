--------------------------- MODULE DeployInvariant ---------------------------
(***************************************************************************)
(* The inductive invariant behind UpToDateIsTrue and PublishesReleases.    *)
(* It holds for the routine use of update.sh: full updates and --db-only,  *)
(* with input files that only move forward.  Kills and failures may occur  *)
(* at any step.  What it says of tiles holds where this host builds them.  *)
(***************************************************************************)
EXTENDS Deploy

RoutineUse ==
    /\ ~Revert
    /\ \A c \in Commands :
         c.tool = "update" /\ c.flags \cap {"force", "tiles", "rollback"} = {}

(* the items whose content depends on the inputs *)
DataItems == {"tiles", "tar", "pbf"}

(* p was built from inputs at least as new as v *)
NoOlder(p, v) ==
    /\ p.kind = "whole"
    /\ v.base <= p.base /\ p.base <= inputs.base
    /\ v.nhvr <= p.nhvr /\ p.nhvr <= inputs.nhvr

AllNoOlder(dir, v) ==
    \A item \in DataItems : dir[item].kind = "whole" => NoOlder(dir[item], v)

(* The steps of a run that has work to do.  A --db-only run is at "load". *)
FullRun ==
    \/ pc \notin {"idle", "uptodate", "load"}
    \/ pc = "load" /\ ~Has("db")

RunIsRoutine ==
    /\ IsUpdate
    /\ cmd.flags \cap {"force", "tiles", "rollback"} = {}
    /\ pc \notin {"idle", "load"} => ~Has("db")
    /\ pc # "stackUp"
    /\ ~ValhallaLocal => pc \in {"idle", "uptodate", "load", "record"}

(* state <= cur <= inputs, and a full run has work to do *)
VersionsInOrder ==
    /\ inputs.base >= 1 /\ inputs.nhvr >= 1
    /\ state.base <= inputs.base /\ state.nhvr <= inputs.nhvr
    /\ pc # "idle" =>
         /\ cur.base <= inputs.base /\ cur.nhvr <= inputs.nhvr
         /\ state.base <= cur.base /\ state.nhvr <= cur.nhvr
    /\ FullRun => state.base # cur.base \/ state.nhvr # cur.nhvr
    /\ pc = "uptodate" => state = cur

TableIsFresh ==
    /\ state.nhvr <= db /\ db <= inputs.nhvr
    /\ (FullRun /\ pc \notin {"import", "load"}) => cur.nhvr <= db

(* No directory holds a product older than the recorded state. *)
FilesAreFresh ==
  ValhallaLocal =>
    /\ AllNoOlder(live, state)
    /\ pc \in {"stop", "swap", "aside", "rebuild", "up", "health",
               "rbStop", "rbSwap", "rbHealth"} => AllNoOlder(old, state)

(* Where the product of the current run is. *)
Ready(dir, item) == NoOlder(dir[item], cur)
ProductIsThere ==
  ValhallaLocal =>
    /\ pc \in {"load", "build"} /\ FullRun => Ready(build, "pbf")
    /\ (pc \in {"clear", "stop"} /\ Simple) => Ready(build, "pbf")
    /\ (pc \in {"clear", "stop"} /\ ~Simple) =>
         \A item \in DataItems : Ready(build, item)
    /\ pc = "swap" =>
         /\ ~Simple
         /\ IF i > 1 THEN Ready(live, "tiles") ELSE Ready(build, "tiles")
         /\ IF i > 2 THEN Ready(live, "tar") ELSE Ready(build, "tar")
         /\ IF i > 4 THEN Ready(live, "pbf") ELSE Ready(build, "pbf")
    /\ pc = "aside" => Simple /\ Ready(build, "pbf")
    /\ pc = "rebuild" => Simple /\ Ready(live, "pbf")
    /\ pc = "up" => Simple
    /\ pc \in {"up", "health", "record"} =>
         \A item \in DataItems : Ready(live, item)

(* The server is down only while the state asks for an update. *)
ServerIsFresh ==
  ValhallaLocal =>
    /\ valhalla.kind = "whole" => NoOlder(valhalla, state)
    /\ state = inputs => valhalla.kind = "whole"
    /\ pc \in {"swap", "aside", "rebuild", "up", "rbSwap"} => valhalla = Absent
    /\ pc \in {"health", "record"} => NoOlder(valhalla, cur)

Inv ==
    /\ TypeOK
    /\ RunIsRoutine
    /\ VersionsInOrder
    /\ TableIsFresh
    /\ FilesAreFresh
    /\ ProductIsThere
    /\ ServerIsFresh
    /\ UpToDateIsTrue
=============================================================================
