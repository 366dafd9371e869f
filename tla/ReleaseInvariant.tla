--------------------------- MODULE ReleaseInvariant ---------------------------
(***************************************************************************)
(* The inductive invariants behind RestoredOnFailure and AdminsAreCurrent, *)
(* for every way of running update.sh but --rollback, before any setup.sh, *)
(* and behind OneRelease, for every run.  "verified" is the release that   *)
(* last passed its health check.                                           *)
(***************************************************************************)
EXTENDS Deploy

(* The faults update.sh has an answer to: a job fails, or Valhalla does not *)
(* come up.                                                                 *)
HandledFaults == Faults \subseteq {"command", "unhealthy"}

(* The steps that leave custom_files alone or are done with it, and those  *)
(* between the stop of the server and the end of a promotion or a rollback. *)
Settled == {"idle", "uptodate", "import", "load", "build", "clear", "stop",
            "record", "rbHealth"}
Moving == {"swap", "aside", "rebuild", "up", "health", "rbStop", "rbSwap"}

UpdateOnly ==
    /\ IsUpdate /\ ~Has("rollback")
    /\ pc \in Settled \cup Moving

-----------------------------------------------------------------------------
(* Where the files of the verified release are. *)

Kept == \A item \in Items : IsThere(verified[item]) => live[item] = verified[item]

(* rollback_build would bring them back. *)
Recoverable ==
    \A item \in Items : IsThere(verified[item]) =>
        IF IsThere(old[item]) THEN old[item] = verified[item]
                              ELSE live[item] = verified[item]

ReleaseIsSafe ==
    HasRelease => /\ pc \in Settled => Kept /\ valhalla = verified["tar"]
                  /\ pc \in Moving => Recoverable

ServerFollows ==
    /\ pc \in {"swap", "aside", "rebuild", "up", "rbSwap"} => valhalla = Absent
    /\ pc = "health" => valhalla = live["tar"]

(* Nothing in .old is overwritten, and an in-place build has moved away     *)
(* whatever it is about to write.                                           *)
BackupIsSafe ==
    /\ pc = "stop" => old = Empty
    /\ pc = "swap" =>
         \A k \in i..Len(TileItems) :
            ~(IsThere(old[TileItems[k]]) /\ IsThere(live[TileItems[k]]))
    /\ pc = "aside" =>
         \A k \in 1..Len(AsideItems) :
            IF k < i THEN ~IsThere(live[AsideItems[k]]) ELSE ~IsThere(old[AsideItems[k]])
    /\ pc = "rebuild" => ~IsThere(live["tiles"]) /\ ~IsThere(live["tar"])
    /\ pc = "rebuild" /\ HasRelease /\ IsThere(verified["pbf"]) => IsThere(old["pbf"])
    /\ pc \in {"aside", "rebuild"} /\ ~PbfChanged => ~IsThere(old["admins"])
    /\ pc = "rebuild" /\ PbfChanged => ~IsThere(live["admins"])
    /\ pc = "rbSwap" => \A k \in 1..(i - 1) : ~IsThere(old[TileItems[k]])

SafeInv ==
    ~mixed => UpdateOnly /\ ReleaseIsSafe /\ ServerFollows /\ BackupIsSafe

-----------------------------------------------------------------------------
(* Which base extract the admin database, and the tiles built with it, are  *)
(* from.                                                                    *)

Within(base, low) == low <= base /\ base <= inputs.base

Complete(tar, admins, pbf, low) ==
    /\ tar.kind = "whole" /\ Within(tar.admin, low)
    /\ admins.kind = "whole" /\ Within(admins.base, low)
    /\ pbf.kind = "whole"
CompleteIn(dir, low) == Complete(dir["tar"], dir["admins"], dir["pbf"], low)

(* --tiles-only rebuilds from what is live and records nothing. *)
Low == IF Has("tiles") THEN state.base ELSE cur.base

Extract(pbf) == pbf.kind = "whole" /\ (~Has("tiles") => Within(pbf.base, cur.base))

BuildIsCurrent ==
    /\ pc \in {"load", "build"} /\ ~Has("db") => Extract(build["pbf"])
    /\ pc \in {"clear", "stop"} /\ ~Simple => CompleteIn(build, Low)
    /\ pc \in {"clear", "stop", "aside"} /\ Simple => Extract(build["pbf"])
    /\ pc = "swap" => Complete(IF i > 2 THEN live["tar"] ELSE build["tar"],
                               IF i > 3 THEN live["admins"] ELSE build["admins"],
                               IF i > 4 THEN live["pbf"] ELSE build["pbf"], Low)
    /\ pc = "rebuild" => Extract(live["pbf"])
    /\ pc \in {"up", "health"} => CompleteIn(live, Low)

BasesInOrder ==
    /\ inputs.base >= 1 /\ state.base <= inputs.base
    /\ pc # "idle" => cur.base >= 1 /\ state.base <= cur.base /\ cur.base <= inputs.base
    /\ pc \notin {"idle", "load"} => ~Has("db")
    /\ pc \in {"aside", "rebuild"} => Simple
    /\ pc = "record" => ~Has("tiles")

AdminsFollow ==
    /\ BasesInOrder
    /\ state.base # 0 => CompleteIn(verified, state.base)
    /\ pc = "record" => CompleteIn(verified, cur.base)
    /\ pc \notin {"idle", "uptodate"} /\ Low # 0 => BuildIsCurrent
    /\ pc = "uptodate" => valhalla.admin = cur.base

AdminInv == ValhallaLocal /\ ~mixed => AdminsFollow

-----------------------------------------------------------------------------
(* One build, whatever setups and rollbacks have been run: a directory, a   *)
(* tar and an extract that belong together, nothing at all, or what is left *)
(* of a first --simple build that failed.                                   *)

IsBuild(tiles, tar, pbf) == tiles = tar /\ BuiltFrom(tar, pbf) /\ pbf.kind = "whole"
IsWreck(tiles, tar, pbf) == tiles = tar /\ tar.kind = "partial" /\ pbf.kind = "whole"

Coherent(tiles, tar, pbf) ==
    \/ ~IsThere(tiles) /\ ~IsThere(tar) /\ ~IsThere(pbf)
    \/ IsBuild(tiles, tar, pbf)
    \/ faults > 0 /\ IsWreck(tiles, tar, pbf)

(* A --rollback may go back to a wreck: a first fault left it, a second one *)
(* is needed for that to be an update's end.                                *)
Forgiven == IF Has("rollback") /\ pc \in {"rbStop", "rbSwap", "rbHealth"} THEN 0 ELSE 1

Sound(tiles, tar, pbf) ==
    /\ Coherent(tiles, tar, pbf)
    /\ HasRelease /\ faults <= Forgiven => IsBuild(tiles, tar, pbf)

(* The item at place k of a loop: as it was before the loop, after it, and  *)
(* as rollback_build and the start of the server after it will leave it.    *)
Before(item, k) == IF IsThere(old[item]) \/ i > k THEN old[item] ELSE live[item]
After(item, k) == IF i > k THEN live[item] ELSE build[item]
Restored(item) == IF IsThere(old[item]) THEN old[item] ELSE live[item]
RestoredTar == IF IsThere(Restored("tar")) THEN Restored("tar") ELSE Restored("tiles")

(* No loop writes over what is in its way. *)
SwapClear(item, k) == i <= k => ~(IsThere(old[item]) /\ IsThere(live[item]))
AsideClear(item, k) == IF i > k THEN ~IsThere(live[item]) ELSE ~IsThere(old[item])
GivenBack(item, k) == i > k => ~IsThere(old[item])

AtRest == {"idle", "uptodate", "import", "load", "build", "clear", "stop",
           "stackUp", "record", "rbHealth"}

FilesAreOne ==
    /\ pc \in AtRest => /\ Sound(live["tiles"], live["tar"], live["pbf"])
                        /\ Coherent(old["tiles"], old["tar"], old["pbf"])
                        /\ valhalla = live["tar"]
    /\ pc \in {"up", "health"} => IsBuild(live["tiles"], live["tar"], live["pbf"])
    /\ pc = "rebuild" => ~IsThere(live["tar"]) /\ live["pbf"].kind = "whole"
    /\ pc \in {"rbStop", "rbSwap"} => Sound(Restored("tiles"), RestoredTar, Restored("pbf"))

BackupIsOne ==
    /\ pc = "stop" => old = Empty
    /\ pc = "swap" => /\ Sound(Before("tiles", 1), Before("tar", 2), Before("pbf", 4))
                      /\ SwapClear("tiles", 1) /\ SwapClear("tar", 2) /\ SwapClear("pbf", 4)
    /\ pc = "aside" => /\ Sound(Before("tiles", 1), Before("tar", 2), Before("pbf", 3))
                       /\ AsideClear("tiles", 1) /\ AsideClear("tar", 2) /\ AsideClear("pbf", 3)
    /\ pc \in {"rebuild", "up", "health"} => Sound(old["tiles"], old["tar"], old["pbf"])
    /\ pc = "rbSwap" => GivenBack("tiles", 1) /\ GivenBack("tar", 2) /\ GivenBack("pbf", 4)

(* What is to be promoted *)
BuildIsOne ==
    /\ pc = "load" /\ ~(IsUpdate /\ Has("db")) /\ AfterLoad = "build" =>
         build["pbf"].kind = "whole"
    /\ pc \in {"build", "aside"} => build["pbf"].kind = "whole"
    /\ pc \in {"clear", "stop"} =>
         IF Simple THEN build["pbf"].kind = "whole"
                   ELSE IsBuild(build["tiles"], build["tar"], build["pbf"])
    /\ pc = "swap" => IsBuild(After("tiles", 1), After("tar", 2), After("pbf", 4))

OneInv == ServerFollows /\ FilesAreOne /\ BackupIsOne /\ BuildIsOne

ReleaseInv == TypeOK /\ SafeInv /\ AdminInv /\ OneInv
=============================================================================
