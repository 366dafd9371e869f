---------------------------- MODULE DeployProofs ----------------------------
(***************************************************************************)
(* Machine-checked proofs about Deploy, for every value of its constants:  *)
(* its types; that what update.sh reports is true, because under           *)
(* RoutineUse Inv is inductive and implies UpToDateIsTrue; that the        *)
(* scripts implement DataRelease; that an update that fails leaves the     *)
(* release that last passed its health check, and that the admin database  *)
(* of an up-to-date host is current.                                       *)
(***************************************************************************)
EXTENDS DeployInvariant, ReleaseInvariant, TLAPS

-----------------------------------------------------------------------------
(* Types of the operators on products and directories. *)

(* The products and directories written down in Deploy are well-typed. *)
LEMMA ProductTypes ==
    /\ Absent \in Product /\ Partial \in Product
    /\ Empty \in Directory
    /\ \A v \in Versions : MergedPbf(v) \in Product
    /\ \A b \in Version : AdminDb(b) \in Product
    /\ \A p, q \in Product : TilesFrom(p, q) \in Product
    /\ Installed \in Directory
  BY ScopeAssumption DEF Absent, Partial, Product, Empty, Directory, Versions, Version,
     MergedPbf, AdminDb, TilesFrom, Installed, Items

(* Replacing one item of a directory gives a directory; reading one gives *)
(* a product.                                                              *)
LEMMA DirectoryTypes ==
    ASSUME NEW dir \in Directory, NEW item \in Items
    PROVE  /\ dir[item] \in Product
           /\ \A p \in Product : [dir EXCEPT ![item] = p] \in Directory
  BY DEF Directory

(* A finished build is a directory. *)
LEMMA BuiltType ==
    ASSUME NEW pbf \in Product, NEW adm \in Product
    PROVE  Built(pbf, adm) \in Directory
<1>1. TilesFrom(pbf, adm) \in Product
  BY ProductTypes
<1> QED
  BY <1>1 DEF Built, Directory, Items

(* The admin database a build ends with is a product. *)
LEMMA AdminsType ==
    ASSUME NEW seed \in Product, NEW pbf \in Product
    PROVE  AdminsAfterBuild(seed, pbf) \in Product
<1>1. pbf.base \in Version
  BY DEF Product
<1> QED
  BY <1>1, ProductTypes DEF AdminsAfterBuild

(* What the server makes of its data directory is a directory. *)
LEMMA OpenedType ==
    ASSUME NEW dir \in Directory
    PROVE  Opened(dir) \in Directory
<1>1. /\ dir["tiles"] \in Product /\ dir["pbf"] \in Product
      /\ dir["admins"] \in Product
  BY DirectoryTypes DEF Items
<1>2. Built(dir["pbf"], dir["admins"]) \in Directory
  BY <1>1, BuiltType
<1>3. [dir EXCEPT !["tar"] = dir["tiles"]] \in Directory
  BY <1>1, DirectoryTypes DEF Items
<1> QED
  BY <1>2, <1>3 DEF Opened

(* The loops run over the items in the order of TILE_ITEMS. *)
LEMMA LoopItems ==
    /\ Len(TileItems) = 4
    /\ TileItems[1] = "tiles" /\ TileItems[2] = "tar"
    /\ TileItems[3] = "admins" /\ TileItems[4] = "pbf"
    /\ \A k \in 1..4 : TileItems[k] \in Items
    /\ Len(AsideItems) \in 3..4
    /\ \A k \in 1..Len(AsideItems) : AsideItems[k] \in Items
<1>1. \A k \in 1..4 : k = 1 \/ k = 2 \/ k = 3 \/ k = 4
  OBVIOUS
<1>2. \A k \in 1..3 : k = 1 \/ k = 2 \/ k = 3
  OBVIOUS
<1>3. CASE PbfChanged
  BY <1>1, <1>3 DEF TileItems, Items, AsideItems
<1>4. CASE ~PbfChanged
  BY <1>1, <1>2, <1>4 DEF TileItems, Items, AsideItems
<1> QED
  BY <1>3, <1>4

-----------------------------------------------------------------------------
(* The initial states are well-typed. *)
LEMMA InitTypeOK == Init => TypeOK
<1> SUFFICES ASSUME Init PROVE TypeOK
  OBVIOUS
<1>1. 0 \in Version /\ 1 \in Version
  BY ScopeAssumption DEF Version
<1>2. inputs \in Versions /\ Nothing \in Versions /\ state \in Versions /\ cur \in Versions
  BY <1>1 DEF Init, Versions, Nothing
<1>3. Installed["tar"] \in Product
  BY ProductTypes, DirectoryTypes DEF Items
<1>4. NoCommand \in Command
  BY DEF NoCommand, Command, Flags
<1>5. 0 \in 0..MaxFaults
  BY ScopeAssumption
<1>6. live \in Directory /\ valhalla \in Product /\ db \in Version
  BY <1>1, <1>3, ProductTypes DEF Init
<1>7. i \in 1..(Len(TileItems) + 1)
  BY LoopItems DEF Init
<1>8. pc \in PC /\ exit \in {"none", "ok", "failed", "killed"}
  BY DEF Init, PC
<1> QED
  BY <1>2, <1>4, <1>5, <1>6, <1>7, <1>8, ProductTypes DEF Init, TypeOK

-----------------------------------------------------------------------------
(* Each step keeps the types.  The parts most actions share first. *)

(* Leaving the run. *)
LEMMA EndTypes ==
    ASSUME NEW status \in {"ok", "failed", "killed"}, End(status)
    PROVE  /\ cmd' \in Command /\ pc' \in PC /\ cur' \in Versions
           /\ i' \in 1..(Len(TileItems) + 1)
           /\ exit' \in {"none", "ok", "failed", "killed"}
<1>1. NoCommand \in Command
  BY DEF NoCommand, Command, Flags
<1>2. Nothing \in Versions
  BY ScopeAssumption DEF Nothing, Versions, Version
<1> QED
  BY <1>1, <1>2, LoopItems DEF End, PC

(* Moving on to another step of the run. *)
LEMMA GotoTypes ==
    ASSUME TypeOK, NEW step \in PC, Goto(step)
    PROVE  /\ cmd' \in Command /\ pc' \in PC /\ cur' \in Versions
           /\ exit' \in {"none", "ok", "failed", "killed"}
  BY DEF TypeOK, Goto

(* Counting a fault. *)
LEMMA FaultTypes ==
    ASSUME TypeOK, NoFault \/ \E kind \in FaultKinds : Fault(kind)
    PROVE  faults' \in 0..MaxFaults
  BY ScopeAssumption DEF TypeOK, NoFault, Fault

(* The steps the control operators name. *)
LEMMA StepTypes ==
    AfterLoad \in PC /\ AfterImport \in PC /\ AfterHealthy \in PC
  BY DEF AfterLoad, AfterImport, AfterHealthy, PC

(* compose up -d. *)
LEMMA ComposeUpTypes ==
    ASSUME TypeOK, ComposeUp
    PROVE  live' \in Directory /\ valhalla' \in Product
<1>1. Opened(live) \in Directory
  BY OpenedType DEF TypeOK
<1>2. Opened(live)["tar"] \in Product
  BY <1>1, DirectoryTypes DEF Items
<1> QED
  BY <1>1, <1>2 DEF ComposeUp, TypeOK

LEMMA NextTypeOK == TypeOK /\ [Next]_vars => TypeOK'
<1> SUFFICES ASSUME TypeOK, [Next]_vars PROVE TypeOK'
  OBVIOUS
<1> USE DEF TypeOK
<1>0. Empty \in Directory /\ Absent \in Product /\ Partial \in Product
  BY ProductTypes
<1>1. ASSUME NEW v \in Versions, ReplaceInputs(v) PROVE TypeOK'
  BY <1>1 DEF ReplaceInputs, disk, local, history
<1>2. ASSUME NEW c \in Commands, Start(c) PROVE TypeOK'
  <2>1. c \in Command
    BY ScopeAssumption
  <2>2. ASSUME NEW step \in PC, Begin(c, step), live' = live, old' = old,
               hasOld' = hasOld, build' \in Directory
        PROVE  TypeOK'
    BY <2>1, <2>2 DEF Begin, history
  <2>3. CASE StartRollback(c)
    BY <2>2, <2>3 DEF StartRollback, PC, disk
  <2>4. CASE StartDbOnly(c)
    BY <2>2, <2>4 DEF StartDbOnly, PC, disk
  <2>5. CASE StartTilesOnly(c)
    <3>1. build' \in Directory
      BY <1>0, <2>5, DirectoryTypes DEF StartTilesOnly, Items
    <3> QED
      BY <2>2, <2>5, <3>1 DEF StartTilesOnly, PC
  <2>6. CASE StartUpToDate(c)
    BY <2>2, <2>6 DEF StartUpToDate, PC, disk
  <2>7. CASE StartFull(c)
    BY <2>2, <2>7 DEF StartFull, PC, disk
  <2>8. CASE StartSetup(c)
    BY <2>2, <2>8 DEF StartSetup, PC, disk
  <2> QED
    BY <1>2, <2>3, <2>4, <2>5, <2>6, <2>7, <2>8 DEF Start
<1>3. CASE UpToDate
  BY <1>3, EndTypes, FaultTypes DEF UpToDate, disk
<1>4. CASE Import
  <2>1. build' \in Directory
    BY <1>0, <1>4, ProductTypes, DirectoryTypes DEF Import, Items
  <2> QED
    BY <1>4, <2>1, GotoTypes, StepTypes, FaultTypes DEF Import
<1>5. CASE ReusePbf
  <2>1. live["pbf"] \in Product
    BY DirectoryTypes DEF Items
  <2>2. build' \in Directory
    BY <1>0, <1>5, <2>1, DirectoryTypes DEF ReusePbf, Items
  <2> QED
    BY <1>5, <2>2, GotoTypes, StepTypes, FaultTypes DEF ReusePbf
<1>6. CASE ReuseRefused
  BY <1>0, <1>6, EndTypes, FaultTypes DEF ReuseRefused
<1>7. CASE LoadDb
  <2>1. db' \in Version
    BY <1>7 DEF LoadDb, Versions
  <2> QED
    BY <1>7, <2>1, EndTypes, GotoTypes, StepTypes, FaultTypes DEF LoadDb, disk
<1>8. CASE BuildTiles
  <2>1. live["admins"] \in Product /\ build["pbf"] \in Product
    BY DirectoryTypes DEF Items
  <2>2. build' \in Directory
    BY <1>0, <1>8, <2>1, AdminsType, BuiltType DEF BuildTiles
  <2> QED
    BY <1>8, <2>2, GotoTypes, FaultTypes DEF BuildTiles, PC
<1>9. CASE SkipBuild
  <2>1. live["admins"] \in Product
    BY DirectoryTypes DEF Items
  <2>2. build' \in Directory
    BY <1>0, <1>9, <2>1, DirectoryTypes DEF SkipBuild, Items
  <2> QED
    BY <1>9, <2>2, GotoTypes, FaultTypes DEF SkipBuild, PC
<1>10. CASE ClearOld
  BY <1>0, <1>10, GotoTypes, FaultTypes DEF ClearOld, PC
<1>11. ASSUME NEW here, NEW next \in PC, StopValhalla(here, next) PROVE TypeOK'
  <2>1. faults' \in 0..MaxFaults
    BY <1>11, FaultTypes DEF StopValhalla
  <2>2. valhalla' \in Product
    BY <1>0, <1>11 DEF StopValhalla
  <2> QED
    BY <1>11, <2>1, <2>2, GotoTypes, LoopItems DEF StopValhalla, disk
<1>12. CASE Stop
  BY <1>11, <1>12 DEF Stop, PC
<1>13. MoreItems => Item \in Items /\ i + 1 \in 1..(Len(TileItems) + 1)
  BY LoopItems DEF MoreItems, Item
<1>14. CASE MoveAside
  <2>1. old' \in Directory /\ live' \in Directory
    BY <1>0, <1>13, <1>14, DirectoryTypes DEF MoveAside
  <2> QED
    BY <1>14, <2>1, FaultTypes DEF MoveAside, local, history
<1>15. CASE MoveIn
  <2>1. build' \in Directory /\ live' \in Directory
    BY <1>0, <1>13, <1>15, DirectoryTypes DEF MoveIn
  <2> QED
    BY <1>13, <1>15, <2>1, GotoTypes, FaultTypes DEF MoveIn, PC
<1>16. CASE KeepItem
  BY <1>13, <1>16, GotoTypes, FaultTypes DEF KeepItem, disk, PC
<1>17. CASE SimpleAside
  <2>1. AsideItems[i] \in Items /\ i + 1 \in 1..(Len(TileItems) + 1)
    BY <1>17, LoopItems DEF SimpleAside
  <2>2. old' \in Directory /\ live' \in Directory
    BY <1>0, <1>17, <2>1, DirectoryTypes DEF SimpleAside
  <2> QED
    BY <1>17, <2>1, <2>2, GotoTypes, FaultTypes DEF SimpleAside, PC
<1>18. CASE CopyPbf
  <2>1. live' \in Directory
    BY <1>18, DirectoryTypes DEF CopyPbf, Items
  <2> QED
    BY <1>18, <2>1, GotoTypes, FaultTypes DEF CopyPbf, PC
<1>19. CASE Rebuild
  <2>1. live["admins"] \in Product /\ live["pbf"] \in Product
    BY DirectoryTypes DEF Items
  <2>2. live' \in Directory
    BY <1>19, <2>1, AdminsType, BuiltType DEF Rebuild
  <2> QED
    BY <1>19, <2>2, GotoTypes, FaultTypes DEF Rebuild, PC
<1>20. CASE RebuildFails
  <2>1. live' \in Directory
    BY <1>0, <1>20, DirectoryTypes DEF RebuildFails, Items
  <2>2. faults' \in 0..MaxFaults
    BY <1>20, FaultTypes DEF RebuildFails, FaultKinds
  <2> QED
    BY <1>20, <2>1, <2>2, GotoTypes DEF RebuildFails, PC
<1>21. CASE Up
  BY <1>21, ComposeUpTypes, GotoTypes, FaultTypes DEF Up, PC
<1>22. CASE Healthy
  <2>1. old' \in Directory /\ hasOld' \in BOOLEAN
    BY <1>0, <1>22 DEF Healthy
  <2> QED
    BY <1>22, <2>1, EndTypes, GotoTypes, StepTypes, FaultTypes DEF Healthy
<1>23. CASE Unhealthy
  <2>1. faults' \in 0..MaxFaults
    BY <1>23, FaultTypes DEF Unhealthy, FaultKinds
  <2> QED
    BY <1>23, <2>1, EndTypes, GotoTypes DEF Unhealthy, disk, PC
<1>24. CASE RollbackStop
  BY <1>11, <1>24 DEF RollbackStop, PC
<1>25. CASE MoveFailed
  <2>1. live' \in Directory
    BY <1>0, <1>13, <1>25, DirectoryTypes DEF MoveFailed
  <2> QED
    BY <1>25, <2>1, FaultTypes DEF MoveFailed, local, history
<1>26. CASE Restore
  <2>1. old' \in Directory /\ live' \in Directory
    BY <1>0, <1>13, <1>26, DirectoryTypes DEF Restore
  <2> QED
    BY <1>13, <1>26, <2>1, GotoTypes, FaultTypes DEF Restore, PC
<1>27. CASE NotBackedUp
  BY <1>13, <1>27, GotoTypes, FaultTypes DEF NotBackedUp, disk, PC
<1>28. CASE RollbackUp
  BY <1>28, ComposeUpTypes, GotoTypes, FaultTypes DEF RollbackUp, PC
<1>29. CASE RollbackHealthy
  BY <1>29, EndTypes, FaultTypes DEF RollbackHealthy, disk
<1>30. CASE RollbackUnhealthy
  <2>1. faults' \in 0..MaxFaults
    BY <1>30, FaultTypes DEF RollbackUnhealthy, FaultKinds
  <2> QED
    BY <1>30, <2>1, EndTypes DEF RollbackUnhealthy, disk
<1>31. CASE StackUp
  <2>1. live' \in Directory /\ valhalla' \in Product
    BY <1>31, ComposeUpTypes DEF StackUp
  <2> QED
    BY <1>31, <2>1, GotoTypes, FaultTypes DEF StackUp, PC
<1>32. StateToWrite \in Versions
  BY DEF StateToWrite, Versions
<1>33. CASE WriteState
  BY <1>32, <1>33, EndTypes, FaultTypes DEF WriteState, disk
<1>34. CASE CommandFails
  <2>1. faults' \in 0..MaxFaults
    BY <1>34, FaultTypes DEF CommandFails, FaultKinds
  <2> QED
    BY <1>34, <2>1, EndTypes DEF CommandFails, disk
<1>35. CASE UnhandledFails
  <2>1. faults' \in 0..MaxFaults
    BY <1>35, FaultTypes DEF UnhandledFails, FaultKinds
  <2> QED
    BY <1>35, <2>1, EndTypes DEF UnhandledFails, disk
<1>36. CASE Kill
  <2>1. faults' \in 0..MaxFaults
    BY <1>36, FaultTypes DEF Kill, FaultKinds
  <2>2. live' \in Directory
    BY <1>0, <1>36, DirectoryTypes DEF Kill, Items
  <2>3. Nothing \in Versions /\ [StateToWrite EXCEPT !.nhvr = 0] \in Versions
    BY <1>32, ScopeAssumption DEF Nothing, Versions, Version
  <2>4. state' \in Versions
    BY <1>36, <2>3 DEF Kill
  <2> QED
    BY <1>36, <2>1, <2>2, <2>4, EndTypes DEF Kill
<1>37. CASE UNCHANGED vars
  BY <1>37 DEF vars, disk, local, history
<1> QED
  BY <1>1, <1>2, <1>3, <1>4, <1>5, <1>6, <1>7, <1>8, <1>9, <1>10, <1>12, <1>14,
     <1>15, <1>16, <1>17, <1>18, <1>19, <1>20, <1>21, <1>22, <1>23, <1>24,
     <1>25, <1>26, <1>27, <1>28, <1>29, <1>30, <1>31, <1>33, <1>34, <1>35,
     <1>36, <1>37
     DEF Next, Script, Failure, Promote, InPlace, Rollback

(* Type correctness, for every set of commands, faults and versions. *)
THEOREM TypeCorrect == Spec => []TypeOK
  BY InitTypeOK, NextTypeOK, PTL DEF Spec

-----------------------------------------------------------------------------
(* Facts about versions, products and directories. *)

(* Versions are pairs of numbers. *)
LEMMA Numbers ==
    /\ \A v \in Versions : v.base \in Nat /\ v.nhvr \in Nat
    /\ \A v, w \in Versions : v # w => v.base # w.base \/ v.nhvr # w.nhvr
    /\ \A p \in Product : p.base \in Nat /\ p.nhvr \in Nat
  BY DEF Versions, Version, Product

(* A directory after one of its items is replaced. *)
LEMMA Replace ==
    ASSUME NEW dir \in Directory, NEW item \in Items, NEW p
    PROVE  /\ [dir EXCEPT ![item] = p][item] = p
           /\ \A other \in Items \ {item} :
                [dir EXCEPT ![item] = p][other] = dir[other]
  BY DEF Directory

(* Nothing is promised by what is absent or partial. *)
LEMMA NotWhole ==
    /\ Absent.kind # "whole" /\ Partial.kind # "whole"
    /\ \A item \in Items : Empty[item] = Absent
  BY DEF Absent, Partial, Empty

(* What holds the recorded state's products still does when an item is *)
(* removed or replaced by one that is new enough.                       *)
LEMMA ReplaceNoOlder ==
    ASSUME NEW dir \in Directory, NEW item \in Items, NEW p, NEW v,
           AllNoOlder(dir, v), p.kind = "whole" => NoOlder(p, v)
    PROVE  AllNoOlder([dir EXCEPT ![item] = p], v)
<1> DataItems \subseteq Items
  BY DEF DataItems, Items
<1> QED
  BY Replace DEF AllNoOlder

(* A build is as new as its extract. *)
LEMMA BuildNoOlder ==
    ASSUME NEW pbf \in Product, NEW adm, NEW v
    PROVE  /\ NoOlder(pbf, v) =>
                \A item \in DataItems : NoOlder(Built(pbf, adm)[item], v)
           /\ (pbf.kind = "whole" => NoOlder(pbf, v)) =>
                AllNoOlder(Built(pbf, adm), v)
<1>1. /\ TilesFrom(pbf, adm).kind = pbf.kind
      /\ TilesFrom(pbf, adm).base = pbf.base
      /\ TilesFrom(pbf, adm).nhvr = pbf.nhvr
  BY DEF TilesFrom, Product
<1> QED
  BY <1>1 DEF Built, NoOlder, AllNoOlder, DataItems

(* Opening a directory adds nothing older to it. *)
LEMMA OpenedNoOlder ==
    ASSUME NEW dir \in Directory, NEW v, AllNoOlder(dir, v)
    PROVE  AllNoOlder(Opened(dir), v)
<1>1. dir["pbf"] \in Product /\ dir["tiles"] \in Product
  BY DirectoryTypes DEF Items
<1>2. AllNoOlder(Built(dir["pbf"], dir["admins"]), v)
  BY <1>1, BuildNoOlder DEF AllNoOlder, DataItems
<1>3. AllNoOlder([dir EXCEPT !["tar"] = dir["tiles"]], v)
  BY ReplaceNoOlder DEF AllNoOlder, DataItems, Items
<1> QED
  BY <1>2, <1>3 DEF Opened

(* With its tar in place, opening a directory changes nothing. *)
LEMMA OpenedWhole ==
    ASSUME NEW dir, dir["tar"].kind = "whole"
    PROVE  Opened(dir) = dir
  BY DEF Opened, IsThere

(* What is no older than v is no older than an earlier w. *)
LEMMA NoOlderTrans ==
    ASSUME NEW p \in Product, NEW v \in Versions, NEW w \in Versions,
           w.base <= v.base, w.nhvr <= v.nhvr, NoOlder(p, v)
    PROVE  NoOlder(p, w)
  BY Numbers DEF NoOlder

-----------------------------------------------------------------------------
(* A host before its first setup, or at version 1, satisfies Inv. *)
LEMMA InitInv ==
    ASSUME RoutineUse, Init
    PROVE  Inv
<1>1. TypeOK
  BY InitTypeOK
<1>2. RunIsRoutine /\ VersionsInOrder /\ TableIsFresh
  BY DEF Init, RunIsRoutine, VersionsInOrder, TableIsFresh, FullRun, NoCommand,
         IsUpdate, Nothing
<1>3. ProductIsThere
  BY DEF Init, ProductIsThere, FullRun
<1>4. FilesAreFresh /\ ServerIsFresh
  <2>1. CASE live = Empty /\ state = Nothing /\ db = 0 /\ valhalla = Absent
    BY <2>1, NotWhole DEF Init, FilesAreFresh, ServerIsFresh, AllNoOlder, DataItems,
       Items, Nothing
  <2>2. CASE live = Installed /\ state = inputs /\ valhalla = Installed["tar"]
    BY <2>2 DEF Init, FilesAreFresh, ServerIsFresh, AllNoOlder, NoOlder, DataItems,
       Installed, MergedPbf
  <2> QED
    BY <2>1, <2>2 DEF Init
<1> QED
  BY <1>1, <1>2, <1>3, <1>4 DEF Init, Inv, UpToDateIsTrue

-----------------------------------------------------------------------------
(* The steps of a routine run, and what they leave alone. *)

(* Under RoutineUse no other action is enabled. *)
RoutineStep ==
    \/ \E v \in Versions : ReplaceInputs(v)
    \/ \E c \in Commands : StartDbOnly(c) \/ StartUpToDate(c) \/ StartFull(c)
    \/ UpToDate \/ Import \/ LoadDb \/ BuildTiles \/ SkipBuild \/ ClearOld \/ Stop
    \/ Promote \/ InPlace \/ Up \/ Healthy \/ Rollback \/ WriteState
    \/ Failure

LEMMA RoutineSteps ==
    ASSUME RoutineUse, RunIsRoutine, [Next]_vars
    PROVE  RoutineStep \/ UNCHANGED vars
<1>1. ASSUME NEW c \in Commands, Start(c)
      PROVE  StartDbOnly(c) \/ StartUpToDate(c) \/ StartFull(c)
  BY <1>1 DEF RoutineUse, Start, StartRollback, StartTilesOnly, StartSetup
<1>2. ~ReusePbf /\ ~ReuseRefused /\ ~StackUp
  BY DEF RunIsRoutine, ReusePbf, ReuseRefused, StackUp
<1> QED
  BY <1>1, <1>2 DEF Next, Script, RoutineStep

(* compose stop stops, and nothing else happens. *)
LEMMA StopStops ==
    ASSUME NEW here, NEW next, StopValhalla(here, next)
    PROVE  /\ pc = here /\ pc' = next /\ i' = 1
           /\ valhalla' = Absent
           /\ UNCHANGED <<inputs, state, live, build, old, hasOld, db, cmd, cur>>
  BY DEF StopValhalla, Goto, disk

(* A full run has work to do: the recorded state is not the inputs. *)
LEMMA WorkToDo ==
    ASSUME TypeOK, VersionsInOrder, FullRun
    PROVE  state # inputs
  BY Numbers DEF TypeOK, VersionsInOrder, FullRun

(* A kill in the middle of write_state records no more than the whole write. *)
LEMMA TornState ==
    ASSUME TypeOK, RunIsRoutine, Kill, state' # state
    PROVE  /\ pc = "record" /\ state' \in Versions
           /\ state'.base <= cur.base /\ state'.nhvr = 0
<1>1. cur.base \in Nat
  BY Numbers DEF TypeOK
<1> QED
  BY <1>1, ScopeAssumption DEF Kill, StateToWrite, Nothing, RunIsRoutine, TypeOK,
     Versions, Version

-----------------------------------------------------------------------------
(* Preservation, one lemma per part of Inv. *)

LEMMA ControlStep ==
    ASSUME RoutineUse, Inv, [Next]_vars
    PROVE  RunIsRoutine' /\ VersionsInOrder'
<1> USE DEF RunIsRoutine, VersionsInOrder, FullRun, IsUpdate, Has, Simple
<1> RunIsRoutine /\ VersionsInOrder /\ TypeOK
  BY DEF Inv
<1>0. /\ inputs.base \in Nat /\ inputs.nhvr \in Nat
      /\ state.base \in Nat /\ state.nhvr \in Nat
      /\ cur.base \in Nat /\ cur.nhvr \in Nat
  BY Numbers DEF TypeOK
<1>1. ASSUME NEW v \in Versions, ReplaceInputs(v) PROVE RunIsRoutine' /\ VersionsInOrder'
  BY <1>0, <1>1, Numbers DEF RoutineUse, ReplaceInputs, local
<1>2. ASSUME NEW c \in Commands, StartDbOnly(c) \/ StartUpToDate(c) \/ StartFull(c)
      PROVE  RunIsRoutine' /\ VersionsInOrder'
  <2>1. state # inputs => state.base # inputs.base \/ state.nhvr # inputs.nhvr
    BY Numbers DEF TypeOK
  <2> QED
    BY <1>0, <1>2, <2>1, Numbers DEF RoutineUse, StartDbOnly, StartUpToDate, StartFull,
       Begin, IsFullUpdate, NothingChanged, PbfChangedFor, GpkgChangedFor, TypeOK
<1>3. ASSUME NEW status, End(status), UNCHANGED <<inputs, state>>
      PROVE  RunIsRoutine' /\ VersionsInOrder'
  BY <1>3 DEF End, NoCommand
<1>5. CASE Import
  BY <1>5 DEF Import, AfterImport, Goto
<1>6. CASE LoadDb
  <2>1. CASE End("ok")
    BY <1>3, <1>6, <2>1 DEF LoadDb
  <2>2. CASE ~End("ok")
    BY <1>6, <2>2 DEF LoadDb, AfterLoad, Goto, RoutineUse
  <2> QED
    BY <2>1, <2>2
<1>7. CASE BuildTiles \/ SkipBuild \/ ClearOld \/ Promote \/ InPlace \/ RebuildFails \/ Up
           \/ MoveFailed \/ Restore \/ NotBackedUp \/ RollbackUp
  BY <1>7 DEF BuildTiles, SkipBuild, ClearOld, Promote, MoveAside, MoveIn, KeepItem,
     InPlace, SimpleAside, CopyPbf, Rebuild, RebuildFails, Up, MoveFailed, Restore,
     NotBackedUp, RollbackUp, Goto, local
<1>8. CASE Stop \/ RollbackStop
  <2>1. PICK here \in {"stop", "rbStop"}, next \in {"aside", "swap", "rbSwap"} :
          StopValhalla(here, next)
    BY <1>8 DEF Stop, RollbackStop
  <2> QED
    BY <2>1, StopStops
<1>9. CASE Healthy \/ Unhealthy
  <2>1. CASE End("ok") \/ End("failed")
    BY <1>3, <1>9, <2>1 DEF Healthy, Unhealthy
  <2>2. CASE ~End("ok") /\ ~End("failed")
    BY <1>9, <2>2 DEF Healthy, Unhealthy, AfterHealthy, Goto
  <2> QED
    BY <2>1, <2>2
<1>10. CASE UpToDate \/ RollbackHealthy \/ RollbackUnhealthy \/ CommandFails \/ UnhandledFails
  BY <1>3, <1>10 DEF UpToDate, RollbackHealthy, RollbackUnhealthy, CommandFails,
     UnhandledFails
<1>11. CASE WriteState
  BY <1>0, <1>11 DEF WriteState, StateToWrite, End, NoCommand
<1>12. CASE Kill
  <2>1. /\ state'.base <= inputs.base /\ state'.nhvr <= inputs.nhvr
    BY <1>0, <1>12 DEF Kill, StateToWrite, Nothing, TypeOK, Versions
  <2> QED
    BY <1>12, <2>1 DEF Kill, End, NoCommand
<1>13. CASE UNCHANGED vars
  BY <1>13 DEF vars, local
<1> QED
  BY <1>1, <1>2, <1>5, <1>6, <1>7, <1>8, <1>9, <1>10, <1>11, <1>12, <1>13, RoutineSteps
     DEF RoutineStep, Rollback, Failure

LEMMA TableStep ==
    ASSUME RoutineUse, Inv, [Next]_vars
    PROVE  TableIsFresh'
<1> USE DEF TableIsFresh, FullRun, Has
<1> RunIsRoutine /\ VersionsInOrder /\ TableIsFresh /\ TypeOK
  BY DEF Inv
<1>0. /\ inputs.nhvr \in Nat /\ state.nhvr \in Nat /\ cur.nhvr \in Nat /\ db \in Nat
  BY Numbers DEF TypeOK, Version
<1>1. ASSUME NEW v \in Versions, ReplaceInputs(v) PROVE TableIsFresh'
  BY <1>0, <1>1, Numbers DEF RoutineUse, ReplaceInputs, local
<1>2. ASSUME NEW c \in Commands, StartDbOnly(c) \/ StartUpToDate(c) \/ StartFull(c)
      PROVE  TableIsFresh'
  BY <1>2 DEF RoutineUse, StartDbOnly, StartUpToDate, StartFull, Begin
<1>3. CASE LoadDb
  BY <1>0, <1>3 DEF LoadDb, End, Goto, VersionsInOrder
<1>4. CASE WriteState
  BY <1>0, <1>4 DEF WriteState, StateToWrite, End, RunIsRoutine
<1>5. CASE Kill
  BY <1>0, <1>5 DEF Kill, StateToWrite, End, Nothing, TypeOK, Versions, RunIsRoutine
<1>7. ASSUME NEW status, End(status), UNCHANGED <<inputs, state, db>>
      PROVE  TableIsFresh'
  BY <1>7 DEF End
<1>8. CASE Import \/ BuildTiles \/ SkipBuild \/ ClearOld \/ Promote \/ InPlace
           \/ RebuildFails \/ Up \/ MoveFailed \/ Restore \/ NotBackedUp \/ RollbackUp
  BY <1>8 DEF Import, AfterImport, BuildTiles, SkipBuild, ClearOld, Promote, MoveAside,
     MoveIn, KeepItem, InPlace, SimpleAside, CopyPbf, Rebuild, RebuildFails, Up,
     MoveFailed, Restore, NotBackedUp, RollbackUp, Goto, local, RunIsRoutine
<1>9. CASE Stop \/ RollbackStop
  <2>1. PICK here \in {"stop", "rbStop"}, next \in {"aside", "swap", "rbSwap"} :
          StopValhalla(here, next)
    BY <1>9 DEF Stop, RollbackStop
  <2> QED
    BY <2>1, StopStops
<1>10. CASE Healthy \/ Unhealthy
  <2>1. CASE End("ok") \/ End("failed")
    BY <1>7, <1>10, <2>1 DEF Healthy, Unhealthy
  <2>2. CASE ~End("ok") /\ ~End("failed")
    BY <1>10, <2>2 DEF Healthy, Unhealthy, AfterHealthy, Goto, RunIsRoutine
  <2> QED
    BY <2>1, <2>2
<1>11. CASE UpToDate \/ RollbackHealthy \/ RollbackUnhealthy \/ CommandFails \/ UnhandledFails
  BY <1>7, <1>11 DEF UpToDate, RollbackHealthy, RollbackUnhealthy, CommandFails,
     UnhandledFails
<1>12. CASE UNCHANGED vars
  BY <1>12 DEF vars, local
<1> QED
  BY <1>1, <1>2, <1>3, <1>4, <1>5, <1>8, <1>9, <1>10, <1>11, <1>12, RoutineSteps
     DEF RoutineStep, Rollback, Failure

(* The steps at which .old counts. *)
BackupSteps == {"stop", "swap", "aside", "rebuild", "up", "health",
                "rbStop", "rbSwap", "rbHealth"}

LEMMA FilesStep ==
    ASSUME RoutineUse, ValhallaLocal, Inv, [Next]_vars
    PROVE  FilesAreFresh'
<1> USE DEF FilesAreFresh
<1> RunIsRoutine /\ VersionsInOrder /\ FilesAreFresh /\ ProductIsThere /\ TypeOK
  BY DEF Inv
<1>0. /\ inputs.base \in Nat /\ inputs.nhvr \in Nat
      /\ state.base \in Nat /\ state.nhvr \in Nat
      /\ cur.base \in Nat /\ cur.nhvr \in Nat
  BY Numbers DEF TypeOK
<1> DataItems \subseteq Items
  BY DEF DataItems, Items
(* the shape of most steps *)
<1>1. ASSUME UNCHANGED <<inputs, state>>, AllNoOlder(live', state),
             pc' \in BackupSteps => AllNoOlder(old', state)
      PROVE  FilesAreFresh'
  BY <1>1 DEF AllNoOlder, NoOlder, BackupSteps
<1>2. ASSUME UNCHANGED <<inputs, state>>, AllNoOlder(live', state), UNCHANGED old,
             pc' \in BackupSteps => pc \in BackupSteps
      PROVE  FilesAreFresh'
  BY <1>1, <1>2 DEF BackupSteps
<1>3. ASSUME NEW v \in Versions, ReplaceInputs(v) PROVE FilesAreFresh'
  <2>1. \A p \in Product : NoOlder(p, state) => NoOlder(p, state)'
    BY <1>0, <1>3, Numbers DEF RoutineUse, ReplaceInputs, NoOlder
  <2>2. \A item \in Items : live[item] \in Product /\ old[item] \in Product
    BY DirectoryTypes DEF TypeOK
  <2> QED
    BY <1>3, <2>1, <2>2 DEF ReplaceInputs, AllNoOlder, NoOlder, disk, local
<1>4. ASSUME NEW c \in Commands, StartDbOnly(c) \/ StartUpToDate(c) \/ StartFull(c)
      PROVE  FilesAreFresh'
  BY <1>2, <1>4 DEF RoutineUse, StartDbOnly, StartUpToDate, StartFull, Begin, disk,
     BackupSteps
<1>5. CASE Import \/ LoadDb \/ BuildTiles \/ SkipBuild
  BY <1>2, <1>5 DEF Import, AfterImport, LoadDb, AfterLoad, BuildTiles, SkipBuild, Goto,
     End, disk, BackupSteps, RunIsRoutine
<1>6. CASE ClearOld
  <2>1. AllNoOlder(old', state)
    BY <1>6, NotWhole DEF ClearOld, AllNoOlder
  <2> QED
    BY <1>1, <1>6, <2>1 DEF ClearOld
<1>7. CASE Stop \/ RollbackStop
  <2>1. PICK here \in {"stop", "rbStop"}, next \in {"aside", "swap", "rbSwap"} :
          StopValhalla(here, next)
    BY <1>7 DEF Stop, RollbackStop
  <2> QED
    BY <1>2, <2>1, StopStops DEF BackupSteps
<1>8. MoreItems => Item \in Items
  BY LoopItems DEF MoreItems, Item, TypeOK
<1>9. CASE MoveAside
  <2>1. AllNoOlder(live', state) /\ AllNoOlder(old', state)
    BY <1>8, <1>9, ReplaceNoOlder, NotWhole DEF MoveAside, AllNoOlder, TypeOK
  <2> QED
    BY <1>1, <1>9, <2>1 DEF MoveAside, local
<1>10. CASE MoveIn
  <2>1. AllNoOlder(live', state)
    <3>1. Item \in DataItems => NoOlder(build[Item], cur)
      BY <1>10, LoopItems DEF MoveIn, ProductIsThere, Ready, DataItems, Item, MoreItems, TypeOK
    <3>2. Item \in DataItems => NoOlder(build[Item], state)
      BY <1>8, <1>10, <3>1, NoOlderTrans, DirectoryTypes DEF MoveIn, VersionsInOrder, TypeOK
    <3> QED
      BY <1>8, <1>10, <3>2, Replace DEF MoveIn, AllNoOlder, TypeOK
  <2> QED
    BY <1>2, <1>10, <2>1 DEF MoveIn, Goto, BackupSteps
<1>11. CASE KeepItem \/ NotBackedUp
  BY <1>2, <1>11 DEF KeepItem, NotBackedUp, Goto, disk, BackupSteps
<1>12. CASE SimpleAside
  <2>1. AsideItems[i] \in Items
    BY <1>12, LoopItems DEF SimpleAside, TypeOK
  <2>2. AllNoOlder([live EXCEPT ![AsideItems[i]] = Absent], state)
    BY <2>1, ReplaceNoOlder, NotWhole DEF TypeOK
  <2>3. AllNoOlder([old EXCEPT ![AsideItems[i]] = live[AsideItems[i]]], state)
    BY <1>12, <2>1, ReplaceNoOlder DEF SimpleAside, AllNoOlder, TypeOK
  <2> QED
    BY <1>1, <1>12, <2>2, <2>3 DEF SimpleAside
<1>14. CASE CopyPbf
  <2>1. NoOlder(build["pbf"], state)
    BY <1>14, NoOlderTrans, DirectoryTypes DEF CopyPbf, ProductIsThere, Ready,
       VersionsInOrder, TypeOK, Items
  <2>2. AllNoOlder(live', state)
    BY <1>14, <2>1, ReplaceNoOlder DEF CopyPbf, TypeOK, Items
  <2> QED
    BY <1>2, <1>14, <2>2 DEF CopyPbf, Goto, BackupSteps
<1>15. CASE Rebuild
  <2>1. AllNoOlder(live', state)
    BY <1>15, BuildNoOlder, DirectoryTypes DEF Rebuild, AllNoOlder, DataItems, TypeOK, Items
  <2> QED
    BY <1>2, <1>15, <2>1 DEF Rebuild, Goto, BackupSteps
<1>16. CASE RebuildFails
  <2>1. AllNoOlder(live', state)
    BY <1>16, ReplaceNoOlder, NotWhole DEF RebuildFails, TypeOK, Items
  <2> QED
    BY <1>2, <1>16, <2>1 DEF RebuildFails, Goto, BackupSteps
<1>17. CASE Up \/ RollbackUp
  <2>1. AllNoOlder(live', state)
    BY <1>17, OpenedNoOlder DEF Up, RollbackUp, ComposeUp, TypeOK
  <2> QED
    BY <1>2, <1>17, <2>1 DEF Up, RollbackUp, Goto, BackupSteps
<1>18. CASE Healthy
  <2>1. pc' \notin BackupSteps
    BY <1>18 DEF Healthy, AfterHealthy, Goto, End, BackupSteps, RunIsRoutine
  <2> QED
    BY <1>1, <1>18, <2>1 DEF Healthy
<1>19. CASE Unhealthy
  BY <1>2, <1>19 DEF Unhealthy, Goto, End, disk, BackupSteps
<1>20. CASE MoveFailed
  <2>1. AllNoOlder(live', state)
    BY <1>8, <1>20, ReplaceNoOlder, NotWhole DEF MoveFailed, TypeOK
  <2> QED
    BY <1>2, <1>20, <2>1 DEF MoveFailed, local
<1>21. CASE Restore
  <2>1. AllNoOlder(live', state) /\ AllNoOlder(old', state)
    BY <1>8, <1>21, ReplaceNoOlder, NotWhole DEF Restore, AllNoOlder, TypeOK
  <2> QED
    BY <1>1, <1>21, <2>1 DEF Restore
<1>22. CASE UpToDate \/ RollbackHealthy \/ RollbackUnhealthy \/ CommandFails \/ UnhandledFails
  BY <1>2, <1>22 DEF UpToDate, RollbackHealthy, RollbackUnhealthy, CommandFails,
     UnhandledFails, End, disk, BackupSteps
(* the state advances only to what custom_files already holds *)
<1>23. ASSUME pc = "record", NEW w \in Versions, w.base <= cur.base, w.nhvr <= cur.nhvr
       PROVE  \A item \in DataItems : NoOlder(live[item], w)
  <2>1. \A item \in DataItems : live[item] \in Product /\ NoOlder(live[item], cur)
    BY <1>23, DirectoryTypes DEF ProductIsThere, Ready, TypeOK
  <2> QED
    BY <1>23, <2>1, NoOlderTrans DEF TypeOK
<1>24. CASE WriteState
  <2>1. \A item \in DataItems : NoOlder(live[item], cur)
    BY <1>0, <1>23, <1>24 DEF WriteState, TypeOK
  <2> QED
    BY <1>24, <2>1 DEF WriteState, StateToWrite, End, disk, AllNoOlder, NoOlder, RunIsRoutine
<1>25. CASE Kill
  <2>1. AllNoOlder(live', state)
    BY <1>25, ReplaceNoOlder, NotWhole DEF Kill, TypeOK, Items
  <2>2. CASE state' = state
    BY <1>2, <1>25, <2>1, <2>2 DEF Kill, End, BackupSteps
  <2>3. CASE state' # state
    <3>1. state' \in Versions /\ state'.base <= cur.base /\ state'.nhvr <= cur.nhvr
      BY <1>0, <1>25, <2>3, TornState
    <3>2. \A item \in DataItems : NoOlder(live[item], state')
      BY <1>23, <1>25, <2>3, <3>1 DEF Kill
    <3> QED
      BY <1>25, <2>3, <3>2 DEF Kill, End, AllNoOlder, NoOlder
  <2> QED
    BY <2>2, <2>3
<1>26. CASE UNCHANGED vars
  BY <1>2, <1>26 DEF vars, local, disk
<1> QED
  BY <1>3, <1>4, <1>5, <1>6, <1>7, <1>9, <1>10, <1>11, <1>12, <1>14, <1>15, <1>16,
     <1>17, <1>18, <1>19, <1>20, <1>21, <1>22, <1>24, <1>25, <1>26, RoutineSteps
     DEF RoutineStep, Promote, InPlace, Rollback, Failure

LEMMA ProductStep ==
    ASSUME RoutineUse, ValhallaLocal, Inv, [Next]_vars
    PROVE  ProductIsThere'
<1> USE DEF ProductIsThere, Ready, FullRun, Simple, IsUpdate, Has
<1> RunIsRoutine /\ VersionsInOrder /\ ProductIsThere /\ TypeOK
  BY DEF Inv
<1>0. /\ inputs.base \in Nat /\ inputs.nhvr \in Nat
      /\ cur.base \in Nat /\ cur.nhvr \in Nat
  BY Numbers DEF TypeOK
<1>1. ASSUME NEW v \in Versions, ReplaceInputs(v) PROVE ProductIsThere'
  <2>1. \A p \in Product : NoOlder(p, cur) => NoOlder(p, cur)'
    BY <1>0, <1>1, Numbers DEF RoutineUse, ReplaceInputs, NoOlder, local
  <2>2. \A item \in DataItems : live[item] \in Product /\ build[item] \in Product
    BY DirectoryTypes DEF DataItems, Items, TypeOK
  <2>3. UNCHANGED <<live, build, cmd, cur, pc, i>>
    BY <1>1 DEF ReplaceInputs, disk, local
  <2>4. \A item \in DataItems : /\ NoOlder(live[item], cur) => NoOlder(live[item], cur)'
                                /\ NoOlder(build[item], cur) => NoOlder(build[item], cur)'
    BY <2>1, <2>2, <2>3 DEF NoOlder
  <2> QED
    BY <2>3, <2>4 DEF DataItems
<1>2. ASSUME NEW c \in Commands, StartDbOnly(c) \/ StartUpToDate(c) \/ StartFull(c)
      PROVE  ProductIsThere'
  BY <1>2 DEF RoutineUse, StartDbOnly, StartUpToDate, StartFull, Begin
(* the run ends, or is at a step that promises nothing *)
<1>3. ASSUME pc' \in {"idle", "uptodate", "import", "rbStop", "rbSwap", "rbHealth"}
      PROVE  ProductIsThere'
  BY <1>3
<1>4. CASE Import
  <2>1. NoOlder(MergedPbf(inputs), cur)
    BY <1>0, <1>4 DEF Import, NoOlder, MergedPbf, VersionsInOrder
  <2>2. build'["pbf"] = MergedPbf(inputs)
    BY <1>4, Replace, ProductTypes DEF Import, Items
  <2> QED
    BY <1>4, <2>1, <2>2 DEF Import, AfterImport, Goto, NoOlder, RunIsRoutine
<1>5. CASE LoadDb
  <2>1. CASE End("ok")
    BY <1>3, <2>1 DEF End
  <2>2. CASE ~End("ok")
    BY <1>5, <2>2 DEF LoadDb, AfterLoad, Goto, RoutineUse, NoOlder, disk, RunIsRoutine
  <2> QED
    BY <2>1, <2>2
<1>6. CASE BuildTiles
  <2>1. build["pbf"] \in Product /\ NoOlder(build["pbf"], cur)
    BY <1>6, DirectoryTypes DEF BuildTiles, TypeOK, Items
  <2>2. \A item \in DataItems : NoOlder(build'[item], cur)
    BY <1>6, <2>1, BuildNoOlder DEF BuildTiles
  <2> QED
    BY <1>6, <2>2 DEF BuildTiles, Goto, NoOlder, RunIsRoutine
<1>7. CASE SkipBuild
  <2>1. build'["pbf"] = build["pbf"]
    BY <1>7, Replace DEF SkipBuild, TypeOK, Items
  <2> QED
    BY <1>7, <2>1 DEF SkipBuild, Goto, NoOlder, RunIsRoutine
<1>8. CASE ClearOld
  BY <1>8 DEF ClearOld, Goto, NoOlder
<1>9. CASE Stop
  BY <1>9, StopStops DEF Stop, NoOlder, DataItems
<1>10. /\ Len(TileItems) = 4
       /\ MoreItems => /\ Item \in Items
                       /\ i = 1 => Item = "tiles"
                       /\ i = 2 => Item = "tar"
                       /\ i = 3 => Item = "admins"
                       /\ i = 4 => Item = "pbf"
                       /\ i \in 1..4
  BY LoopItems DEF MoreItems, Item, TypeOK
<1>11. CASE MoveAside
  <2>1. \A item \in Items \ {Item} : live'[item] = live[item]
    BY <1>10, <1>11, Replace DEF MoveAside, TypeOK
  <2> QED
    BY <1>10, <1>11, <2>1 DEF MoveAside, NoOlder, local, Items
<1>12. CASE MoveIn
  <2>1. \A item \in Items \ {Item} : live'[item] = live[item] /\ build'[item] = build[item]
    BY <1>10, <1>12, Replace DEF MoveIn, TypeOK
  <2>2. live'[Item] = build[Item]
    BY <1>10, <1>12 DEF MoveIn, TypeOK, Directory
  <2> QED
    BY <1>10, <1>12, <2>1, <2>2 DEF MoveIn, Goto, NoOlder, Items
<1>13. CASE KeepItem
  <2>1. Item = "admins"
    BY <1>10, <1>13 DEF KeepItem, NoOlder, IsThere
  <2> QED
    BY <1>10, <1>13, <2>1 DEF KeepItem, Goto, NoOlder, disk
<1>14. CASE SimpleAside
  BY <1>14 DEF SimpleAside, Goto, NoOlder
<1>15. CASE CopyPbf
  <2>1. live'["pbf"] = build["pbf"]
    BY <1>15 DEF CopyPbf, TypeOK, Directory, Items
  <2> QED
    BY <1>15, <2>1 DEF CopyPbf, Goto, NoOlder
<1>16. CASE Rebuild
  <2>1. live["pbf"] \in Product /\ NoOlder(live["pbf"], cur)
    BY <1>16, DirectoryTypes DEF Rebuild, TypeOK, Items
  <2>2. \A item \in DataItems : NoOlder(live'[item], cur)
    BY <1>16, <2>1, BuildNoOlder DEF Rebuild
  <2> QED
    BY <1>16, <2>2 DEF Rebuild, Goto, NoOlder
<1>17. CASE Up
  <2>1. \A item \in DataItems : NoOlder(live[item], cur)
    BY <1>10, <1>17 DEF Up, MoreItems, DataItems, TypeOK
  <2>2. live' = live
    BY <1>17, <2>1, OpenedWhole DEF Up, ComposeUp, NoOlder, DataItems
  <2> QED
    BY <1>17, <2>1, <2>2 DEF Up, Goto, NoOlder
<1>18. CASE Healthy
  BY <1>3, <1>18 DEF Healthy, AfterHealthy, Goto, NoOlder, RunIsRoutine, End
<1>19. CASE \/ UpToDate \/ Rollback \/ WriteState \/ Unhealthy \/ RebuildFails
            \/ RollbackUnhealthy \/ CommandFails \/ UnhandledFails \/ Kill
  BY <1>3, <1>19, StopStops DEF UpToDate, Rollback, RollbackStop, MoveFailed, Restore,
     NotBackedUp, RollbackUp, RollbackHealthy, WriteState, Unhealthy, RebuildFails,
     RollbackUnhealthy, CommandFails, UnhandledFails, Kill, End, Goto, local
<1>20. CASE UNCHANGED vars
  BY <1>20 DEF vars, local, disk, NoOlder
<1> QED
  BY <1>1, <1>2, <1>4, <1>5, <1>6, <1>7, <1>8, <1>9, <1>11, <1>12, <1>13, <1>14,
     <1>15, <1>16, <1>17, <1>18, <1>19, <1>20, RoutineSteps
     DEF RoutineStep, Promote, InPlace, Failure

LEMMA ServerStep ==
    ASSUME RoutineUse, ValhallaLocal, Inv, [Next]_vars
    PROVE  ServerIsFresh'
<1> USE DEF ServerIsFresh
<1> /\ RunIsRoutine /\ VersionsInOrder /\ TableIsFresh /\ FilesAreFresh
    /\ ProductIsThere /\ ServerIsFresh /\ TypeOK
  BY DEF Inv
<1>0. /\ inputs.base \in Nat /\ inputs.nhvr \in Nat
      /\ state.base \in Nat /\ state.nhvr \in Nat
      /\ cur.base \in Nat /\ cur.nhvr \in Nat
  BY Numbers DEF TypeOK
(* most steps leave the server as it is *)
<1>1. ASSUME UNCHANGED <<inputs, state, cur, valhalla>>, pc' # "uptodate",
             pc' \in {"swap", "aside", "rebuild", "up", "rbSwap"} =>
                 pc \in {"swap", "aside", "rebuild", "up", "rbSwap"},
             pc' \in {"health", "record"} => pc \in {"health", "record"}
      PROVE  ServerIsFresh'
  BY <1>1 DEF NoOlder
<1>2. ASSUME NEW status, End(status), UNCHANGED <<inputs, state, valhalla>>
      PROVE  ServerIsFresh'
  BY <1>2 DEF NoOlder, End
<1>3. ASSUME NEW v \in Versions, ReplaceInputs(v) PROVE ServerIsFresh'
  <2>1. state # v
    BY <1>0, <1>3, Numbers DEF RoutineUse, ReplaceInputs, VersionsInOrder, TypeOK
  <2>2. /\ NoOlder(valhalla, state) => NoOlder(valhalla, state)'
        /\ NoOlder(valhalla, cur) => NoOlder(valhalla, cur)'
    BY <1>0, <1>3, Numbers DEF RoutineUse, ReplaceInputs, NoOlder, local, TypeOK
  <2> QED
    BY <1>3, <2>1, <2>2 DEF ReplaceInputs, FreshFor, local
<1>4. ASSUME NEW c \in Commands, StartDbOnly(c) \/ StartUpToDate(c) \/ StartFull(c)
      PROVE  ServerIsFresh'
  BY <1>4 DEF RoutineUse, StartDbOnly, StartUpToDate, StartFull, Begin, NoOlder
(* the server stops only in a run that has work to do *)
<1>6. CASE Stop \/ RollbackStop
  <2>1. PICK here \in {"stop", "rbStop"}, next \in {"aside", "swap", "rbSwap"} :
          StopValhalla(here, next)
    BY <1>6 DEF Stop, RollbackStop
  <2>2. state # inputs
    BY <2>1, StopStops, WorkToDo DEF FullRun
  <2> QED
    BY <2>1, <2>2, StopStops, NotWhole
<1>7. CASE Up
  <2>1. valhalla = Absent /\ \A item \in DataItems : NoOlder(live[item], cur)
    BY <1>7, LoopItems DEF Up, ProductIsThere, Ready, MoreItems, DataItems, TypeOK
  <2>2. valhalla' = live["tar"]
    BY <1>7, <2>1, OpenedWhole DEF Up, ComposeUp, NoOlder, DataItems
  <2>3. NoOlder(live["tar"], cur)
    BY <2>1 DEF DataItems
  <2>4. NoOlder(live["tar"], state)
    BY <1>7, <2>3, NoOlderTrans, DirectoryTypes DEF Up, VersionsInOrder, TypeOK, Items
  <2> QED
    BY <1>7, <2>2, <2>3, <2>4 DEF Up, Goto, NoOlder
<1>8. CASE RollbackUp
  <2>1. valhalla = Absent
    BY <1>8 DEF RollbackUp
  <2>2. valhalla' = Opened(live)["tar"] /\ AllNoOlder(Opened(live), state)
    BY <1>8, <2>1, OpenedNoOlder DEF RollbackUp, ComposeUp, FilesAreFresh, TypeOK
  <2>3. valhalla'.kind = "whole" => NoOlder(valhalla', state)
    BY <2>2 DEF AllNoOlder, DataItems
  <2>4. state # inputs
    BY <1>8, WorkToDo DEF RollbackUp, FullRun
  <2> QED
    BY <1>8, <2>3, <2>4 DEF RollbackUp, Goto, NoOlder
<1>9. CASE WriteState
  BY <1>9 DEF WriteState, StateToWrite, End, NoOlder, RunIsRoutine
<1>10. CASE Kill
  <2>1. CASE state' = state
    BY <1>2, <1>10, <2>1 DEF Kill
  <2>2. CASE state' # state
    <3>1. pc = "record" /\ state' \in Versions
          /\ state'.base <= cur.base /\ state'.nhvr = 0
      BY <1>10, <2>2, TornState
    <3>2. NoOlder(valhalla, state')
      BY <1>0, <3>1, NoOlderTrans DEF TypeOK
    <3>3. state' # inputs
      BY <1>0, <3>1 DEF VersionsInOrder
    <3> QED
      BY <1>10, <3>2, <3>3 DEF Kill, End, NoOlder
  <2> QED
    BY <2>1, <2>2
<1>11. CASE UpToDate \/ RollbackHealthy \/ RollbackUnhealthy \/ CommandFails \/ UnhandledFails
  BY <1>2, <1>11 DEF UpToDate, RollbackHealthy, RollbackUnhealthy, CommandFails,
     UnhandledFails
<1>12. CASE Healthy \/ Unhealthy \/ LoadDb
  <2>1. CASE End("ok") \/ End("failed")
    BY <1>2, <1>12, <2>1 DEF Healthy, Unhealthy, LoadDb
  <2>2. CASE ~End("ok") /\ ~End("failed")
    BY <1>1, <1>12, <2>2 DEF Healthy, AfterHealthy, Unhealthy, LoadDb, AfterLoad, Goto,
       RoutineUse, disk, RunIsRoutine
  <2> QED
    BY <2>1, <2>2
<1>13. CASE \/ Import \/ BuildTiles \/ SkipBuild \/ ClearOld \/ Promote \/ InPlace
            \/ RebuildFails \/ MoveFailed \/ Restore \/ NotBackedUp
  BY <1>1, <1>13 DEF Import, AfterImport, BuildTiles, SkipBuild, ClearOld, Promote,
     MoveAside, MoveIn, KeepItem, InPlace, SimpleAside, CopyPbf, Rebuild, RebuildFails,
     MoveFailed, Restore, NotBackedUp, Goto, local, disk, RunIsRoutine
<1>14. CASE UNCHANGED vars
  BY <1>14 DEF vars, local, NoOlder, FreshFor
<1> QED
  BY <1>3, <1>4, <1>6, <1>7, <1>8, <1>9, <1>10, <1>11, <1>12, <1>13, <1>14,
     RoutineSteps DEF RoutineStep, Rollback, Failure

(* Only StartUpToDate leads to "up to date", and there all is current. *)
LEMMA UpToDateStep ==
    ASSUME RoutineUse, Inv, [Next]_vars
    PROVE  UpToDateIsTrue'
<1> USE DEF UpToDateIsTrue
<1> /\ RunIsRoutine /\ VersionsInOrder /\ TableIsFresh /\ ServerIsFresh /\ TypeOK
    /\ UpToDateIsTrue
  BY DEF Inv
<1>0. /\ inputs.base \in Nat /\ inputs.nhvr \in Nat
      /\ state.base \in Nat /\ state.nhvr \in Nat /\ db \in Nat
  BY Numbers DEF TypeOK, Version
<1>1. ASSUME UNCHANGED <<db, valhalla, cur, pc>>
      PROVE  UpToDateIsTrue'
  BY <1>1 DEF FreshFor
<1>2. ASSUME NEW c \in Commands, StartUpToDate(c) PROVE UpToDateIsTrue'
  <2>1. state = inputs
    BY <1>2, Numbers DEF RoutineUse, StartUpToDate, NothingChanged, PbfChangedFor,
       GpkgChangedFor, IsFullUpdate, TypeOK
  <2>2. ValhallaLocal => /\ valhalla.kind = "whole"
                         /\ valhalla.base = inputs.base /\ valhalla.nhvr = inputs.nhvr
    BY <1>0, <2>1, Numbers DEF ServerIsFresh, NoOlder, TypeOK
  <2>3. db = inputs.nhvr
    BY <1>0, <2>1 DEF TableIsFresh
  <2> QED
    BY <1>2, <2>2, <2>3 DEF StartUpToDate, Begin, FreshFor, BuiltFrom
<1>3. ASSUME pc' # "uptodate" PROVE UpToDateIsTrue'
  BY <1>3
<1>4. ASSUME NEW v \in Versions, ReplaceInputs(v) PROVE UpToDateIsTrue'
  BY <1>1, <1>4 DEF ReplaceInputs, local
<1>5. ASSUME NEW c \in Commands, StartDbOnly(c) \/ StartFull(c) PROVE UpToDateIsTrue'
  BY <1>3, <1>5 DEF StartDbOnly, StartFull, Begin
<1>6. CASE Stop \/ RollbackStop
  BY <1>3, <1>6, StopStops DEF Stop, RollbackStop
<1>7. CASE \/ UpToDate \/ Import \/ LoadDb \/ BuildTiles \/ SkipBuild \/ ClearOld
           \/ Promote \/ InPlace \/ Up \/ Healthy \/ WriteState \/ Failure
           \/ MoveFailed \/ Restore \/ NotBackedUp \/ RollbackUp \/ RollbackHealthy
  BY <1>3, <1>7 DEF UpToDate, Import, AfterImport, AfterLoad, LoadDb, BuildTiles,
     SkipBuild, ClearOld, Promote, MoveAside, MoveIn, KeepItem, InPlace, SimpleAside,
     CopyPbf, Rebuild, Up, Healthy, AfterHealthy, WriteState, Failure, RebuildFails,
     Unhealthy, RollbackUnhealthy, CommandFails, UnhandledFails, Kill, MoveFailed,
     Restore, NotBackedUp, RollbackUp, RollbackHealthy, End, Goto, local
<1>8. CASE UNCHANGED vars
  BY <1>1, <1>8 DEF vars, local
<1> QED
  BY <1>2, <1>4, <1>5, <1>6, <1>7, <1>8, RoutineSteps DEF RoutineStep, Rollback

-----------------------------------------------------------------------------
(* Inv is inductive. *)
LEMMA InvStep ==
    ASSUME RoutineUse, Inv, [Next]_vars
    PROVE  Inv'
<1>1. TypeOK'
  BY NextTypeOK DEF Inv
<1>2. CASE ValhallaLocal
  BY <1>1, <1>2, ControlStep, TableStep, FilesStep, ProductStep, ServerStep, UpToDateStep
     DEF Inv
<1>3. CASE ~ValhallaLocal
  BY <1>1, <1>3, ControlStep, TableStep, UpToDateStep
     DEF Inv, FilesAreFresh, ProductIsThere, ServerIsFresh
<1> QED
  BY <1>2, <1>3

(* In the routine use of update.sh Inv holds: in particular no directory a  *)
(* retry or a rollback may serve from holds a product older than the        *)
(* recorded state.                                                          *)
THEOREM RoutineInvariant == ASSUME RoutineUse PROVE Spec => []Inv
  BY InitInv, InvStep, PTL DEF Spec

(* "NHVR data and tiles are up to date" is never a false report in the      *)
(* routine use of update.sh (update.sh:178-182), whatever is killed, fails, *)
(* or is replaced, and whenever.                                            *)
THEOREM UpToDateReportsAreTrue ==
    ASSUME RoutineUse PROVE Spec => []UpToDateIsTrue
<1>1. Inv => UpToDateIsTrue
  BY DEF Inv
<1> QED
  BY <1>1, RoutineInvariant, PTL

-----------------------------------------------------------------------------
(* In the routine use of update.sh the scripts implement DataRelease: each  *)
(* step is one of its actions or leaves its variables alone.                *)

(* What the server serves, as DataRelease has it *)
Served(v) == IF v.kind = "whole" THEN [base |-> v.base, nhvr |-> v.nhvr] ELSE Nothing

(* The refinement mapping leaves these alone. *)
LEMMA Stutter ==
    ASSUME UNCHANGED <<inputs, state, db, valhalla>>
    PROVE  UNCHANGED Release!vars
  BY DEF Release!vars

(* Initial states map to initial states. *)
LEMMA InitRefines == Init => Release!Init
<1> SUFFICES ASSUME Init PROVE Release!Init
  OBVIOUS
<1>1. CASE state = Nothing /\ db = 0 /\ valhalla = Absent
  BY <1>1 DEF Init, Release!Init, Release!Nothing, Nothing, Absent
<1>2. CASE state = inputs /\ db = 1 /\ valhalla = Installed["tar"]
  BY <1>2 DEF Init, Release!Init, Installed
<1> QED
  BY <1>1, <1>2 DEF Init

(* What the server has open maps to a pair of versions between the recorded *)
(* state and the inputs.                                                     *)
LEMMA ServedVersions ==
    ASSUME TypeOK, NEW p \in Product, NEW w, NoOlder(p, w)
    PROVE  /\ Served(p) \in Release!Versions
           /\ Release!AtLeast(Served(p), w)
           /\ Release!AtLeast(inputs, Served(p))
  BY ScopeAssumption DEF NoOlder, Served, Product, Version, Release!Versions, Release!AtLeast

(* Steps map to steps. *)
LEMMA StepRefines ==
    ASSUME RoutineUse, ValhallaLocal, Inv, Inv', [Next]_vars
    PROVE  [Release!Next]_(Release!vars)
<1> /\ RunIsRoutine /\ VersionsInOrder /\ TableIsFresh /\ FilesAreFresh
    /\ ProductIsThere /\ ServerIsFresh /\ TypeOK /\ TypeOK'
  BY DEF Inv
<1>0. /\ inputs.base \in Nat /\ inputs.nhvr \in Nat
      /\ state.base \in Nat /\ state.nhvr \in Nat
      /\ cur.base \in Nat /\ cur.nhvr \in Nat /\ db \in Nat
  BY Numbers DEF TypeOK, Version
<1>1. ASSUME NEW v \in Versions, ReplaceInputs(v) PROVE Release!ReplaceInputs
  BY <1>1 DEF RoutineUse, ReplaceInputs, Release!ReplaceInputs, Release!Versions,
     Release!AtLeast, Versions, Version
<1>2. CASE LoadDb
  <2>1. Release!LoadTable
    BY <1>0, <1>2 DEF LoadDb, VersionsInOrder, Release!LoadTable, disk
  <2> QED
    BY <2>1 DEF Release!Next
<1>3. CASE Stop \/ RollbackStop
  <2>1. PICK here \in {"stop", "rbStop"}, next \in {"aside", "swap", "rbSwap"} :
          StopValhalla(here, next)
    BY <1>3 DEF Stop, RollbackStop
  <2>2. state # inputs
    BY <2>1, StopStops, WorkToDo DEF FullRun
  <2>3. Release!TakeDown
    BY <2>1, <2>2, StopStops, NotWhole DEF Release!TakeDown, Release!Nothing, Nothing
  <2> QED
    BY <2>3 DEF Release!Next
<1>4. CASE Up \/ RollbackUp
  <2>1. valhalla = Absent /\ UNCHANGED <<inputs, state, db>>
    BY <1>4 DEF Up, RollbackUp, ServerIsFresh
  <2>2. CASE valhalla'.kind = "whole"
    <3>1. NoOlder(valhalla', state)
      BY <2>1, <2>2 DEF Inv, ServerIsFresh, NoOlder
    <3>2. /\ Served(valhalla') \in Release!Versions
          /\ Release!AtLeast(Served(valhalla'), state)
          /\ Release!AtLeast(inputs, Served(valhalla'))
      BY <3>1, ServedVersions DEF TypeOK
    <3>3. Release!BringUp
      BY <2>1, <2>2, <3>2, NotWhole DEF Release!BringUp, Release!Nothing, Nothing, Served,
         Release!AtLeast
    <3> QED
      BY <3>3 DEF Release!Next
  <2>3. CASE valhalla'.kind # "whole"
    BY <2>1, <2>3, NotWhole DEF Release!vars
  <2> QED
    BY <2>2, <2>3
<1>5. CASE WriteState
  <2>1. NoOlder(valhalla, cur) /\ cur.nhvr <= db
    BY <1>5 DEF WriteState, ServerIsFresh, TableIsFresh, FullRun
  <2>2. state' = cur /\ UNCHANGED <<inputs, db, valhalla>>
    BY <1>5 DEF WriteState, StateToWrite, RunIsRoutine
  <2>3. Release!Record
    BY <1>0, <2>1, <2>2 DEF Release!Record, Release!Versions, Release!AtLeast, NoOlder,
       TypeOK, Versions, Version
  <2> QED
    BY <2>3 DEF Release!Next
<1>6. CASE Kill
  <2>1. CASE state' = state
    BY <1>6, <2>1, Stutter DEF Kill
  <2>2. CASE state' # state
    <3>0. UNCHANGED <<inputs, db, valhalla>>
      BY <1>6 DEF Kill
    <3>1. /\ pc = "record" /\ state' \in Versions
          /\ state'.base <= cur.base /\ state'.nhvr = 0
      BY <1>6, <2>2, TornState
    <3>2. NoOlder(valhalla, cur) /\ valhalla \in Product
      BY <3>1 DEF ServerIsFresh, TypeOK
    <3>3. NoOlder(valhalla, state')
      BY <1>0, <3>1, <3>2, NoOlderTrans DEF TypeOK
    <3>4. Release!Record
      BY <1>0, <3>0, <3>1, <3>3 DEF Release!Record, Release!Versions, Release!AtLeast, NoOlder,
         Versions, Version
    <3> QED
      BY <3>4 DEF Release!Next
  <2> QED
    BY <2>1, <2>2
<1>7. ASSUME NEW c \in Commands, StartDbOnly(c) \/ StartUpToDate(c) \/ StartFull(c)
      PROVE  UNCHANGED Release!vars
  BY <1>7, Stutter DEF StartDbOnly, StartUpToDate, StartFull, Begin
<1>8. CASE \/ UpToDate \/ Import \/ BuildTiles \/ SkipBuild \/ ClearOld \/ Promote \/ InPlace
           \/ Healthy \/ MoveFailed \/ Restore \/ NotBackedUp \/ RollbackHealthy
           \/ RebuildFails \/ Unhealthy \/ RollbackUnhealthy \/ CommandFails
           \/ UnhandledFails
  BY <1>8, Stutter DEF UpToDate, Import, BuildTiles, SkipBuild, ClearOld, Promote,
     MoveAside, MoveIn, KeepItem, InPlace, SimpleAside, CopyPbf, Rebuild, Healthy,
     MoveFailed, Restore, NotBackedUp, RollbackHealthy, RebuildFails, Unhealthy,
     RollbackUnhealthy, CommandFails, UnhandledFails
<1>9. CASE UNCHANGED vars
  BY <1>9, Stutter DEF vars
<1> QED
  BY <1>1, <1>2, <1>3, <1>4, <1>5, <1>6, <1>7, <1>8, <1>9, RoutineSteps
     DEF RoutineStep, Rollback, Failure, Release!Next

(* Update runs, killed and failed ones included, behave as DataRelease: the *)
(* state advances only to what PostGIS and the server already hold, PostGIS  *)
(* never falls behind it, and the server stops only while the state asks     *)
(* for an update.                                                            *)
THEOREM ImplementsDataRelease ==
    ASSUME RoutineUse, ValhallaLocal PROVE Spec => PublishesReleases
<1>1. Init => Release!Init
  BY InitRefines
<1>2. Inv /\ Inv' /\ [Next]_vars => [Release!Next]_(Release!vars)
  BY StepRefines
<1> QED
  BY <1>1, <1>2, RoutineInvariant, PTL DEF Spec, PublishesReleases, Release!Spec

-----------------------------------------------------------------------------
(* What an update that fails leaves behind. *)

(* The items of the loops are different ones. *)
LEMMA ItemsDiffer ==
    /\ \A j, k \in 1..4 : j # k => TileItems[j] # TileItems[k]
    /\ \A j, k \in 1..Len(AsideItems) : j # k => AsideItems[j] # AsideItems[k]
    /\ \A item \in Items : \E k \in 1..4 : TileItems[k] = item
    /\ Len(AsideItems) = IF PbfChanged THEN 4 ELSE 3
    /\ AsideItems[1] = "tiles" /\ AsideItems[2] = "tar" /\ AsideItems[3] = "pbf"
    /\ PbfChanged => AsideItems[4] = "admins"
<1>1. \A j, k \in 1..4 : j # k => TileItems[j] # TileItems[k]
  <2>1. \A k \in 1..4 : k = 1 \/ k = 2 \/ k = 3 \/ k = 4
    OBVIOUS
  <2> QED
    BY <2>1 DEF TileItems
<1>2. /\ Len(AsideItems) = IF PbfChanged THEN 4 ELSE 3
      /\ AsideItems[1] = "tiles" /\ AsideItems[2] = "tar" /\ AsideItems[3] = "pbf"
      /\ PbfChanged => AsideItems[4] = "admins"
  BY DEF AsideItems
<1>3. \A j, k \in 1..Len(AsideItems) : j # k => AsideItems[j] # AsideItems[k]
  <2>1. \A k \in 1..4 : k = 1 \/ k = 2 \/ k = 3 \/ k = 4
    OBVIOUS
  <2>2. \A k \in 1..3 : k = 1 \/ k = 2 \/ k = 3
    OBVIOUS
  <2>3. CASE PbfChanged
    BY <1>2, <2>1, <2>3
  <2>4. CASE ~PbfChanged
    BY <1>2, <2>2, <2>4
  <2> QED
    BY <2>3, <2>4
<1>4. \A item \in Items : \E k \in 1..4 : TileItems[k] = item
  <2>1. TileItems[1] = "tiles" /\ TileItems[2] = "tar" /\ TileItems[3] = "admins"
        /\ TileItems[4] = "pbf"
    BY DEF TileItems
  <2>2. 1 \in 1..4 /\ 2 \in 1..4 /\ 3 \in 1..4 /\ 4 \in 1..4
    OBVIOUS
  <2> QED
    BY <2>1, <2>2 DEF Items
<1> QED
  BY <1>1, <1>2, <1>3, <1>4

(* The steps of update.sh when every fault is one it handles. *)
UpdateStep ==
    \/ \E v \in Versions : ReplaceInputs(v)
    \/ \E c \in Commands : \/ StartDbOnly(c) \/ StartTilesOnly(c)
                           \/ StartUpToDate(c) \/ StartFull(c)
    \/ UpToDate \/ Import \/ LoadDb \/ BuildTiles \/ SkipBuild \/ ClearOld \/ Stop
    \/ Promote \/ InPlace \/ Up \/ Healthy \/ Rollback \/ WriteState
    \/ RebuildFails \/ Unhealthy \/ RollbackUnhealthy \/ CommandFails

(* While no setup and no rollback has been run, there are no other steps. *)
LEMMA UpdateSteps ==
    ASSUME HandledFaults, ~mixed' , ~mixed => UpdateOnly, [Next]_vars
    PROVE  /\ ~mixed /\ UpdateOnly
           /\ UpdateStep \/ UNCHANGED vars
<1>1. ASSUME NEW v \in Versions, ReplaceInputs(v) PROVE ~mixed
  BY <1>1 DEF ReplaceInputs, history
<1>2. ASSUME NEW c \in Commands, Start(c)
      PROVE  ~mixed /\ (StartDbOnly(c) \/ StartTilesOnly(c) \/ StartUpToDate(c) \/ StartFull(c))
  BY <1>2 DEF Start, Begin, StartRollback, StartDbOnly, StartTilesOnly, StartUpToDate,
     StartFull, StartSetup
<1>3. CASE Script
  BY <1>3 DEF Script, UpToDate, Import, ReusePbf, ReuseRefused, LoadDb, BuildTiles, SkipBuild,
     ClearOld, Stop, StopValhalla, Promote, MoveAside, MoveIn, KeepItem, InPlace, SimpleAside,
     CopyPbf, Rebuild, Up, Healthy, Rollback, RollbackStop, MoveFailed, Restore, NotBackedUp,
     RollbackUp, RollbackHealthy, StackUp, WriteState, history, UpdateOnly, UpdateStep, Settled,
     Moving
<1>4. CASE Failure
  BY <1>4 DEF Failure, RebuildFails, Unhealthy, RollbackUnhealthy, CommandFails, UnhandledFails,
     Kill, Fault, HandledFaults, UpdateStep
<1>5. CASE UNCHANGED vars
  BY <1>5 DEF vars, history
<1> QED
  BY <1>1, <1>2, <1>3, <1>4, <1>5 DEF Next, UpdateStep

(* A run stays a run of update.sh, at one of its steps. *)
LEMMA UpdateOnlyStep ==
    ASSUME ~mixed', UpdateOnly, UpdateStep \/ UNCHANGED vars
    PROVE  UpdateOnly'
<1> USE DEF UpdateOnly, IsUpdate, Has, Settled, Moving
<1>1. ASSUME NEW v \in Versions, ReplaceInputs(v) PROVE UpdateOnly'
  BY <1>1 DEF ReplaceInputs, local
<1>2. ASSUME NEW c \in Commands,
             StartDbOnly(c) \/ StartTilesOnly(c) \/ StartUpToDate(c) \/ StartFull(c)
      PROVE  UpdateOnly'
  BY <1>2 DEF Begin, StartDbOnly, StartTilesOnly, StartUpToDate, StartFull, IsFullUpdate
<1>3. ASSUME NEW status, End(status) PROVE UpdateOnly'
  BY <1>3 DEF End, NoCommand
<1>4. ASSUME NEW step \in Settled \cup Moving, Goto(step) PROVE UpdateOnly'
  BY <1>4 DEF Goto
<1>5. CASE UpToDate \/ RollbackHealthy \/ WriteState \/ RollbackUnhealthy \/ CommandFails
  BY <1>3, <1>5 DEF UpToDate, RollbackHealthy, WriteState, RollbackUnhealthy, CommandFails
<1>6. CASE LoadDb \/ Healthy \/ Unhealthy
  BY <1>3, <1>4, <1>6 DEF LoadDb, Healthy, Unhealthy, AfterLoad, AfterHealthy
<1>7. CASE \/ Import \/ BuildTiles \/ SkipBuild \/ ClearOld \/ Stop \/ MoveIn \/ KeepItem
           \/ InPlace \/ Up \/ RollbackStop \/ Restore \/ NotBackedUp \/ RollbackUp
           \/ RebuildFails
  BY <1>4, <1>7 DEF Import, AfterImport, BuildTiles, SkipBuild, ClearOld, Stop, StopValhalla,
     MoveIn, KeepItem, InPlace, SimpleAside, CopyPbf, Rebuild, Up, RollbackStop, Restore,
     NotBackedUp, RollbackUp, RebuildFails
<1>8. CASE MoveAside \/ MoveFailed \/ UNCHANGED vars
  BY <1>8 DEF MoveAside, MoveFailed, vars, local
<1> QED
  BY <1>1, <1>2, <1>5, <1>6, <1>7, <1>8 DEF UpdateStep, Promote, Rollback

-----------------------------------------------------------------------------
(* The steps of a run, one after the other. *)

Safe == ReleaseIsSafe /\ ServerFollows /\ BackupIsSafe

(* From one settled step to another, with the release and the server left   *)
(* alone.                                                                   *)
LEMMA SettledStep ==
    ASSUME Safe, pc \in Settled, pc' \in Settled \ {"stop"},
           UNCHANGED <<live, verified, valhalla>>
    PROVE  Safe'
  BY DEF Safe, ReleaseIsSafe, ServerFollows, BackupIsSafe, Settled, Moving, Kept, HasRelease

(* Nothing that counts changes. *)
LEMMA QuietStep ==
    ASSUME Safe, UNCHANGED <<pc, i, cmd, cur, state, live, old, verified, valhalla>>
    PROVE  Safe'
  BY DEF Safe, ReleaseIsSafe, ServerFollows, BackupIsSafe, Kept, Recoverable, HasRelease,
     PbfChanged, PbfChangedFor, AsideItems

LEMMA ClearOldSafe ==
    ASSUME Safe, ClearOld
    PROVE  Safe'
  BY DEF Safe, ClearOld, Goto, ReleaseIsSafe, ServerFollows, BackupIsSafe, Settled, Moving,
     Kept, HasRelease

(* The loops start with an empty .old. *)
LEMMA StopSafe ==
    ASSUME Safe, Stop, UpdateOnly
    PROVE  Safe'
<1>1. /\ pc = "stop" /\ pc' = (IF Simple THEN "aside" ELSE "swap") /\ i' = 1
      /\ valhalla' = Absent
      /\ UNCHANGED <<inputs, state, live, build, old, hasOld, db, cmd, cur, verified>>
  BY DEF Stop, StopValhalla, Goto, disk
<1>2. \A item \in Items : ~IsThere(old[item])
  BY <1>1, NotWhole DEF Safe, BackupIsSafe, IsThere, Absent
<1>3. ReleaseIsSafe'
  BY <1>1, <1>2 DEF Safe, ReleaseIsSafe, Settled, Moving, Kept, Recoverable, HasRelease
<1>4. ServerFollows'
  BY <1>1 DEF ServerFollows
<1>5. BackupIsSafe'
  <2>1. \A k \in 1..4 : ~IsThere(old[TileItems[k]])
    BY <1>2, LoopItems
  <2>2. \A k \in 1..Len(AsideItems) : ~IsThere(old[AsideItems[k]])
    BY <1>2, LoopItems
  <2>3. AsideItems' = AsideItems
    BY <1>1 DEF AsideItems, PbfChanged, PbfChangedFor
  <2>4. ~IsThere(old["admins"])
    BY <1>2 DEF Items
  <2>5. CASE Simple
    <3>1. \A k \in 1..Len(AsideItems) : ~(k < 1)
      BY LoopItems
    <3> QED
      BY <1>1, <2>2, <2>3, <2>4, <2>5, <3>1 DEF BackupIsSafe
  <2>6. CASE ~Simple
    BY <1>1, <2>1, <2>6, LoopItems DEF BackupIsSafe
  <2> QED
    BY <2>5, <2>6
<1> QED
  BY <1>3, <1>4, <1>5 DEF Safe

(* promote_build moves an item aside before it moves one in. *)
LEMMA PromoteSafe ==
    ASSUME TypeOK, Safe, Promote
    PROVE  Safe'
<1> DEFINE it == TileItems[i]
<1>0. /\ pc = "swap" /\ pc' = "swap" /\ i \in 1..4 /\ it \in Items
      /\ UNCHANGED <<cmd, cur, state, verified, valhalla>>
  BY LoopItems DEF Promote, MoveAside, MoveIn, KeepItem, MoreItems, Goto, local, history, TypeOK
<1>1. Item = it
  BY DEF Item
<1>2. live \in Directory /\ old \in Directory /\ build \in Directory
  BY DEF TypeOK
<1>3. \A k \in i..4 : ~(IsThere(old[TileItems[k]]) /\ IsThere(live[TileItems[k]]))
  BY <1>0, LoopItems DEF Safe, BackupIsSafe
<1>4. ServerFollows'
  BY <1>0 DEF Safe, ServerFollows
<1>5. \A k \in (i + 1)..4 : k \in i..4 /\ k \in 1..4 /\ k # i
  BY <1>0
<1>6. \A k \in (i + 1)..4 : TileItems[k] \in Items \ {it}
  BY <1>0, <1>5, LoopItems, ItemsDiffer
<1>7. HasRelease => Recoverable
  BY <1>0 DEF Safe, ReleaseIsSafe, Moving
<1> HIDE DEF it
<1>8. CASE MoveAside
  <2>1. /\ IsThere(live[it]) /\ i' = i
        /\ old' = [old EXCEPT ![it] = live[it]] /\ live' = [live EXCEPT ![it] = Absent]
    BY <1>1, <1>8 DEF MoveAside, local
  <2>2. /\ old'[it] = live[it] /\ live'[it] = Absent
        /\ \A other \in Items \ {it} : old'[other] = old[other] /\ live'[other] = live[other]
    BY <1>0, <1>2, <2>1, Replace
  <2>3. ~IsThere(old[it]) /\ ~IsThere(live'[it])
    <3>1. i \in i..4
      BY <1>0
    <3> QED
      BY <1>3, <2>1, <2>2, <3>1 DEF it, IsThere, Absent
  <2>4. HasRelease => Recoverable'
    BY <1>0, <1>7, <2>1, <2>2, <2>3 DEF Recoverable
  <2>5. \A k \in i..4 : ~(IsThere(old'[TileItems[k]]) /\ IsThere(live'[TileItems[k]]))
    <3>1. \A k \in i..4 : k = i \/ k \in (i + 1)..4
      BY <1>0
    <3> QED
      BY <1>3, <1>5, <1>6, <2>2, <2>3, <3>1 DEF it
  <2> QED
    BY <1>0, <1>4, <2>1, <2>4, <2>5, LoopItems
       DEF Safe, ReleaseIsSafe, BackupIsSafe, Settled, HasRelease
<1>9. CASE MoveIn \/ KeepItem
  <2>1. /\ i' = i + 1 /\ old' = old
        /\ live' = live \/ (~IsThere(live[it]) /\ live' = [live EXCEPT ![it] = build[it]])
    BY <1>1, <1>9 DEF MoveIn, KeepItem, disk
  <2>2. \A other \in Items \ {it} : live'[other] = live[other]
    BY <1>0, <1>2, <2>1, Replace
  <2>3. HasRelease => Recoverable'
    <3>1. HasRelease /\ IsThere(verified[it]) =>
            IF IsThere(old[it]) THEN old[it] = verified[it] ELSE live'[it] = verified[it]
      BY <1>0, <1>7, <2>1 DEF Recoverable
    <3> QED
      BY <1>0, <1>7, <2>1, <2>2, <3>1 DEF Recoverable
  <2>4. \A k \in (i + 1)..4 : ~(IsThere(old'[TileItems[k]]) /\ IsThere(live'[TileItems[k]]))
    BY <1>3, <1>5, <1>6, <2>1, <2>2
  <2> QED
    BY <1>0, <1>4, <2>1, <2>3, <2>4, LoopItems
       DEF Safe, ReleaseIsSafe, BackupIsSafe, Settled, HasRelease
<1> QED
  BY <1>8, <1>9 DEF Promote

(* update.sh --simple moves aside everything it will write. *)
LEMMA AsideSafe ==
    ASSUME TypeOK, Safe, SimpleAside
    PROVE  Safe'
<1> DEFINE it == AsideItems[i]
           n == Len(AsideItems)
<1>0. /\ pc = "aside" /\ pc' = "aside" /\ i \in 1..n /\ i' = i + 1 /\ it \in Items
      /\ UNCHANGED <<cmd, cur, state, verified, valhalla>>
  BY LoopItems DEF SimpleAside, Goto, TypeOK
<1>1. n \in Nat /\ AsideItems' = AsideItems /\ (PbfChanged' <=> PbfChanged)
  BY <1>0, LoopItems DEF AsideItems, PbfChanged, PbfChangedFor
<1>2. live \in Directory /\ old \in Directory
  BY DEF TypeOK
<1>3. \A k \in 1..n : IF k < i THEN ~IsThere(live[AsideItems[k]]) ELSE ~IsThere(old[AsideItems[k]])
  BY <1>0 DEF Safe, BackupIsSafe
<1>4. ~IsThere(old[it])
  BY <1>0, <1>3
<1>5. HasRelease => Recoverable
  BY <1>0 DEF Safe, ReleaseIsSafe, Moving
<1>6. \A k \in 1..n : k # i => AsideItems[k] \in Items \ {it}
  BY <1>0, LoopItems, ItemsDiffer
<1>7. ~PbfChanged => it # "admins" /\ "admins" \in Items /\ ~IsThere(old["admins"])
  <2>1. ~PbfChanged => i = 1 \/ i = 2 \/ i = 3
    BY <1>0, ItemsDiffer
  <2> QED
    BY <1>0, <2>1, ItemsDiffer DEF Safe, BackupIsSafe, Items
<1> HIDE DEF it, n
<1>8. /\ ~IsThere(live'[it])
      /\ \/ IsThere(live[it]) /\ old'[it] = live[it]
         \/ ~IsThere(live[it]) /\ old'[it] = old[it] /\ live'[it] = live[it]
      /\ \A other \in Items \ {it} : old'[other] = old[other] /\ live'[other] = live[other]
  <2>1. CASE IsThere(live[it])
    <3>1. old' = [old EXCEPT ![it] = live[it]] /\ live' = [live EXCEPT ![it] = Absent]
      BY <2>1 DEF SimpleAside, it
    <3>2. /\ old'[it] = live[it] /\ live'[it] = Absent
          /\ \A other \in Items \ {it} : old'[other] = old[other] /\ live'[other] = live[other]
      BY <1>0, <1>2, <3>1, Replace
    <3> QED
      BY <2>1, <3>2 DEF IsThere, Absent
  <2>2. CASE ~IsThere(live[it])
    BY <2>2 DEF SimpleAside, it
  <2> QED
    BY <2>1, <2>2
<1>9. HasRelease => Recoverable'
  BY <1>0, <1>4, <1>5, <1>8 DEF Recoverable
<1>10. \A k \in 1..n : IF k < i + 1 THEN ~IsThere(live'[AsideItems[k]])
                                    ELSE ~IsThere(old'[AsideItems[k]])
  <2>1. \A k \in 1..n : k < i + 1 <=> k < i \/ k = i
    BY <1>0, <1>1
  <2> QED
    BY <1>0, <1>3, <1>6, <1>8, <2>1 DEF it
<1>11. ~PbfChanged' => ~IsThere(old'["admins"])
  BY <1>1, <1>7, <1>8
<1> QED
  BY <1>0, <1>1, <1>9, <1>10, <1>11
     DEF Safe, ReleaseIsSafe, ServerFollows, BackupIsSafe, Settled, HasRelease, n

LEMMA CopyPbfSafe ==
    ASSUME TypeOK, Safe, CopyPbf
    PROVE  Safe'
<1> DEFINE n == Len(AsideItems)
<1>0. /\ pc = "aside" /\ pc' = "rebuild" /\ i > n /\ i \in Nat
      /\ live' = [live EXCEPT !["pbf"] = build["pbf"]]
      /\ UNCHANGED <<cmd, cur, state, old, verified, valhalla>>
  BY LoopItems DEF CopyPbf, Goto, TypeOK
<1>1. \A k \in 1..n : ~IsThere(live[AsideItems[k]])
  <2>1. \A k \in 1..n : k < i
    BY <1>0, LoopItems
  <2> QED
    BY <1>0, <2>1 DEF Safe, BackupIsSafe
<1>2. /\ ~IsThere(live["tiles"]) /\ ~IsThere(live["tar"]) /\ ~IsThere(live["pbf"])
      /\ PbfChanged => ~IsThere(live["admins"])
  <2>1. 1 \in 1..n /\ 2 \in 1..n /\ 3 \in 1..n /\ (PbfChanged => 4 \in 1..n)
    BY ItemsDiffer
  <2> QED
    BY <1>1, <2>1, ItemsDiffer
<1>3. \A item \in Items \ {"pbf"} : live'[item] = live[item]
  BY <1>0, Replace DEF TypeOK, Items
<1>4. HasRelease => Recoverable
  BY <1>0 DEF Safe, ReleaseIsSafe, Moving
<1>5. HasRelease /\ IsThere(verified["pbf"]) => IsThere(old["pbf"])
  BY <1>2, <1>4 DEF Recoverable, Items
<1>6. HasRelease => Recoverable'
  BY <1>0, <1>3, <1>4, <1>5 DEF Recoverable
<1>7. ~PbfChanged => ~IsThere(old["admins"])
  BY <1>0 DEF Safe, BackupIsSafe
<1>8. PbfChanged' <=> PbfChanged
  BY <1>0 DEF PbfChanged, PbfChangedFor
<1>9. "tiles" \in Items \ {"pbf"} /\ "tar" \in Items \ {"pbf"} /\ "admins" \in Items \ {"pbf"}
  BY DEF Items
<1> QED
  BY <1>0, <1>2, <1>3, <1>5, <1>6, <1>7, <1>8, <1>9
     DEF Safe, ReleaseIsSafe, ServerFollows, BackupIsSafe, Settled, HasRelease

(* What the in-place build writes is in .old, or was not there. *)
LEMMA RebuildSafe ==
    ASSUME TypeOK, Safe, Rebuild \/ RebuildFails
    PROVE  Safe'
<1>0. /\ pc = "rebuild" /\ pc' \in {"up", "rbStop"}
      /\ UNCHANGED <<cmd, cur, state, old, verified, valhalla>>
  BY DEF Rebuild, RebuildFails, Goto
<1>1. /\ ~IsThere(live["tiles"]) /\ ~IsThere(live["tar"])
      /\ HasRelease /\ IsThere(verified["pbf"]) => IsThere(old["pbf"])
      /\ PbfChanged => ~IsThere(live["admins"])
      /\ valhalla = Absent
  BY <1>0 DEF Safe, BackupIsSafe, ServerFollows
<1>2. HasRelease => Recoverable
  BY <1>0 DEF Safe, ReleaseIsSafe, Moving
<1>3. IsThere(live["admins"]) => live'["admins"] = live["admins"]
  <2>1. CASE Rebuild
    BY <2>1 DEF Rebuild, Built, AdminsAfterBuild
  <2>2. CASE RebuildFails
    BY <2>2, Replace DEF RebuildFails, TypeOK, Items
  <2> QED
    BY <2>1, <2>2
<1>4. HasRelease => Recoverable'
  <2>1. \A item \in Items : item \in {"tiles", "tar", "pbf", "admins"}
    BY DEF Items
  <2> QED
    BY <1>0, <1>1, <1>2, <1>3, <2>1 DEF Recoverable
<1> QED
  BY <1>0, <1>1, <1>4
     DEF Safe, ReleaseIsSafe, ServerFollows, BackupIsSafe, Settled, HasRelease

(* Opening a directory only fills in what is not there. *)
LEMMA OpenedFills ==
    ASSUME NEW dir \in Directory
    PROVE  \A item \in Items : IsThere(dir[item]) => Opened(dir)[item] = dir[item]
<1>1. CASE IsThere(dir["tar"])
  BY <1>1 DEF Opened
<1>2. CASE ~IsThere(dir["tar"]) /\ IsThere(dir["tiles"])
  BY <1>2, Replace DEF Opened, Items
<1>3. CASE ~IsThere(dir["tar"]) /\ ~IsThere(dir["tiles"])
  <2>1. \A item \in Items : item \in {"tiles", "tar", "pbf", "admins"}
    BY DEF Items
  <2> QED
    BY <1>3, <2>1 DEF Opened, Built
<1> QED
  BY <1>1, <1>2, <1>3

(* Valhalla comes up on what custom_files holds. *)
LEMMA UpSafe ==
    ASSUME TypeOK, Safe, Up \/ RollbackUp
    PROVE  Safe'
<1>0. /\ pc \in {"up", "swap", "rbSwap"} /\ pc' \in {"health", "rbHealth"} /\ ComposeUp
      /\ UNCHANGED <<cmd, cur, state, old, verified, i>>
  BY DEF Up, RollbackUp, Goto
<1>1. valhalla = Absent
  BY <1>0 DEF Safe, ServerFollows
<1>2. live' = Opened(live) /\ valhalla' = live'["tar"]
  BY <1>0, <1>1 DEF ComposeUp
<1>3. HasRelease => Recoverable
  BY <1>0 DEF Safe, ReleaseIsSafe, Moving
<1>4. \A item \in Items : IsThere(live[item]) => live'[item] = live[item]
  BY <1>2, OpenedFills DEF TypeOK
<1>5. HasRelease => Recoverable'
  BY <1>0, <1>3, <1>4 DEF Recoverable
<1>6. CASE Up
  <2>1. pc' = "health"
    BY <1>6 DEF Up, Goto
  <2> QED
    BY <1>0, <1>2, <1>5, <2>1
       DEF Safe, ReleaseIsSafe, ServerFollows, BackupIsSafe, Settled, HasRelease
<1>7. CASE RollbackUp
  <2>1. pc = "rbSwap" /\ pc' = "rbHealth" /\ ~MoreItems
    BY <1>7 DEF RollbackUp, Goto
  <2>2. \A k \in 1..4 : ~IsThere(old[TileItems[k]])
    <3>1. \A k \in 1..4 : k \in 1..(i - 1)
      BY <2>1, LoopItems DEF MoreItems, TypeOK
    <3> QED
      BY <2>1, <3>1 DEF Safe, BackupIsSafe
  <2>3. \A item \in Items : ~IsThere(old[item])
    BY <2>2, ItemsDiffer
  <2>4. HasRelease => Kept'
    BY <1>0, <1>5, <2>3 DEF Recoverable, Kept
  <2>5. HasRelease => valhalla' = verified["tar"]
    <3>1. HasRelease => IsThere(verified["tar"])
      BY DEF HasRelease, IsThere
    <3> QED
      BY <1>0, <1>2, <2>4, <3>1 DEF Kept, Items
  <2> QED
    BY <1>0, <2>1, <2>4, <2>5
       DEF Safe, ReleaseIsSafe, ServerFollows, BackupIsSafe, Moving, HasRelease
<1> QED
  BY <1>6, <1>7

(* A health check that passes makes what is live the release. *)
LEMMA HealthySafe ==
    ASSUME Safe, UpdateOnly, Healthy
    PROVE  Safe'
<1>1. /\ pc = "health" /\ pc' \in {"idle", "record"} /\ verified' = live
      /\ UNCHANGED <<live, valhalla>>
  BY DEF Healthy, AfterHealthy, End, Goto, UpdateOnly
<1>2. valhalla = live["tar"]
  BY <1>1 DEF Safe, ServerFollows
<1> QED
  BY <1>1, <1>2 DEF Safe, ReleaseIsSafe, ServerFollows, BackupIsSafe, Moving, Kept, HasRelease

(* With nothing to restore, what is live is the release. *)
LEMMA UnhealthySafe ==
    ASSUME Safe, Unhealthy
    PROVE  Safe'
<1>0. pc = "health" /\ UNCHANGED <<live, old, valhalla, verified>>
  BY DEF Unhealthy, disk
<1>1. HasRelease => Recoverable
  BY <1>0 DEF Safe, ReleaseIsSafe, Moving
<1>2. CASE NothingToRestore
  <2>1. pc' = "idle"
    BY <1>2 DEF Unhealthy, End
  <2>2. \A item \in Items : ~IsThere(old[item])
    BY <1>2, NotWhole DEF NothingToRestore, IsThere, Absent
  <2>3. HasRelease => Kept /\ IsThere(verified["tar"])
    BY <1>1, <2>2 DEF Recoverable, Kept, HasRelease, IsThere
  <2>4. HasRelease => valhalla = verified["tar"]
    BY <1>0, <2>3 DEF Safe, ServerFollows, Kept, Items
  <2> QED
    BY <1>0, <2>1, <2>3, <2>4
       DEF Safe, ReleaseIsSafe, ServerFollows, BackupIsSafe, Moving, Kept, HasRelease
<1>3. CASE ~NothingToRestore
  <2>1. pc' = "rbStop"
    BY <1>3 DEF Unhealthy, Goto
  <2> QED
    BY <1>0, <1>1, <2>1
       DEF Safe, ReleaseIsSafe, ServerFollows, BackupIsSafe, Settled, Recoverable, HasRelease
<1> QED
  BY <1>2, <1>3

LEMMA RollbackStopSafe ==
    ASSUME Safe, RollbackStop
    PROVE  Safe'
<1>1. /\ pc = "rbStop" /\ pc' = "rbSwap" /\ i' = 1 /\ valhalla' = Absent
      /\ UNCHANGED <<live, old, verified>>
  BY DEF RollbackStop, StopValhalla, Goto, disk
<1>2. \A k \in 1..(1 - 1) : ~IsThere(old[TileItems[k]])
  OBVIOUS
<1> QED
  BY <1>1, <1>2 DEF Safe, ReleaseIsSafe, ServerFollows, BackupIsSafe, Settled, Moving,
     Recoverable, HasRelease

(* rollback_build takes each item of .old back, and no other. *)
LEMMA RollbackSafe ==
    ASSUME TypeOK, Safe, MoveFailed \/ Restore \/ NotBackedUp
    PROVE  Safe'
<1> DEFINE it == TileItems[i]
<1>0. /\ pc = "rbSwap" /\ pc' = "rbSwap" /\ i \in 1..4 /\ it \in Items
      /\ UNCHANGED <<cmd, cur, state, verified, valhalla>>
  BY LoopItems DEF MoveFailed, Restore, NotBackedUp, MoreItems, Goto, local, history, TypeOK
<1>1. Item = it
  BY DEF Item
<1>2. live \in Directory /\ old \in Directory
  BY DEF TypeOK
<1>3. \A k \in 1..(i - 1) : ~IsThere(old[TileItems[k]])
  BY <1>0 DEF Safe, BackupIsSafe
<1>4. ServerFollows'
  BY <1>0 DEF Safe, ServerFollows
<1>5. \A k \in 1..(i - 1) : TileItems[k] \in Items \ {it}
  <2>1. \A k \in 1..(i - 1) : k \in 1..4 /\ k # i
    BY <1>0
  <2> QED
    BY <1>0, <2>1, LoopItems, ItemsDiffer
<1>6. HasRelease => Recoverable
  BY <1>0 DEF Safe, ReleaseIsSafe, Moving
<1> HIDE DEF it
<1>7. CASE MoveFailed
  <2>1. /\ IsThere(old[it]) /\ i' = i /\ old' = old
        /\ live' = [live EXCEPT ![it] = Absent]
    BY <1>1, <1>7 DEF MoveFailed, local
  <2>2. \A other \in Items \ {it} : live'[other] = live[other]
    BY <1>0, <1>2, <2>1, Replace
  <2>3. HasRelease => Recoverable'
    BY <1>0, <1>6, <2>1, <2>2 DEF Recoverable
  <2> QED
    BY <1>0, <1>3, <1>4, <2>1, <2>3
       DEF Safe, ReleaseIsSafe, BackupIsSafe, Settled, HasRelease
<1>8. CASE Restore \/ NotBackedUp
  <2>1. /\ i' = i + 1
        /\ \/ /\ IsThere(old[it])
              /\ old' = [old EXCEPT ![it] = Absent] /\ live' = [live EXCEPT ![it] = old[it]]
           \/ ~IsThere(old[it]) /\ old' = old /\ live' = live
    BY <1>1, <1>8 DEF Restore, NotBackedUp, disk
  <2>2. /\ \A other \in Items \ {it} : old'[other] = old[other] /\ live'[other] = live[other]
        /\ ~IsThere(old'[it])
        /\ live'[it] = IF IsThere(old[it]) THEN old[it] ELSE live[it]
    <3>1. ~IsThere(Absent)
      BY DEF IsThere, Absent
    <3> QED
      BY <1>0, <1>2, <2>1, <3>1, Replace
  <2>3. HasRelease => Recoverable'
    BY <1>0, <1>6, <2>2 DEF Recoverable
  <2>4. \A k \in 1..i : ~IsThere(old'[TileItems[k]])
    <3>1. \A k \in 1..i : k = i \/ k \in 1..(i - 1)
      BY <1>0
    <3> QED
      BY <1>3, <1>5, <2>2, <3>1 DEF it
  <2>5. i' - 1 = i
    BY <1>0, <2>1
  <2> QED
    BY <1>0, <1>4, <2>3, <2>4, <2>5
       DEF Safe, ReleaseIsSafe, BackupIsSafe, Settled, HasRelease
<1> QED
  BY <1>7, <1>8

LEMMA SafeStep ==
    ASSUME HandledFaults, TypeOK, SafeInv, [Next]_vars
    PROVE  SafeInv'
<1> SUFFICES ASSUME ~mixed' PROVE UpdateOnly' /\ Safe'
  BY DEF SafeInv, Safe
<1>1. ~mixed /\ UpdateOnly /\ (UpdateStep \/ UNCHANGED vars)
  BY UpdateSteps DEF SafeInv
<1>2. UpdateOnly'
  BY <1>1, UpdateOnlyStep
<1>3. Safe
  BY <1>1 DEF SafeInv, Safe
<1> SUFFICES Safe'
  BY <1>2
<1>4. ASSUME NEW v \in Versions, ReplaceInputs(v) PROVE Safe'
  BY <1>3, <1>4, QuietStep DEF ReplaceInputs, disk, local, history
<1>5. ASSUME NEW c \in Commands,
             StartDbOnly(c) \/ StartTilesOnly(c) \/ StartUpToDate(c) \/ StartFull(c)
      PROVE  Safe'
  BY <1>3, <1>5, SettledStep DEF Begin, StartDbOnly, StartTilesOnly, StartUpToDate, StartFull,
     disk, Settled
<1>6. CASE \/ UpToDate \/ Import \/ LoadDb \/ BuildTiles \/ SkipBuild \/ RollbackHealthy
           \/ WriteState \/ RollbackUnhealthy \/ CommandFails
  <2>1. pc \in Settled /\ pc' \in Settled \ {"stop"} /\ UNCHANGED <<live, verified, valhalla>>
    BY <1>1, <1>6 DEF UpToDate, Import, AfterImport, LoadDb, AfterLoad, BuildTiles, SkipBuild,
       RollbackHealthy, WriteState, RollbackUnhealthy, CommandFails, UpdateOnly, End, Goto,
       disk, Settled, Moving
  <2> QED
    BY <1>3, <2>1, SettledStep
<1>7. CASE ClearOld
  BY <1>3, <1>7, ClearOldSafe
<1>8. CASE Stop
  BY <1>1, <1>3, <1>8, StopSafe
<1>9. CASE Promote
  BY <1>3, <1>9, PromoteSafe
<1>10. CASE InPlace \/ RebuildFails
  <2>1. CASE Rebuild \/ RebuildFails
    BY <1>1, <1>3, <2>1, RebuildSafe DEF Rebuild, RebuildFails
  <2> QED
    BY <1>3, <1>10, <2>1, AsideSafe, CopyPbfSafe DEF InPlace
<1>11. CASE Up \/ RollbackUp
  BY <1>3, <1>11, UpSafe
<1>12. CASE Healthy
  BY <1>1, <1>3, <1>12, HealthySafe
<1>13. CASE Unhealthy
  BY <1>3, <1>13, UnhealthySafe
<1>14. CASE RollbackStop
  BY <1>3, <1>14, RollbackStopSafe
<1>15. CASE MoveFailed \/ Restore \/ NotBackedUp
  BY <1>3, <1>15, RollbackSafe
<1>16. CASE UNCHANGED vars
  BY <1>3, <1>16, QuietStep DEF vars, disk, local, history
<1> QED
  BY <1>1, <1>2, <1>4, <1>5, <1>6, <1>7, <1>8, <1>9, <1>10, <1>11, <1>12, <1>13, <1>14, <1>15,
     <1>16 DEF UpdateStep, Rollback

LEMMA InitSafe == Init => SafeInv
<1> SUFFICES ASSUME Init PROVE SafeInv
  OBVIOUS
<1>1. UpdateOnly
  BY DEF Init, UpdateOnly, NoCommand, IsUpdate, Has, Settled
<1>2. ReleaseIsSafe
  <2>1. CASE live = Empty
    BY <2>1, NotWhole DEF Init, ReleaseIsSafe, HasRelease, Items
  <2>2. CASE live = Installed /\ valhalla = Installed["tar"]
    BY <2>2 DEF Init, ReleaseIsSafe, Kept, Moving
  <2> QED
    BY <2>1, <2>2 DEF Init
<1> QED
  BY <1>1, <1>2 DEF SafeInv, ServerFollows, BackupIsSafe, Init

-----------------------------------------------------------------------------
(* The admin database is as new as the recorded extract. *)

LEMMA Bases ==
    ASSUME TypeOK
    PROVE  /\ inputs.base \in Nat /\ state.base \in Nat /\ cur.base \in Nat /\ Low \in Nat
           /\ \A v \in Versions : v.base \in Nat
           /\ \A p \in Product : p.base \in Nat /\ p.admin \in Nat
           /\ \A dir \in Directory, item \in Items : dir[item] \in Product
  BY DirectoryTypes DEF TypeOK, Versions, Version, Product, Low

(* What is complete for a base is complete for an older one. *)
LEMMA CompleteTrans ==
    ASSUME TypeOK, NEW low \in Nat, NEW lower \in Nat, lower <= low,
           NEW dir \in Directory, CompleteIn(dir, low)
    PROVE  CompleteIn(dir, lower)
  BY Bases DEF CompleteIn, Complete, Within, Items

(* A build from an extract and an admin database that are new enough *)
LEMMA BuiltComplete ==
    ASSUME NEW pbf \in Product, pbf.kind = "whole", NEW adm, adm.kind = "whole", NEW low,
           Within(adm.base, low)
    PROVE  CompleteIn(Built(pbf, adm), low)
<1>1. TilesFrom(pbf, adm).kind = "whole" /\ TilesFrom(pbf, adm).admin = adm.base
  BY DEF TilesFrom, Product
<1> QED
  BY <1>1 DEF Built, CompleteIn, Complete

(* Newer inputs change nothing. *)
LEMMA InputsFollow ==
    ASSUME TypeOK, AdminsFollow, ~Revert, NEW v \in Versions, ReplaceInputs(v)
    PROVE  AdminsFollow'
<1>1. /\ inputs' = v /\ v.base >= inputs.base
      /\ UNCHANGED <<state, cmd, cur, pc, i, live, build, old, verified, valhalla>>
  BY DEF ReplaceInputs, disk, local, history
<1>2. \A base \in Nat : \A low : Within(base, low) => base <= inputs'.base
  BY <1>1, Bases DEF Within
<1>3. ASSUME NEW tar \in Product, NEW admins \in Product, NEW pbf, NEW low,
             Complete(tar, admins, pbf, low)
      PROVE  /\ low <= tar.admin /\ tar.admin <= inputs'.base
             /\ low <= admins.base /\ admins.base <= inputs'.base
             /\ tar.kind = "whole" /\ admins.kind = "whole" /\ pbf.kind = "whole"
  BY <1>2, <1>3, Bases DEF Complete, Within
<1>4. /\ live["tar"] \in Product /\ live["admins"] \in Product
      /\ build["tar"] \in Product /\ build["admins"] \in Product
      /\ verified["tar"] \in Product /\ verified["admins"] \in Product
      /\ build["pbf"] \in Product /\ live["pbf"] \in Product
  BY Bases DEF TypeOK, Items
<1>5. ASSUME NEW pbf \in Product, Extract(pbf)
      PROVE  pbf.kind = "whole" /\ (~Has("tiles") => cur.base <= pbf.base /\ pbf.base <= inputs'.base)
  BY <1>2, <1>5, Bases DEF Extract, Within
<1>6. Low' = Low
  BY <1>1 DEF Low, Has
<1>7. BasesInOrder'
  BY <1>1, Bases DEF AdminsFollow, BasesInOrder, Has, Simple, IsUpdate
<1>8. /\ state.base # 0 => CompleteIn(verified, state.base)'
      /\ pc = "record" => CompleteIn(verified, cur.base)'
  <2>1. ASSUME NEW low, CompleteIn(verified, low)
        PROVE  /\ low <= verified["tar"].admin /\ verified["tar"].admin <= inputs'.base
               /\ low <= verified["admins"].base /\ verified["admins"].base <= inputs'.base
               /\ verified["tar"].kind = "whole" /\ verified["admins"].kind = "whole"
               /\ verified["pbf"].kind = "whole"
    BY <1>3, <1>4, <2>1 DEF CompleteIn
  <2>2. state.base # 0 => CompleteIn(verified, state.base)'
    BY <1>1, <2>1 DEF AdminsFollow, CompleteIn, Complete, Within
  <2>3. pc = "record" => CompleteIn(verified, cur.base)'
    BY <1>1, <2>1 DEF AdminsFollow, CompleteIn, Complete, Within
  <2> QED
    BY <2>2, <2>3
<1>9. BuildIsCurrent => BuildIsCurrent'
  <2> SUFFICES ASSUME BuildIsCurrent PROVE BuildIsCurrent'
    OBVIOUS
  <2>1. pc \in {"load", "build"} /\ ~Has("db") => Extract(build["pbf"])'
    BY <1>1, <1>4, <1>5 DEF BuildIsCurrent, Extract, Within, Has
  <2>2. pc \in {"clear", "stop"} /\ ~Simple => CompleteIn(build, Low)'
    BY <1>1, <1>3, <1>4, <1>6 DEF BuildIsCurrent, CompleteIn, Complete, Within
  <2>3. pc \in {"clear", "stop", "aside"} /\ Simple => Extract(build["pbf"])'
    BY <1>1, <1>4, <1>5 DEF BuildIsCurrent, Extract, Within, Has
  <2>4. pc = "swap" => Complete(IF i > 2 THEN live["tar"] ELSE build["tar"],
                                IF i > 3 THEN live["admins"] ELSE build["admins"],
                                IF i > 4 THEN live["pbf"] ELSE build["pbf"], Low)'
    <3> DEFINE tar == IF i > 2 THEN live["tar"] ELSE build["tar"]
               admins == IF i > 3 THEN live["admins"] ELSE build["admins"]
               pbf == IF i > 4 THEN live["pbf"] ELSE build["pbf"]
    <3>1. tar \in Product /\ admins \in Product /\ tar' = tar /\ admins' = admins /\ pbf' = pbf
      BY <1>1, <1>4
    <3>2. pc = "swap" => Complete(tar, admins, pbf, Low)
      BY DEF BuildIsCurrent
    <3> HIDE DEF tar, admins, pbf
    <3>3. pc = "swap" => Complete(tar, admins, pbf, Low)'
      BY <1>3, <1>6, <3>1, <3>2 DEF Complete, Within
    <3> QED
      BY <3>3 DEF tar, admins, pbf
  <2>5. pc = "rebuild" => Extract(live["pbf"])'
    BY <1>1, <1>4, <1>5 DEF BuildIsCurrent, Extract, Within, Has
  <2>6. pc \in {"up", "health"} => CompleteIn(live, Low)'
    BY <1>1, <1>3, <1>4, <1>6 DEF BuildIsCurrent, CompleteIn, Complete, Within
  <2> QED
    BY <1>1, <2>1, <2>2, <2>3, <2>4, <2>5, <2>6 DEF BuildIsCurrent, Simple, Has, IsUpdate
<1> QED
  BY <1>1, <1>6, <1>7, <1>8, <1>9 DEF AdminsFollow

(* The start of a run: what it will copy, and what it may report, is what   *)
(* the last recorded run left.                                              *)
LEMMA StartFollows ==
    ASSUME ValhallaLocal, TypeOK, AdminsFollow, ReleaseIsSafe, NEW c \in Commands,
           StartDbOnly(c) \/ StartTilesOnly(c) \/ StartUpToDate(c) \/ StartFull(c)
    PROVE  AdminsFollow'
<1>1. /\ pc = "idle" /\ cmd' = c /\ cur' = inputs
      /\ UNCHANGED <<inputs, state, verified, live, valhalla>>
  BY DEF Begin, StartDbOnly, StartTilesOnly, StartUpToDate, StartFull, disk
<1>2. inputs.base >= 1 /\ state.base <= inputs.base
  BY DEF AdminsFollow, BasesInOrder
<1>3. state.base # 0 => CompleteIn(verified, state.base)
  BY DEF AdminsFollow
<1>4. state.base # 0 => HasRelease /\ Kept /\ valhalla = verified["tar"]
  BY <1>1, <1>3 DEF ReleaseIsSafe, Settled, CompleteIn, Complete, HasRelease
<1>5. (state.base # 0 => CompleteIn(verified, state.base))'
  BY <1>1, <1>3 DEF CompleteIn, Complete, Within
<1>6. CASE StartDbOnly(c)
  <2>1. pc' = "load" /\ Has("db")'
    BY <1>1, <1>6 DEF StartDbOnly, Begin, Has
  <2> QED
    BY <1>1, <1>2, <1>5, <2>1, Bases DEF AdminsFollow, BasesInOrder, BuildIsCurrent
<1>7. CASE StartTilesOnly(c)
  <2>1. /\ pc' = "build" /\ Has("tiles")' /\ ~Has("db")'
        /\ build' = [Empty EXCEPT !["pbf"] = live["pbf"]]
    BY <1>1, <1>7 DEF StartTilesOnly, Begin, Has
  <2>2. Low' = state.base
    BY <1>1, <2>1 DEF Low
  <2>3. Empty \in Directory /\ build'["pbf"] = live["pbf"]
    BY <2>1, ProductTypes, Replace DEF Items
  <2>4. state.base # 0 => Extract(build["pbf"])'
    BY <1>3, <1>4, <2>1, <2>3
       DEF CompleteIn, Complete, Kept, Items, IsThere, Extract
  <2> QED
    BY <1>1, <1>2, <1>5, <2>1, <2>2, <2>4, Bases DEF AdminsFollow, BasesInOrder, BuildIsCurrent
<1>8. CASE StartUpToDate(c)
  <2>1. pc' = "uptodate" /\ state.base = inputs.base /\ ~Has("db")'
    BY <1>1, <1>8 DEF StartUpToDate, Begin, NothingChanged, PbfChangedFor, IsFullUpdate, Has
  <2>2. verified["tar"] \in Product
    BY Bases DEF TypeOK, Items
  <2>3. valhalla.admin = inputs.base
    BY <1>2, <1>3, <1>4, <2>1, <2>2, Bases DEF CompleteIn, Complete, Within
  <2> QED
    BY <1>1, <1>2, <1>5, <2>1, <2>3, Bases DEF AdminsFollow, BasesInOrder
<1>9. CASE StartFull(c)
  <2>1. pc' = "import" /\ ~Has("db")'
    BY <1>1, <1>9 DEF StartFull, Begin, IsFullUpdate, Has
  <2> QED
    BY <1>1, <1>2, <1>5, <2>1, Bases DEF AdminsFollow, BasesInOrder, BuildIsCurrent
<1> QED
  BY <1>6, <1>7, <1>8, <1>9

(* The end of a run *)
LEMMA EndFollows ==
    ASSUME AdminsFollow, NEW status, End(status), UNCHANGED <<inputs, state, verified>>
    PROVE  AdminsFollow'
  BY DEF AdminsFollow, BasesInOrder, End, CompleteIn, Complete, Within

(* A step of a run that goes on *)
LEMMA RunFollows ==
    ASSUME AdminsFollow, pc \notin {"idle", "uptodate"},
           UNCHANGED <<inputs, state, verified, cmd, cur>>,
           pc' \notin {"idle", "uptodate", "record"},
           pc' # "load" => ~Has("db"), pc' \in {"aside", "rebuild"} => Simple,
           Low # 0 /\ BuildIsCurrent => BuildIsCurrent'
    PROVE  AdminsFollow'
<1>1. BasesInOrder'
  BY DEF AdminsFollow, BasesInOrder, Has, Simple, IsUpdate
<1>2. Low' = Low
  BY DEF Low, Has
<1>3. (state.base # 0 => CompleteIn(verified, state.base))'
  BY DEF AdminsFollow, CompleteIn, Complete, Within
<1> QED
  BY <1>1, <1>2, <1>3 DEF AdminsFollow

LEMMA ImportFollows ==
    ASSUME TypeOK, ValhallaLocal, AdminsFollow, UpdateOnly, Import
    PROVE  AdminsFollow'
<1>1. /\ pc = "import" /\ pc' = "load"
      /\ build' = [Empty EXCEPT !["pbf"] = MergedPbf(inputs)]
      /\ UNCHANGED <<inputs, state, verified, cmd, cur>>
  BY DEF Import, AfterImport, Goto, UpdateOnly
<1>2. build'["pbf"] = MergedPbf(inputs)
  BY <1>1, ProductTypes, Replace DEF Items
<1>3. Within(inputs.base, cur.base)
  BY <1>1, Bases DEF AdminsFollow, BasesInOrder, Within
<1>4. Extract(build["pbf"])'
  BY <1>1, <1>2, <1>3 DEF Extract, MergedPbf, Within, Has
<1> QED
  BY <1>1, <1>4, RunFollows DEF BuildIsCurrent

LEMMA LoadFollows ==
    ASSUME TypeOK, ValhallaLocal, AdminsFollow, UpdateOnly, LoadDb
    PROVE  AdminsFollow'
<1>1. pc = "load" /\ UNCHANGED <<inputs, state, verified, build>>
  BY DEF LoadDb, disk
<1>2. CASE Has("db")
  BY <1>1, <1>2, EndFollows DEF LoadDb, UpdateOnly
<1>3. CASE ~Has("db")
  <2>1. pc' = "build" /\ UNCHANGED <<cmd, cur>>
    BY <1>3 DEF LoadDb, AfterLoad, Goto, UpdateOnly
  <2>2. BuildIsCurrent => BuildIsCurrent'
    BY <1>1, <1>3, <2>1 DEF BuildIsCurrent, Extract, Within, Has
  <2> QED
    BY <1>1, <1>3, <2>1, <2>2, RunFollows
<1> QED
  BY <1>2, <1>3

(* The admin database that is copied belongs to the recorded release, and   *)
(* is copied only when the recorded extract is the current one.             *)
LEMMA SeedIsCurrent ==
    ASSUME TypeOK, UpdateOnly, AdminsFollow, pc \notin {"idle", "uptodate"},
           NEW pbf \in Product, Extract(pbf), Low # 0, NEW seed,
           IF Has("tiles") \/ ~PbfChanged
           THEN state.base # 0 => seed = verified["admins"]
           ELSE ~IsThere(seed)
    PROVE  CompleteIn(Built(pbf, AdminsAfterBuild(seed, pbf)), Low)
<1> DEFINE adm == AdminsAfterBuild(seed, pbf)
<1>1. adm.kind = "whole" /\ Within(adm.base, Low)
  <2>1. CASE Has("tiles") \/ ~PbfChanged
    <3>1. state.base # 0 /\ Low = state.base
      BY <2>1, Bases DEF AdminsFollow, BasesInOrder, Low, PbfChanged, PbfChangedFor, Has
    <3>2. CompleteIn(verified, state.base) /\ seed = verified["admins"]
      BY <2>1, <3>1 DEF AdminsFollow
    <3>3. seed.kind = "whole" /\ Within(seed.base, Low)
      BY <3>1, <3>2 DEF CompleteIn, Complete
    <3> QED
      BY <3>3 DEF AdminsAfterBuild, IsThere
  <2>2. CASE ~(Has("tiles") \/ ~PbfChanged)
    <3>1. adm = AdminDb(pbf.base)
      BY <2>2 DEF AdminsAfterBuild, BuildAdmins
    <3>2. Within(pbf.base, Low)
      BY <2>2 DEF Extract, Low
    <3> QED
      BY <3>1, <3>2 DEF AdminDb
  <2> QED
    BY <2>1, <2>2
<1> QED
  BY <1>1, BuiltComplete DEF Extract

LEMMA BuildFollows ==
    ASSUME TypeOK, AdminsFollow, UpdateOnly, ReleaseIsSafe, BuildTiles \/ SkipBuild
    PROVE  AdminsFollow'
<1>0. /\ pc = "build" /\ pc' = "clear" /\ UNCHANGED <<inputs, state, verified, cmd, cur>>
  BY DEF BuildTiles, SkipBuild, Goto
<1>1. ~Has("db")
  BY <1>0 DEF AdminsFollow, BasesInOrder
<1>2. build["pbf"] \in Product /\ build \in Directory
  BY Bases DEF TypeOK, Items
<1>3. Low' = Low /\ (Simple' <=> Simple)
  BY <1>0 DEF Low, Has, Simple, IsUpdate
<1>4. CASE BuildTiles
  <2> DEFINE seed == IF CopyAdmins THEN live["admins"] ELSE Absent
  <2>1. build' = Built(build["pbf"], AdminsAfterBuild(seed, build["pbf"])) /\ ~Simple
    BY <1>4 DEF BuildTiles
  <2>2. ASSUME Has("tiles") \/ ~PbfChanged, state.base # 0
        PROVE  seed = verified["admins"]
    <3>1. CompleteIn(verified, state.base)
      BY <2>2 DEF AdminsFollow
    <3>2. Kept /\ IsThere(verified["admins"])
      BY <1>0, <3>1 DEF ReleaseIsSafe, Settled, HasRelease, CompleteIn, Complete, IsThere
    <3> QED
      BY <2>2, <3>2 DEF CopyAdmins, Kept, Items
  <2>3. ~(Has("tiles") \/ ~PbfChanged) => ~IsThere(seed)
    BY DEF CopyAdmins, UpdateOnly, IsThere, Absent
  <2> HIDE DEF seed
  <2>4. ASSUME Low # 0, BuildIsCurrent PROVE CompleteIn(build', Low)
    <3>1. Extract(build["pbf"])
      BY <1>0, <1>1, <2>4 DEF BuildIsCurrent
    <3> QED
      BY <1>0, <1>2, <2>1, <2>2, <2>3, <2>4, <3>1, SeedIsCurrent
  <2>5. Low # 0 /\ BuildIsCurrent => BuildIsCurrent'
    BY <1>0, <1>3, <2>1, <2>4 DEF BuildIsCurrent, CompleteIn, Complete, Within
  <2> QED
    BY <1>0, <1>1, <2>5, RunFollows
<1>5. CASE SkipBuild
  <2>1. Simple /\ build'["pbf"] = build["pbf"]
    BY <1>2, <1>5, Replace DEF SkipBuild, Items
  <2>2. Low # 0 /\ BuildIsCurrent => BuildIsCurrent'
    BY <1>0, <1>1, <1>3, <2>1 DEF BuildIsCurrent, Extract, Within, Has
  <2> QED
    BY <1>0, <1>1, <2>2, RunFollows
<1> QED
  BY <1>4, <1>5

(* Clearing .old, stopping the server, and moving aside leave the build.    *)
LEMMA KeepBuildFollows ==
    ASSUME TypeOK, AdminsFollow, ClearOld \/ Stop \/ SimpleAside
    PROVE  AdminsFollow'
<1>0. UNCHANGED <<inputs, state, verified, cmd, cur, build>>
  BY DEF ClearOld, Stop, StopValhalla, SimpleAside, Goto, disk
<1>1. /\ pc \in {"clear", "stop", "aside"}
      /\ pc' = (IF pc = "clear" THEN "stop"
                ELSE IF pc = "aside" \/ Simple THEN "aside" ELSE "swap")
      /\ pc = "stop" => i' = 1
  BY DEF ClearOld, Stop, StopValhalla, SimpleAside, Goto
<1>2. ~Has("db") /\ (pc = "aside" => Simple)
  BY <1>1 DEF AdminsFollow, BasesInOrder
<1>3. Low' = Low /\ (Simple' <=> Simple)
  BY <1>0 DEF Low, Has, Simple, IsUpdate
<1>4. Low # 0 /\ BuildIsCurrent => BuildIsCurrent'
  <2> SUFFICES ASSUME Low # 0, BuildIsCurrent PROVE BuildIsCurrent'
    OBVIOUS
  <2>1. CASE Simple
    BY <1>0, <1>1, <1>2, <1>3, <2>1 DEF BuildIsCurrent, Extract, Within, Has
  <2>2. CASE ~Simple
    <3>1. CompleteIn(build, Low)
      BY <1>1, <1>2, <2>2 DEF BuildIsCurrent
    <3>2. CompleteIn(build, Low)'
      BY <1>0, <1>3, <3>1 DEF CompleteIn, Complete, Within
    <3>3. pc' = "swap" => i' = 1
      BY <1>1, <1>2
    <3>4. pc' \in {"stop", "swap"}
      BY <1>1, <1>2, <2>2
    <3> QED
      BY <1>3, <2>2, <3>2, <3>3, <3>4 DEF BuildIsCurrent, CompleteIn
  <2> QED
    BY <2>1, <2>2
<1> QED
  BY <1>0, <1>1, <1>2, <1>4, RunFollows

(* promote_build moves in whole items: none of the three is left out. *)
LEMMA PromoteFollows ==
    ASSUME TypeOK, AdminsFollow, Promote
    PROVE  AdminsFollow'
<1>0. /\ pc = "swap" /\ pc' = "swap" /\ i \in 1..4
      /\ UNCHANGED <<inputs, state, verified, cmd, cur>>
  BY LoopItems DEF Promote, MoveAside, MoveIn, KeepItem, MoreItems, Goto, local, history, TypeOK
<1>1. ~Has("db")
  BY <1>0 DEF AdminsFollow, BasesInOrder
<1>2. Low' = Low
  BY <1>0 DEF Low, Has
<1>3. live \in Directory /\ build \in Directory
  BY DEF TypeOK
<1> DEFINE it == TileItems[i]
<1>4. /\ it \in Items /\ Item = it
      /\ it = "tar" <=> i = 2
      /\ it = "admins" <=> i = 3
      /\ it = "pbf" <=> i = 4
  <2>1. i = 1 \/ i = 2 \/ i = 3 \/ i = 4
    BY <1>0
  <2> QED
    BY <2>1, LoopItems DEF Item
<1> DEFINE at(n, item, l, b, k) == IF k > n THEN l[item] ELSE b[item]
<1>5. ASSUME NEW n \in {2, 3, 4}, NEW item \in Items, it = item <=> i = n,
             at(n, item, live, build, i).kind = "whole"
      PROVE  at(n, item, live', build', i') = at(n, item, live, build, i)
  <2>1. CASE MoveAside
    <3>1. live' = [live EXCEPT ![it] = Absent] /\ build' = build /\ i' = i
      BY <1>4, <2>1 DEF MoveAside, local
    <3>2. item # it => live'[item] = live[item]
      BY <1>3, <1>4, <3>1, Replace
    <3> QED
      BY <1>0, <1>5, <3>1, <3>2
  <2>2. CASE MoveIn
    <3>1. /\ live' = [live EXCEPT ![it] = build[it]] /\ build' = [build EXCEPT ![it] = Absent]
          /\ i' = i + 1
      BY <1>4, <2>2 DEF MoveIn
    <3>2. /\ live'[it] = build[it]
          /\ item # it => live'[item] = live[item] /\ build'[item] = build[item]
      BY <1>3, <1>4, <3>1, Replace
    <3>3. CASE i = n
      BY <1>0, <1>5, <3>1, <3>2, <3>3
    <3>4. CASE i # n
      BY <1>0, <1>5, <3>1, <3>2, <3>4
    <3> QED
      BY <3>3, <3>4
  <2>3. CASE KeepItem
    <3>1. ~IsThere(build[it]) /\ live' = live /\ build' = build /\ i' = i + 1
      BY <1>4, <2>3 DEF KeepItem, disk
    <3>2. i # n
      <4> SUFFICES ASSUME i = n PROVE FALSE
        OBVIOUS
      <4>1. at(n, item, live, build, i) = build[it]
        BY <1>0, <1>5
      <4> QED
        BY <1>5, <3>1, <4>1 DEF IsThere
    <3> QED
      BY <1>0, <1>5, <3>1, <3>2
  <2> QED
    BY <2>1, <2>2, <2>3 DEF Promote
<1>6. Low # 0 /\ BuildIsCurrent => BuildIsCurrent'
  <2> SUFFICES ASSUME Low # 0, BuildIsCurrent PROVE BuildIsCurrent'
    OBVIOUS
  <2>1. Complete(at(2, "tar", live, build, i), at(3, "admins", live, build, i),
                 at(4, "pbf", live, build, i), Low)
    BY <1>0 DEF BuildIsCurrent
  <2>2. /\ at(2, "tar", live', build', i') = at(2, "tar", live, build, i)
        /\ at(3, "admins", live', build', i') = at(3, "admins", live, build, i)
        /\ at(4, "pbf", live', build', i') = at(4, "pbf", live, build, i)
    <3> HIDE DEF at, it
    <3>1. "tar" \in Items /\ "admins" \in Items /\ "pbf" \in Items
      BY DEF Items
    <3> QED
      BY <1>4, <1>5, <2>1, <3>1 DEF Complete
  <2>3. Complete(IF i > 2 THEN live["tar"] ELSE build["tar"],
                 IF i > 3 THEN live["admins"] ELSE build["admins"],
                 IF i > 4 THEN live["pbf"] ELSE build["pbf"], Low)'
    BY <1>0, <1>2, <2>1, <2>2 DEF Complete, Within
  <2> QED
    BY <1>0, <2>3 DEF BuildIsCurrent
<1> QED
  BY <1>0, <1>1, <1>6, RunFollows

LEMMA InPlaceFollows ==
    ASSUME TypeOK, AdminsFollow, UpdateOnly, Safe, CopyPbf \/ Rebuild \/ RebuildFails
    PROVE  AdminsFollow'
<1>0. /\ pc \in {"aside", "rebuild"} /\ UNCHANGED <<inputs, state, verified, cmd, cur>>
  BY DEF CopyPbf, Rebuild, RebuildFails, Goto
<1>1. ~Has("db") /\ Simple
  BY <1>0 DEF AdminsFollow, BasesInOrder
<1>2. Low' = Low
  BY <1>0 DEF Low, Has
<1>3. CASE CopyPbf
  <2>1. pc = "aside" /\ pc' = "rebuild" /\ live' = [live EXCEPT !["pbf"] = build["pbf"]]
    BY <1>3 DEF CopyPbf, Goto
  <2>2. live'["pbf"] = build["pbf"]
    <3>1. live \in Directory /\ "pbf" \in Items
      BY DEF TypeOK, Items
    <3> QED
      BY <2>1, <3>1, Replace
  <2>3. Low # 0 /\ BuildIsCurrent => BuildIsCurrent'
    BY <1>0, <1>1, <2>1, <2>2 DEF BuildIsCurrent, Extract, Within, Has
  <2> QED
    BY <1>0, <1>1, <2>1, <2>3, RunFollows
<1>4. CASE Rebuild
  <2>1. /\ pc = "rebuild" /\ pc' = "up"
        /\ live' = Built(live["pbf"], AdminsAfterBuild(live["admins"], live["pbf"]))
    BY <1>4 DEF Rebuild, Goto
  <2>2. ~Has("tiles") /\ live["pbf"] \in Product
    BY <1>1, Bases DEF Simple, TypeOK, Items
  <2>3. PbfChanged => ~IsThere(live["admins"])
    BY <2>1 DEF Safe, BackupIsSafe
  <2>4. ASSUME ~PbfChanged, state.base # 0
        PROVE  live["admins"] = verified["admins"]
    <3>1. CompleteIn(verified, state.base)
      BY <2>4 DEF AdminsFollow
    <3>2. Recoverable /\ IsThere(verified["admins"])
      BY <2>1, <3>1 DEF Safe, ReleaseIsSafe, Moving, HasRelease, CompleteIn, Complete, IsThere
    <3>3. ~IsThere(old["admins"])
      BY <2>1, <2>4 DEF Safe, BackupIsSafe
    <3> QED
      BY <3>2, <3>3 DEF Recoverable, Items
  <2>5. ASSUME Low # 0, BuildIsCurrent PROVE CompleteIn(live', Low)
    <3>1. Extract(live["pbf"])
      BY <2>1, <2>5 DEF BuildIsCurrent
    <3> QED
      BY <2>1, <2>2, <2>3, <2>4, <2>5, <3>1, SeedIsCurrent
  <2>6. Low # 0 /\ BuildIsCurrent => BuildIsCurrent'
    BY <1>0, <1>2, <2>1, <2>5 DEF BuildIsCurrent, CompleteIn, Complete, Within
  <2> QED
    BY <1>0, <1>1, <2>1, <2>6, RunFollows
<1>5. CASE RebuildFails
  <2>1. pc' = "rbStop"
    BY <1>5 DEF RebuildFails, Goto
  <2> QED
    BY <1>0, <1>1, <2>1, RunFollows DEF BuildIsCurrent
<1> QED
  BY <1>3, <1>4, <1>5

LEMMA UpFollows ==
    ASSUME TypeOK, AdminsFollow, Up \/ RollbackUp
    PROVE  AdminsFollow'
<1>0. /\ pc \in {"up", "swap", "rbSwap"} /\ pc' \in {"health", "rbHealth"} /\ ComposeUp
      /\ UNCHANGED <<inputs, state, verified, cmd, cur, i, build>>
  BY DEF Up, RollbackUp, Goto
<1>1. ~Has("db")
  BY <1>0 DEF AdminsFollow, BasesInOrder
<1>2. Low' = Low
  BY <1>0 DEF Low, Has
<1>3. CASE Up
  <2>0. Len(TileItems) = 4 /\ i \in 1..5
    BY LoopItems DEF TypeOK
  <2>1. pc' = "health" /\ (pc = "up" \/ (pc = "swap" /\ i > 4))
    <3>1. pc' = "health" /\ (pc = "up" \/ (pc = "swap" /\ ~MoreItems))
      BY <1>3 DEF Up, Goto
    <3>2. ~MoreItems => i > 4
      BY <2>0 DEF MoreItems
    <3> QED
      BY <3>1, <3>2
  <2>2. Low # 0 /\ BuildIsCurrent => CompleteIn(live, Low)
    BY <2>0, <2>1 DEF BuildIsCurrent, CompleteIn
  <2>3. CompleteIn(live, Low) => live' = live
    BY <1>0, OpenedWhole DEF ComposeUp, CompleteIn, Complete
  <2>4. Low # 0 /\ BuildIsCurrent => CompleteIn(live, Low)'
    BY <1>0, <1>2, <2>2, <2>3 DEF CompleteIn, Complete, Within
  <2> QED
    BY <1>0, <1>1, <2>1, <2>4, RunFollows DEF BuildIsCurrent
<1>4. CASE RollbackUp
  <2>1. pc' = "rbHealth"
    BY <1>4 DEF RollbackUp, Goto
  <2> QED
    BY <1>0, <1>1, <2>1, RunFollows DEF BuildIsCurrent
<1> QED
  BY <1>3, <1>4

(* What passes the health check becomes the release to go back to. *)
LEMMA HealthyFollows ==
    ASSUME TypeOK, AdminsFollow, UpdateOnly, Healthy
    PROVE  AdminsFollow'
<1>1. pc = "health" /\ verified' = live /\ UNCHANGED <<inputs, state, live>>
  BY DEF Healthy
<1>2. Low # 0 => CompleteIn(live, Low)
  BY <1>1 DEF AdminsFollow, BuildIsCurrent
<1>3. cur.base >= 1 /\ state.base <= cur.base
  BY <1>1 DEF AdminsFollow, BasesInOrder
<1>4. state.base # 0 => CompleteIn(live, state.base)
  <2>1. state.base # 0 => Low # 0 /\ state.base <= Low
    BY <1>3, Bases DEF Low
  <2> QED
    BY <1>2, <2>1, Bases, CompleteTrans DEF TypeOK
<1>5. (state.base # 0 => CompleteIn(verified, state.base))'
  BY <1>1, <1>4 DEF CompleteIn, Complete, Within
<1>6. CASE Has("tiles")
  <2>1. End("ok")
    BY <1>6 DEF Healthy, AfterHealthy, UpdateOnly
  <2> QED
    BY <1>1, <1>5, <2>1 DEF AdminsFollow, BasesInOrder, End
<1>7. CASE ~Has("tiles")
  <2>1. pc' = "record" /\ UNCHANGED <<cmd, cur>>
    BY <1>7 DEF Healthy, AfterHealthy, UpdateOnly, Goto
  <2>2. CompleteIn(live, cur.base)
    BY <1>2, <1>3, <1>7, Bases DEF Low
  <2>3. CompleteIn(verified, cur.base)'
    BY <1>1, <2>1, <2>2 DEF CompleteIn, Complete, Within
  <2>4. BasesInOrder' /\ BuildIsCurrent'
    BY <1>1, <1>7, <2>1 DEF AdminsFollow, BasesInOrder, BuildIsCurrent, Has
  <2> QED
    BY <1>5, <2>1, <2>3, <2>4 DEF AdminsFollow
<1> QED
  BY <1>6, <1>7

(* A rollback only has to leave what is verified. *)
LEMMA RollbackFollows ==
    ASSUME AdminsFollow, UpdateOnly,
           Unhealthy \/ RollbackStop \/ MoveFailed \/ Restore \/ NotBackedUp
             \/ RollbackHealthy \/ RollbackUnhealthy
    PROVE  AdminsFollow'
<1>0. /\ pc \in {"health", "rbStop", "rbSwap", "rbHealth"}
      /\ UNCHANGED <<inputs, state, verified>>
  BY DEF Unhealthy, RollbackStop, StopValhalla, MoveFailed, Restore, NotBackedUp,
         RollbackHealthy, RollbackUnhealthy, history, UpdateOnly
<1>1. ~Has("db")
  BY <1>0 DEF AdminsFollow, BasesInOrder
<1>2. \/ End("ok") \/ End("failed")
      \/ pc' \in {"rbStop", "rbSwap"} /\ UNCHANGED <<cmd, cur>>
  BY DEF Unhealthy, RollbackStop, StopValhalla, MoveFailed, Restore, NotBackedUp,
         RollbackHealthy, RollbackUnhealthy, Goto, local
<1>3. CASE End("ok") \/ End("failed")
  BY <1>0, <1>3, EndFollows
<1>4. CASE pc' \in {"rbStop", "rbSwap"} /\ UNCHANGED <<cmd, cur>>
  BY <1>0, <1>1, <1>4, RunFollows DEF BuildIsCurrent
<1> QED
  BY <1>2, <1>3, <1>4

(* write_state records the bases that what passed the health check is from. *)
LEMMA RecordFollows ==
    ASSUME AdminsFollow, UpdateOnly, WriteState
    PROVE  AdminsFollow'
<1>1. /\ pc = "record" /\ pc' = "idle" /\ state' = cur
      /\ UNCHANGED <<inputs, verified>>
  BY DEF WriteState, StateToWrite, UpdateOnly, End
<1>2. CompleteIn(verified, cur.base) /\ BasesInOrder
  BY <1>1 DEF AdminsFollow
<1>3. CompleteIn(verified, state.base)'
  BY <1>1, <1>2 DEF CompleteIn, Complete, Within
<1>4. BasesInOrder'
  BY <1>1, <1>2 DEF BasesInOrder
<1> QED
  BY <1>1, <1>3, <1>4 DEF AdminsFollow

LEMMA AdminStep ==
    ASSUME HandledFaults, ~Revert, TypeOK, SafeInv, AdminInv, [Next]_vars
    PROVE  AdminInv'
<1> SUFFICES ASSUME ValhallaLocal, ~mixed' PROVE AdminsFollow'
  BY DEF AdminInv
<1>1. CASE UNCHANGED vars
  <2>1. AdminsFollow
    BY <1>1 DEF AdminInv, vars, history
  <2> QED
    BY <1>1, <2>1 DEF AdminsFollow, BasesInOrder, CompleteIn, Complete, Within, Low, Has,
       BuildIsCurrent, Extract, Simple, IsUpdate, vars, disk, local, history
<1>2. ~mixed /\ UpdateOnly /\ (UpdateStep \/ UNCHANGED vars)
  BY UpdateSteps DEF SafeInv
<1>3. AdminsFollow /\ Safe
  BY <1>2 DEF AdminInv, SafeInv, Safe
<1>4. ASSUME NEW v \in Versions, ReplaceInputs(v) PROVE AdminsFollow'
  BY <1>3, <1>4, InputsFollow
<1>5. ASSUME NEW c \in Commands,
             StartDbOnly(c) \/ StartTilesOnly(c) \/ StartUpToDate(c) \/ StartFull(c)
      PROVE  AdminsFollow'
  BY <1>3, <1>5, StartFollows DEF Safe
<1>6. CASE UpToDate \/ CommandFails
  BY <1>3, <1>6, EndFollows DEF UpToDate, CommandFails
<1>7. CASE Import \/ LoadDb
  BY <1>2, <1>3, <1>7, ImportFollows, LoadFollows
<1>8. CASE BuildTiles \/ SkipBuild
  BY <1>2, <1>3, <1>8, BuildFollows DEF Safe
<1>9. CASE ClearOld \/ Stop \/ SimpleAside
  BY <1>3, <1>9, KeepBuildFollows
<1>10. CASE Promote
  BY <1>3, <1>10, PromoteFollows
<1>11. CASE CopyPbf \/ Rebuild \/ RebuildFails
  BY <1>2, <1>3, <1>11, InPlaceFollows
<1>12. CASE Up \/ RollbackUp
  BY <1>3, <1>12, UpFollows
<1>13. CASE Healthy
  BY <1>2, <1>3, <1>13, HealthyFollows
<1>14. CASE \/ Unhealthy \/ RollbackStop \/ MoveFailed \/ Restore \/ NotBackedUp
            \/ RollbackHealthy \/ RollbackUnhealthy
  BY <1>2, <1>3, <1>14, RollbackFollows
<1>15. CASE WriteState
  BY <1>2, <1>3, <1>15, RecordFollows
<1> QED
  BY <1>1, <1>2, <1>4, <1>5, <1>6, <1>7, <1>8, <1>9, <1>10, <1>11, <1>12, <1>13, <1>14, <1>15
     DEF UpdateStep, InPlace, Rollback

LEMMA InitAdmin == Init => AdminInv
<1> SUFFICES ASSUME Init PROVE AdminsFollow
  BY DEF AdminInv
<1>1. BasesInOrder /\ pc = "idle"
  BY DEF Init, BasesInOrder, Nothing
<1>2. state.base # 0 => CompleteIn(verified, state.base)
  <2>1. CASE state = Nothing
    BY <2>1 DEF Nothing
  <2>2. CASE live = Installed /\ state = inputs
    BY <2>2 DEF Init, Installed, CompleteIn, Complete, Within, AdminDb, MergedPbf
  <2> QED
    BY <2>1, <2>2 DEF Init
<1> QED
  BY <1>1, <1>2 DEF AdminsFollow

-----------------------------------------------------------------------------
(* custom_files holds one build: setups and rollbacks included. *)

(* The steps of the scripts when every fault is one they handle. *)
LEMMA HandledSteps ==
    ASSUME HandledFaults, [Next]_vars
    PROVE  \/ UNCHANGED vars \/ (\E v \in Versions : ReplaceInputs(v))
           \/ \E c \in Commands : Start(c)
           \/ Script
           \/ RebuildFails \/ Unhealthy \/ RollbackUnhealthy \/ CommandFails
  BY DEF Next, Failure, UnhandledFails, Kill, Fault, HandledFaults

Same(p, q) == q = p \/ (~IsThere(p) /\ ~IsThere(q))

(* What was sound stays so while what is verified does. *)
LEMMA SoundStep ==
    ASSUME TypeOK, NEW tiles, NEW tar, NEW pbf, Sound(tiles, tar, pbf),
           NEW tiles2, NEW tar2, NEW pbf2, Same(tiles, tiles2), Same(tar, tar2), Same(pbf, pbf2),
           UNCHANGED verified, faults' \in {faults, faults + 1},
           faults' <= Forgiven' => faults <= Forgiven
    PROVE  Sound(tiles2, tar2, pbf2)'
<1>1. faults \in Nat
  BY DEF TypeOK
<1>2. Coherent(tiles2, tar2, pbf2)'
  BY <1>1 DEF Sound, Coherent, Same, IsBuild, IsWreck, BuiltFrom, IsThere
<1>3. IsBuild(tiles, tar, pbf) => IsBuild(tiles2, tar2, pbf2)
  BY DEF Same, IsBuild, BuiltFrom, IsThere
<1> QED
  BY <1>2, <1>3 DEF Sound, HasRelease, IsBuild

LEMMA ForgivenStep ==
    ASSUME TypeOK, faults' \in {faults, faults + 1},
           \/ UNCHANGED <<cmd, pc>>
           \/ UNCHANGED cmd /\ pc' \in {"rbStop", "rbSwap", "rbHealth"}
           \/ UNCHANGED cmd /\ pc \notin {"rbStop", "rbSwap", "rbHealth"}
           \/ pc \notin {"rbStop", "rbSwap", "rbHealth"}
           \/ faults' = faults + 1
    PROVE  faults' <= Forgiven' => faults <= Forgiven
<1>1. faults \in Nat
  BY DEF TypeOK
<1> QED
  BY <1>1 DEF Forgiven, Has

(* promote_build, one item of its loop *)
LEMMA PromoteItem ==
    ASSUME TypeOK, Promote, NEW k \in {1, 2, 4}, NEW item \in Items, TileItems[k] = item,
           SwapClear(item, k), IsThere(After(item, k))
    PROVE  /\ SwapClear(item, k)'
           /\ After(item, k)' = After(item, k)
           /\ Same(Before(item, k), Before(item, k)')
<1>0. i \in 1..4 /\ Item \in Items /\ live \in Directory /\ old \in Directory
      /\ build \in Directory
  BY LoopItems DEF Promote, MoveAside, MoveIn, KeepItem, MoreItems, TypeOK, Item
<1>1. (Item = item) <=> i = k
  BY <1>0, ItemsDiffer DEF Item
<1> USE DEF SwapClear, After, Before, Same
<1> DEFINE it == Item
<1>2. CASE MoveAside
  <2>1. /\ live' = [live EXCEPT ![it] = Absent] /\ old' = [old EXCEPT ![it] = live[it]]
        /\ build' = build /\ i' = i /\ IsThere(live[it])
    BY <1>2 DEF MoveAside, local
  <2> HIDE DEF it
  <2>2. /\ live'[it] = Absent /\ old'[it] = live[it]
        /\ item # it => live'[item] = live[item] /\ old'[item] = old[item]
    BY <1>0, <2>1, Replace DEF it
  <2>3. CASE i = k
    BY <1>0, <1>1, <2>1, <2>2, <2>3, NotWhole DEF it, IsThere, Absent
  <2>4. CASE i # k
    BY <1>0, <1>1, <2>1, <2>2, <2>4 DEF it
  <2> QED
    BY <2>3, <2>4
<1>3. CASE MoveIn
  <2>1. /\ live' = [live EXCEPT ![it] = build[it]] /\ build' = [build EXCEPT ![it] = Absent]
        /\ old' = old /\ i' = i + 1 /\ ~IsThere(live[it])
    BY <1>3 DEF MoveIn
  <2> HIDE DEF it
  <2>2. /\ live'[it] = build[it]
        /\ item # it => live'[item] = live[item] /\ build'[item] = build[item]
    BY <1>0, <2>1, Replace DEF it
  <2>3. CASE i = k
    BY <1>0, <1>1, <2>1, <2>2, <2>3 DEF it
  <2>4. CASE i # k
    BY <1>0, <1>1, <2>1, <2>2, <2>4 DEF it
  <2> QED
    BY <2>3, <2>4
<1>4. CASE KeepItem
  <2>1. live' = live /\ old' = old /\ build' = build /\ i' = i + 1 /\ ~IsThere(build[it])
    BY <1>4 DEF KeepItem, disk
  <2> HIDE DEF it
  <2>2. i # k
    BY <1>1, <2>1 DEF it
  <2> QED
    BY <1>0, <2>1, <2>2
<1> QED
  BY <1>2, <1>3, <1>4 DEF Promote

OneFiles == ServerFollows /\ FilesAreOne /\ BackupIsOne

(* The steps that leave custom_files and the server alone *)
LEMMA RestOne ==
    ASSUME TypeOK, OneFiles, pc \in AtRest \ {"rbHealth"}, pc' \in AtRest \ {"rbHealth"},
           UNCHANGED <<live, valhalla, verified>>, faults' \in {faults, faults + 1},
           old' = old \/ old' = Empty, pc' = "stop" => old' = Empty
    PROVE  OneFiles'
<1>1. Sound(live["tiles"], live["tar"], live["pbf"])'
  <2>1. Sound(live["tiles"], live["tar"], live["pbf"])
    BY DEF OneFiles, FilesAreOne
  <2>2. faults' <= Forgiven' => faults <= Forgiven
    BY ForgivenStep DEF AtRest
  <2> QED
    BY <2>1, <2>2, SoundStep DEF Same
<1>2. Coherent(old["tiles"], old["tar"], old["pbf"])'
  <2>1. CASE old' = old
    BY <2>1 DEF OneFiles, FilesAreOne, Coherent, TypeOK
  <2>2. CASE old' = Empty
    BY <2>2, NotWhole DEF Coherent, Items, IsThere, Absent
  <2> QED
    BY <2>1, <2>2
<1> QED
  BY <1>1, <1>2 DEF OneFiles, FilesAreOne, BackupIsOne, ServerFollows, AtRest

(* Nothing that counts changes. *)
LEMMA QuietOne ==
    ASSUME OneFiles, UNCHANGED <<pc, i, cmd, cur, state, live, build, old, verified, valhalla, faults>>
    PROVE  OneFiles'
  BY DEF OneFiles, FilesAreOne, BackupIsOne, ServerFollows, Sound, Coherent, HasRelease,
     Forgiven, Has, Before, Restored, RestoredTar, SwapClear, AsideClear, GivenBack

LEMMA StartRollbackOne ==
    ASSUME TypeOK, OneFiles, NEW c \in Commands, StartRollback(c)
    PROVE  OneFiles'
<1>1. /\ pc = "idle" /\ pc' = "rbStop" /\ Has("rollback")'
      /\ UNCHANGED <<live, old, verified, faults>>
  BY DEF StartRollback, Begin, disk, Has
<1>2. /\ Coherent(old["tiles"], old["tar"], old["pbf"])
      /\ Sound(live["tiles"], live["tar"], live["pbf"])
      /\ faults \in Nat
  BY <1>1 DEF OneFiles, FilesAreOne, AtRest, TypeOK
<1>3. Sound(Restored("tiles"), RestoredTar, Restored("pbf"))'
  BY <1>1, <1>2 DEF Sound, Coherent, IsBuild, IsWreck, BuiltFrom, IsThere, Restored, RestoredTar,
     Forgiven, HasRelease
<1> QED
  BY <1>1, <1>3 DEF OneFiles, FilesAreOne, BackupIsOne, ServerFollows, AtRest

LEMMA StopOne ==
    ASSUME TypeOK, OneFiles, Stop
    PROVE  OneFiles'
<1>1. /\ pc = "stop" /\ pc' \in {"swap", "aside"} /\ i' = 1 /\ valhalla' = Absent
      /\ UNCHANGED <<live, old, cmd, verified, faults>>
  BY DEF Stop, StopValhalla, Goto, NoFault, disk
<1>2. old = Empty /\ Sound(live["tiles"], live["tar"], live["pbf"])
  BY <1>1 DEF OneFiles, FilesAreOne, BackupIsOne, AtRest
<1>3. Before("tiles", 1)' = live["tiles"] /\ Before("tar", 2)' = live["tar"]
      /\ Before("pbf", 4)' = live["pbf"] /\ Before("pbf", 3)' = live["pbf"]
  BY <1>1, <1>2, NotWhole DEF Before, Items, IsThere, Absent
<1>4. Sound(Before("tiles", 1), Before("tar", 2), Before("pbf", 4))'
      /\ Sound(Before("tiles", 1), Before("tar", 2), Before("pbf", 3))'
  <2>1. Forgiven' = Forgiven
    BY <1>1 DEF Forgiven, Has
  <2> QED
    BY <1>1, <1>2, <1>3, <2>1 DEF Sound, Coherent, HasRelease
<1>5. /\ SwapClear("tiles", 1)' /\ SwapClear("tar", 2)' /\ SwapClear("pbf", 4)'
      /\ AsideClear("tiles", 1)' /\ AsideClear("tar", 2)' /\ AsideClear("pbf", 3)'
  BY <1>1, <1>2, NotWhole DEF SwapClear, AsideClear, Items, IsThere, Absent
<1> QED
  BY <1>1, <1>4, <1>5 DEF OneFiles, FilesAreOne, BackupIsOne, ServerFollows, AtRest

LEMMA PromoteOne ==
    ASSUME TypeOK, OneFiles, BuildIsOne, Promote
    PROVE  OneFiles' /\ BuildIsOne'
<1>1. pc = "swap" /\ pc' = "swap" /\ UNCHANGED <<cmd, verified, valhalla, faults>>
  BY DEF Promote, MoveAside, MoveIn, KeepItem, NoFault, Goto, local, history
<1>2. IsBuild(After("tiles", 1), After("tar", 2), After("pbf", 4))
  BY <1>1 DEF BuildIsOne
<1>3. IsThere(After("tiles", 1)) /\ IsThere(After("tar", 2)) /\ IsThere(After("pbf", 4))
  BY <1>2 DEF IsBuild, BuiltFrom, IsThere
<1>4. SwapClear("tiles", 1) /\ SwapClear("tar", 2) /\ SwapClear("pbf", 4)
  BY <1>1 DEF OneFiles, BackupIsOne
<1>5. TileItems[1] = "tiles" /\ TileItems[2] = "tar" /\ TileItems[4] = "pbf"
      /\ "tiles" \in Items /\ "tar" \in Items /\ "pbf" \in Items
  BY DEF TileItems, Items
<1>6. /\ SwapClear("tiles", 1)' /\ After("tiles", 1)' = After("tiles", 1)
      /\ Same(Before("tiles", 1), Before("tiles", 1)')
  BY <1>3, <1>4, <1>5, PromoteItem
<1>7. /\ SwapClear("tar", 2)' /\ After("tar", 2)' = After("tar", 2)
      /\ Same(Before("tar", 2), Before("tar", 2)')
  BY <1>3, <1>4, <1>5, PromoteItem
<1>8. /\ SwapClear("pbf", 4)' /\ After("pbf", 4)' = After("pbf", 4)
      /\ Same(Before("pbf", 4), Before("pbf", 4)')
  BY <1>3, <1>4, <1>5, PromoteItem
<1>9. Sound(Before("tiles", 1), Before("tar", 2), Before("pbf", 4))
  BY <1>1 DEF OneFiles, BackupIsOne
<1>10. Sound(Before("tiles", 1), Before("tar", 2), Before("pbf", 4))'
  <2>1. faults' <= Forgiven' => faults <= Forgiven
    BY <1>1, ForgivenStep
  <2> QED
    BY <1>1, <1>6, <1>7, <1>8, <1>9, <2>1, SoundStep
<1>11. OneFiles'
  BY <1>1, <1>6, <1>7, <1>8, <1>10 DEF OneFiles, FilesAreOne, BackupIsOne, ServerFollows, AtRest
<1>12. BuildIsOne'
  BY <1>1, <1>2, <1>6, <1>7, <1>8 DEF BuildIsOne
<1> QED
  BY <1>11, <1>12

(* Moving aside for a --simple build *)
LEMMA AsideItem ==
    ASSUME TypeOK, SimpleAside, NEW k \in 1..3, NEW item \in Items, AsideItems[k] = item,
           AsideClear(item, k)
    PROVE  /\ AsideClear(item, k)'
           /\ Same(Before(item, k), Before(item, k)')
<1>0. /\ i \in 1..Len(AsideItems) /\ i' = i + 1
      /\ live \in Directory /\ old \in Directory
      /\ 3 <= Len(AsideItems) /\ Len(AsideItems) \in Nat
  BY ItemsDiffer DEF SimpleAside, TypeOK
<1> DEFINE it == AsideItems[i]
<1>1. (it = item <=> i = k) /\ it \in Items
  <2>1. k \in 1..Len(AsideItems)
    BY <1>0
  <2>2. \A j \in 1..4 : j = 1 \/ j = 2 \/ j = 3 \/ j = 4
    OBVIOUS
  <2>3. i \in 1..4
    BY <1>0, ItemsDiffer
  <2>4. i = 4 => PbfChanged
    BY <1>0, ItemsDiffer
  <2> QED
    BY <1>0, <2>1, <2>2, <2>3, <2>4, ItemsDiffer DEF Items
<1>2. IF IsThere(live[it])
      THEN /\ live' = [live EXCEPT ![it] = Absent] /\ old' = [old EXCEPT ![it] = live[it]]
      ELSE UNCHANGED <<old, live>>
  BY DEF SimpleAside
<1> HIDE DEF it
<1> USE DEF AsideClear, Before, Same
<1>3. CASE IsThere(live[it])
  <2>1. /\ live'[it] = Absent /\ old'[it] = live[it]
        /\ item # it => live'[item] = live[item] /\ old'[item] = old[item]
    <3>1. live' = [live EXCEPT ![it] = Absent] /\ old' = [old EXCEPT ![it] = live[it]]
      BY <1>2, <1>3
    <3>0. live \in Directory /\ old \in Directory /\ it \in Items
      BY <1>0, <1>1
    <3>2. live'[it] = Absent /\ old'[it] = live[it]
      BY <3>0, <3>1, Replace
    <3>3. item # it => live'[item] = live[item] /\ old'[item] = old[item]
      BY <1>0, <1>1, <3>1, Replace
    <3> QED
      BY <3>2, <3>3
  <2>2. CASE i = k
    BY <1>0, <1>1, <1>3, <2>1, <2>2 DEF IsThere, Absent
  <2>3. CASE i # k
    BY <1>0, <1>1, <2>1, <2>3
  <2> QED
    BY <2>2, <2>3
<1>4. CASE ~IsThere(live[it])
  <2>1. CASE i = k
    BY <1>0, <1>1, <1>2, <1>4, <2>1
  <2>2. CASE i # k
    BY <1>0, <1>1, <1>2, <1>4, <2>2
  <2> QED
    BY <2>1, <2>2
<1> QED
  BY <1>3, <1>4

LEMMA AsideOne ==
    ASSUME TypeOK, OneFiles, SimpleAside
    PROVE  OneFiles'
<1>1. pc = "aside" /\ pc' = "aside" /\ UNCHANGED <<cmd, verified, valhalla, faults>>
  BY DEF SimpleAside, NoFault, Goto
<1>2. AsideClear("tiles", 1) /\ AsideClear("tar", 2) /\ AsideClear("pbf", 3)
  BY <1>1 DEF OneFiles, BackupIsOne
<1>3. "tiles" \in Items /\ "tar" \in Items /\ "pbf" \in Items
  BY DEF Items
<1>4. /\ AsideClear("tiles", 1)' /\ Same(Before("tiles", 1), Before("tiles", 1)')
      /\ AsideClear("tar", 2)' /\ Same(Before("tar", 2), Before("tar", 2)')
      /\ AsideClear("pbf", 3)' /\ Same(Before("pbf", 3), Before("pbf", 3)')
  BY <1>2, <1>3, AsideItem, ItemsDiffer
<1>5. Sound(Before("tiles", 1), Before("tar", 2), Before("pbf", 3))
  BY <1>1 DEF OneFiles, BackupIsOne
<1>6. faults' <= Forgiven' => faults <= Forgiven
  BY <1>1, ForgivenStep
<1>7. Sound(Before("tiles", 1), Before("tar", 2), Before("pbf", 3))'
  BY <1>1, <1>4, <1>5, <1>6, SoundStep
<1> QED
  BY <1>1, <1>4, <1>7 DEF OneFiles, FilesAreOne, BackupIsOne, ServerFollows, AtRest

LEMMA CopyPbfOne ==
    ASSUME TypeOK, OneFiles, BuildIsOne, CopyPbf
    PROVE  OneFiles'
<1>1. /\ pc = "aside" /\ pc' = "rebuild" /\ live' = [live EXCEPT !["pbf"] = build["pbf"]]
      /\ UNCHANGED <<cmd, verified, valhalla, faults, old>> /\ i > Len(AsideItems)
  BY DEF CopyPbf, NoFault, Goto
<1>2. i > 3 /\ i \in Nat
  BY <1>1, ItemsDiffer DEF TypeOK
<1>3. live'["pbf"] = build["pbf"] /\ live'["tar"] = live["tar"]
  <2>1. live \in Directory /\ "pbf" \in Items /\ "tar" \in Items
    BY DEF TypeOK, Items
  <2> QED
    BY <1>1, <2>1, Replace
<1>4. ~IsThere(live["tar"]) /\ build["pbf"].kind = "whole"
  BY <1>1, <1>2 DEF OneFiles, BackupIsOne, AsideClear, BuildIsOne
<1>5. Sound(old["tiles"], old["tar"], old["pbf"])
  <2>1. Sound(Before("tiles", 1), Before("tar", 2), Before("pbf", 3))
    BY <1>1 DEF OneFiles, BackupIsOne
  <2> QED
    BY <1>2, <2>1 DEF Before
<1>6. Sound(old["tiles"], old["tar"], old["pbf"])'
  BY <1>1, <1>5 DEF Sound, Coherent, HasRelease, Forgiven, Has
<1> QED
  BY <1>1, <1>3, <1>4, <1>6 DEF OneFiles, FilesAreOne, BackupIsOne, ServerFollows, AtRest

(* What the builder writes belongs together. *)
LEMMA BuiltIsOne ==
    ASSUME NEW pbf \in Product, pbf.kind = "whole", NEW adm
    PROVE  LET dir == Built(pbf, adm) IN IsBuild(dir["tiles"], dir["tar"], dir["pbf"])
<1>1. /\ TilesFrom(pbf, adm).kind = "whole" /\ TilesFrom(pbf, adm).base = pbf.base
      /\ TilesFrom(pbf, adm).nhvr = pbf.nhvr
  BY DEF TilesFrom, Product
<1> QED
  BY <1>1 DEF Built, IsBuild, BuiltFrom

LEMMA RebuildOne ==
    ASSUME TypeOK, OneFiles, Rebuild \/ RebuildFails
    PROVE  OneFiles'
<1>0. /\ pc = "rebuild" /\ UNCHANGED <<cmd, verified, valhalla, old>>
      /\ faults \in Nat /\ faults' \in {faults, faults + 1}
  BY DEF Rebuild, RebuildFails, Goto, NoFault, Fault, TypeOK
<1>1. /\ Sound(old["tiles"], old["tar"], old["pbf"])
      /\ ~IsThere(live["tar"]) /\ live["pbf"].kind = "whole"
      /\ live["pbf"] \in Product /\ live \in Directory
  BY <1>0, Bases DEF OneFiles, FilesAreOne, BackupIsOne, TypeOK, Items
<1>2. CASE Rebuild
  <2>1. /\ pc' = "up" /\ faults' = faults
        /\ live' = Built(live["pbf"], AdminsAfterBuild(live["admins"], live["pbf"]))
    BY <1>2 DEF Rebuild, Goto, NoFault
  <2>2. IsBuild(live'["tiles"], live'["tar"], live'["pbf"])
    BY <1>1, <2>1, BuiltIsOne
  <2>3. Sound(old["tiles"], old["tar"], old["pbf"])'
    BY <1>0, <1>1, <2>1 DEF Sound, Coherent, HasRelease, Forgiven, Has
  <2> QED
    BY <1>0, <2>1, <2>2, <2>3 DEF OneFiles, FilesAreOne, BackupIsOne, ServerFollows, AtRest
<1>3. CASE RebuildFails
  <2>1. /\ pc' = "rbStop" /\ faults' = faults + 1
        /\ live' = [live EXCEPT !["tiles"] = Partial]
    BY <1>3 DEF RebuildFails, Goto, Fault
  <2>2. live'["tiles"] = Partial /\ live'["tar"] = live["tar"] /\ live'["pbf"] = live["pbf"]
    <3>1. "tiles" \in Items /\ "tar" \in Items /\ "pbf" \in Items
      BY DEF Items
    <3> QED
      BY <1>1, <2>1, <3>1, Replace
  <2>3. Sound(Restored("tiles"), RestoredTar, Restored("pbf"))'
    <3>1. Partial.kind = "partial"
      BY DEF Partial, Absent
    <3>2. HasRelease' /\ faults' <= Forgiven' => IsBuild(old["tiles"], old["tar"], old["pbf"])
      BY <1>0, <1>1, <2>1 DEF Sound, HasRelease, Forgiven
    <3>3. CASE ~IsThere(old["tar"])
      BY <1>0, <1>1, <2>1, <2>2, <3>1, <3>2, <3>3
         DEF Sound, Coherent, IsBuild, IsWreck, BuiltFrom, IsThere, Restored, RestoredTar
    <3>4. CASE IsThere(old["tar"])
      BY <1>0, <1>1, <2>1, <2>2, <3>2, <3>4
         DEF Sound, Coherent, IsBuild, IsWreck, BuiltFrom, IsThere, Restored, RestoredTar
    <3> QED
      BY <3>3, <3>4
  <2> QED
    BY <1>0, <2>1, <2>3 DEF OneFiles, FilesAreOne, BackupIsOne, ServerFollows, AtRest
<1> QED
  BY <1>2, <1>3

LEMMA UpOne ==
    ASSUME TypeOK, OneFiles, BuildIsOne, Up
    PROVE  OneFiles'
<1>0. Len(TileItems) = 4 /\ i \in 1..5
  BY LoopItems DEF TypeOK
<1>1. /\ pc' = "health" /\ UNCHANGED <<cmd, verified, old, faults>> /\ ComposeUp
      /\ pc = "up" \/ (pc = "swap" /\ ~MoreItems)
  BY DEF Up, Goto, NoFault
<1>2. pc = "swap" => i > 4
  BY <1>0, <1>1 DEF MoreItems
<1>3. /\ IsBuild(live["tiles"], live["tar"], live["pbf"])
      /\ Sound(old["tiles"], old["tar"], old["pbf"])
      /\ valhalla = Absent
  <2>1. CASE pc = "up"
    BY <2>1 DEF OneFiles, FilesAreOne, BackupIsOne, ServerFollows
  <2>2. CASE pc = "swap"
    <3>1. /\ Sound(Before("tiles", 1), Before("tar", 2), Before("pbf", 4))
          /\ IsBuild(After("tiles", 1), After("tar", 2), After("pbf", 4))
          /\ valhalla = Absent
      BY <2>2 DEF OneFiles, BackupIsOne, ServerFollows, BuildIsOne
    <3>2. i > 1 /\ i > 2 /\ i > 4
      BY <1>0, <1>2, <2>2
    <3> QED
      BY <3>1, <3>2 DEF Before, After
  <2> QED
    BY <1>1, <2>1, <2>2
<1>4. live' = live /\ valhalla' = live["tar"]
  BY <1>1, <1>3, OpenedWhole DEF ComposeUp, IsBuild, BuiltFrom
<1>5. Sound(old["tiles"], old["tar"], old["pbf"])'
  BY <1>1, <1>3 DEF Sound, Coherent, HasRelease, Forgiven, Has
<1> QED
  BY <1>1, <1>3, <1>4, <1>5 DEF OneFiles, FilesAreOne, BackupIsOne, ServerFollows, AtRest

LEMMA HealthyOne ==
    ASSUME TypeOK, OneFiles, Healthy
    PROVE  OneFiles'
<1>1. /\ pc = "health" /\ verified' = live /\ UNCHANGED <<live, valhalla, faults>>
      /\ old' = old \/ old' = Empty
      /\ pc' \in {"idle", "stackUp", "record"}
  BY DEF Healthy, NoFault, End, Goto, AfterHealthy
<1>2. /\ IsBuild(live["tiles"], live["tar"], live["pbf"])
      /\ Sound(old["tiles"], old["tar"], old["pbf"])
      /\ valhalla = live["tar"]
  BY <1>1 DEF OneFiles, FilesAreOne, BackupIsOne, ServerFollows
<1>3. Sound(live["tiles"], live["tar"], live["pbf"])'
  BY <1>1, <1>2 DEF Sound, Coherent
<1>4. Coherent(old["tiles"], old["tar"], old["pbf"])'
  <2>1. CASE old' = old
    BY <1>1, <1>2, <2>1 DEF Sound, Coherent
  <2>2. CASE old' = Empty
    BY <2>2, NotWhole DEF Coherent, Items, IsThere, Absent
  <2> QED
    BY <1>1, <2>1, <2>2
<1> QED
  BY <1>1, <1>2, <1>3, <1>4 DEF OneFiles, FilesAreOne, BackupIsOne, ServerFollows, AtRest

LEMMA UnhealthyOne ==
    ASSUME TypeOK, OneFiles, Unhealthy
    PROVE  OneFiles'
<1>1. /\ pc = "health" /\ faults' = faults + 1 /\ faults \in Nat
      /\ UNCHANGED <<live, old, valhalla, verified>>
      /\ pc' = "idle" \/ (pc' = "rbStop" /\ UNCHANGED cmd)
  BY DEF Unhealthy, Fault, End, Goto, disk, TypeOK
<1>2. /\ IsBuild(live["tiles"], live["tar"], live["pbf"])
      /\ Sound(old["tiles"], old["tar"], old["pbf"])
      /\ valhalla = live["tar"]
  BY <1>1 DEF OneFiles, FilesAreOne, BackupIsOne, ServerFollows
<1>3. /\ Coherent(live["tiles"], live["tar"], live["pbf"])'
      /\ Coherent(old["tiles"], old["tar"], old["pbf"])'
  BY <1>1, <1>2 DEF Sound, Coherent
<1>4. CASE pc' = "idle"
  <2>1. Sound(live["tiles"], live["tar"], live["pbf"])'
    BY <1>1, <1>2, <1>3 DEF Sound
  <2> QED
    BY <1>1, <1>2, <1>3, <1>4, <2>1
       DEF OneFiles, FilesAreOne, BackupIsOne, ServerFollows, AtRest
<1>5. CASE pc' = "rbStop"
  <2>1. HasRelease' /\ faults' <= Forgiven' => IsBuild(old["tiles"], old["tar"], old["pbf"])
    BY <1>1, <1>2, <1>5 DEF Sound, HasRelease, Forgiven
  <2>2. Sound(Restored("tiles"), RestoredTar, Restored("pbf"))'
    BY <1>1, <1>2, <1>3, <2>1
       DEF Sound, Coherent, IsBuild, IsWreck, BuiltFrom, IsThere, Restored, RestoredTar
  <2> QED
    BY <1>1, <1>5, <2>2 DEF OneFiles, FilesAreOne, BackupIsOne, ServerFollows, AtRest
<1> QED
  BY <1>1, <1>4, <1>5

LEMMA RollbackStopOne ==
    ASSUME TypeOK, OneFiles, RollbackStop
    PROVE  OneFiles'
<1>1. /\ pc = "rbStop" /\ pc' = "rbSwap" /\ i' = 1 /\ valhalla' = Absent
      /\ UNCHANGED <<live, old, cmd, verified, faults>>
  BY DEF RollbackStop, StopValhalla, Goto, NoFault, disk
<1>2. Sound(Restored("tiles"), RestoredTar, Restored("pbf"))'
  BY <1>1 DEF OneFiles, FilesAreOne, Sound, Coherent, HasRelease, Forgiven, Has, Restored,
     RestoredTar
<1> QED
  BY <1>1, <1>2 DEF OneFiles, FilesAreOne, BackupIsOne, ServerFollows, AtRest, GivenBack

(* rollback_build, one item of its loop *)
LEMMA RestoredItem ==
    ASSUME TypeOK, MoveFailed \/ Restore \/ NotBackedUp, NEW k \in 1..4, NEW item \in Items,
           TileItems[k] = item, GivenBack(item, k)
    PROVE  Restored(item)' = Restored(item) /\ GivenBack(item, k)'
<1>0. i \in 1..4 /\ Item \in Items /\ live \in Directory /\ old \in Directory
  BY LoopItems DEF MoveFailed, Restore, NotBackedUp, MoreItems, TypeOK, Item
<1>1. (Item = item) <=> i = k
  BY <1>0, ItemsDiffer DEF Item
<1> USE DEF GivenBack, Restored
<1> DEFINE it == Item
<1>2. CASE MoveFailed
  <2>1. live' = [live EXCEPT ![it] = Absent] /\ old' = old /\ i' = i /\ IsThere(old[it])
    BY <1>2 DEF MoveFailed, local
  <2> HIDE DEF it
  <2>2. item # it => live'[item] = live[item]
    BY <1>0, <2>1, Replace DEF it
  <2> QED
    BY <2>1, <2>2
<1>3. CASE Restore
  <2>1. /\ live' = [live EXCEPT ![it] = old[it]] /\ old' = [old EXCEPT ![it] = Absent]
        /\ i' = i + 1 /\ IsThere(old[it])
    BY <1>3 DEF Restore
  <2> HIDE DEF it
  <2>2. /\ live'[it] = old[it] /\ old'[it] = Absent
        /\ item # it => live'[item] = live[item] /\ old'[item] = old[item]
    BY <1>0, <2>1, Replace DEF it
  <2>3. CASE i = k
    BY <1>0, <1>1, <2>1, <2>2, <2>3 DEF it, IsThere, Absent
  <2>4. CASE i # k
    BY <1>0, <1>1, <2>1, <2>2, <2>4 DEF it
  <2> QED
    BY <2>3, <2>4
<1>4. CASE NotBackedUp
  <2>1. live' = live /\ old' = old /\ i' = i + 1 /\ ~IsThere(old[it])
    BY <1>4 DEF NotBackedUp, disk
  <2> HIDE DEF it
  <2> QED
    BY <1>0, <1>1, <2>1 DEF it
<1> QED
  BY <1>2, <1>3, <1>4

LEMMA RollbackOne ==
    ASSUME TypeOK, OneFiles, MoveFailed \/ Restore \/ NotBackedUp
    PROVE  OneFiles'
<1>1. pc = "rbSwap" /\ pc' = "rbSwap" /\ UNCHANGED <<cmd, verified, valhalla, faults>>
  BY DEF MoveFailed, Restore, NotBackedUp, NoFault, Goto, local, history
<1>2. /\ GivenBack("tiles", 1) /\ GivenBack("tar", 2) /\ GivenBack("pbf", 4)
      /\ Sound(Restored("tiles"), RestoredTar, Restored("pbf"))
  BY <1>1 DEF OneFiles, FilesAreOne, BackupIsOne
<1>3. TileItems[1] = "tiles" /\ TileItems[2] = "tar" /\ TileItems[4] = "pbf"
      /\ "tiles" \in Items /\ "tar" \in Items /\ "pbf" \in Items
      /\ 1 \in 1..4 /\ 2 \in 1..4 /\ 4 \in 1..4
  BY DEF TileItems, Items
<1>4. GivenBack("tiles", 1)' /\ Restored("tiles")' = Restored("tiles")
  BY <1>2, <1>3, RestoredItem
<1>5. GivenBack("tar", 2)' /\ Restored("tar")' = Restored("tar")
  BY <1>2, <1>3, RestoredItem
<1>6. GivenBack("pbf", 4)' /\ Restored("pbf")' = Restored("pbf")
  BY <1>2, <1>3, RestoredItem
<1>7. RestoredTar' = RestoredTar
  BY <1>4, <1>5 DEF RestoredTar
<1>8. Sound(Restored("tiles"), RestoredTar, Restored("pbf"))'
  BY <1>1, <1>2, <1>4, <1>6, <1>7 DEF Sound, Coherent, HasRelease, Forgiven, Has
<1> QED
  BY <1>1, <1>4, <1>5, <1>6, <1>8 DEF OneFiles, FilesAreOne, BackupIsOne, ServerFollows, AtRest

(* The started server opens what is there, and makes a missing tar. *)
LEMMA OpenedOne ==
    ASSUME live \in Directory, NEW tar, tar = (IF IsThere(live["tar"]) THEN live["tar"]
                                               ELSE live["tiles"]),
           Coherent(live["tiles"], tar, live["pbf"])
    PROVE  LET dir == Opened(live) IN
           /\ dir["tiles"] = live["tiles"] /\ dir["pbf"] = live["pbf"]
           /\ dir["tar"] = tar \/ (dir["tar"] = live["tar"] /\ ~IsThere(tar))
<1>1. "tiles" \in Items /\ "tar" \in Items /\ "pbf" \in Items
  BY DEF Items
<1>2. CASE IsThere(live["tar"])
  BY <1>2 DEF Opened
<1>3. CASE ~IsThere(live["tar"]) /\ IsThere(live["tiles"])
  <2>1. Opened(live) = [live EXCEPT !["tar"] = live["tiles"]]
    BY <1>3 DEF Opened
  <2> QED
    BY <1>1, <1>3, <2>1, Replace
<1>4. CASE ~IsThere(live["tar"]) /\ ~IsThere(live["tiles"])
  <2>1. ~IsThere(live["pbf"])
    BY <1>4 DEF Coherent, IsBuild, IsWreck, BuiltFrom, IsThere
  <2> QED
    BY <1>4, <2>1 DEF Opened
<1> QED
  BY <1>2, <1>3, <1>4

LEMMA RollbackUpOne ==
    ASSUME TypeOK, OneFiles, RollbackUp
    PROVE  OneFiles'
<1>0. Len(TileItems) = 4 /\ i \in 1..5 /\ live \in Directory
  BY LoopItems DEF TypeOK
<1>1. /\ pc = "rbSwap" /\ pc' = "rbHealth" /\ UNCHANGED <<cmd, verified, old, faults>>
      /\ ComposeUp /\ ~MoreItems
  BY DEF RollbackUp, Goto, NoFault
<1>2. i > 1 /\ i > 2 /\ i > 4
  BY <1>0, <1>1 DEF MoreItems
<1>3. ~IsThere(old["tiles"]) /\ ~IsThere(old["tar"]) /\ ~IsThere(old["pbf"])
  BY <1>1, <1>2 DEF OneFiles, BackupIsOne, GivenBack
<1> DEFINE tar == IF IsThere(live["tar"]) THEN live["tar"] ELSE live["tiles"]
<1>4. Sound(live["tiles"], tar, live["pbf"])
  <2>1. Sound(Restored("tiles"), RestoredTar, Restored("pbf"))
    BY <1>1 DEF OneFiles, FilesAreOne
  <2> QED
    BY <1>3, <2>1 DEF Restored, RestoredTar
<1>5. valhalla = Absent
  BY <1>1 DEF OneFiles, ServerFollows
<1>6. live' = Opened(live) /\ valhalla' = live'["tar"]
  BY <1>1, <1>5 DEF ComposeUp
<1> HIDE DEF tar
<1>7. /\ live'["tiles"] = live["tiles"] /\ live'["pbf"] = live["pbf"]
      /\ live'["tar"] = tar \/ (live'["tar"] = live["tar"] /\ ~IsThere(tar))
  BY <1>0, <1>4, <1>6, OpenedOne DEF tar, Sound
<1>8. Same(live["tiles"], live'["tiles"]) /\ Same(tar, live'["tar"])
      /\ Same(live["pbf"], live'["pbf"])
  BY <1>7 DEF Same, tar
<1>9. faults' <= Forgiven' => faults <= Forgiven
  BY <1>1, ForgivenStep
<1>10. Sound(live["tiles"], live["tar"], live["pbf"])'
  BY <1>1, <1>4, <1>8, <1>9, SoundStep
<1>11. Coherent(old["tiles"], old["tar"], old["pbf"])'
  BY <1>1, <1>3 DEF Coherent
<1> QED
  BY <1>1, <1>6, <1>10, <1>11 DEF OneFiles, FilesAreOne, BackupIsOne, ServerFollows, AtRest

LEMMA RollbackEndsOne ==
    ASSUME TypeOK, OneFiles, RollbackHealthy \/ RollbackUnhealthy
    PROVE  OneFiles'
<1>1. /\ pc = "rbHealth" /\ pc' = "idle" /\ UNCHANGED <<live, old, valhalla>>
      /\ faults \in Nat
  BY DEF RollbackHealthy, RollbackUnhealthy, End, disk, TypeOK
<1>2. /\ Sound(live["tiles"], live["tar"], live["pbf"])
      /\ Coherent(old["tiles"], old["tar"], old["pbf"])
      /\ valhalla = live["tar"]
  BY <1>1 DEF OneFiles, FilesAreOne, AtRest
<1>3. faults' \in {faults, faults + 1}
  BY DEF RollbackHealthy, RollbackUnhealthy, NoFault, Fault
<1>4. /\ Coherent(live["tiles"], live["tar"], live["pbf"])'
      /\ Coherent(old["tiles"], old["tar"], old["pbf"])'
  BY <1>1, <1>2, <1>3 DEF Sound, Coherent
<1>5. HasRelease' /\ faults' <= 1 => IsBuild(live["tiles"], live["tar"], live["pbf"])
  <2>1. CASE verified' = live
    BY <1>2, <2>1 DEF HasRelease, Sound, Coherent, IsBuild, IsWreck, IsThere
  <2>2. CASE verified' = verified /\ (RollbackUnhealthy \/ ~Has("rollback"))
    <3>1. faults' <= 1 => faults <= Forgiven
      BY <1>1, <1>3, <2>2 DEF Forgiven, RollbackUnhealthy, Fault
    <3> QED
      BY <1>2, <2>2, <3>1 DEF HasRelease, Sound
  <2> QED
    BY <2>1, <2>2 DEF RollbackHealthy, RollbackUnhealthy
<1>6. Sound(live["tiles"], live["tar"], live["pbf"])'
  BY <1>1, <1>4, <1>5 DEF Sound, Forgiven
<1> QED
  BY <1>1, <1>2, <1>4, <1>6 DEF OneFiles, FilesAreOne, BackupIsOne, ServerFollows, AtRest

-----------------------------------------------------------------------------
(* What is to be promoted is one build. *)

LEMMA QuietBuild ==
    ASSUME BuildIsOne, UNCHANGED <<pc, i, cmd, live, build>>
    PROVE  BuildIsOne'
  BY DEF BuildIsOne, AfterLoad, IsUpdate, Has, Simple, After

(* Steps that build nothing and start none. *)
LEMMA NoBuildOne ==
    ASSUME pc' \notin {"load", "build", "clear", "stop", "swap", "aside"}
    PROVE  BuildIsOne'
  BY DEF BuildIsOne

LEMMA StartBuild ==
    ASSUME TypeOK, OneFiles, NEW c \in Commands, Start(c)
    PROVE  BuildIsOne'
<1>0. pc = "idle" /\ cmd' = c
  BY DEF Start, StartRollback, StartDbOnly, StartTilesOnly, StartUpToDate, StartFull, StartSetup,
     Begin
<1>1. CASE StartRollback(c) \/ StartUpToDate(c)
  BY <1>1, NoBuildOne DEF StartRollback, StartUpToDate, Begin
<1>2. CASE StartDbOnly(c)
  BY <1>0, <1>2 DEF StartDbOnly, Begin, BuildIsOne, IsUpdate, Has
<1>3. CASE StartTilesOnly(c)
  <2>1. pc' = "build" /\ IsThere(live["pbf"])
        /\ build' = [Empty EXCEPT !["pbf"] = live["pbf"]]
    BY <1>3 DEF StartTilesOnly, Begin
  <2>2. Empty \in Directory /\ "pbf" \in Items
    BY ProductTypes DEF Items
  <2>3. build'["pbf"] = live["pbf"]
    BY <2>1, <2>2, Replace
  <2>4. live["pbf"].kind = "whole"
    BY <1>0, <2>1 DEF OneFiles, FilesAreOne, AtRest, Sound, Coherent, IsBuild, IsWreck
  <2> QED
    BY <2>1, <2>3, <2>4 DEF BuildIsOne
<1>4. CASE StartFull(c)
  <2>1. /\ pc' = (IF ValhallaLocal THEN "import" ELSE "load") /\ c.tool = "update"
    BY <1>4 DEF StartFull, IsFullUpdate, Begin
  <2> QED
    BY <1>0, <2>1 DEF BuildIsOne, AfterLoad, IsUpdate
<1>5. CASE StartSetup(c)
  <2>1. /\ pc' = (IF ValhallaLocal THEN "import"
                  ELSE IF "skipDb" \in c.flags THEN "stackUp" ELSE "load")
        /\ c.tool = "setup"
    BY <1>5 DEF StartSetup, Begin
  <2> QED
    BY <1>0, <2>1 DEF BuildIsOne, AfterLoad, IsUpdate
<1> QED
  BY <1>1, <1>2, <1>3, <1>4, <1>5 DEF Start

(* The extract of a run that goes on to build: imported, or the live one *)
LEMMA ExtractOne ==
    ASSUME TypeOK, OneFiles, Import \/ ReusePbf
    PROVE  BuildIsOne'
<1>1. /\ pc = "import" /\ UNCHANGED cmd /\ pc' = AfterImport
      /\ AfterImport = "load" \/ AfterImport = AfterLoad
      /\ AfterLoad \in {"record", "build", "stackUp"}
  BY DEF Import, ReusePbf, Goto, AfterImport, AfterLoad
<1>2. AfterLoad' = AfterLoad
  BY <1>1 DEF AfterLoad, IsUpdate, Has
<1>3. Empty \in Directory /\ "pbf" \in Items
  BY ProductTypes DEF Items
<1>4. AfterLoad = "build" => build'["pbf"].kind = "whole"
  <2>1. CASE Import
    <3>1. build' = [Empty EXCEPT !["pbf"] = MergedPbf(inputs)]
      BY <2>1 DEF Import
    <3> QED
      BY <1>3, <3>1, Replace DEF MergedPbf
  <2>2. CASE ReusePbf
    <3>1. AfterLoad = "build" => /\ IsThere(live["pbf"])
                                 /\ build' = [Empty EXCEPT !["pbf"] = live["pbf"]]
      BY <2>2 DEF ReusePbf, AfterLoad
    <3>2. IsThere(live["pbf"]) => live["pbf"].kind = "whole"
      BY <1>1 DEF OneFiles, FilesAreOne, AtRest, Sound, Coherent, IsBuild, IsWreck
    <3> QED
      BY <1>3, <3>1, <3>2, Replace
  <2> QED
    BY <2>1, <2>2
<1> QED
  BY <1>1, <1>2, <1>4 DEF BuildIsOne

LEMMA LoadOne ==
    ASSUME TypeOK, BuildIsOne, LoadDb
    PROVE  BuildIsOne'
<1>1. pc = "load" /\ UNCHANGED build
  BY DEF LoadDb, disk
<1>2. CASE IsUpdate /\ Has("db")
  BY <1>2, NoBuildOne DEF LoadDb, End
<1>3. CASE ~(IsUpdate /\ Has("db"))
  <2>1. pc' = AfterLoad /\ AfterLoad \in {"record", "build", "stackUp"}
    BY <1>3 DEF LoadDb, Goto, AfterLoad
  <2> QED
    BY <1>1, <1>3, <2>1 DEF BuildIsOne
<1> QED
  BY <1>2, <1>3

LEMMA BuildOne ==
    ASSUME TypeOK, BuildIsOne, BuildTiles \/ SkipBuild
    PROVE  BuildIsOne'
<1>1. pc = "build" /\ pc' = "clear" /\ UNCHANGED cmd
  BY DEF BuildTiles, SkipBuild, Goto
<1>2. /\ build["pbf"].kind = "whole" /\ build["pbf"] \in Product /\ build \in Directory
      /\ Simple' <=> Simple
  BY <1>1, Bases DEF BuildIsOne, TypeOK, Items, Simple, IsUpdate, Has
<1>3. CASE BuildTiles
  <2>1. PICK adm : build' = Built(build["pbf"], adm)
    BY <1>3 DEF BuildTiles
  <2>2. IsBuild(build'["tiles"], build'["tar"], build'["pbf"])
    BY <1>2, <2>1, BuiltIsOne
  <2>3. ~Simple
    BY <1>3 DEF BuildTiles
  <2> QED
    BY <1>1, <1>2, <2>2, <2>3 DEF BuildIsOne
<1>4. CASE SkipBuild
  <2>1. "admins" \in Items /\ "pbf" \in Items /\ "admins" # "pbf"
    BY DEF Items
  <2>2. build'["pbf"] = build["pbf"] /\ Simple
    BY <1>2, <1>4, <2>1, Replace DEF SkipBuild
  <2> QED
    BY <1>1, <1>2, <2>2 DEF BuildIsOne
<1> QED
  BY <1>3, <1>4

LEMMA KeepBuildOne ==
    ASSUME TypeOK, BuildIsOne, ClearOld \/ Stop \/ SimpleAside
    PROVE  BuildIsOne'
<1>1. UNCHANGED <<cmd, build>>
  BY DEF ClearOld, Stop, StopValhalla, SimpleAside, Goto, disk
<1>2. /\ pc \in {"clear", "stop", "aside"}
      /\ pc' = (IF pc = "clear" THEN "stop"
                ELSE IF pc = "aside" \/ Simple THEN "aside" ELSE "swap")
      /\ pc = "stop" => i' = 1
  BY DEF ClearOld, Stop, StopValhalla, SimpleAside, Goto
<1>3. Simple' <=> Simple
  BY <1>1 DEF Simple, IsUpdate, Has
<1> QED
  BY <1>1, <1>2, <1>3 DEF BuildIsOne, After

-----------------------------------------------------------------------------

LEMMA OneStep ==
    ASSUME HandledFaults, TypeOK, OneInv, [Next]_vars
    PROVE  OneInv'
<1> SUFFICES OneFiles' /\ BuildIsOne'
  BY DEF OneInv, OneFiles
<1>0. OneFiles /\ BuildIsOne
  BY DEF OneInv, OneFiles
<1>1. ASSUME UNCHANGED vars \/ (\E v \in Versions : ReplaceInputs(v))
      PROVE  OneFiles' /\ BuildIsOne'
  <2>1. UNCHANGED <<pc, i, cmd, cur, state, live, build, old, verified, valhalla, faults>>
    BY <1>1 DEF ReplaceInputs, vars, disk, local, history
  <2> QED
    BY <1>0, <2>1, QuietOne, QuietBuild
<1>2. ASSUME NEW c \in Commands, Start(c) PROVE OneFiles' /\ BuildIsOne'
  <2>1. BuildIsOne'
    BY <1>0, <1>2, StartBuild
  <2>2. CASE StartRollback(c)
    BY <1>0, <2>1, <2>2, StartRollbackOne
  <2>3. CASE ~StartRollback(c)
    <3>1. /\ pc = "idle" /\ pc' \in {"load", "build", "uptodate", "import", "stackUp"}
          /\ UNCHANGED <<live, valhalla, verified, faults, old>>
      BY <1>2, <2>3 DEF Start, StartDbOnly, StartTilesOnly, StartUpToDate, StartFull, StartSetup,
         Begin, disk
    <3> QED
      BY <1>0, <2>1, <3>1, RestOne DEF AtRest
  <2> QED
    BY <2>2, <2>3
<1>3. CASE \/ UpToDate \/ Import \/ ReusePbf \/ ReuseRefused \/ LoadDb \/ BuildTiles \/ SkipBuild
           \/ ClearOld \/ WriteState \/ CommandFails
  <2>1. OneFiles'
    <3>1. /\ pc \in AtRest \ {"rbHealth"} /\ UNCHANGED <<live, valhalla, verified>>
          /\ faults' \in {faults, faults + 1}
          /\ IF ClearOld THEN old' = Empty /\ pc' = "stop"
             ELSE old' = old /\ pc' \in AtRest \ {"rbHealth", "stop"}
      BY <1>3 DEF UpToDate, Import, ReusePbf, ReuseRefused, LoadDb, BuildTiles, SkipBuild, ClearOld,
         WriteState, CommandFails, AfterImport, AfterLoad, End, Goto, NoFault, Fault, disk, AtRest
    <3>2. CASE ClearOld
      BY <1>0, <3>1, <3>2, RestOne DEF AtRest
    <3>3. CASE ~ClearOld
      BY <1>0, <3>1, <3>3, RestOne
    <3> QED
      BY <3>2, <3>3
  <2>2. BuildIsOne'
    <3>1. CASE UpToDate \/ ReuseRefused \/ WriteState \/ CommandFails
      BY <3>1, NoBuildOne DEF UpToDate, ReuseRefused, WriteState, CommandFails, End
    <3> QED
      BY <1>0, <1>3, <3>1, ExtractOne, LoadOne, BuildOne, KeepBuildOne
  <2> QED
    BY <2>1, <2>2
<1>4. CASE Stop
  BY <1>0, <1>4, StopOne, KeepBuildOne
<1>5. CASE Promote
  BY <1>0, <1>5, PromoteOne
<1>6. CASE SimpleAside
  BY <1>0, <1>6, AsideOne, KeepBuildOne
<1>7. CASE CopyPbf \/ Rebuild \/ RebuildFails
  <2>1. BuildIsOne'
    BY <1>7, NoBuildOne DEF CopyPbf, Rebuild, RebuildFails, Goto
  <2> QED
    BY <1>0, <1>7, <2>1, CopyPbfOne, RebuildOne
<1>8. CASE Up \/ Healthy \/ Unhealthy
  <2>1. BuildIsOne'
    BY <1>8, NoBuildOne DEF Up, Healthy, Unhealthy, AfterHealthy, End, Goto
  <2> QED
    BY <1>0, <1>8, <2>1, UpOne, HealthyOne, UnhealthyOne
<1>9. CASE Rollback \/ RollbackUnhealthy
  <2>1. BuildIsOne'
    <3>1. pc' \in {"rbSwap", "rbHealth", "idle"}
      BY <1>9 DEF Rollback, RollbackStop, StopValhalla, MoveFailed, Restore, NotBackedUp,
         RollbackUp, RollbackHealthy, RollbackUnhealthy, End, Goto, local
    <3> QED
      BY <3>1, NoBuildOne
  <2> QED
    BY <1>0, <1>9, <2>1, RollbackStopOne, RollbackOne, RollbackUpOne, RollbackEndsOne DEF Rollback
<1>10. CASE StackUp
  <2>1. pc = "stackUp" /\ pc' = "record" /\ UNCHANGED <<old, verified, faults>>
    BY <1>10 DEF StackUp, Goto, NoFault
  <2>2. /\ Sound(live["tiles"], live["tar"], live["pbf"]) /\ valhalla = live["tar"]
        /\ live \in Directory
    BY <1>0, <2>1 DEF OneFiles, FilesAreOne, AtRest, TypeOK
  <2>3. valhalla = Absent => Opened(live) = live
    BY <2>2, NotWhole DEF Sound, Coherent, IsBuild, IsWreck, BuiltFrom, IsThere, Opened, Absent
  <2>4. UNCHANGED <<live, valhalla>>
    BY <1>10, <2>2, <2>3 DEF StackUp, ComposeUp
  <2> QED
    BY <1>0, <2>1, <2>4, RestOne, NoBuildOne DEF AtRest
<1> QED
  BY <1>1, <1>2, <1>3, <1>4, <1>5, <1>6, <1>7, <1>8, <1>9, <1>10, HandledSteps
     DEF Script, InPlace

LEMMA InitOne == Init => OneInv
<1> SUFFICES ASSUME Init PROVE OneInv
  OBVIOUS
<1>1. BuildIsOne /\ BackupIsOne /\ ServerFollows
  BY DEF Init, BuildIsOne, BackupIsOne, ServerFollows
<1>2. Coherent(old["tiles"], old["tar"], old["pbf"])
  BY NotWhole DEF Init, Coherent, Items, IsThere, Absent
<1>3. Sound(live["tiles"], live["tar"], live["pbf"]) /\ valhalla = live["tar"]
  <2>1. CASE live = Empty /\ valhalla = Absent
    BY <2>1, NotWhole DEF Init, Sound, Coherent, HasRelease, Items, IsThere, Absent
  <2>2. CASE live = Installed /\ valhalla = Installed["tar"]
    BY <2>2 DEF Installed, Sound, Coherent, IsBuild, BuiltFrom, MergedPbf
  <2> QED
    BY <2>1, <2>2 DEF Init
<1> QED
  BY <1>1, <1>2, <1>3 DEF OneInv, FilesAreOne, Init

-----------------------------------------------------------------------------
(* The theorems. *)

(* The inductive invariants hold when jobs may fail and Valhalla may not    *)
(* come up, with input files that only get newer.                           *)
THEOREM ReleaseInvariantHolds ==
    ASSUME HandledFaults, ~Revert PROVE Spec => []ReleaseInv
<1>1. Init => ReleaseInv
  BY InitTypeOK, InitSafe, InitAdmin, InitOne DEF ReleaseInv
<1>2. ReleaseInv /\ [Next]_vars => ReleaseInv'
  BY NextTypeOK, SafeStep, AdminStep, OneStep DEF ReleaseInv
<1> QED
  BY <1>1, <1>2, PTL DEF Spec

(* An update that fails by itself leaves the release that last passed its   *)
(* health check in custom_files and open in the server, at whatever step it *)
(* failed, in place or not, and whatever happened to the inputs meanwhile   *)
(* (README.md:182-184: "the previous tiles are restored").                  *)
THEOREM FailedUpdatesRestore ==
    ASSUME HandledFaults PROVE Spec => []RestoredOnFailure
<1>1. Init => TypeOK /\ SafeInv
  BY InitTypeOK, InitSafe
<1>2. TypeOK /\ SafeInv /\ [Next]_vars => (TypeOK /\ SafeInv)'
  BY NextTypeOK, SafeStep
<1>3. SafeInv => RestoredOnFailure
  BY DEF SafeInv, ReleaseIsSafe, RestoredOnFailure, Kept, Settled
<1> QED
  BY <1>1, <1>2, <1>3, PTL DEF Spec

(* What update.sh reports as up to date was built with the admin database   *)
(* of the extract it looked at, whatever updates failed before: input files *)
(* only get newer.                                                          *)
THEOREM AdminsStayCurrent ==
    ASSUME HandledFaults, ~Revert PROVE Spec => []AdminsAreCurrent
<1>1. ReleaseInv => AdminsAreCurrent
  BY DEF ReleaseInv, AdminInv, AdminsFollow, AdminsAreCurrent
<1> QED
  BY <1>1, ReleaseInvariantHolds, PTL

(* Between runs custom_files holds one build that the server serves, after  *)
(* any series of updates, setups and rollbacks in which one step failed.    *)
THEOREM AlwaysOneRelease ==
    ASSUME HandledFaults PROVE Spec => []OneRelease
<1>1. Init => TypeOK /\ OneInv
  BY InitTypeOK, InitOne
<1>2. TypeOK /\ OneInv /\ [Next]_vars => (TypeOK /\ OneInv)'
  BY NextTypeOK, OneStep
<1>3. OneInv => OneRelease
  <2> SUFFICES ASSUME OneInv, pc = "idle", HasRelease, faults <= 1
               PROVE  /\ live["tiles"] = live["tar"] /\ BuiltFrom(live["tar"], live["pbf"])
                      /\ valhalla = live["tar"]
    BY DEF OneRelease
  <2>1. Sound(live["tiles"], live["tar"], live["pbf"]) /\ Forgiven = 1 /\ valhalla = live["tar"]
    BY DEF OneInv, FilesAreOne, AtRest, Forgiven
  <2> QED
    BY <2>1 DEF Sound, IsBuild
<1> QED
  BY <1>1, <1>2, <1>3, PTL DEF Spec
=============================================================================
