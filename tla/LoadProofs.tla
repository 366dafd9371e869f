----------------------------- MODULE LoadProofs -----------------------------
(***************************************************************************)
(* Proofs about NhvrLoad, for any number of loaders, files, segments and   *)
(* runs: LoadInv is inductive, and the properties of the runs follow.       *)
(***************************************************************************)
EXTENDS NhvrLoad, RecursionFacts, FiniteSetTheorems

(* The ranks of the four codes differ (load-nhvr.sh:61-66). *)
LEMMA RanksDiffer ==
    ASSUME NEW c \in Codes, NEW d \in Codes, Rank(c) <= Rank(d), Rank(d) <= Rank(c)
    PROVE  c = d
BY DEF Codes, Rank

(* DISTINCT ON keeps rows of the staging table, one of each key *)
(* (load-nhvr.sh:57-66).                                         *)
LEMMA DistinctOnIsClean ==
    ASSUME NEW rows \in SUBSET Row
    PROVE  /\ MostRestrictive(rows) \subseteq rows
           /\ OneRowPerKey(MostRestrictive(rows))
<1>1. MostRestrictive(rows) \subseteq rows  BY DEF MostRestrictive
<1>2. ASSUME NEW r \in MostRestrictive(rows), NEW s \in MostRestrictive(rows),
             r.segment = s.segment
      PROVE  r = s
  <2>1. r \in Row /\ s \in Row  BY <1>1
  <2>2. Rank(r.code) <= Rank(s.code) /\ Rank(s.code) <= Rank(r.code)
    BY <1>1, <1>2 DEF MostRestrictive
  <2>3. r.code = s.code  BY <2>1, <2>2, RanksDiffer DEF Row
  <2> QED  BY <1>2, <2>1, <2>3 DEF Row
<1> QED  BY <1>1, <1>2 DEF OneRowPerKey

(* What the folder holds are rows (load-nhvr.sh:35-37). *)
LEMMA FolderRowsAreRows ==
    ASSUME TypeOK PROVE FolderRows \subseteq Row
BY LoadAssumption DEF TypeOK, FolderRows

(* What the catalog operations keep of the tables' types. *)
LEMMA CatalogTypes ==
    ASSUME NEW c, DOMAIN c \subseteq TableNames, c \in [DOMAIN c -> Table],
           NEW t \in TableNames, NEW table \in Table
    PROVE  /\ DOMAIN Dropped(t, c) = DOMAIN c \ {t}
           /\ Dropped(t, c) \in [DOMAIN c \ {t} -> Table]
           /\ DOMAIN Stored(t, table, c) = DOMAIN c \cup {t}
           /\ Stored(t, table, c) \in [DOMAIN c \cup {t} -> Table]
BY DEF Dropped, Stored

LEMMA AppendedType ==
    ASSUME TypeOK, NEW rows \in SUBSET Row
    PROVE  /\ DOMAIN Appended(rows) = DOMAIN tables \cup {"staging"}
           /\ Appended(rows) \in [DOMAIN tables \cup {"staging"} -> Table]
           /\ Appended(rows)["staging"] = [rows |-> StagedRows \cup rows, indexed |-> FALSE]
           /\ \A t \in DOMAIN tables \ {"staging"} : Appended(rows)[t] = tables[t]
<1>1. StagedRows \subseteq Row  BY DEF TypeOK, StagedRows, Exists, Table
<1>2. [rows |-> StagedRows \cup rows, indexed |-> FALSE] \in Table  BY <1>1 DEF Table
<1>3. DOMAIN tables \subseteq TableNames /\ tables \in [DOMAIN tables -> Table]
  BY DEF TypeOK
<1> QED  BY <1>2, <1>3 DEF Appended, Stored, TableNames

(* What the swap makes of the tables (load-nhvr.sh:68-74). *)
Swapped == Renamed("dedup", "live", LiveAside(tables))
LEMMA SwappedTables ==
    ASSUME TypeOK, Exists("dedup")
    PROVE  /\ DOMAIN Swapped \subseteq (DOMAIN tables \cup {"live", "old"}) \ {"dedup"}
           /\ Swapped \in [DOMAIN Swapped -> Table]
           /\ "live" \in DOMAIN Swapped
           /\ Swapped["live"] = tables["dedup"]
           /\ "staging" \in DOMAIN Swapped <=> "staging" \in DOMAIN tables
           /\ "staging" \in DOMAIN Swapped => Swapped["staging"] = tables["staging"]
<1>1. DOMAIN tables \subseteq TableNames /\ tables \in [DOMAIN tables -> Table]
      /\ "dedup" \in DOMAIN tables
  BY DEF TypeOK, Exists
<1>2. /\ DOMAIN LiveAside(tables) \subseteq (DOMAIN tables \cup {"old"})
      /\ LiveAside(tables) \in [DOMAIN LiveAside(tables) -> Table]
      /\ "dedup" \in DOMAIN LiveAside(tables)
      /\ LiveAside(tables)["dedup"] = tables["dedup"]
      /\ "staging" \in DOMAIN LiveAside(tables) <=> "staging" \in DOMAIN tables
      /\ "staging" \in DOMAIN tables => LiveAside(tables)["staging"] = tables["staging"]
  <2>1. CASE "live" \in DOMAIN Dropped("old", tables)
    BY <1>1, <2>1 DEF LiveAside, Renamed, Stored, Dropped
  <2>2. CASE "live" \notin DOMAIN Dropped("old", tables)
    BY <1>1, <2>2 DEF LiveAside, Dropped
  <2> QED  BY <2>1, <2>2
<1> QED  BY <1>2 DEF Swapped, Renamed, Stored, Dropped

-----------------------------------------------------------------------------
LEMMA InitHolds == Init => LoadInv
BY LoadAssumption DEF Init, LoadInv, TypeOK, BuildsAreClean, LiveIsClean, Exists, Table,
   TableNames

(* A step of one loader cannot take an undisturbed load by surprise: it is *)
(* that load's own step.                                                    *)
LEMMA OnlyItself ==
    ASSUME LoadInv, NEW l \in Loaders, Running(l), NEW k \in alone
    PROVE  k = l
BY DEF LoadInv, Progress

USE DEF Goto, Settled, Keeps

LEMMA StepTypes ==
    ASSUME TypeOK, NEW l \in Loaders,
           NEW step \in Step \cup {"ready", "done", "failed"}, Goto(l, step)
    PROVE  /\ pc' \in [Loaders -> Step \cup {"ready", "done", "failed"}]
           /\ pc'[l] = step
           /\ \A k \in Loaders \ {l} : pc'[k] = pc[k]
BY DEF TypeOK

(* A drop disturbs no other table (load-nhvr.sh:25, 55, 76, 77). *)
LEMMA DropKeeps ==
    ASSUME LoadInv, NEW l \in Loaders, NEW t \in TableNames, NEW step \in Step,
           tables' = Dropped(t, tables), Goto(l, step), Keeps
    PROVE  /\ DOMAIN tables' = DOMAIN tables \ {t}
           /\ \A u \in DOMAIN tables' : tables'[u] = tables[u]
           /\ TypeOK' /\ BuildsAreClean' /\ LiveIsClean'
           /\ pc'[l] = step
           /\ \A k \in Loaders \ {l} : pc'[k] = pc[k]
           /\ FolderRows' = FolderRows
<1>1. TypeOK  BY DEF LoadInv
<1>2. DOMAIN tables' = DOMAIN tables \ {t}
      /\ tables' \in [DOMAIN tables' -> Table]
      /\ \A u \in DOMAIN tables' : tables'[u] = tables[u]
  BY <1>1 DEF Dropped, TypeOK
<1>3. TypeOK'  BY <1>1, <1>2, StepTypes DEF TypeOK
<1>4. BuildsAreClean' /\ LiveIsClean'
  BY <1>2 DEF LoadInv, BuildsAreClean, LiveIsClean, Exists
<1>5. pc'[l] = step /\ \A k \in Loaders \ {l} : pc'[k] = pc[k]
  BY <1>1, StepTypes
<1>6. FolderRows' = FolderRows  BY DEF FolderRows
<1> QED  BY <1>2, <1>3, <1>4, <1>5, <1>6

LEMMA ClearHolds ==
    ASSUME LoadInv, NEW l \in Loaders, Clear(l) PROVE LoadInv'
<1>1. "staging" \in TableNames /\ "load" \in Step /\ Running(l)
  BY DEF Clear, TableNames, Step, Running
<1>2. /\ DOMAIN tables' = DOMAIN tables \ {"staging"}
      /\ \A u \in DOMAIN tables' : tables'[u] = tables[u]
      /\ TypeOK' /\ BuildsAreClean' /\ LiveIsClean'
      /\ pc'[l] = "load" /\ \A k \in Loaders \ {l} : pc'[k] = pc[k]
      /\ FolderRows' = FolderRows
  BY <1>1, DropKeeps, ZenonT(90) DEF Clear
<1>3. ASSUME NEW k \in alone' PROVE Progress(k)'
  <2>1. k = l /\ Progress(l)  BY <1>1, <1>3, OnlyItself DEF Clear, LoadInv
  <2> QED  BY <1>2, <2>1 DEF Clear, Progress, Running, Exists
<1> QED  BY <1>2, <1>3 DEF LoadInv

LEMMA DropDedupHolds ==
    ASSUME LoadInv, NEW l \in Loaders, DropDedup(l) PROVE LoadInv'
<1>1. "dedup" \in TableNames /\ "makeDedup" \in Step /\ Running(l)
  BY DEF DropDedup, TableNames, Step, Running
<1>2. /\ DOMAIN tables' = DOMAIN tables \ {"dedup"}
      /\ \A u \in DOMAIN tables' : tables'[u] = tables[u]
      /\ TypeOK' /\ BuildsAreClean' /\ LiveIsClean'
      /\ pc'[l] = "makeDedup" /\ \A k \in Loaders \ {l} : pc'[k] = pc[k]
      /\ FolderRows' = FolderRows
  BY <1>1, DropKeeps, ZenonT(90) DEF DropDedup
<1>3. ASSUME NEW k \in alone' PROVE Progress(k)'
  <2>1. k = l /\ Progress(l)  BY <1>1, <1>3, OnlyItself DEF DropDedup, LoadInv
  <2> QED  BY <1>2, <2>1 DEF DropDedup, Progress, Running, Exists, StagedSoFar
<1> QED  BY <1>2, <1>3 DEF LoadInv

LEMMA DropOldHolds ==
    ASSUME LoadInv, NEW l \in Loaders, DropOld(l) PROVE LoadInv'
<1>1. "old" \in TableNames /\ "dropStaging" \in Step /\ Running(l)
  BY DEF DropOld, TableNames, Step, Running
<1>2. /\ DOMAIN tables' = DOMAIN tables \ {"old"}
      /\ \A u \in DOMAIN tables' : tables'[u] = tables[u]
      /\ TypeOK' /\ BuildsAreClean' /\ LiveIsClean'
      /\ pc'[l] = "dropStaging" /\ \A k \in Loaders \ {l} : pc'[k] = pc[k]
      /\ FolderRows' = FolderRows
  BY <1>1, DropKeeps, ZenonT(90) DEF DropOld
<1>3. ASSUME NEW k \in alone' PROVE Progress(k)'
  <2>1. k = l /\ Progress(l)  BY <1>1, <1>3, OnlyItself DEF DropOld, LoadInv
  <2> QED  BY <1>2, <2>1 DEF DropOld, Progress, Running, Exists, LoadedTable
<1> QED  BY <1>2, <1>3 DEF LoadInv

LEMMA DropStagingHolds ==
    ASSUME LoadInv, NEW l \in Loaders, DropStaging(l) PROVE LoadInv'
<1>1. "staging" \in TableNames /\ "index" \in Step /\ Running(l)
  BY DEF DropStaging, TableNames, Step, Running
<1>2. /\ DOMAIN tables' = DOMAIN tables \ {"staging"}
      /\ \A u \in DOMAIN tables' : tables'[u] = tables[u]
      /\ TypeOK' /\ BuildsAreClean' /\ LiveIsClean'
      /\ pc'[l] = "index" /\ \A k \in Loaders \ {l} : pc'[k] = pc[k]
      /\ FolderRows' = FolderRows
  BY <1>1, DropKeeps, ZenonT(90) DEF DropStaging
<1>3. ASSUME NEW k \in alone' PROVE Progress(k)'
  <2>1. k = l /\ Progress(l)  BY <1>1, <1>3, OnlyItself DEF DropStaging, LoadInv
  <2> QED  BY <1>2, <2>1 DEF DropStaging, Progress, Running, Exists, LoadedTable
<1> QED  BY <1>2, <1>3 DEF LoadInv

LEMMA FilesHoldRows ==
    ASSUME TypeOK, NEW f \in DOMAIN folder PROVE folder[f] \in SUBSET Row
BY LoadAssumption DEF TypeOK

(* A file, or a part of one, put into the staging table (load-nhvr.sh:49). *)
LEMMA AppendKeeps ==
    ASSUME LoadInv, NEW f \in DOMAIN folder, NEW rows \in SUBSET folder[f],
           tables' = Appended(rows)
    PROVE  /\ DOMAIN tables' = DOMAIN tables \cup {"staging"}
           /\ tables'["staging"].rows = StagedRows \cup rows
           /\ \A t \in DOMAIN tables \ {"staging"} : tables'[t] = tables[t]
           /\ DOMAIN tables' \subseteq TableNames
           /\ tables' \in [DOMAIN tables' -> Table]
           /\ BuildsAreClean' /\ LiveIsClean'
<1>1. TypeOK  BY DEF LoadInv
<1>2. rows \in SUBSET Row  BY <1>1, FilesHoldRows
<1>3. /\ DOMAIN tables' = DOMAIN tables \cup {"staging"}
      /\ tables' \in [DOMAIN tables \cup {"staging"} -> Table]
      /\ tables'["staging"] = [rows |-> StagedRows \cup rows, indexed |-> FALSE]
      /\ \A t \in DOMAIN tables \ {"staging"} : tables'[t] = tables[t]
  BY <1>1, <1>2, AppendedType
<1>4. BuildsAreClean' /\ LiveIsClean'
  BY <1>3 DEF LoadInv, BuildsAreClean, LiveIsClean, Exists
<1> QED  BY <1>1, <1>3, <1>4 DEF TypeOK, TableNames

LEMMA LoadFileHolds ==
    ASSUME LoadInv, NEW l \in Loaders, LoadFile(l) PROVE LoadInv'
<1>1. TypeOK /\ Running(l)
  BY DEF LoadInv, LoadFile, MayLoad, Running, Step
<1>2. PICK f \in Files :
        /\ MayLoad(l, f)
        /\ tables' = Appended(folder[f])
        /\ todo' = [todo EXCEPT ![l] = @ \ {f}]
        /\ first' = [first EXCEPT ![l] = FALSE]
        /\ Goto(l, IF todo[l] = {f} THEN "dropDedup" ELSE "load")
        /\ Settled
  BY DEF LoadFile
<1>3. /\ DOMAIN tables' = DOMAIN tables \cup {"staging"}
      /\ tables'["staging"].rows = StagedRows \cup folder[f]
      /\ DOMAIN tables' \subseteq TableNames
      /\ tables' \in [DOMAIN tables' -> Table]
      /\ BuildsAreClean' /\ LiveIsClean'
  BY <1>2, AppendKeeps DEF MayLoad
<1>4. /\ todo'[l] = todo[l] \ {f} /\ first'[l] = FALSE
      /\ pc'[l] = IF todo[l] = {f} THEN "dropDedup" ELSE "load"
      /\ \A k \in Loaders \ {l} : pc'[k] = pc[k]
  BY <1>1, <1>2, StepTypes DEF TypeOK, Step
<1>5. TypeOK'
  BY <1>1, <1>2, <1>3, <1>4, StepTypes DEF TypeOK, Step
<1>6. ASSUME NEW k \in alone' PROVE Progress(k)'
  <2>1. k = l /\ Progress(l)  BY <1>1, <1>2, <1>6, OnlyItself DEF LoadInv
  <2>2. todo[l] \subseteq DOMAIN folder /\ f \in todo[l]
    BY <1>2, <2>1 DEF Progress, MayLoad
  <2>3. StagedRows = UNION {folder[g] : g \in DOMAIN folder \ todo[l]}
    <3>1. CASE first[l]
      BY <1>2, <2>1, <3>1 DEF Progress, StagedRows, MayLoad, Exists
    <3>2. CASE ~first[l]
      BY <1>2, <2>1, <3>2 DEF Progress, StagedRows, MayLoad, StagedSoFar
    <3> QED  BY <3>1, <3>2
  <2>4. tables'["staging"].rows = UNION {folder[g] : g \in DOMAIN folder \ (todo[l] \ {f})}
    BY <1>3, <2>2, <2>3
  <2>5. StagedSoFar(l)'  BY <1>2, <1>3, <1>4, <2>4 DEF StagedSoFar, Exists
  <2>6. CASE todo[l] = {f}
    BY <1>4, <2>1, <2>5, <2>6 DEF Progress, Running
  <2>7. CASE todo[l] # {f}
    BY <1>2, <1>4, <2>1, <2>2, <2>5, <2>7 DEF Progress, Running
  <2> QED  BY <2>1, <2>6, <2>7
<1> QED  BY <1>3, <1>5, <1>6 DEF LoadInv

LEMMA MakeDedupHolds ==
    ASSUME LoadInv, NEW l \in Loaders, MakeDedup(l) PROVE LoadInv'
<1> DEFINE kept == MostRestrictive(tables["staging"].rows)
<1>1. TypeOK /\ Running(l)  BY DEF LoadInv, MakeDedup, Running, Step
<1>2. tables["staging"].rows \in SUBSET Row
  BY <1>1 DEF MakeDedup, TypeOK, Exists, Table
<1>3. kept \in SUBSET Row /\ OneRowPerKey(kept)  BY <1>2, DistinctOnIsClean
<1>4. [rows |-> kept, indexed |-> FALSE] \in Table  BY <1>3 DEF Table
<1>5. /\ DOMAIN tables' = DOMAIN tables \cup {"dedup"}
      /\ DOMAIN tables' \subseteq TableNames
      /\ tables' \in [DOMAIN tables' -> Table]
      /\ tables'["dedup"] = [rows |-> kept, indexed |-> FALSE]
      /\ \A t \in DOMAIN tables \ {"dedup"} : tables'[t] = tables[t]
  BY <1>1, <1>4 DEF MakeDedup, Stored, TypeOK, TableNames
<1>6. pc'[l] = "swap" /\ \A k \in Loaders \ {l} : pc'[k] = pc[k]
  BY <1>1, StepTypes DEF MakeDedup, Step
<1>7. TypeOK'  BY <1>1, <1>5, StepTypes DEF MakeDedup, TypeOK, Step
<1>8. BuildsAreClean' /\ LiveIsClean'
  BY <1>3, <1>5 DEF LoadInv, BuildsAreClean, LiveIsClean, Exists
<1>9. ASSUME NEW k \in alone' PROVE Progress(k)'
  <2>1. k = l /\ Progress(l)  BY <1>1, <1>9, OnlyItself DEF MakeDedup, LoadInv
  <2>2. tables["staging"].rows = FolderRows
    <3>1. todo[l] = {} /\ StagedSoFar(l)  BY <2>1 DEF Progress, MakeDedup
    <3> QED  BY <3>1 DEF StagedSoFar, FolderRows
  <2>3. FolderRows' = FolderRows  BY DEF MakeDedup, FolderRows
  <2>4. LoadedTable("dedup")'
    BY <1>5, <2>2, <2>3 DEF LoadedTable, Exists, MostRestrictive
  <2> QED  BY <1>6, <2>1, <2>4 DEF Progress, MakeDedup, Running
<1> QED  BY <1>7, <1>8, <1>9 DEF LoadInv

LEMMA SwapHolds ==
    ASSUME LoadInv, NEW l \in Loaders, Swap(l) PROVE LoadInv'
<1>1. TypeOK /\ Running(l) /\ Exists("dedup") /\ tables' = Swapped
  BY DEF LoadInv, Swap, Running, Step, Swapped
<1>2. /\ DOMAIN tables' \subseteq (DOMAIN tables \cup {"live", "old"}) \ {"dedup"}
      /\ tables' \in [DOMAIN tables' -> Table]
      /\ "live" \in DOMAIN tables'
      /\ tables'["live"] = tables["dedup"]
      /\ "staging" \in DOMAIN tables' <=> "staging" \in DOMAIN tables
      /\ "staging" \in DOMAIN tables' => tables'["staging"] = tables["staging"]
  BY <1>1, SwappedTables
<1>3. pc'[l] = "dropOld" /\ \A k \in Loaders \ {l} : pc'[k] = pc[k]
  BY <1>1, StepTypes DEF Swap, Step
<1>4. TypeOK'
  BY <1>1, <1>2, StepTypes DEF Swap, TypeOK, Step, TableNames
<1>5. BuildsAreClean' /\ LiveIsClean'
  BY <1>1, <1>2 DEF LoadInv, BuildsAreClean, LiveIsClean, Exists
<1>6. ASSUME NEW k \in alone' PROVE Progress(k)'
  <2>1. k = l /\ Progress(l)  BY <1>1, <1>6, OnlyItself DEF Swap, LoadInv
  <2>2. FolderRows' = FolderRows  BY DEF Swap, FolderRows
  <2>3. LoadedTable("dedup")  BY <2>1 DEF Progress, Swap
  <2>4. LoadedTable("live")'
    BY <1>2, <2>2, <2>3 DEF LoadedTable, Exists, MostRestrictive
  <2> QED  BY <1>3, <2>1, <2>4 DEF Progress, Swap, Running
<1> QED  BY <1>4, <1>5, <1>6 DEF LoadInv

LEMMA CreateIndexHolds ==
    ASSUME LoadInv, NEW l \in Loaders, CreateIndex(l) PROVE LoadInv'
<1>1. TypeOK /\ Running(l) /\ Exists("live")
  BY DEF LoadInv, CreateIndex, Running, Step
<1>2. /\ DOMAIN tables' = DOMAIN tables
      /\ tables' \in [DOMAIN tables -> Table]
      /\ \A t \in DOMAIN tables : tables'[t].rows = tables[t].rows
      /\ \A t \in DOMAIN tables \ {"live"} : tables'[t] = tables[t]
      /\ IndexThere \/ tables'["live"].indexed
      /\ tables["live"].indexed => tables'["live"].indexed
  <2>1. CASE IndexThere  BY <1>1, <2>1 DEF CreateIndex, TypeOK
  <2>2. CASE ~IndexThere
    <3>1. tables' = [tables EXCEPT !["live"].indexed = TRUE]  BY <2>2 DEF CreateIndex
    <3>2. tables["live"] \in Table  BY <1>1 DEF TypeOK, Exists
    <3> QED  BY <1>1, <3>1, <3>2 DEF TypeOK, Exists, Table
  <2> QED  BY <2>1, <2>2
<1>3. pc'[l] = "done" /\ \A k \in Loaders \ {l} : pc'[k] = pc[k]
  BY <1>1, StepTypes DEF CreateIndex, Step
<1>4. TypeOK'  BY <1>1, <1>2, StepTypes DEF CreateIndex, TypeOK, Step
<1>5. BuildsAreClean' /\ LiveIsClean'
  BY <1>2 DEF LoadInv, BuildsAreClean, LiveIsClean, Exists
<1>6. ASSUME NEW k \in alone' PROVE Progress(k)'
  <2>1. k = l /\ Progress(l)  BY <1>1, <1>6, OnlyItself DEF CreateIndex, LoadInv
  <2>2. LoadedTable("live") /\ ~Exists("old")  BY <2>1 DEF Progress, CreateIndex
  <2>3. LoadedTable("live")'
    BY <1>2, <2>2 DEF LoadedTable, Exists, MostRestrictive, FolderRows, CreateIndex
  <2>4. tables'["live"].indexed
    <3>1. ASSUME NEW t \in DOMAIN tables, tables[t].indexed PROVE t = "live"
      BY <1>1, <2>2, <3>1 DEF LoadInv, BuildsAreClean, TypeOK, TableNames, Exists
    <3> QED  BY <1>2, <3>1 DEF IndexThere
  <2> QED  BY <1>3, <2>1, <2>3, <2>4 DEF Progress, CreateIndex, Running, Step
<1> QED  BY <1>4, <1>5, <1>6 DEF LoadInv

(* A new load is alone only if no other one is at work (load-nhvr.sh:14). *)
LEMMA StartHolds ==
    ASSUME LoadInv, NEW l \in Loaders, Start(l) PROVE LoadInv'
<1>1. TypeOK  BY DEF LoadInv
<1>2. pc'[l] = "clear" /\ \A k \in Loaders \ {l} : pc'[k] = pc[k]
  BY <1>1, StepTypes DEF Start, Step
<1>3. alone' \subseteq {l} /\ (l \in alone' => \A k \in Loaders \ {l} : ~Running(k))
  BY DEF Start
<1>4. TypeOK'
  <2>1. runs' \in 0..MaxRuns  BY <1>1, LoadAssumption DEF Start, TypeOK
  <2>2. todo' \in [Loaders -> SUBSET Files] /\ first' \in [Loaders -> BOOLEAN]
    BY <1>1 DEF Start, TypeOK
  <2>3. alone' \in SUBSET Loaders  BY <1>3
  <2>4. pc' \in [Loaders -> Step \cup {"ready", "done", "failed"}]
    BY <1>1, StepTypes DEF Start, Step
  <2> QED  BY <1>1, <2>1, <2>2, <2>3, <2>4 DEF Start, TypeOK
<1>5. BuildsAreClean' /\ LiveIsClean'
  BY DEF Start, LoadInv, BuildsAreClean, LiveIsClean, Exists
<1>6. ASSUME NEW k \in alone' PROVE Progress(k)'
  <2>1. k = l  BY <1>3, <1>6
  <2>2. todo'[l] = DOMAIN folder' /\ todo'[l] # {} /\ first'[l]
    BY <1>1 DEF Start, TypeOK
  <2> QED  BY <1>2, <1>3, <1>6, <2>1, <2>2 DEF Progress, Running
<1> QED  BY <1>4, <1>5, <1>6 DEF LoadInv

LEMMA InterruptedHolds ==
    ASSUME LoadInv, NEW l \in Loaders, Interrupted(l) PROVE LoadInv'
<1>1. TypeOK /\ Running(l)  BY DEF LoadInv, Interrupted
<1>2. pc'[l] = "failed" /\ \A k \in Loaders \ {l} : pc'[k] = pc[k]
  BY <1>1, StepTypes DEF Interrupted
<1>3. /\ DOMAIN tables' \subseteq TableNames
      /\ tables' \in [DOMAIN tables' -> Table]
      /\ BuildsAreClean' /\ LiveIsClean'
  <2>1. CASE UNCHANGED tables
    BY <1>1, <2>1 DEF LoadInv, TypeOK, BuildsAreClean, LiveIsClean, Exists
  <2>2. ASSUME NEW f \in Files, MayLoad(l, f), NEW part \in SUBSET folder[f],
               tables' = Appended(part)
        PROVE  /\ DOMAIN tables' \subseteq TableNames
               /\ tables' \in [DOMAIN tables' -> Table]
               /\ BuildsAreClean' /\ LiveIsClean'
    BY <2>2, AppendKeeps DEF MayLoad
  <2> QED  BY <2>1, <2>2 DEF Interrupted
<1>4. TypeOK'  BY <1>1, <1>3, StepTypes DEF Interrupted, TypeOK
<1>5. ASSUME NEW k \in alone' PROVE Progress(k)'
  <2>1. k = l /\ Progress(l)  BY <1>1, <1>5, OnlyItself DEF Interrupted, LoadInv
  <2> QED  BY <1>2, <2>1 DEF Progress, Running
<1> QED  BY <1>3, <1>4, <1>5 DEF LoadInv

LEMMA ReplaceFileHolds ==
    ASSUME LoadInv, ReplaceFile PROVE LoadInv'
<1>1. TypeOK  BY DEF LoadInv
<1>2. DOMAIN folder' \subseteq Files /\ folder' \in [DOMAIN folder' -> Contents]
  <2>1. PICK f \in Files :
          \/ \E c \in Contents : folder' = [g \in DOMAIN folder \cup {f} |->
                                              IF g = f THEN c ELSE folder[g]]
          \/ folder' = [g \in DOMAIN folder \ {f} |-> folder[g]]
    BY DEF ReplaceFile
  <2> QED  BY <1>1, <2>1 DEF TypeOK
<1>3. replaced' \in 0..MaxReplaced  BY <1>1, LoadAssumption DEF ReplaceFile, TypeOK
<1>4. TypeOK'  BY <1>1, <1>2, <1>3 DEF ReplaceFile, TypeOK
<1>5. BuildsAreClean' /\ LiveIsClean' /\ alone' = {}
  BY DEF ReplaceFile, LoadInv, BuildsAreClean, LiveIsClean, Exists
<1> QED  BY <1>4, <1>5 DEF LoadInv

-----------------------------------------------------------------------------
(* The importer reads the features one by one and ends with the worst status  *)
(* of each segment (import-nhvr.py).                                          *)

Statuses == -1..2
IsWorst(status, segment, features, n) ==
    /\ \A i \in 1..n : features[i].segment = segment => Rank(features[i].code) <= status
    /\ status # -1 =>
          \E i \in 1..n : features[i].segment = segment /\ Rank(features[i].code) = status

LEMMA ReadFeatureIs ==
    ASSUME NEW networks \in [Segments -> Statuses], NEW feature \in Row
    PROVE  LET next == Import!ReadFeature(networks, feature)
               rank == Rank(feature.code) IN
           /\ rank \in Statuses
           /\ next \in [Segments -> Statuses]
           /\ \A segment \in Segments :
                 next[segment] = IF segment = feature.segment /\ networks[segment] < rank
                                 THEN rank ELSE networks[segment]
<1> DEFINE rank == Rank(feature.code)
<1>1. feature.code \in Codes /\ feature.segment \in Segments  BY DEF Row
<1>2. rank \in Statuses /\ Import!AccessStatus(feature.code) = rank
  BY <1>1 DEF Codes, Rank, Statuses, Import!AccessStatus, Import!Skipped
<1> HIDE DEF rank
<1>3. \A segment \in Segments : networks[segment] \in Statuses  OBVIOUS
<1>4. \A prev \in Statuses :
          rank # -1 => Import!Kept(prev, rank) = IF prev < rank THEN rank ELSE prev
  BY <1>2 DEF Statuses, Import!Kept, Import!Skipped
<1>5. CASE rank = -1
  <2>1. Import!ReadFeature(networks, feature) = networks
    BY <1>2, <1>5 DEF Import!ReadFeature, Import!Skipped
  <2>2. \A segment \in Segments : ~(networks[segment] < rank)
    BY <1>3, <1>5 DEF Statuses
  <2> QED  BY <1>2, <2>1, <2>2 DEF rank
<1>6. CASE rank # -1
  <2>1. Import!ReadFeature(networks, feature)
          = [networks EXCEPT ![feature.segment] = Import!Kept(networks[feature.segment], rank)]
    BY <1>2, <1>6 DEF Import!ReadFeature, Import!Skipped
  <2>2. Import!Kept(networks[feature.segment], rank)
          = IF networks[feature.segment] < rank THEN rank ELSE networks[feature.segment]
    BY <1>1, <1>3, <1>4, <1>6
  <2> QED  BY <1>1, <1>2, <1>3, <2>1, <2>2 DEF rank
<1> QED  BY <1>5, <1>6

LEMMA ReadsTheWorst ==
    ASSUME NEW n \in Nat, NEW features \in [1..n -> Row], Len(features) = n
    PROVE  LET networks == Import!ReadGpkgs(features) IN
           \A segment \in Segments :
               /\ networks[segment] \in Statuses
               /\ IsWorst(networks[segment], segment, features, n)
<1> DEFINE S == [Segments -> Statuses]
           none == [segment \in Segments |-> -1]
           G == [k \in 1..n |-> [networks \in S |-> Import!ReadFeature(networks, features[k])]]
<1>1. none \in S  BY DEF Statuses
<1>2. \A k \in 1..n : features[k] \in Row  OBVIOUS
<1>3. \A k \in 1..n, networks \in S : Import!ReadFeature(networks, features[k]) \in S
  BY <1>2, ReadFeatureIs
<1>4. G \in Steps(n, S)
  <2> HIDE DEF S
  <2> QED  BY <1>3 DEF Steps
<1>5. \A k \in 1..n, networks \in S :
          G[k][networks] = Import!ReadFeature(networks, features[k])
  OBVIOUS
<1> HIDE DEF S, none, G
<1>7. PICK F : Iterates(F, n, S, none, G)
  BY <1>1, <1>4, Recursion
<1> DEFINE From(V) == [k \in 0..n |-> IF k = 0 THEN none
                                       ELSE Import!ReadFeature(V[k - 1], features[k])]
           N == CHOOSE V : V = From(V)
<1>6. Import!ReadGpkgs(features) = N[n]
  BY DEF Import!ReadGpkgs, Import!Skipped, none
<1>8. F = From(F)
  <2>1. \A k \in 1..n : k - 1 \in 0..n /\ F[k] = Import!ReadFeature(F[k - 1], features[k])
    BY <1>5, <1>7 DEF Iterates
  <2>2. ASSUME NEW k \in 0..n
        PROVE  F[k] = IF k = 0 THEN none ELSE Import!ReadFeature(F[k - 1], features[k])
    BY <1>7, <2>1 DEF Iterates
  <2> QED  BY <1>7, <2>2 DEF Iterates
<1>9. N = From(N)  BY <1>8
<1> HIDE DEF N
<1>10. N[0] = none /\ \A k \in 1..n : N[k] = Import!ReadFeature(N[k - 1], features[k])
  BY <1>9
<1> DEFINE A == {k \in 0..n : N[k] \in S /\ \A segment \in Segments :
                                   IsWorst(N[k][segment], segment, features, k)}
<1>11. 0 \in A
  <2>1. \A segment \in Segments : none[segment] = -1  BY DEF none
  <2>2. \A segment \in Segments : IsWorst(-1, segment, features, 0)  BY DEF IsWorst
  <2> QED  BY <1>1, <1>10, <2>1, <2>2
<1>12. ASSUME NEW k \in 1..n, k - 1 \in A PROVE k \in A
  <2> DEFINE before == N[k - 1]
             rank == Rank(features[k].code)
  <2>1. before \in S /\ \A segment \in Segments :
                           IsWorst(before[segment], segment, features, k - 1)
    BY <1>12
  <2>2. N[k] = Import!ReadFeature(before, features[k]) /\ features[k] \in Row
    BY <1>2, <1>10
  <2> HIDE DEF before, A
  <2>3. /\ rank \in Statuses /\ N[k] \in S
        /\ \A segment \in Segments :
              N[k][segment] = IF segment = features[k].segment /\ before[segment] < rank
                              THEN rank ELSE before[segment]
    BY <2>1, <2>2, ReadFeatureIs DEF S
  <2>4. ASSUME NEW segment \in Segments
        PROVE  IsWorst(N[k][segment], segment, features, k)
    <3>1. before[segment] \in Statuses /\ IsWorst(before[segment], segment, features, k - 1)
      BY <2>1 DEF S
    <3>2. \A i \in 1..k : i = k \/ i \in 1..k - 1  OBVIOUS
    <3>3. k \in 1..k /\ \A i \in 1..k - 1 : i \in 1..k  OBVIOUS
    <3>4. \A i \in 1..k : Rank(features[i].code) \in Statuses
      BY <1>2, ReadFeatureIs, <1>1 DEF S
    <3>5. CASE segment = features[k].segment /\ before[segment] < rank
      <4>1. N[k][segment] = rank  BY <2>3, <3>5
      <4>2. \A i \in 1..k - 1 : features[i].segment = segment =>
                Rank(features[i].code) <= before[segment]
        BY <3>1 DEF IsWorst
      <4>3. \A i \in 1..k : features[i].segment = segment => Rank(features[i].code) <= rank
        BY <2>3, <3>1, <3>2, <3>3, <3>4, <3>5, <4>2 DEF Statuses
      <4> QED  BY <3>3, <3>5, <4>1, <4>3 DEF IsWorst
    <3>6. CASE ~(segment = features[k].segment /\ before[segment] < rank)
      <4>1. N[k][segment] = before[segment]  BY <2>3, <3>6
      <4>2. features[k].segment = segment => rank <= before[segment]
        BY <2>3, <3>1, <3>6 DEF Statuses
      <4> QED  BY <3>1, <3>2, <3>3, <4>1, <4>2 DEF IsWorst
    <3> QED  BY <3>5, <3>6
  <2> QED  BY <2>3, <2>4 DEF A
<1> HIDE DEF A
<1>13. n \in A
  <2>1. \A k \in 0..n : k \in A  BY <1>11, <1>12, UpTo
  <2> QED  BY <2>1
<1> QED  BY <1>6, <1>13 DEF A, S

(* An order of finitely many rows names each of them.                         *)
LEMMA OrderNamesAll ==
    ASSUME NEW rows, IsFiniteSet(rows), NEW features \in SetToSeqs(rows)
    PROVE  \E n \in Nat :
               /\ features \in [1..n -> rows] /\ Len(features) = n
               /\ \A row \in rows : \E i \in 1..n : features[i] = row
<1> DEFINE n == Cardinality(rows)
           D == 1..n
<1>1. n \in Nat  BY FS_CardinalityType
<1>2. features \in [D -> rows] /\ \A i, j \in D : i # j => features[i] # features[j]
  BY DEF SetToSeqs, D, n
<1>3. Cardinality(D) = n
  <2> HIDE DEF n
  <2> QED  BY <1>1, FS_Interval
<1> HIDE DEF n, D
<1>4. features \in Injection(D, rows)
  BY <1>2 DEF Injection, IsInjective
<1>5. features \in Surjection(D, rows)
  BY <1>3, <1>4, FS_Injection DEF n
<1>6. \A row \in rows : \E i \in D : features[i] = row
  BY <1>5 DEF Surjection
<1>7. Len(features) = n
  BY <1>1, <1>2 DEF D
<1> QED  BY <1>1, <1>2, <1>6, <1>7 DEF D

LEMMA FolderIsFinite ==
    ASSUME TypeOK
    PROVE  IsFiniteSet(FolderRows) /\ FolderRows \subseteq Row
<1> DEFINE T == {folder[f] : f \in DOMAIN folder}
<1>1. IsFiniteSet(DOMAIN folder)
  BY FS_Subset, FilesAreFinite DEF TypeOK
<1>2. folder \in Surjection(DOMAIN folder, T)
  BY DEF TypeOK, Surjection
<1>3. IsFiniteSet(T)
  BY <1>1, <1>2, FS_Surjection
<1>4. \A rows \in T : IsFiniteSet(rows) /\ rows \subseteq Row
  BY FilesAreFinite, LoadAssumption DEF TypeOK
<1>5. FolderRows = UNION T  BY DEF FolderRows
<1> QED  BY <1>3, <1>4, <1>5, FS_UNION

-----------------------------------------------------------------------------
LEMMA NextHolds == LoadInv /\ [Next]_vars => LoadInv'
<1> SUFFICES ASSUME LoadInv, [Next]_vars PROVE LoadInv'
  OBVIOUS
<1>1. ASSUME NEW l \in Loaders, Load(l) PROVE LoadInv'
  BY <1>1, ClearHolds, LoadFileHolds, DropDedupHolds, MakeDedupHolds, SwapHolds,
     DropOldHolds, DropStagingHolds, CreateIndexHolds DEF Load
<1>2. CASE ReplaceFile  BY <1>2, ReplaceFileHolds
<1>3. CASE UNCHANGED vars
  BY <1>3 DEF vars, LoadInv, TypeOK, BuildsAreClean, LiveIsClean, Progress, Running,
     Exists, StagedSoFar, LoadedTable, FolderRows
<1> QED  BY <1>1, <1>2, <1>3, StartHolds, InterruptedHolds DEF Next

(* LoadInv holds throughout: whatever loads run beside each other, fail or *)
(* are killed, an undisturbed one finds the tables as its step expects      *)
(* them (load-nhvr.sh:21-86).                                               *)
THEOREM LoadInvariant == Spec => []LoadInv
<1>1. Init => LoadInv  BY InitHolds
<1>2. LoadInv /\ [Next]_vars => LoadInv'  BY NextHolds
<1> QED  BY <1>1, <1>2, PTL DEF Spec

(* An undisturbed load that exits 0 has published every file, by the most  *)
(* restrictive code, and indexed the table (load-nhvr.sh:2).                *)
THEOREM LoadsEveryFile == Spec => []DoneMeansLoaded
<1>1. LoadInv => DoneMeansLoaded
  BY DEF LoadInv, DoneMeansLoaded, Progress, LoadedTable
<1> QED  BY <1>1, LoadInvariant, PTL

(* Where an undisturbed load has exited 0, the API answers for each segment   *)
(* and network with the status the importer writes to the tiles, in whatever  *)
(* order it reads the features (load-nhvr.sh:53).                             *)
THEOREM PostGisAgreesWithTiles == Spec => []AgreesWithImporter
<1>1. LoadInv => AgreesWithImporter
  <2> SUFFICES ASSUME LoadInv, NEW l \in alone, pc[l] = "done",
                      NEW features \in SetToSeqs(FolderRows),
                      NEW segment \in Segments, NEW code \in Codes \ {"unknown"}
               PROVE  [segment |-> segment, code |-> code] \in tables["live"].rows
                          <=> Import!ReadGpkgs(features)[segment] = Rank(code)
    BY DEF AgreesWithImporter
  <2> DEFINE row == [segment |-> segment, code |-> code]
             status == Import!ReadGpkgs(features)[segment]
  <2>1. TypeOK  BY DEF LoadInv
  <2>2. IsFiniteSet(FolderRows) /\ FolderRows \subseteq Row  BY <2>1, FolderIsFinite
  <2>3. tables["live"].rows = MostRestrictive(FolderRows)
    BY DEF LoadInv, Progress, LoadedTable
  <2>4. PICK n \in Nat :
            /\ features \in [1..n -> FolderRows] /\ Len(features) = n
            /\ \A r \in FolderRows : \E i \in 1..n : features[i] = r
    BY <2>2, OrderNamesAll
  <2>5. status \in Statuses /\ IsWorst(status, segment, features, n)
    <3>1. features \in [1..n -> Row]  BY <2>2, <2>4
    <3> QED  BY <2>4, <3>1, ReadsTheWorst
  <2>6. Rank(code) \in 0..2
    BY DEF Codes, Rank
  <2>7. \A i \in 1..n : features[i] \in FolderRows /\ features[i] \in Row
                       /\ Rank(features[i].code) \in Statuses
    BY <2>2, <2>4 DEF Row, Codes, Rank, Statuses
  <2> HIDE DEF status
  <2>8. ASSUME row \in MostRestrictive(FolderRows) PROVE status = Rank(code)
    <3>1. PICK i \in 1..n : features[i] = row
      BY <2>4, <2>8 DEF MostRestrictive
    <3>2. Rank(code) <= status
      BY <2>5, <3>1 DEF IsWorst
    <3>3. status # -1  BY <2>5, <2>6, <3>2 DEF Statuses
    <3>4. PICK j \in 1..n : features[j].segment = segment /\ Rank(features[j].code) = status
      BY <2>5, <3>3 DEF IsWorst
    <3>5. status <= Rank(code)
      BY <2>7, <2>8, <3>4 DEF MostRestrictive
    <3> QED  BY <2>5, <2>6, <3>2, <3>5 DEF Statuses
  <2>9. ASSUME status = Rank(code) PROVE row \in MostRestrictive(FolderRows)
    <3>1. PICK j \in 1..n : features[j].segment = segment /\ Rank(features[j].code) = status
      BY <2>5, <2>6, <2>9 DEF IsWorst
    <3>2. features[j] \in FolderRows /\ features[j] \in Row  BY <2>7
    <3>3. features[j].code = code
      BY <2>6, <2>9, <3>1, <3>2, RanksDiffer DEF Row
    <3>4. features[j] = row  BY <3>1, <3>2, <3>3 DEF Row
    <3>5. ASSUME NEW s \in FolderRows, s.segment = segment PROVE Rank(s.code) <= Rank(code)
      <4>1. PICK i \in 1..n : features[i] = s  BY <2>4
      <4> QED  BY <2>5, <2>9, <3>5, <4>1 DEF IsWorst
    <3> QED  BY <3>2, <3>4, <3>5 DEF MostRestrictive
  <2> QED  BY <2>3, <2>8, <2>9 DEF status
<1> QED  BY <1>1, LoadInvariant, PTL

(* The API's table never holds a key twice, with any number of loads at     *)
(* once: only a DISTINCT ON table is ever renamed to it (load-nhvr.sh:57-75). *)
THEOREM LiveIsAlwaysClean == Spec => []LiveIsClean
<1>1. LoadInv => LiveIsClean  BY DEF LoadInv
<1> QED  BY <1>1, LoadInvariant, PTL

(* The API's table is always there once it was, and changes in swaps only,  *)
(* with any number of loads at once (load-nhvr.sh:3-5).                     *)
THEOREM LiveIsSafe == Spec => LiveStays
<1> DEFINE Stays ==
      Exists("live") =>
          /\ "live" \in DOMAIN tables'
          /\ \/ tables'["live"].rows = tables["live"].rows
             \/ \E l \in Loaders : pc[l] = "swap" /\ pc'[l] = "dropOld"
<1>1. LoadInv /\ [Next]_vars => Stays
  <2> SUFFICES ASSUME LoadInv, [Next]_vars, Exists("live") PROVE Stays
    OBVIOUS
  <2>1. TypeOK  BY DEF LoadInv
  <2>2. ASSUME NEW l \in Loaders, Clear(l) \/ DropDedup(l) \/ DropOld(l) \/ DropStaging(l)
        PROVE Stays
    BY <2>2 DEF Clear, DropDedup, DropOld, DropStaging, Dropped, Exists
  <2>3. ASSUME NEW f \in DOMAIN folder, NEW rows \in SUBSET folder[f],
               tables' = Appended(rows)
        PROVE  Stays
    BY <2>3, AppendKeeps DEF Exists
  <2>4. ASSUME NEW l \in Loaders, LoadFile(l) \/ Interrupted(l) PROVE Stays
    BY <2>3, <2>4 DEF LoadFile, Interrupted, MayLoad, Exists
  <2>5. ASSUME NEW l \in Loaders, MakeDedup(l) PROVE Stays
    BY <2>5 DEF MakeDedup, Stored, Exists
  <2>6. ASSUME NEW l \in Loaders, Swap(l) PROVE Stays
    <3>1. "live" \in DOMAIN tables'
      BY <2>1, <2>6, SwappedTables DEF Swap, Swapped
    <3>2. pc[l] = "swap" /\ pc'[l] = "dropOld"
      BY <2>1, <2>6, StepTypes DEF Swap, Step
    <3> QED  BY <3>1, <3>2
  <2>7. ASSUME NEW l \in Loaders, CreateIndex(l) PROVE Stays
    <3>1. tables["live"] \in Table  BY <2>1 DEF TypeOK, Exists
    <3> QED  BY <2>1, <2>7, <3>1 DEF CreateIndex, TypeOK, Exists, Table
  <2>8. CASE UNCHANGED tables  BY <2>8 DEF Exists
  <2> QED
    BY <2>2, <2>4, <2>5, <2>6, <2>7, <2>8 DEF Next, Load, Start, ReplaceFile, vars
<1>2. ([][Stays]_vars) <=> LiveStays  BY DEF LiveStays
<1> QED  BY <1>1, <1>2, LoadInvariant, PTL DEF Spec
=============================================================================
