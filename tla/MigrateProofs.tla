--------------------------- MODULE MigrateProofs ---------------------------
(* Proofs about migrate.py: its types, and its inductive invariant, from     *)
(* which follow when a reported success is true, when an interrupted run can *)
(* be retried and that edits survive.                                        *)
EXTENDS Migrate, TLAPS

LEMMA InitTypes == Init => TypeOK
BY MigrateAssumption DEF Init, TypeOK, Database

LEMMA DatabaseSteps ==
    ASSUME db \in Database
    PROVE  /\ Dropped \in Database
           /\ [db EXCEPT !.tracked = TRUE] \in Database
           /\ \A h \in BOOLEAN : [db EXCEPT !.versions = @ \cup Adopted(db, h)] \in Database
           /\ \A name \in MIGRATIONS :
                 [ApplyFile(name) EXCEPT !.versions = @ \cup {name}] \in Database
           /\ \A p \in Parts : [db EXCEPT !.rows[p] = "edited"] \in Database
           /\ \A h \in BOOLEAN : Adopted(db, h) \in SUBSET Version
<1>1. Dropped \in Database
  BY DEF Dropped, Database, Parts, Version
<1>2. \A h \in BOOLEAN : Adopted(db, h) \in SUBSET Version
  BY DEF Adopted, LegacyApplied, Found, Database, Version, MIGRATIONS, Legacy
<1>3. \A name \in MIGRATIONS :
          [ApplyFile(name) EXCEPT !.versions = @ \cup {name}] \in Database
  BY DEF ApplyFile, TablesApplied, SeedApplied, Database, Version, MIGRATIONS
<1>4. \A p \in Parts : [db EXCEPT !.rows[p] = "edited"] \in Database
  BY DEF Database
<1>5. QED
  BY <1>1, <1>2, <1>3, <1>4 DEF Database

LEMMA NextTypes == TypeOK /\ [Next]_vars => TypeOK'
<1> SUFFICES ASSUME TypeOK, [Next]_vars PROVE TypeOK'
  OBVIOUS
<1> USE DEF TypeOK
<1>1. CASE UNCHANGED vars
  BY <1>1 DEF vars
<1>2. ASSUME NEW r \in Runners, NEW flag \in BOOLEAN, Start(r, flag) PROVE TypeOK'
  BY <1>2, MigrateAssumption DEF Start, Goto, FirstStep, Steps
<1>3. ASSUME NEW r \in Runners, Reset(r) PROVE TypeOK'
  BY <1>3, DatabaseSteps DEF Reset, Goto, Steps
<1>4. ASSUME NEW r \in Runners, Look(r) PROVE TypeOK'
  BY <1>4 DEF Look, Goto, Steps, Settled, Database
<1>5. ASSUME NEW r \in Runners, Track(r) PROVE TypeOK'
  BY <1>5, DatabaseSteps DEF Track, Goto, Steps, Settled
<1>6. ASSUME NEW r \in Runners, Adopt(r) PROVE TypeOK'
  BY <1>6, DatabaseSteps DEF Adopt, Goto, Steps, Settled
<1>7. ASSUME NEW r \in Runners, Apply(r) PROVE TypeOK'
  BY <1>7, DatabaseSteps DEF Apply, After, MIGRATIONS, Goto, Steps, Settled
<1>8. ASSUME NEW r \in Runners, Skip(r) \/ Refused(r) PROVE TypeOK'
  BY <1>8 DEF Skip, Refused, After, MIGRATIONS, Goto, Steps, Settled
<1>9. ASSUME NEW r \in Runners, Fail(r) PROVE TypeOK'
  BY <1>9, MigrateAssumption DEF Fail, Goto, Steps
<1>10. CASE Edit
  BY <1>10, DatabaseSteps DEF Edit
<1>11. QED
  BY <1>1, <1>2, <1>3, <1>4, <1>5, <1>6, <1>7, <1>8, <1>9, <1>10 DEF Next, Run

(* Every variable keeps its type, whatever databases the system starts from, *)
(* however many runs overlap.                                                *)
THEOREM MigrateTypes == Spec => []TypeOK
BY InitTypes, NextTypes, PTL DEF Spec

-----------------------------------------------------------------------------
(* What a history counts as applied (migrate.py:97-130).                     *)

(* A run that found the tracking table records what it counts as applied,    *)
(* and counts the same afterwards.                                           *)
LEMMA AdoptRecorded ==
    ASSUME NEW d \in Database, d.tracked
    PROVE  LET e == [d EXCEPT !.versions = @ \cup Counted(d)]
           IN  Counted(e) = Counted(d) /\ d.versions \subseteq Counted(d)
BY DEF Counted, Adopted, LegacyApplied, Database, MIGRATIONS, LEGACY_VERSIONS, Legacy, Version

(* One more file applied counts as that file. *)
LEMMA OneMoreFile ==
    ASSUME NEW d \in Database, d.tracked, NEW name \in MIGRATIONS,
           NEW e \in Database, e.tracked, e.versions = d.versions \cup {name}
    PROVE  Counted(e) = Counted(d) \cup {name}
BY DEF Counted, Adopted, LegacyApplied, Database, MIGRATIONS, LEGACY_VERSIONS

(* An empty history counts as nothing. *)
LEMMA NothingApplied ==
    ASSUME NEW d \in Database, d.versions = {}
    PROVE  Applied(d) = {}
BY DEF Applied, Counted, Adopted, LegacyApplied, MIGRATIONS, LEGACY_VERSIONS

(* A consistent database with both versions recorded is complete. *)
LEMMA RecordedIsComplete ==
    ASSUME NEW d \in Database, Consistent(d), d.tracked, MIGRATIONS \subseteq d.versions
    PROVE  Complete(d)
BY DEF Consistent, Applied, Counted, Adopted, Complete, MIGRATIONS

(* A consistent database can be finished, and lacks nothing it counts. *)
LEMMA ConsistentCanFinish ==
    ASSUME NEW d \in Database, Consistent(d)
    PROVE  CanFinish(d) /\ ~Short(d)
<1>1. CASE d.tracked
  BY <1>1 DEF Consistent, Applied, CanFinish, Short, MIGRATIONS
<1>2. CASE ~d.tracked
  BY <1>2 DEF Consistent, Applied, CanFinish, Short, Counted, Adopted, Found, MIGRATIONS
<1> QED  BY <1>1, <1>2 DEF Database

(* Of an older setup everything counts as applied; what may be missing is    *)
(* the goods part.                                                           *)
LEMMA OldSetupCounts ==
    ASSUME NEW d \in Database, OldSetup(d)
    PROVE  /\ MIGRATIONS \subseteq Counted(d) /\ CanFinish(d)
           /\ Short(d) <=> d.rows["goods"] = "none"
<1>1. MIGRATIONS \subseteq Counted(d)
  BY DEF OldSetup, Counted, Adopted, Found
<1>2. Whole(d) <=> d.rows["goods"] # "none"
  BY DEF OldSetup, Whole, Database, Parts
<1> QED  BY <1>1, <1>2 DEF CanFinish, Short, MIGRATIONS

(* The database at hand, as far as the one it came from decides it *)
CameFrom(d, o) ==
    /\ Left(o)
    /\ Consistent(o) => Consistent(d)
    /\ OldSetup(o) => /\ o.tables \subseteq d.tables /\ d.rows["core"] # "none"
                      /\ d.rows["goods"] # "none" <=> o.rows["goods"] # "none"
    /\ AdoptedShort(o) => AdoptedShort(d)

LEMMA OriginDecides == FromOrigin => CameFrom(db, origin)
BY DEF FromOrigin, FromOldSetup, FromAdoptedShort, CameFrom

LEMMA OriginDecidesNext == FromOrigin' => CameFrom(db', origin')
BY DEF FromOrigin, FromOldSetup, FromAdoptedShort, CameFrom

(* What was missing at the start is missing for ever ... *)
LEMMA ShortStays ==
    ASSUME NEW d \in Database, NEW o \in Database, CameFrom(d, o), Short(o)
    PROVE  ~Whole(d)
<1>1. CASE Consistent(o)
  BY <1>1, ConsistentCanFinish
<1>2. CASE OldSetup(o)
  BY <1>2, OldSetupCounts DEF CameFrom, Whole, Parts
<1>3. CASE Stuck(o)
  BY <1>3 DEF Stuck, CanFinish, Short, MIGRATIONS
<1>4. CASE AdoptedShort(o)
  BY <1>4 DEF CameFrom, AdoptedShort, Short
<1> QED  BY <1>1, <1>2, <1>3, <1>4 DEF CameFrom, Left

(* ... and otherwise both versions on record are the whole schema. *)
LEMMA RecordedIsWhole ==
    ASSUME NEW d \in Database, NEW o \in Database, CameFrom(d, o), ~Short(o), ~Stuck(o),
           d.tracked, MIGRATIONS \subseteq d.versions
    PROVE  Complete(d)
<1>1. CASE Consistent(o)
  BY <1>1, RecordedIsComplete DEF CameFrom
<1>2. CASE OldSetup(o)
  <2>1. Whole(o) /\ o.rows["goods"] # "none"
    BY <1>2, OldSetupCounts DEF Short
  <2>2. Whole(d)
    BY <1>2, <2>1 DEF CameFrom, Whole, Parts, Database
  <2> QED  BY <2>2 DEF Complete
<1> QED  BY <1>1, <1>2 DEF CameFrom, Left, AdoptedShort

(* What a report of success says, once its run has recorded both versions *)
LEMMA ReportIsTrue ==
    ASSUME NEW d \in Database, NEW o \in Database, CameFrom(d, o), ~Stuck(o),
           ~Short(o) => Complete(d)
    PROVE  Complete(d) <=> ~Short(o)
BY ShortStays DEF Complete

-----------------------------------------------------------------------------
(* Every commit leaves the database what its origin says.                    *)

LEMMA TrackKeeps ==
    ASSUME MigrateInv, NEW r \in Runners, Track(r)
    PROVE  /\ db' \in Database /\ db'.tracked /\ db'.versions = db.versions
           /\ db'.tables = db.tables /\ db'.rows = db.rows
           /\ had[r] => db' = db
           /\ Consistent(origin) => Consistent(db')
<1>1. /\ db' = [db EXCEPT !.tracked = TRUE] /\ db' \in Database /\ db \in Database
      /\ had[r] \in BOOLEAN /\ pc[r] = "track"
  BY DatabaseSteps DEF Track, MigrateInv, TypeOK
<1>2. /\ db'.tracked /\ db'.versions = db.versions
      /\ db'.tables = db.tables /\ db'.rows = db.rows
  BY <1>1 DEF Database
<1>3. CASE had[r]
  <2>1. db.tracked
    BY <1>1, <1>3 DEF MigrateInv, Recorded, Running, Steps
  <2>2. db' = db
    BY <1>1, <2>1 DEF Database
  <2> QED  BY <1>1, <1>2, <2>2 DEF MigrateInv, FromOrigin
<1>4. CASE ~had[r]
  <2>1. db.versions = {} /\ ~db.tracked
    BY <1>1, <1>4 DEF MigrateInv, Deciding
  <2>2. Applied(db') = {} /\ Applied(db) = {}
    BY <1>1, <1>2, <2>1, NothingApplied
  <2>3. Consistent(db) => Consistent(db')
    BY <1>2, <2>2 DEF Consistent
  <2> QED  BY <1>1, <1>2, <1>4, <2>3 DEF MigrateInv, FromOrigin
<1> QED  BY <1>1, <1>3, <1>4

(* A run that found a history changes nothing in what it counts; one that    *)
(* found none adopts an older setup, or nothing.                             *)
LEMMA AdoptKeeps ==
    ASSUME MigrateInv, NEW r \in Runners, Adopt(r)
    PROVE  /\ db' \in Database /\ db'.tracked
           /\ db'.tables = db.tables /\ db'.rows = db.rows
           /\ applied'[r] \subseteq db'.versions
           /\ db.versions \subseteq db'.versions
           /\ had[r] => Counted(db') = Counted(db) /\ applied'[r] = Counted(db)
           /\ had[r] /\ Counted(db) = db.versions => db' = db
           /\ ~had[r] => db'.versions = Found(db) /\ ~origin.tracked
           /\ Consistent(origin) => Consistent(db')
<1> DEFINE a == Adopted(db, had[r])
<1>1. db' = [db EXCEPT !.versions = @ \cup a] /\ db \in Database /\ db' \in Database
      /\ applied'[r] = a /\ db.tracked /\ had[r] \in BOOLEAN
  BY DatabaseSteps DEF MigrateInv, TypeOK, Adopt
<1>2. db'.tables = db.tables /\ db'.rows = db.rows /\ db'.tracked
      /\ db'.versions = db.versions \cup a
  BY <1>1 DEF Database
<1>3. CASE had[r]
  <2>1. a = Counted(db)
    BY <1>1, <1>3 DEF Counted
  <2>2. Counted(db') = Counted(db) /\ db.versions \subseteq Counted(db)
    BY <1>1, <2>1, AdoptRecorded
  <2>3. Consistent(db) => Consistent(db')
    BY <1>1, <1>2, <2>2 DEF Consistent, Applied, Whole
  <2>4. Counted(db) = db.versions => db' = db
    BY <1>1, <2>1 DEF Database
  <2> QED  BY <1>1, <1>2, <1>3, <2>1, <2>2, <2>3, <2>4 DEF MigrateInv, FromOrigin
<1>4. CASE ~had[r]
  <2>1. /\ a = Found(db) /\ db.versions = {} /\ ~origin.tracked
        /\ Consistent(origin) => "core" \notin db.tables
    BY <1>1, <1>4 DEF MigrateInv, Deciding, Adopt, Adopted
  <2>2. ASSUME Consistent(origin) PROVE db' = db
    <3>1. a = {}
      BY <2>1, <2>2 DEF Found
    <3> QED  BY <1>1, <3>1 DEF Database
  <2>3. Consistent(origin) => Consistent(db')
    BY <2>2 DEF MigrateInv, FromOrigin
  <2> QED  BY <1>1, <1>2, <1>4, <2>1, <2>3
<1> QED  BY <1>1, <1>3, <1>4

LEMMA ApplyKeeps ==
    ASSUME MigrateInv, NEW r \in Runners, NEW name \in MIGRATIONS,
           MayApply(name), MayRecord(name),
           db' = [ApplyFile(name) EXCEPT !.versions = @ \cup {name}]
    PROVE  /\ db' \in Database /\ db'.tracked
           /\ db'.versions = db.versions \cup {name}
           /\ Counted(db') = Counted(db) \cup {name}
           /\ db.tables \subseteq db'.tables
           /\ name = "tables" => db'.rows = db.rows
           /\ name = "seed" => \A p \in Parts : db.rows[p] = "none"
           /\ Complete(db) => Complete(db')
           /\ Consistent(origin) => Consistent(db')
           /\ \A p \in Parts : db.rows[p] # "none" => db'.rows[p] = db.rows[p]
<1>1. db \in Database /\ db' \in Database /\ db.tracked
  BY DatabaseSteps DEF MigrateInv, TypeOK, MayRecord
<1>2. db'.tracked /\ db'.versions = db.versions \cup {name}
  BY <1>1 DEF ApplyFile, TablesApplied, SeedApplied, Database
<1>3. Counted(db') = Counted(db) \cup {name}
  BY <1>1, <1>2, OneMoreFile
<1>4. Applied(db') = Applied(db) \cup {name}
  BY <1>1, <1>2, <1>3 DEF Applied
<1>5. CASE name = "tables"
  <2>1. db'.tables = Parts /\ db'.rows = db.rows /\ db.tables \subseteq db'.tables
    BY <1>1, <1>5 DEF ApplyFile, TablesApplied, Database
  <2>2. Consistent(db) => Consistent(db')
    BY <1>2, <1>4, <1>5, <2>1 DEF Consistent, Whole
  <2> QED  BY <1>1, <1>2, <1>3, <1>5, <2>1, <2>2 DEF Complete, Whole, MigrateInv, FromOrigin
<1>6. CASE name = "seed"
  <2>1. /\ db'.tables = db.tables /\ db.tables = Parts
        /\ \A p \in Parts : db'.rows[p] = "initial" /\ db.rows[p] = "none"
    BY <1>1, <1>6 DEF ApplyFile, SeedApplied, MayApply, Database
  <2>2. Consistent(db')
    BY <1>2, <1>4, <1>6, <2>1 DEF Consistent, Whole
  <2>3. "core" \in Parts
    BY DEF Parts
  <2> QED  BY <1>1, <1>2, <1>3, <1>6, <2>1, <2>2, <2>3 DEF Complete, Whole
<1> QED  BY <1>5, <1>6 DEF MIGRATIONS

LEMMA EditKeeps ==
    ASSUME db \in Database, Edit
    PROVE  /\ db'.tracked = db.tracked /\ db'.versions = db.versions /\ db'.tables = db.tables
           /\ \A p \in Parts : (db'.rows[p] = "none") <=> (db.rows[p] = "none")
           /\ Counted(db') = Counted(db)
           /\ CanFinish(db') <=> CanFinish(db)
           /\ Consistent(db) => Consistent(db')
           /\ Complete(db) => Complete(db')
           /\ AdoptedShort(db) => AdoptedShort(db')
<1>1. PICK p \in Parts : db.rows[p] = "initial" /\ db' = [db EXCEPT !.rows[p] = "edited"]
  BY DEF Edit
<1>2. /\ db'.tracked = db.tracked /\ db'.versions = db.versions /\ db'.tables = db.tables
      /\ \A q \in Parts : (db'.rows[q] = "none") <=> (db.rows[q] = "none")
  BY <1>1 DEF Database
<1>3. Counted(db') = Counted(db)
  BY <1>2 DEF Counted, Adopted, Found, Parts
<1>4. (Whole(db') <=> Whole(db)) /\ (CanFinish(db') <=> CanFinish(db))
  BY <1>2, <1>3 DEF Whole, CanFinish
<1>5. Consistent(db) => Consistent(db')
  BY <1>2, <1>3, <1>4 DEF Consistent, Applied
<1>6. AdoptedShort(db) => AdoptedShort(db')
  BY <1>2, <1>3, <1>4 DEF AdoptedShort, Short, Parts
<1> QED  BY <1>2, <1>3, <1>4, <1>5, <1>6 DEF Complete

-----------------------------------------------------------------------------
(* Every step keeps the invariant.                                           *)

(* A step that commits nothing *)
LEMMA OriginKept ==
    ASSUME MigrateInv, NEW r \in Runners, UNCHANGED <<db, origin>>,
           \A q \in Runners \ {r} : /\ pc'[q] = pc[q] /\ had'[q] = had[q]
                                    /\ applied'[q] = applied[q],
           pc[r] = "adopt" => had[r] \/ failures' > 0,
           failures > 0 => failures' > 0,
           pc'[r] = "done" => ~Stuck(origin),
           pc'[r] \in {"tables", "seed"} =>
               pc[r] \in {"tables", "seed"} /\ applied'[r] = applied[r]
    PROVE  FromOrigin'
<1>1. OldSetup(origin) => FromOldSetup'
  BY DEF MigrateInv, FromOrigin, FromOldSetup
<1>2. AdoptedShort(origin) => FromAdoptedShort'
  BY DEF MigrateInv, FromOrigin, FromAdoptedShort
<1>3. Stuck(origin) => \A q \in Runners : pc'[q] # "done"
  BY DEF MigrateInv, FromOrigin
<1> QED  BY <1>1, <1>2, <1>3 DEF MigrateInv, FromOrigin

(* A report of success stays true while what completes a database is kept.   *)
LEMMA ReportsKept ==
    ASSUME MigrateInv, TypeOK', FromOrigin', UNCHANGED origin,
           Complete(db) => Complete(db'),
           \A q \in Runners \ stale' : pc'[q] = "done" =>
               \/ q \notin stale /\ pc[q] = "done"
               \/ ~Short(origin) => Complete(db')
    PROVE  DoneMeansComplete'
<1> SUFFICES ASSUME NEW q \in Runners \ stale', pc'[q] = "done"
             PROVE  Complete(db') <=> ~Short(origin')
  BY DEF DoneMeansComplete
<1>1. db' \in Database /\ origin' \in Database /\ CameFrom(db', origin') /\ ~Stuck(origin')
  BY OriginDecidesNext DEF TypeOK, FromOrigin
<1>2. ~Short(origin') => Complete(db')
  BY DEF MigrateInv, DoneMeansComplete
<1> QED  BY <1>1, <1>2, ReportIsTrue

LEMMA StartInv == ASSUME MigrateInv, NEW r \in Runners, NEW flag \in BOOLEAN, Start(r, flag)
                  PROVE  MigrateInv'
<1>1. TypeOK /\ TypeOK' /\ UNCHANGED <<db, failures, origin>>
  BY NextTypes DEF MigrateInv, Start, Next
<1>2. /\ \A q \in Runners : Running(q) => had[q] /\ ~flag
      /\ ~Running(r)
  BY DEF Start, MayStart
<1>3. /\ \A q \in Runners \ {r} : pc'[q] = pc[q] /\ had'[q] = had[q]
                                  /\ reset'[q] = reset[q] /\ applied'[q] = applied[q]
      /\ pc'[r] = (IF flag THEN "reset" ELSE "look") /\ had'[r] = FALSE /\ reset'[r] = flag
  BY <1>1 DEF Start, Goto, FirstStep, TypeOK
<1>4. ASSUME NEW q \in Runners PROVE Deciding(q)' /\ Recorded(q)'
  <2>1. CASE q = r
    BY <1>1, <1>2, <1>3, <2>1 DEF Deciding, Recorded, Alone, Running, Steps
  <2>2. CASE q # r
    BY <1>1, <1>2, <1>3, <2>2 DEF MigrateInv, Deciding, Recorded, Alone, Running, Steps
  <2> QED  BY <2>1, <2>2
<1>5. FromOrigin'
  <2>1. pc[r] # "adopt" /\ pc'[r] \notin {"done", "tables", "seed"}
    BY <1>2, <1>3 DEF Running, Steps
  <2> QED  BY <1>1, <1>3, <2>1, OriginKept
<1>6. DoneMeansComplete'
  <2>1. \A q \in Runners \ stale' : pc'[q] = "done" => q \notin stale /\ pc[q] = "done"
    BY <1>3 DEF Start
  <2> QED  BY <1>1, <1>5, <2>1, ReportsKept
<1> QED  BY <1>1, <1>4, <1>5, <1>6 DEF MigrateInv

LEMMA ResetInv == ASSUME MigrateInv, NEW r \in Runners, Reset(r) PROVE MigrateInv'
<1>1. TypeOK /\ TypeOK' /\ db' = Dropped /\ origin' = Dropped /\ Dropped \in Database
  BY NextTypes, DatabaseSteps DEF MigrateInv, Reset, Next, Run, TypeOK
<1>2. Alone(r) /\ ~had[r]
  BY DEF MigrateInv, Reset, Deciding
<1>3. /\ \A q \in Runners \ {r} : pc'[q] = pc[q]
      /\ pc'[r] = "look" /\ UNCHANGED <<had, reset, applied>>
  BY <1>1 DEF Reset, Goto, TypeOK
<1>4. /\ Consistent(Dropped) /\ ~OldSetup(Dropped) /\ ~Stuck(Dropped)
      /\ ~AdoptedShort(Dropped)
  BY DEF Dropped, Consistent, Applied, OldSetup, Stuck, AdoptedShort
<1>5. FromOrigin'
  BY <1>1, <1>4 DEF FromOrigin, Left
<1>6. ASSUME NEW q \in Runners PROVE Deciding(q)' /\ Recorded(q)'
  BY <1>2, <1>3 DEF Deciding, Recorded, Alone, Running, Steps
<1>7. DoneMeansComplete'
  BY <1>3 DEF Reset, DoneMeansComplete
<1> QED  BY <1>1, <1>5, <1>6, <1>7 DEF MigrateInv

LEMMA LookInv == ASSUME MigrateInv, NEW r \in Runners, Look(r) PROVE MigrateInv'
<1>1. TypeOK /\ TypeOK' /\ UNCHANGED <<db, applied, reset, stale, failures, origin>>
  BY NextTypes DEF MigrateInv, Look, Next, Run, Settled
<1>2. /\ \A q \in Runners \ {r} : pc'[q] = pc[q] /\ had'[q] = had[q]
      /\ pc'[r] = "track" /\ had'[r] = db.tracked /\ pc[r] = "look"
  BY <1>1 DEF Look, Goto, TypeOK
<1>3. ASSUME ~db.tracked
      PROVE  /\ Alone(r) /\ db.versions = {} /\ ~origin.tracked
             /\ Consistent(origin) => "core" \notin db.tables
  <2>1. \A q \in Runners \ {r} : Running(q) => had[q] /\ db.tracked
    BY <1>2 DEF MigrateInv, Deciding, Recorded
  <2>2. FromOrigin
    BY DEF MigrateInv
  <2>3. Consistent(origin) => db.versions = {} /\ "core" \notin db.tables
    BY <1>3, <2>2 DEF FromOrigin, Consistent
  <2>4. db.versions = {} /\ ~origin.tracked
    BY <1>3, <2>2, <2>3 DEF FromOrigin, FromOldSetup, Left, Stuck, AdoptedShort
  <2> QED  BY <1>3, <2>1, <2>3, <2>4 DEF Alone
<1>4. ASSUME NEW q \in Runners PROVE Deciding(q)' /\ Recorded(q)'
  <2>1. CASE q = r
    BY <1>1, <1>2, <1>3, <2>1 DEF Deciding, Recorded, Alone, Running, Steps
  <2>2. CASE q # r
    BY <1>1, <1>2, <2>2 DEF MigrateInv, Deciding, Recorded, Alone, Running, Steps
  <2> QED  BY <2>1, <2>2
<1>5. FromOrigin'
  BY <1>1, <1>2, OriginKept
<1>6. DoneMeansComplete'
  BY <1>1, <1>2, <1>5, ReportsKept
<1> QED  BY <1>1, <1>4, <1>5, <1>6 DEF MigrateInv

(* The steps after the decision: a run moves on, what is recorded stays.      *)
LEMMA LaterInv ==
    ASSUME MigrateInv, TypeOK', FromOrigin', NEW r \in Runners,
           pc[r] \in {"track", "adopt", "tables", "seed"},
           pc'[r] \in {"adopt", "tables", "seed", "done", "failed"},
           \A q \in Runners \ {r} : pc'[q] = pc[q] /\ applied'[q] = applied[q],
           UNCHANGED <<had, reset, stale, origin>>,
           db.versions \subseteq db'.versions,
           db.tracked \/ pc[r] = "track" => db'.tracked,
           Complete(db) => Complete(db'),
           ~had[r] /\ pc'[r] = "adopt" =>
               /\ db'.versions = {} /\ ~origin.tracked
               /\ Consistent(origin) => "core" \notin db'.tables,
           Recorded(r)',
           pc'[r] = "done" => db'.tracked /\ MIGRATIONS \subseteq db'.versions
    PROVE  MigrateInv'
<1>1. ASSUME NEW q \in Runners PROVE Deciding(q)' /\ Recorded(q)'
  <2>1. CASE q = r
    BY <2>1 DEF MigrateInv, Deciding, Alone, Running, Steps
  <2>2. CASE q # r
    <3>1. pc[q] \in {"track", "adopt", "tables", "seed"} => had[q]
      BY <2>2 DEF MigrateInv, Deciding, Alone, Running, Steps
    <3> QED  BY <2>2, <3>1 DEF MigrateInv, Deciding, Recorded, Alone, Running, Steps
  <2> QED  BY <2>1, <2>2
<1>2. ASSUME pc'[r] = "done", ~Short(origin) PROVE Complete(db')
  <2>1. /\ db' \in Database /\ origin \in Database
        /\ CameFrom(db', origin) /\ ~Stuck(origin)
    BY <1>2, OriginDecidesNext DEF TypeOK, FromOrigin
  <2> QED  BY <1>2, <2>1, RecordedIsWhole
<1>3. DoneMeansComplete'
  <2>1. \A q \in Runners \ stale' : pc'[q] = "done" =>
            (q \notin stale /\ pc[q] = "done") \/ (~Short(origin) => Complete(db'))
    BY <1>2
  <2> QED  BY <2>1, ReportsKept
<1> QED  BY <1>1, <1>3 DEF MigrateInv

LEMMA TrackInv == ASSUME MigrateInv, NEW r \in Runners, Track(r) PROVE MigrateInv'
<1>1. TypeOK /\ TypeOK' /\ UNCHANGED <<had, applied, reset, stale, failures, origin>>
  BY NextTypes DEF MigrateInv, Track, Next, Run, Settled
<1>2. /\ \A q \in Runners \ {r} : pc'[q] = pc[q]
      /\ pc'[r] = "adopt" /\ pc[r] = "track"
  BY <1>1 DEF Track, Goto, TypeOK
<1>3. /\ db'.tracked /\ db'.versions = db.versions
      /\ db'.tables = db.tables /\ db'.rows = db.rows
      /\ had[r] => db' = db
      /\ Consistent(origin) => Consistent(db')
  BY TrackKeeps
<1>4. Complete(db) => Complete(db')
  BY <1>3 DEF Complete, Whole
<1>5. ~had[r] => /\ db'.versions = {} /\ ~origin.tracked /\ ~db.tracked
                 /\ Consistent(origin) => "core" \notin db'.tables
  BY <1>2, <1>3 DEF MigrateInv, Deciding
<1>6. Recorded(r)'
  BY <1>2, <1>3 DEF Recorded
<1>7. FromOrigin'
  <2>1. CASE had[r]
    <3>1. db' = db
      BY <1>3, <2>1
    <3> QED  BY <1>1, <1>2, <2>1, <3>1, OriginKept
  <2>2. CASE ~had[r]
    <3>1. ~Stuck(origin) /\ ~AdoptedShort(origin) /\ ~origin.tracked
      BY <1>5, <2>2 DEF Stuck, AdoptedShort
    <3>2. OldSetup(origin) => FromOldSetup'
      BY <1>1, <1>2, <1>3, <2>2 DEF MigrateInv, FromOrigin, FromOldSetup
    <3> QED  BY <1>1, <1>3, <3>1, <3>2 DEF MigrateInv, FromOrigin
  <2> QED  BY <2>1, <2>2
<1> QED  BY <1>1, <1>2, <1>3, <1>4, <1>5, <1>6, <1>7, LaterInv

LEMMA AdoptInv == ASSUME MigrateInv, NEW r \in Runners, Adopt(r) PROVE MigrateInv'
<1>1. TypeOK /\ TypeOK' /\ UNCHANGED <<had, reset, stale, failures, origin>>
  BY NextTypes DEF MigrateInv, Adopt, Next, Run, Settled
<1>2. /\ \A q \in Runners \ {r} : pc'[q] = pc[q] /\ applied'[q] = applied[q]
      /\ pc'[r] = "tables" /\ pc[r] = "adopt" /\ db.tracked
  BY <1>1 DEF Adopt, Goto, TypeOK
<1>3. FromOrigin
  BY DEF MigrateInv
<1>4. origin.tracked => /\ had[r] /\ Counted(db') = Counted(db)
                        /\ applied'[r] = Counted(db)
  BY AdoptKeeps
<1>5. Stuck(origin) => Stuck(db') /\ \A q \in Runners : pc'[q] # "done"
  <2>1. Stuck(origin) => CanFinish(db') = CanFinish(db)
    BY <1>4, AdoptKeeps DEF Stuck, CanFinish
  <2> QED  BY <1>2, <1>3, <2>1, AdoptKeeps DEF FromOrigin, Stuck, CanFinish
<1>6. AdoptedShort(origin) => FromAdoptedShort'
  <2> SUFFICES ASSUME AdoptedShort(origin) PROVE FromAdoptedShort'
    OBVIOUS
  <2>1. FromAdoptedShort /\ origin.tracked
    BY <1>3 DEF FromOrigin, AdoptedShort
  <2>2. AdoptedShort(db')
    BY <1>4, <2>1, AdoptKeeps DEF FromAdoptedShort, AdoptedShort, Short, Whole
  <2>3. MIGRATIONS \subseteq applied'[r]
    BY <1>4, <2>1 DEF FromAdoptedShort, AdoptedShort, Short
  <2> QED  BY <1>2, <2>1, <2>2, <2>3 DEF FromAdoptedShort
<1>7. OldSetup(origin) => FromOldSetup'
  <2> SUFFICES ASSUME OldSetup(origin) PROVE FromOldSetup'
    OBVIOUS
  <2>1. FromOldSetup
    BY <1>3 DEF FromOrigin
  <2>2. CASE had[r]
    <3>1. Counted(db) = db.versions
      BY <1>2, <2>1 DEF FromOldSetup, Counted, Adopted, LegacyApplied, MIGRATIONS,
         LEGACY_VERSIONS
    <3>2. db' = db
      BY <2>2, <3>1, AdoptKeeps
    <3> QED  BY <1>1, <1>2, <2>1, <2>2, <3>2 DEF FromOldSetup
  <2>3. CASE ~had[r]
    <3>1. db'.versions = Found(db) /\ "seed" \in Found(db) /\ "tables" \in Found(db)
          /\ "create_table" \notin Found(db) /\ "hvnl_seed" \notin Found(db)
      BY <2>1, <2>3, AdoptKeeps DEF FromOldSetup, Found, MIGRATIONS
    <3> QED  BY <1>1, <2>1, <3>1, AdoptKeeps DEF FromOldSetup
  <2> QED  BY <2>2, <2>3
<1>8. FromOrigin'
  BY <1>1, <1>3, <1>5, <1>6, <1>7, AdoptKeeps DEF FromOrigin
<1>9. Complete(db) => Complete(db')
  BY AdoptKeeps DEF Complete, Whole
<1>10. Recorded(r)'
  BY <1>2, AdoptKeeps DEF Recorded
<1> QED  BY <1>1, <1>2, <1>8, <1>9, <1>10, AdoptKeeps, LaterInv

LEMMA ApplyInv == ASSUME MigrateInv, NEW r \in Runners, Apply(r) PROVE MigrateInv'
<1>1. TypeOK /\ TypeOK' /\ UNCHANGED <<had, applied, reset, stale, failures, origin>>
  BY NextTypes DEF MigrateInv, Apply, Next, Run, Settled
<1>2. PICK name \in MIGRATIONS :
          /\ pc[r] = name /\ name \notin applied[r]
          /\ MayApply(name) /\ MayRecord(name) /\ Goto(r, After(name))
          /\ db' = [ApplyFile(name) EXCEPT !.versions = @ \cup {name}]
  BY DEF Apply
<1>3. /\ \A q \in Runners \ {r} : pc'[q] = pc[q]
      /\ pc'[r] = (IF name = "tables" THEN "seed" ELSE "done")
      /\ pc[r] \in {"tables", "seed"}
  BY <1>1, <1>2 DEF Goto, After, TypeOK, MIGRATIONS
<1>4. /\ db'.tracked /\ db'.versions = db.versions \cup {name}
      /\ Counted(db') = Counted(db) \cup {name}
      /\ db.tables \subseteq db'.tables
      /\ name = "tables" => db'.rows = db.rows
      /\ name = "seed" => \A p \in Parts : db.rows[p] = "none"
      /\ Complete(db) => Complete(db')
      /\ Consistent(origin) => Consistent(db')
  BY <1>2, ApplyKeeps
<1>5. FromOrigin
  BY DEF MigrateInv
<1>6. Recorded(r) /\ Recorded(r)'
  BY <1>1, <1>2, <1>3, <1>4 DEF MigrateInv, Recorded
<1>7. Stuck(origin) => Stuck(db') /\ \A q \in Runners : pc'[q] # "done"
  <2> SUFFICES ASSUME Stuck(origin) PROVE Stuck(db') /\ \A q \in Runners : pc'[q] # "done"
    OBVIOUS
  <2>1. Stuck(db) /\ \A q \in Runners : pc[q] # "done"
    BY <1>5 DEF FromOrigin
  <2>2. name = "tables"
    BY <1>2, <1>4, <2>1 DEF Stuck, CanFinish, MIGRATIONS
  <2> QED  BY <1>3, <1>4, <2>1, <2>2 DEF Stuck, CanFinish
<1>8. ~AdoptedShort(origin)
  BY <1>2, <1>3, <1>5 DEF FromOrigin, FromAdoptedShort
<1>9. OldSetup(origin) => FromOldSetup'
  <2> SUFFICES ASSUME OldSetup(origin) PROVE FromOldSetup'
    OBVIOUS
  <2>1. FromOldSetup
    BY <1>5 DEF FromOrigin
  <2>2. name = "tables" /\ db'.rows = db.rows
    BY <1>2, <1>4, <2>1 DEF FromOldSetup, MIGRATIONS, Parts
  <2>3. db.tracked
    BY <1>2 DEF MayRecord
  <2>4. db.tracked /\ "seed" \notin db.versions =>
            failures > 0 \/ \E q \in Runners : pc'[q] = "adopt" /\ ~had[q]
    BY <1>3, <2>1 DEF FromOldSetup
  <2> QED  BY <1>1, <1>4, <2>1, <2>2, <2>3, <2>4 DEF FromOldSetup
<1>10. FromOrigin'
  BY <1>1, <1>4, <1>5, <1>7, <1>8, <1>9 DEF FromOrigin
<1>11. ASSUME pc'[r] = "done" PROVE db'.tracked /\ MIGRATIONS \subseteq db'.versions
  BY <1>2, <1>3, <1>4, <1>6, <1>11 DEF Recorded, MIGRATIONS
<1> QED  BY <1>1, <1>3, <1>4, <1>6, <1>10, <1>11, LaterInv

LEMMA SkipInv == ASSUME MigrateInv, NEW r \in Runners, Skip(r) PROVE MigrateInv'
<1>1. TypeOK /\ TypeOK' /\ UNCHANGED <<db, had, applied, reset, stale, failures, origin>>
  BY NextTypes DEF MigrateInv, Skip, Next, Run, Settled
<1>2. PICK name \in MIGRATIONS : pc[r] = name /\ name \in applied[r] /\ Goto(r, After(name))
  BY DEF Skip
<1>3. /\ \A q \in Runners \ {r} : pc'[q] = pc[q]
      /\ pc'[r] = (IF name = "tables" THEN "seed" ELSE "done")
      /\ pc[r] \in {"tables", "seed"}
  BY <1>1, <1>2 DEF Goto, After, TypeOK, MIGRATIONS
<1>4. Recorded(r) /\ name \in db.versions /\ db.tracked
  BY <1>2, <1>3 DEF MigrateInv, Recorded
<1>5. Recorded(r)'
  BY <1>1, <1>2, <1>3, <1>4 DEF Recorded, MIGRATIONS
<1>6. ASSUME pc'[r] = "done" PROVE db'.tracked /\ MIGRATIONS \subseteq db'.versions
  BY <1>1, <1>2, <1>3, <1>4, <1>6 DEF Recorded, MIGRATIONS
<1>7. ASSUME pc'[r] = "done" PROVE ~Stuck(origin)
  <2>1. "seed" \in db.versions
    BY <1>1, <1>6, <1>7 DEF MIGRATIONS
  <2>2. CanFinish(db)
    BY <1>4, <2>1 DEF CanFinish, Counted, Adopted
  <2> QED  BY <2>2 DEF MigrateInv, FromOrigin, Stuck
<1>8. FromOrigin'
  BY <1>1, <1>3, <1>7, OriginKept
<1> QED  BY <1>1, <1>3, <1>4, <1>5, <1>6, <1>8, LaterInv

(* A run that stops, at any step. *)
LEMMA StopInv ==
    ASSUME MigrateInv, NEW r \in Runners, Refused(r) \/ Fail(r)
    PROVE  MigrateInv'
<1>1. TypeOK /\ TypeOK' /\ UNCHANGED <<db, had, applied, reset, stale, origin>>
  BY NextTypes DEF MigrateInv, Refused, Fail, Next, Run, Settled
<1>2. pc'[r] = "failed" /\ \A q \in Runners \ {r} : pc'[q] = pc[q]
  BY <1>1 DEF Refused, Fail, Goto, TypeOK
<1>3. ASSUME NEW q \in Runners PROVE Deciding(q)' /\ Recorded(q)'
  BY <1>1, <1>2 DEF MigrateInv, Deciding, Recorded, Alone, Running, Steps
<1>4. failures \in Nat /\ (failures' = failures \/ failures' = failures + 1)
  BY MigrateAssumption DEF MigrateInv, TypeOK, Refused, Fail, Settled
<1>5. pc[r] = "adopt" => failures' > 0
  BY <1>4 DEF MigrateInv, Recorded, Refused, Fail, MIGRATIONS
<1>6. FromOrigin'
  BY <1>1, <1>2, <1>4, <1>5, OriginKept
<1>7. DoneMeansComplete'
  BY <1>1, <1>2, <1>6, ReportsKept
<1> QED  BY <1>1, <1>3, <1>6, <1>7 DEF MigrateInv

LEMMA EditInv == ASSUME MigrateInv, Edit PROVE MigrateInv'
<1>1. TypeOK /\ TypeOK' /\ UNCHANGED <<pc, had, applied, reset, stale, failures, origin>>
  BY NextTypes DEF MigrateInv, Edit, Next
<1>2. /\ db'.tracked = db.tracked /\ db'.versions = db.versions /\ db'.tables = db.tables
      /\ \A p \in Parts : (db'.rows[p] = "none") <=> (db.rows[p] = "none")
      /\ CanFinish(db') <=> CanFinish(db)
      /\ Consistent(db) => Consistent(db')
      /\ Complete(db) => Complete(db')
      /\ AdoptedShort(db) => AdoptedShort(db')
  BY <1>1, EditKeeps DEF TypeOK
<1>3. ASSUME NEW q \in Runners PROVE Deciding(q)' /\ Recorded(q)'
  BY <1>1, <1>2 DEF MigrateInv, Deciding, Recorded, Alone, Running
<1>4. FromOldSetup => FromOldSetup'
  BY <1>1, <1>2 DEF FromOldSetup, Parts
<1>5. FromAdoptedShort => FromAdoptedShort'
  BY <1>1, <1>2 DEF FromAdoptedShort
<1>6. Stuck(db) => Stuck(db')
  BY <1>2 DEF Stuck
<1>7. FromOrigin'
  BY <1>1, <1>2, <1>4, <1>5, <1>6 DEF MigrateInv, FromOrigin
<1>8. DoneMeansComplete'
  BY <1>1, <1>2, <1>7, ReportsKept
<1> QED  BY <1>1, <1>3, <1>7, <1>8 DEF MigrateInv

LEMMA NextInv == MigrateInv /\ [Next]_vars => MigrateInv'
<1> SUFFICES ASSUME MigrateInv, [Next]_vars PROVE MigrateInv'
  OBVIOUS
<1>1. CASE UNCHANGED vars
  BY <1>1 DEF vars, MigrateInv, TypeOK, DoneMeansComplete, Deciding, Recorded, Alone, Running,
     FromOrigin, FromOldSetup, FromAdoptedShort
<1>2. CASE Next
  BY <1>2, StartInv, ResetInv, LookInv, TrackInv, AdoptInv, ApplyInv, SkipInv, StopInv,
     EditInv DEF Next, Run
<1> QED  BY <1>1, <1>2

LEMMA InitInv ==
    ASSUME \A d \in Databases : Left(d), Init
    PROVE  MigrateInv
<1>1. TypeOK /\ Left(db) /\ origin = db /\ \A r \in Runners : pc[r] = "idle"
  BY InitTypes DEF Init
<1>2. \A r \in Runners : Deciding(r) /\ Recorded(r)
  BY <1>1 DEF Deciding, Recorded, Running, Steps
<1>3. OldSetup(db) => FromOldSetup
  BY <1>1 DEF OldSetup, FromOldSetup
<1>4. FromOrigin
  BY <1>1, <1>3 DEF FromOrigin, FromAdoptedShort
<1> QED  BY <1>1, <1>2, <1>4 DEF MigrateInv, DoneMeansComplete

(* The invariant, for any number of overlapping runs, failures and resets,   *)
(* over every database an earlier release or the older setup left.           *)
THEOREM MigrateInvariant ==
    ASSUME \A d \in Databases : Left(d)
    PROVE  Spec => []MigrateInv
BY InitInv, NextInv, PTL DEF Spec

(* "compliance schema is up to date" (migrate.py:148) is printed over less   *)
(* only where an older setup without its goods part was adopted, and there   *)
(* always.                                                                   *)
THEOREM SuccessIsTrue ==
    ASSUME \A d \in Databases : Left(d)
    PROVE  Spec => []DoneMeansComplete
<1>1. MigrateInv => DoneMeansComplete
  BY DEF MigrateInv
<1> QED  BY <1>1, MigrateInvariant, PTL

(* No run, finished, refused or killed between any two of its commits,       *)
(* leaves rows that its successor would try to insert again                  *)
(* (migrate.py:5-6), unless it was killed while it adopted an older setup;   *)
(* where an older list stopped between its two seeds, every successor would. *)
THEOREM InterruptedRunsCanBeRetried ==
    ASSUME \A d \in Databases : Left(d)
    PROVE  Spec => []Retryable
<1>1. MigrateInv => Retryable
  <2> SUFFICES ASSUME MigrateInv, \A r \in Runners : ~Running(r),
                      ~(OldSetup(origin) /\ failures > 0)
               PROVE  CanFinish(db) <=> CanFinish(origin)
    BY DEF Retryable
  <2>1. FromOrigin /\ db \in Database /\ origin \in Database
    BY DEF MigrateInv, TypeOK
  <2>2. CASE Consistent(origin)
    BY <2>1, <2>2, ConsistentCanFinish DEF FromOrigin
  <2>3. CASE OldSetup(origin)
    <3>1. CASE ~db.tracked
      BY <2>1, <2>3, <3>1, OldSetupCounts DEF FromOrigin, FromOldSetup, CanFinish, Counted,
         Adopted, Found, MIGRATIONS
    <3>2. CASE db.tracked
      <4>1. "seed" \in db.versions
        BY <2>1, <2>3, <3>2 DEF FromOrigin, FromOldSetup, Running, Steps
      <4> QED  BY <2>1, <2>3, <3>2, <4>1, OldSetupCounts DEF CanFinish, Counted, Adopted
    <3> QED  BY <3>1, <3>2
  <2>4. CASE Stuck(origin)
    BY <2>1, <2>4 DEF FromOrigin, Stuck
  <2>5. CASE AdoptedShort(origin)
    BY <2>1, <2>5 DEF FromOrigin, FromAdoptedShort, AdoptedShort, Short, CanFinish, MIGRATIONS
  <2> QED  BY <2>1, <2>2, <2>3, <2>4, <2>5 DEF FromOrigin, Left
<1> QED  BY <1>1, MigrateInvariant, PTL

(* Only --reset takes an edited row back (migrate.py:7): what follows from    *)
(* one step.                                                                 *)
KeepsEdits ==
    \A p \in Parts :
        db.rows[p] = "edited" =>
            \/ db'.rows[p] = "edited"
            \/ \E r \in Runners : reset[r] /\ pc[r] = "reset" /\ pc'[r] = "look"

LEMMA StepKeepsEdits == MigrateInv /\ [Next]_vars => KeepsEdits
<1> SUFFICES ASSUME MigrateInv, [Next]_vars PROVE KeepsEdits
  OBVIOUS
<1>1. db \in Database
  BY DEF MigrateInv, TypeOK
<1>2. ASSUME db' = db PROVE KeepsEdits
  BY <1>2 DEF KeepsEdits
<1>3. ASSUME NEW r \in Runners, Reset(r) PROVE KeepsEdits
  BY <1>3 DEF KeepsEdits, Reset, Goto, MigrateInv, TypeOK, Deciding
<1>4. ASSUME NEW r \in Runners, Track(r) \/ Adopt(r) PROVE KeepsEdits
  BY <1>1, <1>4 DEF KeepsEdits, Track, Adopt, Database
<1>5. ASSUME NEW r \in Runners, Apply(r) PROVE KeepsEdits
  BY <1>5, ApplyKeeps DEF KeepsEdits, Apply
<1>6. CASE Edit
  BY <1>1, <1>6 DEF KeepsEdits, Edit, Database
<1>7. ASSUME NEW r \in Runners, NEW flag \in BOOLEAN,
             Start(r, flag) \/ Look(r) \/ Skip(r) \/ Refused(r) \/ Fail(r)
      PROVE  db' = db
  BY <1>7 DEF Start, Look, Skip, Refused, Fail
<1> QED  BY <1>2, <1>3, <1>4, <1>5, <1>6, <1>7 DEF Next, Run, vars

(* Only --reset takes an administrator's edit back, whatever runs overlap,  *)
(* fail or are repeated (migrate.py:7).                                    *)
THEOREM EditsSurviveTheorem ==
    ASSUME \A d \in Databases : Left(d)
    PROVE  Spec => EditsSurvive
<1>1. MigrateInv /\ [Next]_vars => [KeepsEdits]_vars
  BY StepKeepsEdits
<1> QED  BY <1>1, MigrateInvariant, PTL DEF Spec, EditsSurvive, KeepsEdits

=============================================================================
