---------------------------- MODULE VehiclesProofs ----------------------------
(* What is proved of Vehicles, for any workers, requests and schemes, and any  *)
(* stock whose rows refer to rows that exist.                                  *)
EXTENDS VehiclesInvariant, TLAPS

-----------------------------------------------------------------------------
(* Functions, keys and rows.                                                   *)

LEMMA Merged ==
    ASSUME NEW f, NEW g
    PROVE  /\ DOMAIN Over(f, g) = DOMAIN f \union DOMAIN g
           /\ \A x \in DOMAIN f : Over(f, g)[x] = f[x]
           /\ \A x \in DOMAIN g \ DOMAIN f : Over(f, g)[x] = g[x]
BY DEF Over

LEMMA Single ==
    ASSUME NEW d, NEW e
    PROVE  DOMAIN Row(d, e) = {d} /\ Row(d, e)[d] = e
BY DEF Row

(* The kind of a key, and what it is made of.                                  *)
LEMMA Keys ==
    ASSUME NEW x, NEW y
    PROVE  /\ Profile(x)[1] = "profile" /\ Profile(x)[2] = x
           /\ Template(x)[1] = "template" /\ Template(x)[2] = x
           /\ Category(x)[1] = "category" /\ Category(x)[2] = x
           /\ Config(x)[1] = "config" /\ Config(x)[2] = x
           /\ Range_(x, y)[1] = "range" /\ Range_(x, y)[2] = x /\ Range_(x, y)[3] = y
           /\ Mass(x, y)[1] = "mass" /\ Mass(x, y)[2] = x /\ Mass(x, y)[3] = y
           /\ Limit(x, y)[1] = "limit" /\ Limit(x, y)[2] = x /\ Limit(x, y)[3] = y
BY DEF Profile, Template, Category, Config, Range_, Mass, Limit

LEMMA RowsAreNotDeleted ==
    ASSUME NEW k, NEW v, Shaped(k, v),
           k[1] \in {"category", "template", "profile", "range", "config", "limit", "mass"}
    PROVE  v # Deleted
<1> DEFINE D == DOMAIN v
<1>1. DOMAIN Deleted = {"deleted"}  BY DEF Deleted
<1>2. CASE k[1] \in {"category", "template"}
  <2>1. v = [kept |-> TRUE]  BY <1>2 DEF Shaped
  <2> QED  BY <2>1, <1>1
<1>3. CASE k[1] = "profile"
  <2>1. v = [template |-> v.template, category |-> v.category, default |-> v.default]
    BY <1>3 DEF Shaped
  <2>2. "template" \in DOMAIN v  BY <2>1
  <2> QED  BY <2>2, <1>1
<1>4. CASE k[1] = "range"
  <2>1. v = [min |-> v.min, max |-> v.max]  BY <1>4 DEF Shaped
  <2>2. "min" \in DOMAIN v  BY <2>1
  <2> QED  BY <2>2, <1>1
<1>5. CASE k[1] = "config"
  <2>1. v = [template |-> v.template, length |-> v.length]  BY <1>5 DEF Shaped
  <2>2. "template" \in DOMAIN v  BY <2>1
  <2> QED  BY <2>2, <1>1
<1>6. CASE k[1] = "limit"
  <2>1. v = [limit |-> v.limit]  BY <1>6 DEF Shaped
  <2>2. "limit" \in DOMAIN v  BY <2>1
  <2> QED  BY <2>2, <1>1
<1>7. CASE k[1] = "mass"
  <2>1. v = [mass |-> v.mass]  BY <1>7 DEF Shaped
  <2>2. "mass" \in DOMAIN v  BY <2>1
  <2> QED  BY <2>2, <1>1
<1> QED  BY <1>2, <1>3, <1>4, <1>5, <1>6, <1>7

(* What a statement sees: its transaction's writes, else what is committed.    *)
LEMMA SeenIs ==
    ASSUME NEW w \in Workers
    PROVE  /\ DOMAIN Seen(w) =
                 {k \in DOMAIN rows \union DOMAIN writes[w] :
                     k \in DOMAIN writes[w] => writes[w][k] # Deleted}
           /\ \A k \in DOMAIN Seen(w) :
                 Seen(w)[k] = IF k \in DOMAIN writes[w] THEN writes[w][k] ELSE rows[k]
BY DEF Seen

-----------------------------------------------------------------------------
(* Whole vehicles.                                                             *)

LEMMA Sequences_ ==
    ASSUME NEW s, IsSequence(s)
    PROVE  Len(s) \in Nat /\ DOMAIN s = 1..Len(s)
<1> DEFINE S == {s[n] : n \in DOMAIN s}
<1>1. s \in Seq(S)  BY DEF IsSequence
<1> HIDE DEF S
<1> QED  BY <1>1

(* The requests served                                                         *)
LEMMA Bodies_ ==
    ASSUME TypeOK, NEW w \in Workers, at[w] # "idle"
    PROVE  /\ body[w] \in Bodies /\ body[w].op \in {"add", "update"}
           /\ Len(body[w].configs) \in Nat
           /\ DOMAIN body[w].configs = 1..Len(body[w].configs)
           /\ i[w] \in 1..(Len(body[w].configs) + 1)
           /\ \A n \in DOMAIN body[w].configs :
                 /\ Len(body[w].configs[n].masses) \in Nat
                 /\ DOMAIN body[w].configs[n].masses = 1..Len(body[w].configs[n].masses)
<1>1. body[w] \in Bodies /\ i[w] \in 1..(Len(body[w].configs) + 1)  BY DEF TypeOK
<1>2. /\ body[w].op \in {"add", "update"}
      /\ IsSequence(body[w].configs)
      /\ \A n \in DOMAIN body[w].configs : IsSequence(body[w].configs[n].masses)
  BY <1>1, VehiclesAssumption
<1> QED  BY <1>1, <1>2, Sequences_

(* What w stores stays fitting while its transaction only grows, and the rows  *)
(* that are committed keep their parents.                                      *)
LEMMA FitsStays ==
    ASSUME NEW w, body'[w] = body[w], at[w] # "idle", at'[w] # "idle",
           DOMAIN writes[w] \subseteq DOMAIN writes'[w],
           Adding(w) => DOMAIN writes[w] \union Pending(w)
                            \subseteq DOMAIN writes'[w] \union Pending(w)',
           \A k \in DOMAIN rows : k[1] # "mass" => k \in DOMAIN rows',
           \A k \in DOMAIN rows : k[1] \in {"profile", "config"} =>
               rows'[k].template = rows[k].template,
           \A k \in DOMAIN rows : k[1] = "profile" => rows'[k].category = rows[k].category,
           at[w] = "axle" /\ Adding(w) =>
               \/ at'[w] = "axle" /\ i'[w] = i[w]
               \/ LimitsOf(Here(w).id) \subseteq DOMAIN writes'[w] \union Pending(w)'
    PROVE  \A k, v : Fits(w, k, v) => Fits(w, k, v)'
<1> SUFFICES ASSUME NEW k, NEW v, Fits(w, k, v) PROVE Fits(w, k, v)'
  OBVIOUS
<1>1. Config(Here(w).id)[2] = Here(w).id /\ Config(k[2])[1] = "config"
      /\ Category(body[w].category)[1] = "category"
  BY Keys
<1>2. k[1] = "config" => Fits(w, k, v)'
  BY <1>1 DEF Fits, Adding, Here
<1>3. k[1] = "mass" => Fits(w, k, v)'
  BY <1>1 DEF Fits, Adding
<1>4. k[1] = "profile" => Fits(w, k, v)'
  BY <1>1 DEF Fits, Adding
<1> QED  BY <1>2, <1>3, <1>4 DEF Fits, Adding

(* A worker is not disturbed by the others' steps: a commit adds no row that   *)
(* it has locked, and takes away masses only.                                  *)
LEMMA OthersStay ==
    ASSUME WholeInv, NEW w \in Workers,
           at'[w] = at[w], body'[w] = body[w], i'[w] = i[w],
           writes'[w] = writes[w], unflushed'[w] = unflushed[w], targets'[w] \subseteq targets[w],
           \A k \in DOMAIN rows : k[1] # "mass" => k \in DOMAIN rows',
           \A k \in DOMAIN rows : k[1] \in {"profile", "config"} =>
               rows'[k].template = rows[k].template,
           \A k \in DOMAIN rows : k[1] = "profile" => rows'[k].category = rows[k].category,
           \A k \in DOMAIN rows' \ DOMAIN rows : k \notin DOMAIN writes[w]
    PROVE  WorkerInv(w)'
<1>1. WorkerInv(w)  BY DEF WholeInv
<1>2. Pending(w)' = Pending(w) /\ Adding(w)' = Adding(w) /\ Editing(w)' = Editing(w)
      /\ Here(w)' = Here(w)
  BY DEF Pending, Adding, Editing, Here
<1>3. CASE at[w] = "idle"
  BY <1>1, <1>3 DEF WorkerInv, InPlace, Adding
<1>4. CASE at[w] # "idle"
  <2>1. \A k, v : Fits(w, k, v) => Fits(w, k, v)'  BY <1>2, <1>4, FitsStays
  <2>2. InPlace(w)'
    <3>1. /\ Config(Here(w).id)[1] = "config" /\ Category(body[w].category)[1] = "category"
          /\ Profile(body[w].profile)[1] = "profile"
      BY Keys
    <3> QED  BY <1>1, <1>2, <1>4, <3>1 DEF WorkerInv, InPlace
  <2>3. \A k \in DOMAIN writes'[w] : Drafted(w, k)'
    BY <1>1, <1>2, <2>1 DEF WorkerInv, Drafted
  <2>4. \A s \in unflushed'[w] : Planned(w, s)'
    BY <1>1, <1>2, <2>1 DEF WorkerInv, Planned, Columns
  <2> QED  BY <2>2, <2>3, <2>4 DEF WorkerInv
<1> QED  BY <1>3, <1>4

-----------------------------------------------------------------------------
(* The other workers' part of the state, and the committed rows                *)
Elsewhere(w) ==
    /\ rows' = rows
    /\ \A o \in Workers \ {w} :
          /\ at'[o] = at[o] /\ body'[o] = body[o] /\ i'[o] = i[o] /\ loaded'[o] = loaded[o]
          /\ writes'[o] = writes[o] /\ unflushed'[o] = unflushed[o]
          /\ targets'[o] = targets[o]

(* What every step but a commit leaves to be shown                             *)
LEMMA WorkerSteps ==
    ASSUME WholeInv, NEW w \in Workers, Elsewhere(w), TypeOK', Domains',
           WorkerInv(w)',
           \A o \in Workers \ {w} : DOMAIN writes'[w] \cap DOMAIN writes[o] = {}
    PROVE  WholeInv'
<1>1. Stored(rows)' /\ Whole'
  BY DEF WholeInv, Elsewhere, Stored, Whole, AllWhole, RangesOf
<1>2. LocksAreExclusive'
  BY DEF WholeInv, LocksAreExclusive, Elsewhere
<1>3. \A o \in Workers : WorkerInv(o)'
  BY OthersStay DEF Elsewhere
<1> QED  BY <1>1, <1>2, <1>3 DEF WholeInv

(* The request ends without a commit.                                          *)
LEMMA AbortsWhole ==
    ASSUME WholeInv, NEW w \in Workers, Aborts(w)
    PROVE  WholeInv' /\ Elsewhere(w)
<1> USE DEF WholeInv
<1>1. Elsewhere(w) /\ Domains'
  BY DEF Aborts, Rollback, Ends, Goto, Elsewhere, TypeOK, Domains
<1>2. /\ at'[w] = "idle" /\ body'[w] = None /\ i'[w] = 1 /\ writes'[w] = Nothing
      /\ unflushed'[w] = {} /\ targets'[w] = {}
  BY DEF Aborts, Rollback, Ends, Goto, TypeOK, Domains
<1>3. DOMAIN Nothing = {}  BY DEF Nothing
<1>4. TypeOK'
  BY <1>1, <1>2 DEF TypeOK, Pcs, Aborts, Rollback, Ends, Goto, Elsewhere
<1>5. WorkerInv(w)'
  BY <1>2, <1>3 DEF WorkerInv, InPlace, Adding
<1> QED  BY <1>1, <1>2, <1>3, <1>4, <1>5, WorkerSteps

LEMMA PendingIs ==
    ASSUME NEW w, NEW k
    PROVE  k \in Pending(w) <=> \E s \in unflushed[w] : k \in DOMAIN s.on
BY DEF Pending

(* What a statement carries                                                    *)
LEMMA Statements ==
    ASSUME NEW table, NEW op, NEW on
    PROVE  /\ \A s \in Statement(table, op, on) :
                 s.op = op /\ s.on = on /\ s.table = table
           /\ DOMAIN on # {} => \E s \in Statement(table, op, on) : TRUE
<1> DEFINE r == [table |-> table, op |-> op, on |-> on]
<1>1. r.op = op /\ r.on = on /\ r.table = table  OBVIOUS
<1>2. Statement(table, op, on) = IF DOMAIN on = {} THEN {} ELSE {r}  BY DEF Statement
<1> HIDE DEF r
<1> QED  BY <1>1, <1>2

LEMMA Inserts ==
    ASSUME NEW table, NEW new
    PROVE  /\ \A s \in Insert(table, new) : s.op = "insert" /\ s.on = new /\ s.table = table
           /\ DOMAIN new # {} => \E s \in Insert(table, new) : TRUE
BY Statements DEF Insert

LEMMA Updates ==
    ASSUME NEW table, NEW new, NEW old
    PROVE  /\ \A s \in Update(table, new, old) :
                 /\ s.op = "update" /\ s.table = table
                 /\ DOMAIN s.on \subseteq DOMAIN new /\ DOMAIN s.on # {}
                 /\ \A k \in DOMAIN s.on :
                       /\ \A c \in DOMAIN s.on[k] : s.on[k][c] = new[k][c]
                       /\ DOMAIN s.on[k] \subseteq DOMAIN new[k]
                       /\ DOMAIN s.on[k] # {}
           /\ \A k \in DOMAIN new :
                 (\A s \in Update(table, new, old) : k \notin DOMAIN s.on) =>
                     \A c \in DOMAIN new[k] : new[k][c] = old[k][c]
<1> DEFINE set == [k \in {x \in DOMAIN new : Changed(old[x], new[x]) # {}} |->
                    [c \in Changed(old[k], new[k]) |-> new[k][c]]]
<1>1. Update(table, new, old) = Statement(table, "update", set)  BY DEF Update
<1>2. /\ DOMAIN set = {x \in DOMAIN new : Changed(old[x], new[x]) # {}}
      /\ \A k \in DOMAIN set : set[k] = [c \in Changed(old[k], new[k]) |-> new[k][c]]
  OBVIOUS
<1>3. \A k \in DOMAIN new : Changed(old[k], new[k]) \subseteq DOMAIN new[k]
  BY DEF Changed
<1> HIDE DEF set
<1>4. \A s \in Update(table, new, old) : s.op = "update" /\ s.table = table /\ s.on = set
  BY <1>1, Statements
<1>5. \A s \in Update(table, new, old) : DOMAIN set # {}
  BY <1>1 DEF Statement
<1>6. DOMAIN set # {} => Update(table, new, old) # {}
  BY <1>1, <1>4, Statements
<1>7. /\ DOMAIN set \subseteq DOMAIN new
      /\ \A k \in DOMAIN set :
            /\ \A c \in DOMAIN set[k] : set[k][c] = new[k][c]
            /\ DOMAIN set[k] \subseteq DOMAIN new[k] /\ DOMAIN set[k] # {}
  BY <1>2, <1>3
<1>8. \A k \in DOMAIN new :
         (\A s \in Update(table, new, old) : k \notin DOMAIN s.on) =>
             Changed(old[k], new[k]) = {}
  BY <1>4, <1>2, <1>6
<1>9. \A k \in DOMAIN new : Changed(old[k], new[k]) = {} =>
         \A c \in DOMAIN new[k] : new[k][c] = old[k][c]
  BY DEF Changed
<1>10. \A s \in Update(table, new, old) :
         /\ DOMAIN s.on \subseteq DOMAIN new /\ DOMAIN s.on # {}
         /\ \A k \in DOMAIN s.on :
               /\ \A c \in DOMAIN s.on[k] : s.on[k][c] = new[k][c]
               /\ DOMAIN s.on[k] \subseteq DOMAIN new[k] /\ DOMAIN s.on[k] # {}
  BY <1>4, <1>7, <1>5
<1> QED  BY <1>4, <1>8, <1>9, <1>10

LEMMA UpdatesRow ==
    ASSUME NEW table, NEW k, NEW v, NEW old
    PROVE  /\ \A s \in Update(table, Row(k, v), old) :
                 /\ s.op = "update" /\ s.table = table
                 /\ DOMAIN s.on = {k}
                 /\ \A c \in DOMAIN s.on[k] : s.on[k][c] = v[c]
                 /\ DOMAIN s.on[k] \subseteq DOMAIN v
           /\ (\E s \in Update(table, Row(k, v), old) : TRUE)
              \/ \A c \in DOMAIN v : v[c] = old[k][c]
<1> DEFINE new == Row(k, v)
<1>1. DOMAIN new = {k} /\ new[k] = v  BY Single
<1> HIDE DEF new
<1>2. \A s \in Update(table, new, old) :
         /\ s.op = "update" /\ s.table = table
         /\ DOMAIN s.on = {k}
         /\ \A c \in DOMAIN s.on[k] : s.on[k][c] = v[c]
         /\ DOMAIN s.on[k] \subseteq DOMAIN v
  <2> SUFFICES ASSUME NEW s \in Update(table, new, old)
               PROVE  /\ s.op = "update" /\ s.table = table
                      /\ DOMAIN s.on = {k}
                      /\ \A c \in DOMAIN s.on[k] : s.on[k][c] = v[c]
                      /\ DOMAIN s.on[k] \subseteq DOMAIN v
    OBVIOUS
  <2>1. /\ s.op = "update" /\ s.table = table
        /\ DOMAIN s.on \subseteq DOMAIN new /\ DOMAIN s.on # {}
        /\ \A x \in DOMAIN s.on :
              /\ \A c \in DOMAIN s.on[x] : s.on[x][c] = new[x][c]
              /\ DOMAIN s.on[x] \subseteq DOMAIN new[x]
    BY Updates
  <2>2. DOMAIN s.on = {k}  BY <1>1, <2>1
  <2> QED  BY <1>1, <2>1, <2>2
<1>3. (\A s \in Update(table, new, old) : FALSE) => \A c \in DOMAIN v : v[c] = old[k][c]
  BY <1>1, Updates
<1> QED  BY <1>2, <1>3 DEF new

(* A step of w's own transaction keeps what it has stored and queued.          *)
LEMMA OwnStays ==
    ASSUME WholeInv, NEW w \in Workers, at[w] # "idle", at'[w] # "idle",
           body'[w] = body[w], rows' = rows,
           DOMAIN writes[w] \subseteq DOMAIN writes'[w],
           Adding(w) => DOMAIN writes[w] \union Pending(w)
                            \subseteq DOMAIN writes'[w] \union Pending(w)',
           at[w] = "axle" /\ Adding(w) =>
               \/ at'[w] = "axle" /\ i'[w] = i[w]
               \/ LimitsOf(Here(w).id) \subseteq DOMAIN writes'[w] \union Pending(w)'
    PROVE  /\ \A k, v : Fits(w, k, v) => Fits(w, k, v)'
           /\ \A k \in DOMAIN writes[w] :
                 writes'[w][k] = writes[w][k] => Drafted(w, k)'
           /\ \A s \in unflushed[w] : Planned(w, s)'
<1>1. \A k, v : Fits(w, k, v) => Fits(w, k, v)'  BY FitsStays
<1>2. Adding(w)' = Adding(w) /\ Editing(w)' = Editing(w)  BY DEF Adding, Editing
<1>3. WorkerInv(w)  BY DEF WholeInv
<1>4. \A k \in DOMAIN writes[w] : writes'[w][k] = writes[w][k] => Drafted(w, k)'
  BY <1>1, <1>2, <1>3 DEF WorkerInv, Drafted
<1>5. \A s \in unflushed[w] : Planned(w, s)'
  BY <1>1, <1>2, <1>3 DEF WorkerInv, Planned
<1> QED  BY <1>1, <1>4, <1>5

(* The steps within a transaction                                              *)
Within(w) ==
    \/ AddParents(w) \/ AddChildren(w) \/ LookUp(w) \/ ReadRange(w)
    \/ StoreConfig(w) \/ AddConfig(w) \/ AddAxles(w) \/ DeleteMasses(w)
    \/ MassesDeleted(w) \/ ReadLimit(w) \/ UpdateLimits(w) \/ Flush(w)

LEMMA WithinIsLocal ==
    ASSUME WholeInv, NEW w \in Workers, Within(w)
    PROVE  /\ Elsewhere(w) /\ Domains' /\ TypeOK'
           /\ at[w] # "idle" /\ at'[w] # "idle" /\ UNCHANGED <<body, alone>>
<1> USE DEF WholeInv, Elsewhere, Domains
<1>1. CASE AddParents(w)
  BY <1>1 DEF AddParents, Queue, Goto, TypeOK, Pcs
<1>2. CASE AddChildren(w)
  BY <1>2 DEF AddChildren, Queue, Goto, TypeOK, Pcs
<1>3. CASE LookUp(w)
  BY <1>3 DEF LookUp, Goto, dbvars, TypeOK, Pcs
<1>4. CASE ReadRange(w)
  BY <1>4 DEF ReadRange, Queue, Goto, TypeOK, Pcs
<1>5. CASE StoreConfig(w)
  BY <1>5 DEF StoreConfig, Queue, Goto, AtConfig, AtLoop, TypeOK, Pcs
<1>6. CASE AddConfig(w)
  BY <1>6 DEF AddConfig, Goto, AtConfig, AtLoop, TypeOK, Pcs
<1>7. CASE AddAxles(w)
  <2>1. at[w] \in {"axle", "limits"}  BY <1>7 DEF AddAxles
  <2>2. i[w] \in Nat /\ i[w] + 1 \in 1..(Len(body[w].configs) + 1)
    <3>1. TypeOK /\ i[w] <= Len(body[w].configs)  BY <2>1 DEF WorkerInv, InPlace
    <3>2. Len(body[w].configs) \in Nat /\ i[w] \in 1..(Len(body[w].configs) + 1)
      BY <2>1, <3>1, Bodies_
    <3> QED  BY <3>1, <3>2
  <2> QED  BY <1>7, <2>2 DEF AddAxles, Queue, NextConfig, Goto, TypeOK, Pcs
<1>8. CASE DeleteMasses(w)
  BY <1>8 DEF DeleteMasses, StartDelete, Goto, TypeOK, Pcs
<1>9. CASE MassesDeleted(w)
  BY <1>9 DEF MassesDeleted, FinishDelete, Write, Queue, Goto, TypeOK, Pcs
<1>10. CASE ReadLimit(w)
  BY <1>10 DEF ReadLimit, dbvars, TypeOK, Pcs
<1>11. CASE UpdateLimits(w)
  <2>1. at[w] \in {"axle", "limits"}  BY <1>11 DEF UpdateLimits
  <2>2. i[w] \in Nat /\ i[w] + 1 \in 1..(Len(body[w].configs) + 1)
    <3>1. TypeOK /\ i[w] <= Len(body[w].configs)  BY <2>1 DEF WorkerInv, InPlace
    <3>2. Len(body[w].configs) \in Nat /\ i[w] \in 1..(Len(body[w].configs) + 1)
      BY <2>1, <3>1, Bodies_
    <3> QED  BY <3>1, <3>2
  <2> QED  BY <1>11, <2>2 DEF UpdateLimits, Queue, NextConfig, Goto, TypeOK, Pcs
<1>12. CASE Flush(w)
  BY <1>12 DEF Flush, Send, Write, hvars, Flushing, AtEnd, AtLoop, TypeOK, Pcs
<1> QED  BY <1>1, <1>2, <1>3, <1>4, <1>5, <1>6, <1>7, <1>8, <1>9, <1>10, <1>11, <1>12 DEF Within

(* A step that sends nothing                                                   *)
LEMMA QueuedWhole ==
    ASSUME WholeInv, NEW w \in Workers, Within(w), writes'[w] = writes[w],
           unflushed[w] \subseteq unflushed'[w] \/ (Editing(w) /\ unflushed'[w] \subseteq unflushed[w]),
           InPlace(w)',
           at[w] = "axle" /\ Adding(w) => LimitsOf(Here(w).id) \subseteq DOMAIN writes'[w] \union Pending(w)',
           \A s \in unflushed'[w] \ unflushed[w] : Planned(w, s)'
    PROVE  WholeInv'
<1>1. Elsewhere(w) /\ Domains' /\ TypeOK' /\ at[w] # "idle" /\ at'[w] # "idle"
      /\ body'[w] = body[w] /\ rows' = rows
  BY WithinIsLocal DEF Elsewhere
<1>2. Adding(w) => Pending(w) \subseteq Pending(w)'
  BY DEF Adding, Editing, Pending
<1>3. /\ \A k \in DOMAIN writes[w] : Drafted(w, k)'
      /\ \A s \in unflushed[w] : Planned(w, s)'
  BY <1>1, <1>2, OwnStays
<1>4. WorkerInv(w)'
  BY <1>3 DEF WorkerInv
<1>5. \A o \in Workers \ {w} : DOMAIN writes'[w] \cap DOMAIN writes[o] = {}
  BY DEF WholeInv, LocksAreExclusive
<1> QED  BY <1>1, <1>4, <1>5, WorkerSteps

LEMMA AddParentsWhole ==
    ASSUME WholeInv, NEW w \in Workers, AddParents(w)
    PROVE  WholeInv'
<1> DEFINE b == body[w]
           new == Insert("template", Parents(w))
<1>1. Within(w)  BY DEF Within
<1>2. /\ at[w] = "checks" /\ at'[w] = "parents" /\ writes' = writes /\ targets' = targets
      /\ body' = body /\ i' = i /\ rows' = rows /\ unflushed'[w] = unflushed[w] \union new
  BY DEF AddParents, Queue, Goto, WholeInv, TypeOK, Domains
<1>3. WorkerInv(w) /\ Adding(w) /\ unflushed[w] = {} /\ DOMAIN writes[w] = {} /\ Adding(w)'
  BY <1>2 DEF WholeInv, WorkerInv, InPlace, Adding
<1>4. /\ Template(b.template) \in DOMAIN Parents(w)
      /\ Category(b.category) \in DOMAIN Parents(w) \union DOMAIN Seen(w)
      /\ \A k \in DOMAIN Parents(w) :
            /\ k = Template(b.template) \/ k = Category(b.category)
            /\ Parents(w)[k] = [kept |-> TRUE]
  BY DEF Parents
<1>5. DOMAIN Seen(w) \subseteq DOMAIN rows
  BY <1>3, SeenIs DEF WholeInv
<1>6. \A s \in new : s.op = "insert" /\ s.on = Parents(w)
  BY Inserts
<1>7. \E s \in new : TRUE
  BY <1>4, Inserts
<1> HIDE DEF new
<1>8. \A k \in DOMAIN Parents(w) : k \in Pending(w)'
  BY <1>2, <1>6, <1>7 DEF Pending
<1>9. InPlace(w)'
  BY <1>2, <1>3, <1>4, <1>5, <1>8 DEF WorkerInv, InPlace, Adding, Editing
<1>10. \A s \in new : Planned(w, s)'
  <2> SUFFICES ASSUME NEW s \in new, NEW k \in DOMAIN s.on
               PROVE  s.op = "insert" /\ Fits(w, k, s.on[k])' /\ Shaped(k, s.on[k])
    BY <1>6 DEF Planned
  <2>1. Template(b.template)[1] = "template" /\ Category(b.category)[1] = "category"
    BY Keys
  <2>2. s.op = "insert" /\ s.on[k] = [kept |-> TRUE]
        /\ (k = Template(b.template) \/ k = Category(b.category))
    BY <1>4, <1>6
  <2> QED  BY <1>2, <1>3, <2>1, <2>2 DEF Fits, Shaped
<1> QED  BY <1>1, <1>2, <1>3, <1>9, <1>10, QueuedWhole

LEMMA AddChildrenWhole ==
    ASSUME WholeInv, NEW w \in Workers, AddChildren(w)
    PROVE  WholeInv'
<1> DEFINE b == body[w]
           range == Row(Range_(b.template, b.profile), [min |-> b.min, max |-> b.max])
           profile == Row(Profile(b.profile),
                          [template |-> b.template, category |-> b.category,
                           default |-> b.default])
           new == Insert("range", range) \union Insert("profile", profile)
<1>1. Within(w)  BY DEF Within
<1>2. /\ at[w] = "parents" /\ at'[w] = "header" /\ writes' = writes /\ targets' = targets
      /\ body' = body /\ i' = i /\ rows' = rows /\ unflushed'[w] = new
      /\ unflushed[w] = {}
  BY DEF AddChildren, Queue, Goto, WholeInv, TypeOK, Domains
<1>3. WorkerInv(w) /\ Adding(w) /\ Adding(w)'
  BY <1>2 DEF WholeInv, WorkerInv, InPlace, Adding
<1>4. /\ Template(b.template) \in DOMAIN writes[w]
      /\ Category(b.category) \in DOMAIN rows \union DOMAIN writes[w]
  BY <1>2, <1>3 DEF WorkerInv, InPlace, Pending
<1>5. /\ DOMAIN range = {Range_(b.template, b.profile)}
      /\ range[Range_(b.template, b.profile)] = [min |-> b.min, max |-> b.max]
      /\ DOMAIN profile = {Profile(b.profile)}
      /\ profile[Profile(b.profile)] =
            [template |-> b.template, category |-> b.category, default |-> b.default]
  BY Single
<1> HIDE DEF range, profile
<1>6. /\ \A s \in new : s.op = "insert" /\ (s.on = range \/ s.on = profile)
      /\ \E s \in new : s.on = range
  BY <1>5, Inserts
<1> HIDE DEF new
<1>7. Range_(b.template, b.profile) \in Pending(w)'
  BY <1>2, <1>5, <1>6 DEF Pending
<1>8. InPlace(w)'
  BY <1>2, <1>3, <1>4 DEF WorkerInv, InPlace, Adding, Editing
<1>9. \A s \in new : Planned(w, s)'
  <2> SUFFICES ASSUME NEW s \in new, NEW k \in DOMAIN s.on
               PROVE  s.op = "insert" /\ Fits(w, k, s.on[k])' /\ Shaped(k, s.on[k])
    BY <1>6 DEF Planned
  <2>1. /\ Range_(b.template, b.profile)[1] = "range"
        /\ Profile(b.profile)[1] = "profile"
    BY Keys
  <2>2. CASE s.on = range
    BY <1>2, <1>3, <1>4, <1>5, <1>6, <2>1, <2>2 DEF Fits, Shaped
  <2>3. CASE s.on = profile
    BY <1>2, <1>3, <1>4, <1>5, <1>6, <1>7, <2>1, <2>3 DEF Fits, Shaped
  <2> QED  BY <1>6, <2>2, <2>3
<1> QED  BY <1>1, <1>2, <1>3, <1>8, <1>9, QueuedWhole

LEMMA LookUpWhole ==
    ASSUME WholeInv, NEW w \in Workers, LookUp(w)
    PROVE  WholeInv'
<1>1. Within(w)  BY DEF Within
<1>2. /\ at[w] = "lookup" /\ at'[w] = "range" /\ writes' = writes /\ targets' = targets
      /\ body' = body /\ i' = i /\ rows' = rows /\ unflushed' = unflushed /\ Known(w)
  BY DEF LookUp, dbvars, Goto, WholeInv, TypeOK
<1>3. WorkerInv(w) /\ Editing(w) /\ DOMAIN writes[w] = {} /\ unflushed[w] = {}
  BY <1>2 DEF WholeInv, WorkerInv, InPlace
<1>4. LET p == Profile(body[w].profile) IN
      p \in DOMAIN rows /\ rows[p].template = body[w].template
  BY <1>2, <1>3, SeenIs DEF WholeInv, Known, Exists
<1>5. InPlace(w)'
  BY <1>2, <1>3, <1>4 DEF WorkerInv, InPlace, Adding, Editing
<1> QED  BY <1>1, <1>2, <1>3, <1>5, QueuedWhole

LEMMA ReadRangeWhole ==
    ASSUME WholeInv, NEW w \in Workers, ReadRange(w)
    PROVE  WholeInv'
<1> DEFINE b == body[w]
           p == Profile(b.profile)
           r == CHOOSE k \in RangesOf(b.template, Seen(w)) : TRUE
           lengths == [min |-> b.min, max |-> b.max]
           length == [default |-> b.default]
           range == Update("range", Row(r, lengths), Row(r, Seen(w)[r]))
           profile == Update("profile", Row(p, length), loaded[w])
           new == range \union profile
<1>1. Within(w)  BY DEF Within
<1>2. /\ at[w] = "range" /\ at'[w] = "header" /\ writes' = writes /\ targets' = targets
      /\ body' = body /\ i' = i /\ rows' = rows /\ unflushed'[w] = unflushed[w] \union new
  BY DEF ReadRange, Queue, Goto, WholeInv, TypeOK, Domains
<1>3. /\ WorkerInv(w) /\ Editing(w) /\ DOMAIN writes[w] = {} /\ unflushed[w] = {}
      /\ p \in DOMAIN rows /\ rows[p].template = b.template /\ Editing(w)'
  BY <1>2 DEF WholeInv, WorkerInv, InPlace, Editing
<1>4. r \in DOMAIN rows /\ r[1] = "range"
  <2>1. \E k \in DOMAIN rows : k[1] = "range" /\ k[2] = b.template
    <3>1. p[1] = "profile"  BY Keys
    <3> QED  BY <1>3, <3>1 DEF WholeInv, Whole, AllWhole, RangesOf
  <2>2. DOMAIN Seen(w) = DOMAIN rows
    BY <1>3, SeenIs DEF WholeInv
  <2>3. \E k : k \in RangesOf(b.template, Seen(w))
    BY <2>1, <2>2 DEF RangesOf
  <2>4. r \in RangesOf(b.template, Seen(w))
    BY <2>3
  <2> QED  BY <2>2, <2>4 DEF RangesOf
<1> HIDE DEF r
<1>5. DOMAIN lengths = {"min", "max"} /\ DOMAIN length = {"default"}
  OBVIOUS
<1> HIDE DEF lengths, length
<1>6. \A s \in range : /\ s.op = "update" /\ DOMAIN s.on = {r}
                       /\ DOMAIN s.on[r] \subseteq {"min", "max"}
  BY <1>5, UpdatesRow
<1>7. \A s \in profile : /\ s.op = "update" /\ DOMAIN s.on = {p}
                         /\ DOMAIN s.on[p] \subseteq {"default"}
  BY <1>5, UpdatesRow
<1> HIDE DEF range, profile
<1>8. InPlace(w)'
  BY <1>2, <1>3 DEF WorkerInv, InPlace, Adding, Editing
<1>9. \A s \in new : Planned(w, s)'
  <2>1. p[1] = "profile"  BY Keys
  <2> QED  BY <1>2, <1>3, <1>4, <1>6, <1>7, <2>1 DEF Planned, Columns
<1> QED  BY <1>1, <1>2, <1>3, <1>8, <1>9, QueuedWhole

(* An edit sees the configurations that are committed.                         *)
LEMMA EditsSee ==
    ASSUME WholeInv, NEW w \in Workers, Editing(w), NEW k \in DOMAIN Seen(w), k[1] # "mass"
    PROVE  k \in DOMAIN rows
<1>1. k \in DOMAIN writes[w] => Drafted(w, k)  BY DEF WholeInv, WorkerInv
<1>2. ~Adding(w)  BY DEF Adding, Editing
<1>3. k \in DOMAIN writes[w] => k \in DOMAIN rows
  BY <1>1, <1>2 DEF Drafted, Fits
<1> QED  BY <1>3, SeenIs DEF WholeInv

LEMMA StoreConfigWhole ==
    ASSUME WholeInv, NEW w \in Workers, StoreConfig(w)
    PROVE  WholeInv'
<1> DEFINE b == body[w]
           k == Config(Here(w).id)
           new == ConfigStatement(w)
<1>1. Within(w)  BY DEF Within
<1>2. /\ at[w] \in {"config", "header"} /\ at'[w] = "axle" /\ writes' = writes
      /\ targets' = targets /\ body' = body /\ i' = i /\ rows' = rows
      /\ unflushed'[w] = unflushed[w] \union new
      /\ i[w] <= Len(b.configs)
      /\ b.op = "update" => k \in DOMAIN Seen(w)
  BY DEF StoreConfig, AtConfig, AtLoop, Exists, Queue, Goto, WholeInv, TypeOK, Domains
<1>3. WorkerInv(w) /\ TypeOK  BY DEF WholeInv
<1>4. /\ Here(w)' = Here(w) /\ Adding(w)' = Adding(w) /\ Editing(w)' = Editing(w)
      /\ Adding(w) \/ Editing(w)
  BY <1>2, <1>3, Bodies_ DEF Here, Adding, Editing
<1>5. k[1] = "config"  BY Keys
<1>6. Editing(w) => k \in DOMAIN rows
  BY <1>2, <1>5, EditsSee DEF Editing
<1>7. CASE Adding(w)
  <2> DEFINE v == [template |-> b.template, length |-> Here(w).length]
             row == Row(k, v)
  <2>1. new = Insert("config", row)
    BY <1>7 DEF ConfigStatement, Adding
  <2>2. DOMAIN row = {k} /\ row[k] = v  BY Single
  <2> HIDE DEF row
  <2>3. (\A s \in new : s.op = "insert" /\ s.on = row) /\ \E s \in new : s.on = row
    BY <2>1, <2>2, Inserts
  <2>4. k \in Pending(w)'
    BY <1>2, <2>2, <2>3 DEF Pending
  <2>5. Template(b.template) \in DOMAIN writes[w]
    BY <1>2, <1>3, <1>7 DEF WorkerInv, InPlace
  <2> HIDE DEF new
  <2>6. InPlace(w)'
    BY <1>2, <1>3, <1>4, <1>7, <2>4 DEF WorkerInv, InPlace, Adding, Editing
  <2>7. \A s \in new : Planned(w, s)'
    BY <1>2, <1>4, <1>5, <1>7, <2>2, <2>3, <2>5 DEF Planned, Fits, Shaped
  <2> QED  BY <1>1, <1>2, <1>3, <2>6, <2>7, QueuedWhole
<1>8. CASE Editing(w)
  <2> DEFINE v == [length |-> Here(w).length]
  <2>1. new = Update("config", Row(k, v), Row(k, Seen(w)[k]))
    BY <1>8 DEF ConfigStatement, Editing
  <2>2. DOMAIN v = {"length"}  OBVIOUS
  <2> HIDE DEF v
  <2>3. \A s \in new : s.op = "update" /\ DOMAIN s.on = {k} /\ DOMAIN s.on[k] \subseteq {"length"}
    BY <2>1, <2>2, UpdatesRow
  <2> HIDE DEF new
  <2>4. InPlace(w)'
    BY <1>2, <1>3, <1>4, <1>6, <1>8 DEF WorkerInv, InPlace, Adding, Editing
  <2>5. \A s \in new : Planned(w, s)'
    BY <1>2, <1>4, <1>5, <1>6, <1>8, <2>3 DEF Planned, Columns
  <2> QED  BY <1>1, <1>2, <1>3, <2>4, <2>5, QueuedWhole
<1> QED  BY <1>4, <1>7, <1>8

LEMMA AddConfigWhole ==
    ASSUME WholeInv, NEW w \in Workers, AddConfig(w)
    PROVE  WholeInv'
<1>1. Within(w)  BY DEF Within
<1>2. /\ at[w] \in {"config", "header"} /\ at'[w] = "newConfig" /\ writes' = writes
      /\ targets' = targets /\ body' = body /\ i' = i /\ rows' = rows
      /\ unflushed'[w] \subseteq unflushed[w]
      /\ i[w] <= Len(body[w].configs) /\ body[w].op = "update"
  BY DEF AddConfig, AtConfig, AtLoop, Goto, WholeInv, TypeOK, Domains
<1>3. WorkerInv(w) /\ Editing(w)  BY <1>2 DEF WholeInv, Editing
<1>4. InPlace(w)'
  BY <1>2, <1>3 DEF WorkerInv, InPlace, Adding, Editing
<1> QED  BY <1>1, <1>2, <1>3, <1>4, QueuedWhole

(* The rows of a configuration's axles                                         *)
LEMMA NewAxleRows ==
    ASSUME NEW c
    PROVE  /\ \A k \in DOMAIN NewMasses(c) : NewMasses(c)[k] = [mass |-> c.masses[k[3]]]
           /\ \A k \in DOMAIN NewLimits(c) : NewLimits(c)[k] = [limit |-> c.limits[k[3]]]
BY DEF NewMasses, NewLimits

LEMMA NewAxles ==
    ASSUME NEW c
    PROVE  /\ \A k \in DOMAIN NewMasses(c) : \E n \in DOMAIN c.masses : k = Mass(c.id, n)
           /\ \A n \in DOMAIN c.masses : Mass(c.id, n) \in DOMAIN NewMasses(c)
           /\ \A k \in DOMAIN NewMasses(c) :
                 k[1] = "mass" /\ k[2] = c.id /\ Shaped(k, NewMasses(c)[k])
           /\ DOMAIN NewLimits(c) = LimitsOf(c.id)
           /\ \A k \in LimitsOf(c.id) :
                 k[1] = "limit" /\ k[2] = c.id /\ Shaped(k, NewLimits(c)[k])
<1>1. DOMAIN NewMasses(c) = {Mass(c.id, n) : n \in DOMAIN c.masses}
  BY DEF NewMasses
<1>2. DOMAIN NewLimits(c) = LimitsOf(c.id)
  BY DEF NewLimits
<1>3. \A k \in DOMAIN NewMasses(c) : k[1] = "mass" /\ k[2] = c.id
  BY <1>1, Keys
<1>4. \A k \in LimitsOf(c.id) : k[1] = "limit" /\ k[2] = c.id
  BY Keys DEF LimitsOf
<1>5. \A k \in DOMAIN NewMasses(c) : Shaped(k, NewMasses(c)[k])
  BY <1>3, NewAxleRows DEF Shaped
<1>6. \A k \in LimitsOf(c.id) : Shaped(k, NewLimits(c)[k])
  BY <1>2, <1>4, NewAxleRows DEF Shaped
<1> QED  BY <1>1, <1>2, <1>3, <1>4, <1>5, <1>6

LEMMA AddAxlesWhole ==
    ASSUME WholeInv, NEW w \in Workers, AddAxles(w)
    PROVE  WholeInv'
<1> DEFINE b == body[w]
           c == Here(w)
           limits == Insert("limit", NewLimits(c))
           masses == Insert("mass", NewMasses(c))
<1>1. Within(w)  BY DEF Within
<1>2. /\ at[w] = "axle" /\ at'[w] = "config" /\ writes' = writes
      /\ targets' = targets /\ body' = body /\ i'[w] = i[w] + 1 /\ rows' = rows
      /\ unflushed[w] = {} /\ unflushed'[w] = limits \union masses /\ b.op = "add"
  BY DEF AddAxles, Queue, NextConfig, Goto, WholeInv, TypeOK, Domains
<1>3. WorkerInv(w) /\ Adding(w) /\ Adding(w)'  BY <1>2 DEF WholeInv, Adding
<1>4. Config(c.id) \in DOMAIN writes[w] /\ Template(b.template) \in DOMAIN writes[w]
  BY <1>2, <1>3 DEF WorkerInv, InPlace, Pending, Adding, Editing
<1>5. /\ \A s \in limits : s.op = "insert" /\ s.on = NewLimits(c)
      /\ DOMAIN NewLimits(c) # {} => \E s \in limits : TRUE
  BY Inserts
<1>6. \A s \in masses : s.op = "insert" /\ s.on = NewMasses(c)
  BY Inserts
<1> HIDE DEF limits, masses
<1>7. LimitsOf(c.id) \subseteq Pending(w)'
  <2> SUFFICES ASSUME NEW k \in LimitsOf(c.id) PROVE k \in Pending(w)'
    OBVIOUS
  <2>1. k \in DOMAIN NewLimits(c)  BY NewAxles
  <2>2. PICK s \in limits : s.on = NewLimits(c)  BY <1>5, <2>1
  <2> QED  BY <1>2, <2>1, <2>2 DEF Pending
<1>8. InPlace(w)'
  BY <1>2, <1>3 DEF WorkerInv, InPlace, Adding, Editing
<1>9. \A s \in limits \union masses : Planned(w, s)'
  <2>1. \A s \in limits : Planned(w, s)'
    BY <1>3, <1>5, NewAxles DEF Planned, Fits
  <2>2. \A s \in masses : Planned(w, s)'
    BY <1>2, <1>3, <1>4, <1>6, NewAxles DEF Planned, Fits
  <2> QED  BY <2>1, <2>2
<1> QED  BY <1>1, <1>2, <1>7, <1>8, <1>9, QueuedWhole

LEMMA DeleteMassesWhole ==
    ASSUME WholeInv, NEW w \in Workers, DeleteMasses(w)
    PROVE  WholeInv'
<1>1. Within(w)  BY DEF Within
<1>2. /\ at[w] = "axle" /\ at'[w] = "deleting" /\ writes' = writes
      /\ targets'[w] = MassesOf(Here(w).id, Seen(w)) /\ body' = body /\ i' = i /\ rows' = rows
      /\ unflushed[w] = {} /\ unflushed' = unflushed /\ body[w].op = "update"
  BY DEF DeleteMasses, StartDelete, Goto, WholeInv, TypeOK, Domains
<1>3. WorkerInv(w) /\ Editing(w)  BY <1>2 DEF WholeInv, Editing
<1>4. \A k \in targets'[w] : k[1] = "mass" /\ k[2] = Here(w).id
  BY <1>2 DEF MassesOf
<1>5. InPlace(w)'
  BY <1>2, <1>3, <1>4 DEF WorkerInv, InPlace, Adding, Editing, Here
<1> QED  BY <1>1, <1>2, <1>3, <1>5, QueuedWhole DEF Adding, Editing

LEMMA ReadLimitWhole ==
    ASSUME WholeInv, NEW w \in Workers, ReadLimit(w)
    PROVE  WholeInv'
<1>1. Within(w)  BY DEF Within
<1>2. /\ at[w] = "limits" /\ at' = at /\ writes' = writes /\ targets' = targets
      /\ body' = body /\ i' = i /\ rows' = rows /\ unflushed' = unflushed
  BY DEF ReadLimit, dbvars
<1>3. WorkerInv(w)  BY DEF WholeInv
<1>4. InPlace(w)'
  BY <1>2, <1>3 DEF WorkerInv, InPlace, Adding, Editing, Here
<1> QED  BY <1>1, <1>2, <1>3, <1>4, QueuedWhole

LEMMA UpdateLimitsWhole ==
    ASSUME WholeInv, NEW w \in Workers, UpdateLimits(w)
    PROVE  WholeInv'
<1> DEFINE c == Here(w)
           new == Update("limit", NewLimits(c), loaded[w])
<1>1. Within(w)  BY DEF Within
<1>2. /\ at[w] = "limits" /\ at'[w] = "config" /\ writes' = writes
      /\ targets' = targets /\ body' = body /\ i'[w] = i[w] + 1 /\ rows' = rows
      /\ unflushed'[w] = unflushed[w] \union new
  BY DEF UpdateLimits, Queue, NextConfig, Goto, WholeInv, TypeOK, Domains
<1>3. WorkerInv(w) /\ Editing(w) /\ Editing(w)'
  BY <1>2 DEF WholeInv, WorkerInv, InPlace, Editing
<1>4. LimitsOf(c.id) \subseteq DOMAIN rows
  <2>1. Config(c.id) \in DOMAIN rows  BY <1>2, <1>3 DEF WorkerInv, InPlace
  <2>2. Config(c.id)[1] = "config" /\ Config(c.id)[2] = c.id  BY Keys
  <2> QED  BY <2>1, <2>2 DEF WholeInv, Whole, AllWhole
<1>5. \A s \in new :
         /\ s.op = "update" /\ DOMAIN s.on \subseteq DOMAIN NewLimits(c)
         /\ \A k \in DOMAIN s.on : DOMAIN s.on[k] \subseteq DOMAIN NewLimits(c)[k]
  BY Updates
<1> HIDE DEF new
<1>6. InPlace(w)'
  BY <1>2, <1>3 DEF WorkerInv, InPlace, Adding, Editing
<1>7. \A s \in new : Planned(w, s)'
  <2> SUFFICES ASSUME NEW s \in new, NEW k \in DOMAIN s.on
               PROVE  /\ s.op = "update" /\ k \in DOMAIN rows
                      /\ k[1] = "limit" /\ DOMAIN s.on[k] \subseteq {"limit"}
    BY <1>2, <1>3, <1>5 DEF Planned, Columns
  <2>1. k \in LimitsOf(c.id) /\ k \in DOMAIN NewLimits(c)
    BY <1>5, NewAxles
  <2>2. DOMAIN NewLimits(c)[k] = {"limit"}
    BY <2>1, NewAxleRows
  <2> QED  BY <1>4, <1>5, <2>1, <2>2, NewAxles
<1> QED  BY <1>1, <1>2, <1>3, <1>6, <1>7, QueuedWhole DEF Adding, Editing

(* The rows a DELETE takes away become the transaction's.                      *)
LEMMA MassesDeletedWhole ==
    ASSUME WholeInv, NEW w \in Workers, MassesDeleted(w)
    PROVE  WholeInv'
<1> DEFINE c == Here(w)
           gone == [k \in targets[w] |-> Deleted]
           new == Insert("mass", NewMasses(c))
<1>1. Within(w)  BY DEF Within
<1>2. /\ at[w] = "deleting" /\ at'[w] = "limits" /\ writes'[w] = Over(gone, writes[w])
      /\ targets'[w] = {} /\ body' = body /\ i' = i /\ rows' = rows
      /\ unflushed'[w] = unflushed[w] \union new
      /\ Free(w, targets[w])
  BY DEF MassesDeleted, FinishDelete, Write, Queue, Goto, WholeInv, TypeOK, Domains
<1>3. WorkerInv(w) /\ Editing(w) /\ Editing(w)' /\ at[w] # "idle" /\ at'[w] # "idle"
  BY <1>2 DEF WholeInv, WorkerInv, InPlace, Editing
<1>4. /\ DOMAIN writes'[w] = targets[w] \union DOMAIN writes[w]
      /\ \A k \in targets[w] : writes'[w][k] = Deleted
      /\ \A k \in DOMAIN writes[w] \ targets[w] : writes'[w][k] = writes[w][k]
  <2>1. DOMAIN gone = targets[w] /\ \A k \in targets[w] : gone[k] = Deleted
    OBVIOUS
  <2> HIDE DEF gone
  <2>2. /\ DOMAIN Over(gone, writes[w]) = DOMAIN gone \union DOMAIN writes[w]
        /\ \A x \in DOMAIN gone : Over(gone, writes[w])[x] = gone[x]
        /\ \A x \in DOMAIN writes[w] \ DOMAIN gone : Over(gone, writes[w])[x] = writes[w][x]
    BY Merged
  <2> QED  BY <1>2, <2>1, <2>2
<1>5. \A s \in new : s.op = "insert" /\ s.on = NewMasses(c)
  BY Inserts
<1> HIDE DEF gone, new
<1>6. Config(c.id) \in DOMAIN rows /\ \A k \in targets[w] : k[1] = "mass" /\ k[2] = c.id
  BY <1>2, <1>3 DEF WorkerInv, InPlace
<1>7. /\ \A k \in DOMAIN writes[w] :
            writes'[w][k] = writes[w][k] => Drafted(w, k)'
      /\ \A s \in unflushed[w] : Planned(w, s)'
  BY <1>2, <1>3, <1>4, OwnStays DEF Adding, Editing
<1>8. \A k \in targets[w] : Drafted(w, k)'
  BY <1>2, <1>4, <1>6 DEF Drafted, Fits
<1>9. \A s \in new : Planned(w, s)'
  BY <1>2, <1>5, <1>6, NewAxles DEF Planned, Fits
<1>10. InPlace(w)'
  BY <1>2, <1>3, <1>6 DEF WorkerInv, InPlace, Adding, Editing, Here
<1>11. WorkerInv(w)'
  BY <1>2, <1>4, <1>7, <1>8, <1>9, <1>10 DEF WorkerInv
<1>12. \A o \in Workers \ {w} : DOMAIN writes'[w] \cap DOMAIN writes[o] = {}
  BY <1>2, <1>4 DEF WholeInv, LocksAreExclusive, Free
<1> QED  BY <1>1, <1>11, <1>12, WithinIsLocal, WorkerSteps

(* What a flush does with the statement it sends                               *)
LEMMA SendFacts ==
    ASSUME WholeInv, NEW w \in Workers, Send(w)
    PROVE  \E s \in unflushed[w] :
              /\ unflushed'[w] = unflushed[w] \ {s}
              /\ Free(w, DOMAIN s.on)
              /\ DOMAIN writes'[w] = DOMAIN s.on \union DOMAIN writes[w]
              /\ \A k \in DOMAIN writes[w] \ DOMAIN s.on : writes'[w][k] = writes[w][k]
              /\ \A k \in DOMAIN s.on :
                    IF s.op = "insert" THEN writes'[w][k] = s.on[k] /\ k \notin DOMAIN Seen(w)
                    ELSE writes'[w][k] = Over(s.on[k], Seen(w)[k])
<1>1. PICK s \in Due(w) :
         /\ Free(w, DOMAIN s.on) /\ ~Clashes(w, s)
         /\ Write(w, Sent(w, s))
         /\ unflushed' = [unflushed EXCEPT ![w] = @ \ {s}]
  BY DEF Send
<1> DEFINE sent == Sent(w, s)
<1>2. /\ DOMAIN sent = DOMAIN s.on
      /\ \A k \in DOMAIN s.on :
            sent[k] = IF s.op = "insert" THEN s.on[k] ELSE Over(s.on[k], Seen(w)[k])
  BY DEF Sent
<1>3. writes'[w] = Over(sent, writes[w]) /\ unflushed'[w] = unflushed[w] \ {s}
  BY <1>1 DEF Write, WholeInv, Domains
<1> HIDE DEF sent
<1>4. /\ DOMAIN Over(sent, writes[w]) = DOMAIN sent \union DOMAIN writes[w]
      /\ \A x \in DOMAIN sent : Over(sent, writes[w])[x] = sent[x]
      /\ \A x \in DOMAIN writes[w] \ DOMAIN sent : Over(sent, writes[w])[x] = writes[w][x]
  BY Merged
<1>5. s \in unflushed[w] /\ (s.op = "insert" => \A k \in DOMAIN s.on : k \notin DOMAIN Seen(w))
  BY <1>1 DEF Due, Clashes
<1> QED  BY <1>1, <1>2, <1>3, <1>4, <1>5

(* An UPDATE leaves a row its columns, and its parents.                        *)
LEMMA UpdatedRows ==
    ASSUME NEW k, NEW u, NEW v, Shaped(k, v), k[1] \in DOMAIN Columns,
           DOMAIN u \subseteq Columns[k[1]]
    PROVE  /\ Shaped(k, Over(u, v))
           /\ k[1] \in {"profile", "config"} => Over(u, v).template = v.template
           /\ k[1] = "profile" => Over(u, v).category = v.category
<1> DEFINE x == Over(u, v)
<1>1. /\ x = [c \in DOMAIN u \union DOMAIN v |-> x[c]]
      /\ \A c \in DOMAIN v \ DOMAIN u : x[c] = v[c]
  BY DEF Over
<1> HIDE DEF x
<1>2. CASE k[1] = "profile"
  <2>1. v = [template |-> v.template, category |-> v.category, default |-> v.default]
    BY <1>2 DEF Shaped
  <2>2. DOMAIN v = {"template", "category", "default"}  BY <2>1
  <2>3. DOMAIN u \subseteq {"default"}  BY <1>2 DEF Columns
  <2>4. DOMAIN u \union DOMAIN v = {"template", "category", "default"}  BY <2>2, <2>3
  <2>5. x = [template |-> x.template, category |-> x.category, default |-> x.default]
    BY <1>1, <2>4
  <2> QED  BY <1>1, <1>2, <2>2, <2>3, <2>5 DEF Shaped, x
<1>3. CASE k[1] = "range"
  <2>1. v = [min |-> v.min, max |-> v.max]  BY <1>3 DEF Shaped
  <2>2. DOMAIN v = {"min", "max"}  BY <2>1
  <2>3. DOMAIN u \subseteq {"min", "max"}  BY <1>3 DEF Columns
  <2>4. DOMAIN u \union DOMAIN v = {"min", "max"}  BY <2>2, <2>3
  <2>5. x = [min |-> x.min, max |-> x.max]  BY <1>1, <2>4
  <2> QED  BY <1>3, <2>5 DEF Shaped, x
<1>4. CASE k[1] = "config"
  <2>1. v = [template |-> v.template, length |-> v.length]  BY <1>4 DEF Shaped
  <2>2. DOMAIN v = {"template", "length"}  BY <2>1
  <2>3. DOMAIN u \subseteq {"length"}  BY <1>4 DEF Columns
  <2>4. DOMAIN u \union DOMAIN v = {"template", "length"}  BY <2>2, <2>3
  <2>5. x = [template |-> x.template, length |-> x.length]  BY <1>1, <2>4
  <2> QED  BY <1>1, <1>4, <2>2, <2>3, <2>5 DEF Shaped, x
<1>5. CASE k[1] = "limit"
  <2>1. v = [limit |-> v.limit]  BY <1>5 DEF Shaped
  <2>2. DOMAIN v = {"limit"}  BY <2>1
  <2>3. DOMAIN u \subseteq {"limit"}  BY <1>5 DEF Columns
  <2>4. DOMAIN u \union DOMAIN v = {"limit"}  BY <2>2, <2>3
  <2>5. x = [limit |-> x.limit]  BY <1>1, <2>4
  <2> QED  BY <1>5, <2>5 DEF Shaped, x
<1> QED  BY <1>2, <1>3, <1>4, <1>5 DEF Columns

LEMMA FlushWhole ==
    ASSUME WholeInv, NEW w \in Workers, Flush(w)
    PROVE  WholeInv'
<1>1. Within(w) /\ Send(w)  BY DEF Within, Flush
<1>2. /\ at' = at /\ targets' = targets /\ body' = body /\ i' = i /\ rows' = rows
  BY DEF Flush, Send, hvars
<1>3. WorkerInv(w) /\ at[w] # "idle" /\ at'[w] # "idle" /\ at[w] \notin {"checks", "lookup", "range", "deleting"}
  BY <1>2, Bodies_ DEF WholeInv, Flush, Flushing, AtEnd, AtLoop
<1>4. PICK s \in unflushed[w] :
              /\ unflushed'[w] = unflushed[w] \ {s}
              /\ Free(w, DOMAIN s.on)
              /\ DOMAIN writes'[w] = DOMAIN s.on \union DOMAIN writes[w]
              /\ \A k \in DOMAIN writes[w] \ DOMAIN s.on : writes'[w][k] = writes[w][k]
              /\ \A k \in DOMAIN s.on :
                    IF s.op = "insert" THEN writes'[w][k] = s.on[k] /\ k \notin DOMAIN Seen(w)
                    ELSE writes'[w][k] = Over(s.on[k], Seen(w)[k])
  BY <1>1, SendFacts
<1>5. DOMAIN writes[w] \union Pending(w) = DOMAIN writes'[w] \union Pending(w)'
  <2>1. \A k : k \in Pending(w)' <=> \E t \in unflushed[w] \ {s} : k \in DOMAIN t.on
    BY <1>4 DEF Pending
  <2>2. \A k : k \in Pending(w) <=> \E t \in unflushed[w] : k \in DOMAIN t.on
    BY PendingIs
  <2> QED  BY <1>4, <2>1, <2>2
<1>6. /\ \A k, v : Fits(w, k, v) => Fits(w, k, v)'
      /\ \A k \in DOMAIN writes[w] :
            writes'[w][k] = writes[w][k] => Drafted(w, k)'
      /\ \A t \in unflushed[w] : Planned(w, t)'
  BY <1>2, <1>3, <1>4, <1>5, OwnStays
<1>7. Planned(w, s) /\ Adding(w)' = Adding(w) /\ Editing(w)' = Editing(w)
  BY <1>2, <1>3 DEF WorkerInv, Adding, Editing
<1>8. \A k \in DOMAIN s.on : Drafted(w, k)'
  <2> SUFFICES ASSUME NEW k \in DOMAIN s.on PROVE Drafted(w, k)'
    OBVIOUS
  <2>1. CASE s.op = "insert"
    <3>1. Fits(w, k, s.on[k]) /\ Shaped(k, s.on[k])  BY <1>7, <2>1 DEF Planned
    <3>2. writes'[w][k] = s.on[k] /\ k \notin DOMAIN Seen(w)  BY <1>4, <2>1
    <3>3. k[1] # "mass" => k \notin DOMAIN rows
      <4>1. k \in DOMAIN writes[w] => Drafted(w, k)  BY <1>3 DEF WorkerInv
      <4>2. k[1] # "mass" /\ k \in DOMAIN writes[w] => writes[w][k] # Deleted
        BY <4>1, RowsAreNotDeleted DEF Drafted, Fits
      <4> QED  BY <3>2, <4>2, SeenIs DEF WholeInv
    <3>4. Fits(w, k, s.on[k])'  BY <1>6, <3>1
    <3> QED  BY <1>2, <3>1, <3>2, <3>3, <3>4 DEF Drafted, Fits
  <2>2. CASE s.op # "insert"
    <3>1. /\ Editing(w) /\ k \in DOMAIN rows /\ k[1] \in DOMAIN Columns
          /\ DOMAIN s.on[k] \subseteq Columns[k[1]]
      BY <1>7, <2>2 DEF Planned
    <3>2. k[1] \in {"profile", "range", "config", "limit"}  BY <3>1 DEF Columns
    <3>3. k \in DOMAIN writes[w] => Drafted(w, k)  BY <1>3 DEF WorkerInv
    <3>4. k \in DOMAIN writes[w] => writes[w][k] # Deleted
      BY <3>2, <3>3, RowsAreNotDeleted DEF Drafted, Fits
    <3> DEFINE v == Seen(w)[k]
    <3>5. v = IF k \in DOMAIN writes[w] THEN writes[w][k] ELSE rows[k]
      BY <3>1, <3>4, SeenIs DEF WholeInv
    <3> HIDE DEF v
    <3>6. /\ Shaped(k, v)
          /\ k[1] \in {"profile", "config"} => v.template = rows[k].template
          /\ k[1] = "profile" => v.category = rows[k].category
      BY <3>1, <3>2, <3>3, <3>5 DEF Drafted, Fits, WholeInv, Stored, Adding, Editing
    <3> DEFINE u == Over(s.on[k], v)
    <3>7. /\ Shaped(k, u)
          /\ k[1] \in {"profile", "config"} => u.template = rows[k].template
          /\ k[1] = "profile" => u.category = rows[k].category
      BY <3>1, <3>2, <3>6, UpdatedRows
    <3>8. writes'[w][k] = u  BY <1>4, <2>2 DEF v
    <3> HIDE DEF u
    <3> QED  BY <1>2, <1>7, <3>1, <3>2, <3>7, <3>8 DEF Drafted, Fits, Adding, Editing
  <2> QED  BY <2>1, <2>2
<1>9. InPlace(w)'
  <2>1. Here(w)' = Here(w)  BY <1>2 DEF Here
  <2> QED  BY <1>2, <1>3, <1>4, <1>5, <1>7, <2>1 DEF WorkerInv, InPlace
<1>10. WorkerInv(w)'
  BY <1>4, <1>6, <1>8, <1>9 DEF WorkerInv
<1>11. \A o \in Workers \ {w} : DOMAIN writes'[w] \cap DOMAIN writes[o] = {}
  BY <1>4 DEF WholeInv, LocksAreExclusive, Free
<1> QED  BY <1>1, <1>10, <1>11, WithinIsLocal, WorkerSteps

LEMMA ReceiveWhole ==
    ASSUME WholeInv, NEW w \in Workers, Receive(w)
    PROVE  WholeInv' /\ Elsewhere(w)
<1> USE DEF WholeInv
<1>1. PICK b \in Bodies :
         /\ body' = [body EXCEPT ![w] = b]
         /\ Goto(w, IF b.op = "add" THEN "checks" ELSE "lookup")
  BY DEF Receive
<1>2. Elsewhere(w) /\ Domains'
  BY <1>1 DEF Receive, dbvars, Goto, Elsewhere, TypeOK, Domains
<1>3. /\ at[w] = "idle" /\ body'[w] = b /\ at'[w] = (IF b.op = "add" THEN "checks" ELSE "lookup")
      /\ i'[w] = i[w] /\ writes'[w] = writes[w] /\ unflushed'[w] = unflushed[w]
      /\ targets'[w] = targets[w]
  BY <1>1 DEF Receive, dbvars, Goto, TypeOK
<1>4. b.op \in {"add", "update"} /\ Len(b.configs) \in Nat
  BY VehiclesAssumption, Sequences_
<1>5. WorkerInv(w)  OBVIOUS
<1>6. i[w] = 1 /\ DOMAIN writes[w] = {} /\ unflushed[w] = {} /\ targets[w] = {}
  BY <1>3, <1>5 DEF WorkerInv, InPlace
<1>7. TypeOK'
  <2>1. received' \in 0..MaxRequests
    BY VehiclesAssumption DEF Receive, TypeOK
  <2>2. alone' \in [Workers -> BOOLEAN]
    BY DEF Receive, TypeOK
  <2>3. i'[w] \in 1..(Len(body'[w].configs) + 1)
    BY <1>3, <1>4, <1>6
  <2>4. \A o \in Workers : at'[o] # "idle" =>
           body'[o] \in Bodies /\ i'[o] \in 1..(Len(body'[o].configs) + 1)
    BY <1>2, <1>3, <2>3 DEF TypeOK, Elsewhere
  <2>5. at' \in [Workers -> Pcs]
    BY <1>1 DEF TypeOK, Goto, Pcs
  <2> QED  BY <1>1, <2>1, <2>2, <2>4, <2>5 DEF TypeOK
<1>8. WorkerInv(w)'
  BY <1>3, <1>4, <1>6 DEF WorkerInv, InPlace, Adding, Editing
<1>9. \A o \in Workers \ {w} : DOMAIN writes'[w] \cap DOMAIN writes[o] = {}
  BY <1>3, <1>6
<1> QED  BY <1>2, <1>7, <1>8, <1>9, WorkerSteps

-----------------------------------------------------------------------------
(* The commit: it takes away masses only, and what it adds is whole.           *)
LEMMA CommitFacts ==
    ASSUME WholeInv, NEW w \in Workers, Accept(w)
    PROVE  /\ at[w] \in {"header", "config"} /\ unflushed[w] = {} /\ targets[w] = {}
           /\ at[w] # "idle" /\ Pending(w) = {}
           /\ \A k : k \in DOMAIN rows' <=>
                 /\ k \in DOMAIN rows \union DOMAIN writes[w]
                 /\ k \in DOMAIN writes[w] => writes[w][k] # Deleted
           /\ \A k \in DOMAIN rows' :
                 rows'[k] = IF k \in DOMAIN writes[w] THEN writes[w][k] ELSE rows[k]
           /\ \A k \in DOMAIN writes[w] : Drafted(w, k)
           /\ \A k \in DOMAIN writes[w] : k[1] # "mass" => k \in DOMAIN rows'
           /\ \A k \in DOMAIN rows : k[1] # "mass" => k \in DOMAIN rows'
           /\ \A k \in DOMAIN rows : k[1] \in {"profile", "config"} =>
                 rows'[k].template = rows[k].template
           /\ \A k \in DOMAIN rows : k[1] = "profile" => rows'[k].category = rows[k].category
<1>1. /\ at[w] \in {"header", "config"} /\ unflushed[w] = {} /\ rows' = Seen(w)
  BY DEF Accept, AtEnd, AtLoop, Commit
<1>2. WorkerInv(w)  BY DEF WholeInv
<1>3. targets[w] = {} /\ Pending(w) = {}
  BY <1>1, <1>2 DEF WorkerInv, InPlace, Pending
<1>4. \A k \in DOMAIN writes[w] : Drafted(w, k)  BY <1>2 DEF WorkerInv
<1>5. /\ \A k : k \in DOMAIN rows' <=>
            /\ k \in DOMAIN rows \union DOMAIN writes[w]
            /\ k \in DOMAIN writes[w] => writes[w][k] # Deleted
      /\ \A k \in DOMAIN rows' :
            rows'[k] = IF k \in DOMAIN writes[w] THEN writes[w][k] ELSE rows[k]
  BY <1>1, SeenIs DEF WholeInv
<1>6. \A k \in DOMAIN writes[w] : k[1] # "mass" => writes[w][k] # Deleted
  <2> SUFFICES ASSUME NEW k \in DOMAIN writes[w], k[1] # "mass" PROVE writes[w][k] # Deleted
    OBVIOUS
  <2>1. /\ k[1] \in {"category", "template", "profile", "range", "config", "limit", "mass"}
        /\ Shaped(k, writes[w][k])
    BY <1>4 DEF Drafted, Fits
  <2> QED  BY <2>1, RowsAreNotDeleted
<1>7. /\ \A k \in DOMAIN writes[w] : k[1] # "mass" => k \in DOMAIN rows'
      /\ \A k \in DOMAIN rows : k[1] # "mass" => k \in DOMAIN rows'
  BY <1>5, <1>6
<1>8. \A k \in DOMAIN rows \cap DOMAIN writes[w] :
         /\ k[1] \in {"profile", "config"} => writes[w][k].template = rows[k].template
         /\ k[1] = "profile" => writes[w][k].category = rows[k].category
  BY <1>4 DEF Drafted, Fits
<1> QED  BY <1>1, <1>3, <1>4, <1>5, <1>7, <1>8

LEMMA CommitIsWhole ==
    ASSUME WholeInv, NEW w \in Workers, Accept(w)
    PROVE  Stored(rows)' /\ Whole'
<1> DEFINE b == body[w]
<1>1. /\ at[w] \in {"header", "config"} /\ Pending(w) = {}
      /\ \A k \in DOMAIN rows' : k \in DOMAIN rows \union DOMAIN writes[w]
      /\ \A k \in DOMAIN rows' :
            rows'[k] = IF k \in DOMAIN writes[w] THEN writes[w][k] ELSE rows[k]
      /\ \A k \in DOMAIN rows' \cap DOMAIN writes[w] : writes[w][k] # Deleted
      /\ \A k \in DOMAIN writes[w] : Drafted(w, k)
      /\ \A k \in DOMAIN writes[w] \union DOMAIN rows : k[1] # "mass" => k \in DOMAIN rows'
      /\ \A k \in DOMAIN rows : k[1] \in {"profile", "config"} =>
            rows'[k].template = rows[k].template
      /\ \A k \in DOMAIN rows : k[1] = "profile" => rows'[k].category = rows[k].category
  BY CommitFacts
<1>2. Stored(rows) /\ AllWhole(rows)  BY DEF WholeInv, Whole
<1>3. \A x, y : /\ Template(x)[1] = "template" /\ Category(x)[1] = "category"
                /\ Config(x)[1] = "config" /\ Range_(x, y)[1] = "range" /\ Range_(x, y)[2] = x
  BY Keys
<1>4. \A c : \A k \in LimitsOf(c) : k[1] = "limit"
  BY Keys DEF LimitsOf
<1>5. Stored(rows')
  <2> SUFFICES ASSUME NEW k \in DOMAIN rows'
               PROVE  /\ k[1] \in {"category", "template", "profile", "range", "config", "limit", "mass"}
                      /\ Shaped(k, rows'[k])
                      /\ k[1] = "range" => Template(k[2]) \in DOMAIN rows'
                      /\ k[1] = "mass" => Config(k[2]) \in DOMAIN rows'
    BY DEF Stored
  <2>1. CASE k \in DOMAIN writes[w]
    <3>1. Drafted(w, k) /\ rows'[k] = writes[w][k] /\ writes[w][k] # Deleted  BY <1>1, <2>1
    <3>2. k[1] = "range" => Template(k[2]) \in DOMAIN rows \union DOMAIN writes[w]
      BY <1>2, <1>3, <3>1 DEF Drafted, Fits, Stored
    <3> QED  BY <1>1, <1>3, <3>1, <3>2 DEF Drafted, Fits
  <2>2. CASE k \notin DOMAIN writes[w]
    BY <1>1, <1>2, <1>3, <2>2 DEF Stored
  <2> QED  BY <2>1, <2>2
<1>6. \A k \in DOMAIN rows' \ DOMAIN rows :
         /\ k[1] = "profile" =>
               /\ Template(b.template) \in DOMAIN rows' \ DOMAIN rows
               /\ rows'[k].template = b.template /\ rows'[k].category = b.category
               /\ Category(b.category) \in DOMAIN rows'
               /\ Range_(b.template, b.profile) \in DOMAIN rows'
         /\ k[1] = "range" =>
               /\ Template(b.template) \in DOMAIN rows' \ DOMAIN rows
               /\ k = Range_(b.template, b.profile)
         /\ k[1] = "config" =>
               /\ Template(b.template) \in DOMAIN rows' /\ rows'[k].template = b.template
               /\ LimitsOf(k[2]) \subseteq DOMAIN rows'
  <2> SUFFICES ASSUME NEW k \in DOMAIN rows' \ DOMAIN rows, k[1] \in {"profile", "range", "config"}
               PROVE  /\ Template(b.template) \in DOMAIN rows' \ DOMAIN rows
                      /\ k[1] = "profile" =>
                            /\ rows'[k].template = b.template /\ rows'[k].category = b.category
                            /\ Category(b.category) \in DOMAIN rows'
                            /\ Range_(b.template, b.profile) \in DOMAIN rows'
                      /\ k[1] = "range" => k = Range_(b.template, b.profile)
                      /\ k[1] = "config" => /\ rows'[k].template = b.template
                                            /\ LimitsOf(k[2]) \subseteq DOMAIN rows'
    OBVIOUS
  <2>1. k \in DOMAIN writes[w] /\ Drafted(w, k) /\ rows'[k] = writes[w][k]  BY <1>1
  <2>2. Template(b.template) \in DOMAIN writes[w]  BY <2>1 DEF Drafted, Fits
  <2>3. Template(b.template) \in DOMAIN rows' \ DOMAIN rows
    BY <1>1, <1>3, <2>2 DEF Drafted
  <2>4. CASE k[1] = "profile"
    BY <1>1, <1>3, <2>1, <2>3, <2>4 DEF Drafted, Fits
  <2>5. CASE k[1] = "range"
    BY <2>1, <2>3, <2>5 DEF Drafted, Fits
  <2>6. CASE k[1] = "config"
    <3>1. writes[w][k].template = b.template /\ LimitsOf(k[2]) \subseteq DOMAIN writes[w]
      BY <1>1, <2>1, <2>6 DEF Drafted, Fits
    <3> QED  BY <1>1, <1>4, <2>1, <2>3, <2>6, <3>1
  <2> QED  BY <2>4, <2>5, <2>6
<1>7. ASSUME NEW k \in DOMAIN rows', k[1] = "profile"
      PROVE  /\ Template(rows'[k].template) \in DOMAIN rows'
             /\ Category(rows'[k].category) \in DOMAIN rows'
             /\ \E r \in DOMAIN rows' :
                   /\ r[1] = "range" /\ r[2] = rows'[k].template
                   /\ \A x \in DOMAIN rows' : x[1] = "range" /\ x[2] = rows'[k].template => x = r
  <2>1. CASE k \in DOMAIN rows
    <3> DEFINE t == rows[k].template
    <3>1. rows'[k].template = t /\ rows'[k].category = rows[k].category  BY <1>1, <1>7, <2>1
    <3>2. Template(t) \in DOMAIN rows /\ Category(rows[k].category) \in DOMAIN rows
      BY <1>2, <1>7, <2>1 DEF AllWhole
    <3>3. PICK r \in RangesOf(t, rows) : RangesOf(t, rows) = {r}
      BY <1>2, <1>7, <2>1 DEF AllWhole
    <3>4. r \in DOMAIN rows /\ r[1] = "range" /\ r[2] = t  BY <3>3 DEF RangesOf
    <3>5. \A x \in DOMAIN rows : x[1] = "range" /\ x[2] = t => x = r
      BY <3>3 DEF RangesOf
    <3>6. \A x \in DOMAIN rows' \ DOMAIN rows : x[1] = "range" => x[2] # t
      BY <1>3, <1>6, <3>2
    <3> HIDE DEF t
    <3> QED  BY <1>1, <1>3, <3>1, <3>2, <3>4, <3>5, <3>6
  <2>2. CASE k \notin DOMAIN rows
    <3> DEFINE r == Range_(b.template, b.profile)
    <3>1. /\ Template(b.template) \in DOMAIN rows' \ DOMAIN rows
          /\ rows'[k].template = b.template /\ rows'[k].category = b.category
          /\ Category(b.category) \in DOMAIN rows' /\ r \in DOMAIN rows'
      BY <1>6, <1>7, <2>2
    <3>2. \A x \in DOMAIN rows : x[1] = "range" => x[2] # b.template
      BY <1>2, <3>1 DEF Stored
    <3>3. \A x \in DOMAIN rows' \ DOMAIN rows : x[1] = "range" => x = r
      BY <1>6
    <3>4. r[1] = "range" /\ r[2] = b.template  BY <1>3
    <3> HIDE DEF r
    <3> QED  BY <3>1, <3>2, <3>3, <3>4
  <2> QED  BY <2>1, <2>2
<1>8. ASSUME NEW k \in DOMAIN rows', k[1] = "config"
      PROVE  Template(rows'[k].template) \in DOMAIN rows' /\ LimitsOf(k[2]) \subseteq DOMAIN rows'
  <2>1. CASE k \in DOMAIN rows
    BY <1>1, <1>2, <1>3, <1>4, <1>8, <2>1 DEF AllWhole
  <2>2. CASE k \notin DOMAIN rows
    BY <1>6, <1>8, <2>2
  <2> QED  BY <2>1, <2>2
<1>9. \A k \in DOMAIN rows' : k[1] = "profile" =>
         \E r \in RangesOf(rows'[k].template, rows') : RangesOf(rows'[k].template, rows') = {r}
  <2> SUFFICES ASSUME NEW k \in DOMAIN rows', k[1] = "profile"
               PROVE  \E r \in RangesOf(rows'[k].template, rows') :
                         RangesOf(rows'[k].template, rows') = {r}
    OBVIOUS
  <2> DEFINE t == rows'[k].template
  <2>1. PICK r \in DOMAIN rows' :
           /\ r[1] = "range" /\ r[2] = t
           /\ \A x \in DOMAIN rows' : x[1] = "range" /\ x[2] = t => x = r
    BY <1>7
  <2> HIDE DEF t
  <2>2. r \in RangesOf(t, rows') /\ RangesOf(t, rows') = {r}
    BY <2>1 DEF RangesOf
  <2> QED  BY <2>2 DEF t
<1>10. AllWhole(rows')
  BY <1>7, <1>8, <1>9 DEF AllWhole
<1> QED  BY <1>5, <1>10 DEF Whole

LEMMA AcceptWhole ==
    ASSUME WholeInv, NEW w \in Workers, Accept(w)
    PROVE  WholeInv'
<1> USE DEF WholeInv
<1>1. /\ at[w] # "idle" /\ unflushed[w] = {} /\ targets[w] = {}
      /\ \A k \in DOMAIN rows' \ DOMAIN rows : k \in DOMAIN writes[w]
      /\ \A k \in DOMAIN rows : k[1] # "mass" => k \in DOMAIN rows'
      /\ \A k \in DOMAIN rows : k[1] \in {"profile", "config"} =>
            rows'[k].template = rows[k].template
      /\ \A k \in DOMAIN rows : k[1] = "profile" => rows'[k].category = rows[k].category
  BY CommitFacts
<1>2. /\ at'[w] = "idle" /\ body'[w] = None /\ i'[w] = 1 /\ writes'[w] = Nothing
      /\ unflushed' = unflushed /\ targets'[w] = {}
      /\ \A o \in Workers \ {w} :
            /\ at'[o] = at[o] /\ body'[o] = body[o] /\ i'[o] = i[o]
            /\ writes'[o] = writes[o] /\ targets'[o] \subseteq targets[o]
  BY <1>1 DEF Accept, Commit, Ends, Goto, TypeOK, Domains
<1>3. DOMAIN Nothing = {}  BY DEF Nothing
<1>4. Domains' /\ TypeOK'
  <2>1. Domains'  BY DEF Accept, Commit, Ends, Goto, TypeOK, Domains
  <2>2. /\ at' \in [Workers -> Pcs] /\ body' \in [Workers -> Bodies \union {None}]
        /\ alone' \in [Workers -> BOOLEAN] /\ received' \in 0..MaxRequests
    BY DEF Accept, Commit, Ends, Goto, TypeOK, Pcs
  <2> QED  BY <1>2, <2>1, <2>2 DEF TypeOK
<1>5. Stored(rows)' /\ Whole'  BY CommitIsWhole
<1>6. LocksAreExclusive'
  BY <1>2, <1>3 DEF LocksAreExclusive
<1>7. WorkerInv(w)'
  BY <1>1, <1>2, <1>3 DEF WorkerInv, InPlace, Adding, Editing
<1>8. \A o \in Workers \ {w} : WorkerInv(o)'
  <2> SUFFICES ASSUME NEW o \in Workers, o # w PROVE WorkerInv(o)'
    OBVIOUS
  <2>1. \A k \in DOMAIN rows' \ DOMAIN rows : k \notin DOMAIN writes[o]
    BY <1>1 DEF LocksAreExclusive
  <2> QED  BY <1>1, <1>2, <2>1, OthersStay
<1> QED  BY <1>4, <1>5, <1>6, <1>7, <1>8

-----------------------------------------------------------------------------
LEMMA InitWhole == Init => WholeInv
<1> SUFFICES ASSUME Init PROVE WholeInv
  OBVIOUS
<1>1. /\ rows = Stock /\ \A w \in Workers : /\ at[w] = "idle" /\ i[w] = 1 /\ body[w] = None
                                           /\ DOMAIN writes[w] = {} /\ unflushed[w] = {}
                                           /\ targets[w] = {}
  BY DEF Init, DatabaseInit, Nothing
<1>2. TypeOK /\ Domains
  BY VehiclesAssumption DEF Init, DatabaseInit, TypeOK, Pcs, Domains
<1>3. Stored(rows) /\ Whole
  BY <1>1, VehiclesAssumption DEF Whole
<1>4. \A w \in Workers : WorkerInv(w)
  BY <1>1 DEF WorkerInv, InPlace, Adding, Editing
<1> QED  BY <1>1, <1>2, <1>3, <1>4 DEF WholeInv, LocksAreExclusive

(* The steps of a request that end it without a commit                         *)
LEMMA EndsByAborting ==
    ASSUME NEW w \in Workers, Refuses(w) \/ Victim(w) \/ Fail(w)
    PROVE  Aborts(w)
BY DEF Refuses, AddRefused, UpdateRefused, ConfigRefused, NewConfigRefused, FlushRefused,
       Victim, Fail

LEMMA StepCases ==
    ASSUME NEW w \in Workers, Receive(w) \/ Step(w) \/ Fail(w)
    PROVE  Receive(w) \/ Within(w) \/ Aborts(w) \/ Accept(w)
BY EndsByAborting DEF Step, Within, Refuses

LEMMA StepWhole ==
    ASSUME WholeInv, NEW w \in Workers, Receive(w) \/ Step(w) \/ Fail(w)
    PROVE  WholeInv'
<1>1. CASE Within(w)
  BY <1>1, AddParentsWhole, AddChildrenWhole, LookUpWhole, ReadRangeWhole, StoreConfigWhole,
     AddConfigWhole, AddAxlesWhole, DeleteMassesWhole, MassesDeletedWhole, ReadLimitWhole,
     UpdateLimitsWhole, FlushWhole DEF Within
<1> QED  BY <1>1, StepCases, ReceiveWhole, AbortsWhole, AcceptWhole

LEMMA NothingHappens ==
    ASSUME WholeInv, UNCHANGED vars
    PROVE  WholeInv'
<1> USE DEF vars, dbvars, hvars, WholeInv
<1>1. TypeOK' /\ Domains'  BY DEF TypeOK, Domains
<1>2. Stored(rows)' /\ Whole'  BY DEF Stored, Whole, AllWhole, RangesOf
<1>3. LocksAreExclusive'  BY DEF LocksAreExclusive
<1>4. \A w \in Workers : WorkerInv(w)'  BY OthersStay
<1> QED  BY <1>1, <1>2, <1>3, <1>4

(* At every step of every request what is stored is whole, what each open      *)
(* transaction would commit keeps it whole, and no two hold the same lock.     *)
THEOREM WholeIsInvariant == Spec => []WholeInv
<1>1. WholeInv /\ [Next]_vars => WholeInv'
  BY StepWhole, NothingHappens DEF Next
<1> QED  BY <1>1, InitWhole, PTL DEF Spec

(* Every worker serves a request at one of the handlers' statements, at one    *)
(* of its configurations, or none.                                             *)
THEOREM VehiclesTypes == Spec => []TypeOK
<1>1. WholeInv => TypeOK  BY DEF WholeInv
<1> QED  BY <1>1, WholeIsInvariant, PTL

(* However requests overlap, wait for each other, fail or are refused, a       *)
(* stored profile has its template, its category and exactly one range, and a  *)
(* stored configuration its template and every limit.                          *)
THEOREM VehiclesAreWhole == Spec => []Whole
<1>1. WholeInv => Whole  BY DEF WholeInv
<1> QED  BY <1>1, WholeIsInvariant, PTL

-----------------------------------------------------------------------------
(* What a request is to store, key by key.                                     *)

LEMMA SeenThen ==
    ASSUME NEW w \in Workers
    PROVE  /\ \A k : k \in DOMAIN Seen(w)' <=>
                 /\ k \in DOMAIN rows' \union DOMAIN writes'[w]
                 /\ k \in DOMAIN writes'[w] => writes'[w][k] # Deleted
           /\ \A k \in DOMAIN Seen(w)' :
                 Seen(w)'[k] = IF k \in DOMAIN writes'[w] THEN writes'[w][k] ELSE rows'[k]
BY DEF Seen

LEMMA SeenNow ==
    ASSUME WholeInv, NEW w \in Workers
    PROVE  /\ \A k : k \in DOMAIN Seen(w) <=>
                 /\ k \in DOMAIN rows \union DOMAIN writes[w]
                 /\ k \in DOMAIN writes[w] => writes[w][k] # Deleted
           /\ \A k \in DOMAIN Seen(w) :
                 Seen(w)[k] = IF k \in DOMAIN writes[w] THEN writes[w][k] ELSE rows[k]
BY SeenIs DEF WholeInv

(* The step of w changes nothing of row k.                                     *)
Same(w, k) ==
    /\ k \in DOMAIN Seen(w)' <=> k \in DOMAIN Seen(w)
    /\ k \in DOMAIN Seen(w) => Seen(w)'[k] = Seen(w)[k]
    /\ \A s \in unflushed[w] \union unflushed'[w] :
          k \in DOMAIN s.on => s \in unflushed[w] /\ s \in unflushed'[w]

LEMMA SameIs ==
    ASSUME WholeInv, WholeInv', NEW w \in Workers, NEW k,
           k \in DOMAIN rows' <=> k \in DOMAIN rows,
           k \in DOMAIN rows => rows'[k] = rows[k],
           k \in DOMAIN writes'[w] <=> k \in DOMAIN writes[w],
           k \in DOMAIN writes[w] => writes'[w][k] = writes[w][k],
           \A s \in unflushed[w] \union unflushed'[w] :
               k \in DOMAIN s.on => s \in unflushed[w] /\ s \in unflushed'[w]
    PROVE  Same(w, k)
<1>1. Stored(rows)'  BY DEF WholeInv
<1> QED  BY <1>1, SeenNow, SeenThen DEF Same

LEMMA SamePending ==
    ASSUME NEW w, NEW k, Same(w, k)
    PROVE  k \in Pending(w)' <=> k \in Pending(w)
BY DEF Same, Pending

LEMMA BecomesStays ==
    ASSUME NEW w, NEW k, NEW v, Same(w, k), Becomes(w, k, v)
    PROVE  Becomes(w, k, v)'
BY SamePending DEF Same, Becomes

LEMMA UpToIs ==
    ASSUME NEW w, NEW statements
    PROVE  /\ \A c : c \in UpTo(w, statements) <=>
                 \E n \in DOMAIN body[w].configs :
                     /\ n < i[w] \/ (n = i[w] /\ at[w] \in statements)
                     /\ c = body[w].configs[n]
           /\ \A c : c \in UpTo(w, statements)' <=>
                 \E n \in DOMAIN body'[w].configs :
                     /\ n < i'[w] \/ (n = i'[w] /\ at'[w] \in statements)
                     /\ c = body'[w].configs[n]
BY DEF UpTo

LEMMA PromisesStay ==
    ASSUME NEW w, NEW c, \A k : k[1] \in {"mass", "limit"} /\ k[2] = c.id => Same(w, k)
    PROVE  /\ MassesPromised(w, c) => MassesPromised(w, c)'
           /\ LimitsPromised(w, c) => LimitsPromised(w, c)'
<1>1. \A n : Mass(c.id, n)[1] = "mass" /\ Mass(c.id, n)[2] = c.id
  BY Keys
<1>2. \A k \in LimitsOf(c.id) : k[1] = "limit" /\ k[2] = c.id
  BY Keys DEF LimitsOf
<1>3. ASSUME MassesPromised(w, c) PROVE MassesPromised(w, c)'
  <2>1. \A n \in DOMAIN c.masses : Becomes(w, Mass(c.id, n), [mass |-> c.masses[n]])'
    <3> SUFFICES ASSUME NEW n \in DOMAIN c.masses
                 PROVE  Becomes(w, Mass(c.id, n), [mass |-> c.masses[n]])'
      OBVIOUS
    <3> DEFINE v == [mass |-> c.masses[n]]
               k == Mass(c.id, n)
    <3>1. Becomes(w, k, v) /\ Same(w, k)  BY <1>1, <1>3 DEF MassesPromised
    <3> HIDE DEF v, k
    <3>2. Becomes(w, k, v)'  BY <3>1, BecomesStays
    <3> QED  BY <3>2 DEF v, k
  <2>2. \A k \in DOMAIN Seen(w)' \union Pending(w)' :
           k[1] = "mass" /\ k[2] = c.id => k \in DOMAIN Seen(w) \union Pending(w)
    BY SamePending DEF Same
  <2> QED  BY <1>3, <2>1, <2>2 DEF MassesPromised
<1>4. ASSUME LimitsPromised(w, c) PROVE LimitsPromised(w, c)'
  <2> SUFFICES ASSUME NEW k \in LimitsOf(c.id)
               PROVE  Becomes(w, k, [limit |-> c.limits[k[3]]])'
    BY DEF LimitsPromised, LimitsOf
  <2> DEFINE v == [limit |-> c.limits[k[3]]]
  <2>1. Becomes(w, k, v) /\ Same(w, k)  BY <1>2, <1>4 DEF LimitsPromised
  <2> HIDE DEF v
  <2>2. Becomes(w, k, v)'  BY <2>1, BecomesStays
  <2> QED  BY <2>2 DEF v
<1> QED  BY <1>3, <1>4

-----------------------------------------------------------------------------
(* A step that stores, queues or forgets nothing about the axles.              *)
LEMMA AxlesStay ==
    ASSUME WholeInv, WholeInv', NEW w \in Workers, AxlesInv(w),
           at[w] \notin {"idle", "newConfig"}, at'[w] \notin {"idle", "newConfig"},
           rows' = rows, body'[w] = body[w], writes'[w] = writes[w],
           \A k : k[1] \in {"mass", "limit"} => Same(w, k),
           \A k \in DOMAIN loaded'[w] : k[1] = "limit" =>
               k \in DOMAIN loaded[w] /\ loaded'[w][k] = loaded[w][k],
           \A c : c \in Massed(w)' <=> c \in Massed(w),
           \A c : c \in Done(w)' <=> c \in Done(w),
           Accepted(w)',
           at'[w] = "deleting" => MassesFound(w)'
    PROVE  AxlesInv(w)'
<1>1. Adding(w)' = Adding(w) /\ Editing(w)' = Editing(w)  BY DEF Adding, Editing
<1>2. \A k : k[1] \in {"mass", "limit"} => (k \in Pending(w)' <=> k \in Pending(w))
  BY SamePending
<1>3. OwnAxles(w)'
  BY <1>2 DEF AxlesInv, OwnAxles
<1>4. \A c : Mass(c, 1)[1] = "mass"  BY Keys
<1>5. \A c : /\ Insists(w, c) => Insists(w, c)'
             /\ Doomed(w, c) <=> Doomed(w, c)'
  BY <1>1, <1>4 DEF Insists, Doomed, Same
<1>6. \A c : /\ MassesPromised(w, c) => MassesPromised(w, c)'
             /\ LimitsPromised(w, c) => LimitsPromised(w, c)'
  BY PromisesStay
<1>7. ASSUME NEW c, LimitsRead(w, c) PROVE LimitsRead(w, c)'
  <2>1. \A k \in LimitsOf(c.id) : k[1] = "limit"  BY Keys DEF LimitsOf
  <2> SUFFICES ASSUME NEW k \in LimitsOf(c.id), k \in DOMAIN loaded'[w]
               PROVE  k \in DOMAIN rows' /\ loaded'[w][k] = rows'[k]
    BY DEF LimitsRead, LimitsOf
  <2>2. k \in DOMAIN loaded[w] /\ loaded'[w][k] = loaded[w][k]  BY <2>1
  <2> QED  BY <1>7, <2>2 DEF LimitsRead
<1>8. \A c \in Massed(w)' :
          /\ Editing(w)' => Config(c.id) \in DOMAIN rows' /\ Insists(w, c.id)'
          /\ Adding(w)' => Config(c.id) \in DOMAIN writes'[w]
          /\ Doomed(w, c.id)' \/ MassesPromised(w, c)'
  BY <1>1, <1>5, <1>6 DEF AxlesInv
<1>9. /\ \A c \in Done(w)' : Doomed(w, c.id)' \/ LimitsPromised(w, c)'
      /\ \A c \in Massed(w)' \ Done(w)' : Doomed(w, c.id)' \/ LimitsRead(w, c)'
  BY <1>5, <1>6, <1>7 DEF AxlesInv
<1> QED  BY <1>3, <1>8, <1>9 DEF AxlesInv

(* Whether the request's configurations are different and have masses depends  *)
(* on its own steps.                                                           *)
LEMMA PlaceStays ==
    ASSUME NEW w, body'[w] = body[w], i'[w] = i[w], at[w] # "idle", at'[w] # "idle",
           \/ at'[w] = at[w]
           \/ /\ at[w] \notin {"axle", "deleting", "limits"}
              /\ at'[w] \notin {"axle", "deleting", "limits"}
           \/ at[w] = "axle" /\ at'[w] = "deleting"
    PROVE  /\ \A c : c \in Massed(w)' <=> c \in Massed(w)
           /\ \A c : c \in Done(w)' <=> c \in Done(w)
           /\ Accepted(w) => Accepted(w)'
<1>1. \A c : c \in Massed(w)' <=> c \in Massed(w)
  BY DEF Massed, UpTo
<1>2. \A c : c \in Done(w)' <=> c \in Done(w)
  BY DEF Done, UpTo
<1>3. \A c : c \in Reached(w)' <=> c \in Reached(w)
  BY DEF Reached, UpTo
<1>4. Accepted(w) => Accepted(w)'
  BY <1>3 DEF Accepted, Editing
<1> QED  BY <1>1, <1>2, <1>3, <1>4

(* The others' steps, except a commit, leave w's promises alone.               *)
LEMMA AxlesElsewhere ==
    ASSUME WholeInv, WholeInv', NEW w \in Workers, AxlesInv(w),
           at[w] \notin {"idle", "newConfig"}, rows' = rows,
           at'[w] = at[w], body'[w] = body[w], i'[w] = i[w], loaded'[w] = loaded[w],
           writes'[w] = writes[w], unflushed'[w] = unflushed[w], targets'[w] = targets[w]
    PROVE  AxlesInv(w)'
<1>1. \A k : Same(w, k)  BY SameIs
<1>2. MassesFound(w) => MassesFound(w)'  BY DEF MassesFound, Here, MassesOf
<1>3. at[w] = "deleting" => MassesFound(w)  BY DEF AxlesInv
<1>4. Accepted(w)  BY DEF AxlesInv
<1> QED  BY <1>1, <1>2, <1>3, <1>4, PlaceStays, AxlesStay

LEMMA ReceiveAxles ==
    ASSUME WholeInv, AxlesAreKept, NEW w \in Workers, Receive(w)
    PROVE  AxlesInv(w)'
<1>1. /\ at[w] = "idle" /\ at'[w] \in {"checks", "lookup"}
      /\ i'[w] = i[w] /\ writes'[w] = writes[w] /\ unflushed'[w] = unflushed[w]
      /\ loaded'[w] = loaded[w]
  BY DEF Receive, Goto, dbvars, WholeInv, TypeOK
<1>2. /\ DOMAIN writes'[w] = {} /\ unflushed'[w] = {} /\ i'[w] = 1 /\ DOMAIN loaded'[w] = {}
  BY <1>1 DEF WholeInv, WorkerInv, InPlace, AxlesAreKept
<1>3. body'[w] \in Bodies
  BY <1>1, ReceiveWhole DEF WholeInv, TypeOK
<1>4. Len(body'[w].configs) \in Nat /\ DOMAIN body'[w].configs = 1..Len(body'[w].configs)
  BY <1>3, VehiclesAssumption, Sequences_
<1>5. \A n \in DOMAIN body'[w].configs : ~(n < i'[w])
  BY <1>2, <1>4
<1>6. \A c : c \notin Massed(w)' /\ c \notin Done(w)' /\ c \notin Reached(w)'
  BY <1>1, <1>2, <1>5 DEF Massed, Done, Reached, UpTo
<1>7. \A k : k \notin Pending(w)'  BY <1>2 DEF Pending
<1>8. OwnAxles(w)'  BY <1>2, <1>7 DEF OwnAxles
<1>9. Accepted(w)'  BY <1>1, <1>2, <1>4, <1>6 DEF Accepted
<1> QED  BY <1>1, <1>6, <1>8, <1>9 DEF AxlesInv

(* A step that queues other rows                                               *)
LEMMA QueueStays ==
    ASSUME WholeInv, WholeInv', NEW w \in Workers, AxlesInv(w),
           at[w] \notin {"idle", "newConfig", "limits"},
           at'[w] \notin {"idle", "newConfig", "limits"},
           rows' = rows, body'[w] = body[w], i'[w] = i[w], writes'[w] = writes[w],
           unflushed[w] \subseteq unflushed'[w],
           \A s \in unflushed'[w] \ unflushed[w] : \A k \in DOMAIN s.on : k[1] \notin {"mass", "limit"},
           \A k \in DOMAIN loaded'[w] : k[1] = "limit" =>
               k \in DOMAIN loaded[w] /\ loaded'[w][k] = loaded[w][k],
           Accepted(w)',
           at'[w] = "deleting" => MassesFound(w)'
    PROVE  AxlesInv(w)'
<1>1. \A k : k[1] \in {"mass", "limit"} => Same(w, k)
  <2> SUFFICES ASSUME NEW k, k[1] \in {"mass", "limit"} PROVE Same(w, k)
    OBVIOUS
  <2>1. \A s \in unflushed[w] \union unflushed'[w] :
            k \in DOMAIN s.on => s \in unflushed[w] /\ s \in unflushed'[w]
    OBVIOUS
  <2> QED  BY <2>1, SameIs
<1>2. \A c : c \in Massed(w)' <=> c \in Massed(w)
  BY DEF Massed, UpTo
<1>3. \A c : c \in Done(w)' <=> c \in Done(w)
  BY DEF Done, UpTo
<1> QED  BY <1>1, <1>2, <1>3, AxlesStay

LEMMA HeaderAxles ==
    ASSUME WholeInv, WholeInv', NEW w \in Workers, AxlesInv(w),
           AddParents(w) \/ AddChildren(w) \/ LookUp(w) \/ ReadRange(w)
    PROVE  AxlesInv(w)'
<1> DEFINE b == body[w]
           Others == \A s \in unflushed'[w] \ unflushed[w] :
                         \A k \in DOMAIN s.on : k[1] \notin {"mass", "limit"}
<1>1. Accepted(w)  BY DEF AxlesInv
<1>2. \A x, y : /\ Template(x)[1] = "template" /\ Category(x)[1] = "category"
                /\ Profile(x)[1] = "profile" /\ Range_(x, y)[1] = "range"
  BY Keys
<1>3. CASE AddParents(w)
  <2>1. /\ at[w] = "checks" /\ at'[w] = "parents" /\ rows' = rows /\ body'[w] = body[w]
        /\ i'[w] = i[w] /\ writes'[w] = writes[w] /\ loaded'[w] = loaded[w]
        /\ unflushed'[w] = unflushed[w] \union Insert("template", Parents(w))
    BY <1>3 DEF AddParents, Queue, Goto, WholeInv, TypeOK, Domains
  <2>2. \A k \in DOMAIN Parents(w) : k = Template(b.template) \/ k = Category(b.category)
    BY DEF Parents
  <2>3. \A s \in Insert("template", Parents(w)) : s.on = Parents(w)  BY Inserts
  <2>4. Others  BY <1>2, <2>1, <2>2, <2>3
  <2> QED  BY <1>1, <2>1, <2>4, PlaceStays, QueueStays
<1>4. CASE AddChildren(w)
  <2> DEFINE range == Row(Range_(b.template, b.profile), [min |-> b.min, max |-> b.max])
             profile == Row(Profile(b.profile),
                            [template |-> b.template, category |-> b.category,
                             default |-> b.default])
  <2>1. /\ at[w] = "parents" /\ at'[w] = "header" /\ rows' = rows /\ body'[w] = body[w]
        /\ i'[w] = i[w] /\ writes'[w] = writes[w] /\ loaded'[w] = loaded[w]
        /\ unflushed'[w] = unflushed[w] \union (Insert("range", range)
                                                  \union Insert("profile", profile))
    BY <1>4 DEF AddChildren, Queue, Goto, WholeInv, TypeOK, Domains
  <2>2. DOMAIN range = {Range_(b.template, b.profile)} /\ DOMAIN profile = {Profile(b.profile)}
    BY Single
  <2> HIDE DEF range, profile
  <2>3. \A s \in Insert("range", range) \union Insert("profile", profile) :
            s.on = range \/ s.on = profile
    BY Inserts
  <2>4. Others  BY <1>2, <2>1, <2>2, <2>3
  <2> QED  BY <1>1, <2>1, <2>4, PlaceStays, QueueStays
<1>5. CASE LookUp(w)
  <2> DEFINE p == Profile(b.profile)
             row == Row(p, Seen(w)[p])
  <2>1. /\ at[w] = "lookup" /\ at'[w] = "range" /\ rows' = rows /\ body'[w] = body[w]
        /\ i'[w] = i[w] /\ writes'[w] = writes[w] /\ unflushed'[w] = unflushed[w]
        /\ loaded'[w] = row
    BY <1>5 DEF LookUp, dbvars, Goto, WholeInv, TypeOK, Domains
  <2>2. DOMAIN row = {p}  BY Single
  <2> HIDE DEF row
  <2>3. \A k \in DOMAIN loaded'[w] : k[1] # "limit"  BY <1>2, <2>1, <2>2
  <2> QED  BY <1>1, <2>1, <2>3, PlaceStays, QueueStays
<1>6. CASE ReadRange(w)
  <2> DEFINE p == Profile(b.profile)
             r == CHOOSE k \in RangesOf(b.template, Seen(w)) : TRUE
             lengths == [min |-> b.min, max |-> b.max]
             length == [default |-> b.default]
             range == Update("range", Row(r, lengths), Row(r, Seen(w)[r]))
             profile == Update("profile", Row(p, length), loaded[w])
  <2>1. /\ at[w] = "range" /\ at'[w] = "header" /\ rows' = rows /\ body'[w] = body[w]
        /\ i'[w] = i[w] /\ writes'[w] = writes[w] /\ loaded'[w] = loaded[w]
        /\ unflushed'[w] = unflushed[w] \union (range \union profile)
    BY <1>6 DEF ReadRange, Queue, Goto, WholeInv, TypeOK, Domains
  <2>2. r \in RangesOf(b.template, Seen(w))
    <3>1. WorkerInv(w) /\ p[1] = "profile"  BY <1>2 DEF WholeInv
    <3>2. /\ p \in DOMAIN rows /\ rows[p].template = b.template /\ DOMAIN writes[w] = {}
      BY <2>1, <3>1 DEF WorkerInv, InPlace
    <3>3. \E k \in DOMAIN rows : k \in RangesOf(b.template, rows)
      BY <3>1, <3>2 DEF WholeInv, Whole, AllWhole, RangesOf
    <3>4. \A k \in DOMAIN rows : k \in DOMAIN Seen(w)
      BY <3>2, SeenNow
    <3> QED  BY <3>3, <3>4 DEF RangesOf
  <2>3. r[1] = "range"  BY <2>2 DEF RangesOf
  <2> HIDE DEF r, lengths, length
  <2>4. /\ \A s \in range : DOMAIN s.on = {r}
        /\ \A s \in profile : DOMAIN s.on = {p}
    BY UpdatesRow
  <2> HIDE DEF range, profile
  <2>5. Others  BY <1>2, <2>1, <2>3, <2>4
  <2> QED  BY <1>1, <2>1, <2>5, PlaceStays, QueueStays
<1> QED  BY <1>3, <1>4, <1>5, <1>6

LEMMA StoreConfigAxles ==
    ASSUME WholeInv, WholeInv', NEW w \in Workers, AxlesInv(w), StoreConfig(w)
    PROVE  AxlesInv(w)'
<1> DEFINE b == body[w]
           k == Config(Here(w).id)
           new == ConfigStatement(w)
<1>1. /\ at[w] \in {"header", "config"} /\ at'[w] = "axle" /\ rows' = rows /\ body'[w] = body[w]
      /\ i'[w] = i[w] /\ writes'[w] = writes[w] /\ loaded'[w] = loaded[w]
      /\ unflushed'[w] = unflushed[w] \union new
      /\ Acceptable(b, i[w]) /\ i[w] <= Len(b.configs)
  BY DEF StoreConfig, AtConfig, AtLoop, Queue, Goto, WholeInv, TypeOK, Domains
<1>2. \A s \in new : DOMAIN s.on = {k}
  <2> DEFINE v == [template |-> b.template, length |-> Here(w).length]
             u == [length |-> Here(w).length]
  <2>1. \/ new = Insert("config", Row(k, v))
        \/ new = Update("config", Row(k, u), Row(k, Seen(w)[k]))
    BY DEF ConfigStatement
  <2> HIDE DEF new, v, u
  <2>2. DOMAIN Row(k, v) = {k}  BY Single
  <2>3. \A s \in Insert("config", Row(k, v)) : DOMAIN s.on = {k}
    BY <2>2, Inserts
  <2>4. \A s \in Update("config", Row(k, u), Row(k, Seen(w)[k])) : DOMAIN s.on = {k}
    BY UpdatesRow
  <2> QED  BY <2>1, <2>3, <2>4
<1>3. k[1] = "config"  BY Keys
<1> HIDE DEF new
<1>4. Accepted(w)'
  <2>1. /\ Accepted(w) /\ i[w] \in Nat /\ DOMAIN b.configs = 1..Len(b.configs)
        /\ Len(b.configs) \in Nat /\ i[w] \in 1..Len(b.configs)
    BY <1>1, Bodies_ DEF AxlesInv, WholeInv
  <2>2. /\ \A m \in 1..(i[w] - 1) : b.configs[m].id # b.configs[i[w]].id
        /\ b.op = "update" => b.configs[i[w]].masses # <<>>
    BY <1>1 DEF Acceptable
  <2>3. \A m, n \in DOMAIN b.configs :
           m < n /\ (n < i[w] \/ n = i[w]) => b.configs[m].id # b.configs[n].id
    <3>1. \A m, n \in DOMAIN b.configs : m < n /\ n = i[w] => m \in 1..(i[w] - 1)
      BY <2>1
    <3> QED  BY <2>1, <2>2, <3>1 DEF Accepted
  <2>4. \A c : c \in Reached(w)' => c \in Reached(w) \/ c = b.configs[i[w]]
    BY <1>1 DEF Reached, UpTo
  <2> QED  BY <1>1, <2>1, <2>2, <2>3, <2>4 DEF Accepted, Editing
<1> QED  BY <1>1, <1>2, <1>3, <1>4, QueueStays

-----------------------------------------------------------------------------
(* The configuration whose axles are being stored: nothing has been stored or  *)
(* read of them yet.                                                           *)
LEMMA HereIsNew ==
    ASSUME WholeInv, NEW w \in Workers, AxlesInv(w), at[w] \in {"axle", "deleting", "limits"}
    PROVE  /\ i[w] \in DOMAIN body[w].configs /\ Here(w) = body[w].configs[i[w]]
           /\ \A c \in Done(w) : c.id # Here(w).id
           /\ at[w] # "limits" => \A c \in Massed(w) : c.id # Here(w).id
           /\ \A k \in DOMAIN writes[w] \union Pending(w) :
                 k[1] = "limit" => k[2] # Here(w).id
           /\ at[w] # "limits" =>
                 /\ \A k \in DOMAIN writes[w] \union Pending(w) :
                       k[1] = "mass" => k[2] # Here(w).id
                 /\ \A k \in DOMAIN loaded[w] : k[1] = "limit" => k[2] # Here(w).id
<1>1. /\ DOMAIN body[w].configs = 1..Len(body[w].configs) /\ Len(body[w].configs) \in Nat
      /\ i[w] \in 1..(Len(body[w].configs) + 1)
  BY Bodies_ DEF WholeInv
<1>2. i[w] <= Len(body[w].configs)
  BY DEF WholeInv, WorkerInv, InPlace
<1>3. i[w] \in DOMAIN body[w].configs /\ Here(w) = body[w].configs[i[w]]
  BY <1>1, <1>2 DEF Here
<1>4. \A c \in Done(w) : c.id # Here(w).id
  BY <1>1, <1>3 DEF Done, UpTo, AxlesInv, Accepted
<1>5. at[w] # "limits" => \A c \in Massed(w) : c \in Done(w)
  BY DEF Massed, Done, UpTo
<1> QED  BY <1>3, <1>4, <1>5 DEF AxlesInv, OwnAxles

LEMMA DeleteMassesAxles ==
    ASSUME WholeInv, WholeInv', NEW w \in Workers, AxlesInv(w), DeleteMasses(w)
    PROVE  AxlesInv(w)'
<1> DEFINE c == Here(w)
<1>1. /\ at[w] = "axle" /\ at'[w] = "deleting" /\ rows' = rows /\ body'[w] = body[w]
      /\ i' = i /\ body' = body
      /\ i'[w] = i[w] /\ writes'[w] = writes[w] /\ loaded'[w] = loaded[w]
      /\ unflushed'[w] = unflushed[w] /\ targets'[w] = MassesOf(c.id, Seen(w))
  BY DEF DeleteMasses, StartDelete, Goto, WholeInv, TypeOK, Domains
<1>2. \A k \in DOMAIN writes[w] : k[1] = "mass" => k[2] # c.id
  BY <1>1, HereIsNew
<1>3. \A k \in DOMAIN rows : k[1] = "mass" /\ k[2] = c.id => k \in targets'[w]
  BY <1>1, <1>2, SeenNow DEF MassesOf
<1>4. Here(w)' = c  BY <1>1 DEF Here
<1>5. MassesFound(w)'
  BY <1>1, <1>3, <1>4 DEF MassesFound, MassesOf
<1>6. Accepted(w)' BY <1>1, PlaceStays DEF AxlesInv
<1> QED  BY <1>1, <1>5, <1>6, QueueStays

(* What is queued for a configuration                                          *)
LEMMA NewMassRows ==
    ASSUME NEW c, NEW k
    PROVE  /\ k \in DOMAIN NewMasses(c) <=> \E n \in DOMAIN c.masses : k = Mass(c.id, n)
           /\ k \in DOMAIN NewMasses(c) => k[1] = "mass" /\ k[2] = c.id
           /\ \A n \in DOMAIN c.masses :
                 k = Mass(c.id, n) => NewMasses(c)[k] = [mass |-> c.masses[n]]
<1>1. \A n : Mass(c.id, n)[1] = "mass" /\ Mass(c.id, n)[2] = c.id /\ Mass(c.id, n)[3] = n
  BY Keys
<1> QED  BY <1>1 DEF NewMasses

LEMMA NewLimitRows ==
    ASSUME NEW c, NEW k
    PROVE  /\ k \in DOMAIN NewLimits(c) <=> k \in LimitsOf(c.id)
           /\ k \in DOMAIN NewLimits(c) =>
                 k[1] = "limit" /\ k[2] = c.id /\ NewLimits(c)[k] = [limit |-> c.limits[k[3]]]
BY Keys DEF NewLimits, LimitsOf

LEMMA NewRowsAreAxles ==
    ASSUME NEW c
    PROVE  /\ \A k \in DOMAIN NewMasses(c) : k[1] = "mass" /\ k[2] = c.id
           /\ \A k \in DOMAIN NewLimits(c) : k[1] = "limit" /\ k[2] = c.id
<1>1. \A k \in DOMAIN NewMasses(c) : k[1] = "mass" /\ k[2] = c.id
  BY NewMassRows
<1>2. \A k \in DOMAIN NewLimits(c) : k[1] = "limit" /\ k[2] = c.id
  BY NewLimitRows
<1> QED  BY <1>1, <1>2

(* An insert is what becomes of its rows.                                      *)
LEMMA BecomesInserted ==
    ASSUME NEW w, NEW new, NEW k, NEW v,
           k \in DOMAIN new => new[k] = v,
           k \in Pending(w)',
           \A s \in unflushed'[w] : k \in DOMAIN s.on => s.op = "insert" /\ s.on = new
    PROVE  Becomes(w, k, v)'
BY DEF Becomes

LEMMA MassesQueued ==
    ASSUME NEW w, NEW c,
           \A s \in unflushed'[w] : \A k \in DOMAIN s.on :
               k[1] = "mass" /\ k[2] = c.id => s.op = "insert" /\ s.on = NewMasses(c),
           DOMAIN NewMasses(c) # {} => \E s \in unflushed'[w] : s.on = NewMasses(c),
           \A k \in DOMAIN Seen(w)' : k[1] = "mass" => k[2] # c.id
    PROVE  MassesPromised(w, c)'
<1>1. \A k : k \in Pending(w)' <=> \E s \in unflushed'[w] : k \in DOMAIN s.on
  BY DEF Pending
<1>2. ASSUME NEW n \in DOMAIN c.masses
      PROVE  Becomes(w, Mass(c.id, n), [mass |-> c.masses[n]])'
  <2> DEFINE k == Mass(c.id, n)
             v == [mass |-> c.masses[n]]
  <2>1. k \in DOMAIN NewMasses(c) /\ NewMasses(c)[k] = v /\ k[1] = "mass" /\ k[2] = c.id
    BY NewMassRows
  <2> HIDE DEF k, v
  <2>2. k \in Pending(w)'  BY <1>1, <2>1
  <2>3. Becomes(w, k, v)'  BY <2>1, <2>2, BecomesInserted
  <2> QED  BY <2>3 DEF k, v
<1>3. \A k \in DOMAIN Seen(w)' \union Pending(w)' :
          k[1] = "mass" /\ k[2] = c.id => \E n \in DOMAIN c.masses : k = Mass(c.id, n)
  BY <1>1, NewMassRows
<1> QED  BY <1>2, <1>3 DEF MassesPromised

LEMMA AddAxlesAxles ==
    ASSUME WholeInv, WholeInv', NEW w \in Workers, AxlesInv(w), AddAxles(w)
    PROVE  AxlesInv(w)'
<1> SUFFICES ASSUME NEW c, c = Here(w) PROVE AxlesInv(w)'
  OBVIOUS
<1> DEFINE limits == Insert("limit", NewLimits(c))
           masses == Insert("mass", NewMasses(c))
<1>1. /\ at[w] = "axle" /\ at'[w] = "config" /\ rows' = rows /\ body'[w] = body[w]
      /\ i'[w] = i[w] + 1 /\ writes'[w] = writes[w] /\ loaded'[w] = loaded[w]
      /\ unflushed[w] = {} /\ unflushed'[w] = limits \union masses
      /\ Adding(w) /\ Adding(w)' /\ ~Editing(w)'
  BY DEF AddAxles, Queue, NextConfig, Goto, Adding, Editing, WholeInv, TypeOK, Domains
<1>2. /\ \A s \in limits : s.op = "insert" /\ s.on = NewLimits(c)
      /\ DOMAIN NewLimits(c) # {} => \E s \in limits : TRUE
  BY Inserts
<1>3. /\ \A s \in masses : s.op = "insert" /\ s.on = NewMasses(c)
      /\ DOMAIN NewMasses(c) # {} => \E s \in masses : TRUE
  BY Inserts
<1> HIDE DEF limits, masses
<1>4. /\ i[w] \in DOMAIN body[w].configs /\ c = body[w].configs[i[w]]
      /\ \A d \in Done(w) : d.id # c.id
      /\ \A d \in Massed(w) : d.id # c.id
      /\ \A k \in DOMAIN writes[w] : k[1] = "mass" => k[2] # c.id
      /\ \A k \in DOMAIN loaded[w] : k[1] = "limit" => k[2] # c.id
  BY <1>1, HereIsNew
<1>5. /\ DOMAIN body[w].configs \subseteq Nat /\ i[w] \in Nat
  BY <1>1, Bodies_ DEF WholeInv
<1>6. /\ \A d : d \in Massed(w)' <=> d \in Massed(w) \/ d = c
      /\ \A d : d \in Done(w)' <=> d \in Done(w) \/ d = c
      /\ \A d : d \in Massed(w) <=> d \in Done(w)
  <2>1. \A n \in DOMAIN body[w].configs : n < i[w] + 1 <=> n < i[w] \/ n = i[w]
    BY <1>5
  <2> QED  BY <1>1, <1>4, <2>1 DEF Massed, Done, UpTo
<1>7. \A k : k \in Pending(w)' <=> k \in Pending(w) \/ \E s \in limits \union masses : k \in DOMAIN s.on
  BY <1>1 DEF Pending
<1>8. Config(c.id) \in DOMAIN writes[w] /\ Config(c.id) \notin DOMAIN rows
  <2>1. WorkerInv(w) /\ Config(c.id)[1] = "config"  BY Keys DEF WholeInv
  <2>2. Config(c.id) \in DOMAIN writes[w]
    BY <1>1, <2>1 DEF WorkerInv, InPlace, Pending, Adding, Editing
  <2> QED  BY <1>1, <2>1, <2>2 DEF WorkerInv, Drafted
<1>9. \A k \in DOMAIN Seen(w)' : k[1] = "mass" => k[2] # c.id
  <2>1. \A k \in DOMAIN rows : k[1] = "mass" => k[2] # c.id
    BY <1>8 DEF WholeInv, Stored
  <2>2. Stored(rows)'  BY DEF WholeInv
  <2> QED  BY <1>1, <1>4, <2>1, <2>2, SeenThen
<1>10. MassesPromised(w, c)'
  <2>1. \A k \in DOMAIN NewLimits(c) : k[1] = "limit"  BY NewRowsAreAxles
  <2> QED  BY <1>1, <1>2, <1>3, <1>9, <2>1, MassesQueued
<1>11. LimitsPromised(w, c)'
  <2>1. \A k \in DOMAIN NewMasses(c) : k[1] = "mass"  BY NewRowsAreAxles
  <2> SUFFICES ASSUME NEW k \in LimitsOf(c.id)
               PROVE  Becomes(w, k, [limit |-> c.limits[k[3]]])'
    BY DEF LimitsPromised, LimitsOf
  <2> DEFINE v == [limit |-> c.limits[k[3]]]
  <2>2. k \in DOMAIN NewLimits(c) /\ NewLimits(c)[k] = v /\ k[1] = "limit"
    BY NewLimitRows
  <2> HIDE DEF v
  <2>3. k \in Pending(w)'  BY <1>2, <1>7, <2>2
  <2>4. \A s \in unflushed'[w] : k \in DOMAIN s.on => s.op = "insert" /\ s.on = NewLimits(c)
    BY <1>1, <1>2, <1>3, <2>1, <2>2
  <2>5. Becomes(w, k, v)'  BY <2>2, <2>3, <2>4, BecomesInserted
  <2> QED  BY <2>5 DEF v
<1>12. \A d : d.id # c.id =>
           /\ MassesPromised(w, d) => MassesPromised(w, d)'
           /\ LimitsPromised(w, d) => LimitsPromised(w, d)'
  <2> SUFFICES ASSUME NEW d, d.id # c.id
               PROVE  /\ MassesPromised(w, d) => MassesPromised(w, d)'
                      /\ LimitsPromised(w, d) => LimitsPromised(w, d)'
    OBVIOUS
  <2>1. \A s \in unflushed'[w] : \A k \in DOMAIN s.on : k[2] = c.id
    BY <1>1, <1>2, <1>3, NewRowsAreAxles
  <2>2. \A k : k[1] \in {"mass", "limit"} /\ k[2] = d.id => Same(w, k)
    <3> SUFFICES ASSUME NEW k, k[2] = d.id PROVE Same(w, k)
      OBVIOUS
    <3> QED  BY <1>1, <2>1, SameIs
  <2> QED  BY <2>2, PromisesStay
<1>13. OwnAxles(w)'
  <2>1. \A k \in Pending(w)' : k[1] \in {"mass", "limit"} /\ k[2] = c.id
    <3>1. \A k : k \notin Pending(w)  BY <1>1 DEF Pending
    <3> QED  BY <1>2, <1>3, <1>7, <3>1, NewRowsAreAxles
  <2> QED  BY <1>1, <1>6, <2>1 DEF AxlesInv, OwnAxles
<1>14. Accepted(w)'
  <2>1. \A m, n \in DOMAIN body[w].configs :
           m < n /\ n < i[w] + 1 => body[w].configs[m].id # body[w].configs[n].id
    BY <1>1, <1>5 DEF AxlesInv, Accepted
  <2> QED  BY <1>1, <2>1 DEF Accepted
<1>15. \A d \in Massed(w)' :
          /\ Adding(w)' => Config(d.id) \in DOMAIN writes'[w]
          /\ Doomed(w, d.id)' \/ MassesPromised(w, d)'
  BY <1>1, <1>4, <1>6, <1>8, <1>10, <1>12 DEF AxlesInv, Doomed, Adding, Editing
<1>16. /\ \A d \in Done(w)' : Doomed(w, d.id)' \/ LimitsPromised(w, d)'
       /\ \A d \in Massed(w)' \ Done(w)' : FALSE
  BY <1>1, <1>4, <1>6, <1>11, <1>12 DEF AxlesInv, Doomed, Adding, Editing
<1> QED  BY <1>1, <1>13, <1>14, <1>15, <1>16 DEF AxlesInv

LEMMA NotEmpty ==
    ASSUME NEW s, IsSequence(s), s # <<>>
    PROVE  1 \in DOMAIN s
<1> DEFINE S == {s[n] : n \in DOMAIN s}
<1>1. s \in Seq(S)  BY DEF IsSequence
<1> HIDE DEF S
<1>2. Len(s) # 0  BY <1>1
<1> QED  BY <1>1, <1>2

LEMMA MassesDeletedAxles ==
    ASSUME WholeInv, WholeInv', NEW w \in Workers, AxlesInv(w), MassesDeleted(w)
    PROVE  AxlesInv(w)'
<1> SUFFICES ASSUME NEW c, c = Here(w) PROVE AxlesInv(w)'
  OBVIOUS
<1> DEFINE gone == [k \in targets[w] |-> Deleted]
           new == Insert("mass", NewMasses(c))
<1>1. /\ at[w] = "deleting" /\ at'[w] = "limits" /\ rows' = rows /\ body'[w] = body[w]
      /\ i'[w] = i[w] /\ loaded'[w] = loaded[w] /\ writes'[w] = Over(gone, writes[w])
      /\ unflushed'[w] = unflushed[w] \union new
  BY DEF MassesDeleted, FinishDelete, Write, Queue, Goto, WholeInv, TypeOK, Domains
<1>2. WorkerInv(w)  BY DEF WholeInv
<1>3. /\ unflushed[w] = {} /\ Editing(w) /\ Editing(w)' /\ ~Adding(w)'
      /\ Config(c.id) \in DOMAIN rows
      /\ \A k \in targets[w] : k[1] = "mass" /\ k[2] = c.id
  BY <1>1, <1>2 DEF WorkerInv, InPlace, Editing, Adding
<1>4. /\ DOMAIN writes'[w] = targets[w] \union DOMAIN writes[w]
      /\ \A k \in targets[w] : writes'[w][k] = Deleted
      /\ \A k \in DOMAIN writes[w] \ targets[w] : writes'[w][k] = writes[w][k]
  <2>1. DOMAIN gone = targets[w] /\ \A k \in targets[w] : gone[k] = Deleted
    OBVIOUS
  <2> HIDE DEF gone
  <2>2. /\ DOMAIN Over(gone, writes[w]) = DOMAIN gone \union DOMAIN writes[w]
        /\ \A x \in DOMAIN gone : Over(gone, writes[w])[x] = gone[x]
        /\ \A x \in DOMAIN writes[w] \ DOMAIN gone : Over(gone, writes[w])[x] = writes[w][x]
    BY Merged
  <2> QED  BY <1>1, <2>1, <2>2
<1>5. /\ \A s \in new : s.op = "insert" /\ s.on = NewMasses(c)
      /\ DOMAIN NewMasses(c) # {} => \E s \in new : TRUE
  BY Inserts
<1> HIDE DEF gone, new
<1>6. /\ i[w] \in DOMAIN body[w].configs /\ c = body[w].configs[i[w]]
      /\ \A d \in Massed(w) : d.id # c.id
      /\ \A k \in DOMAIN writes[w] : k[1] = "mass" => k[2] # c.id
      /\ \A k \in DOMAIN loaded[w] : k[1] = "limit" => k[2] # c.id
  BY <1>1, HereIsNew
<1>7. /\ \A d : d \in Massed(w)' <=> d \in Massed(w) \/ d = c
      /\ \A d : d \in Done(w)' <=> d \in Done(w)
      /\ \A d : d \in Massed(w) <=> d \in Done(w)
      /\ \A d : d \in Reached(w)' <=> d \in Reached(w)
      /\ c \in Reached(w)
  BY <1>1, <1>6 DEF Massed, Done, Reached, UpTo
<1>8. /\ \A k : k \notin Pending(w)
      /\ \A k : k \in Pending(w)' <=> \E s \in new : k \in DOMAIN s.on
  BY <1>1, <1>3 DEF Pending
<1>9. OwnAxles(w)'
  <2>1. \A k \in Pending(w)' : k[1] = "mass" /\ k[2] = c.id
    BY <1>5, <1>8, NewRowsAreAxles
  <2> QED  BY <1>1, <1>3, <1>4, <1>7, <2>1 DEF AxlesInv, OwnAxles
<1>10. Accepted(w)'
  BY <1>1, <1>3, <1>7 DEF AxlesInv, Accepted
<1>11. \A d : d.id # c.id =>
           /\ MassesPromised(w, d) => MassesPromised(w, d)'
           /\ LimitsPromised(w, d) => LimitsPromised(w, d)'
           /\ Insists(w, d.id) => Insists(w, d.id)'
           /\ Doomed(w, d.id) => Doomed(w, d.id)'
  <2> SUFFICES ASSUME NEW d, d.id # c.id
               PROVE  /\ MassesPromised(w, d) => MassesPromised(w, d)'
                      /\ LimitsPromised(w, d) => LimitsPromised(w, d)'
                      /\ Insists(w, d.id) => Insists(w, d.id)'
                      /\ Doomed(w, d.id) => Doomed(w, d.id)'
    OBVIOUS
  <2>1. \A s \in unflushed'[w] : \A k \in DOMAIN s.on : k[2] = c.id
    BY <1>1, <1>3, <1>5, NewRowsAreAxles
  <2>2. \A k : k[2] = d.id => Same(w, k)
    <3> SUFFICES ASSUME NEW k, k[2] = d.id PROVE Same(w, k)
      OBVIOUS
    <3> QED  BY <1>1, <1>3, <1>4, <2>1, SameIs
  <2>3. Mass(d.id, 1)[2] = d.id  BY Keys
  <2>4. Mass(d.id, 1) \notin targets[w]  BY <1>3, <2>3
  <2>5. Insists(w, d.id) => Insists(w, d.id)'
    BY <1>3, <1>4, <2>4 DEF Insists
  <2>6. Doomed(w, d.id) => Doomed(w, d.id)'
    BY <1>1, <1>3, <1>4, <2>4 DEF Doomed
  <2> QED  BY <2>2, <2>5, <2>6, PromisesStay
<1>12. Insists(w, c.id)'
  <2>1. IsSequence(c.masses)
    BY <1>1, <1>6, Bodies_, VehiclesAssumption DEF WholeInv
  <2>2. c.masses # <<>>  BY <1>3, <1>7 DEF AxlesInv, Accepted
  <2>3. Mass(c.id, 1) \in DOMAIN NewMasses(c)
    BY <2>1, <2>2, NotEmpty, NewMassRows
  <2> QED  BY <1>1, <1>5, <2>3 DEF Insists
<1>13. Doomed(w, c.id)' \/ MassesPromised(w, c)'
  <2>1. Mass(c.id, 1)[1] = "mass" /\ Mass(c.id, 1)[2] = c.id  BY Keys
  <2>2. CASE Mass(c.id, 1) \in DOMAIN rows \ targets[w]
    BY <1>1, <1>3, <1>4, <1>6, <2>1, <2>2 DEF Doomed
  <2>3. CASE MassesOf(c.id, rows) \subseteq targets[w]
    <3>1. Stored(rows)'  BY DEF WholeInv
    <3>2. \A k \in DOMAIN rows : k[1] = "mass" /\ k[2] = c.id => k \in targets[w]
      BY <2>3 DEF MassesOf
    <3>3. \A k \in DOMAIN Seen(w)' : k[1] = "mass" => k[2] # c.id
      BY <1>1, <1>4, <1>6, <3>1, <3>2, SeenThen
    <3> QED  BY <1>1, <1>3, <1>5, <3>3, MassesQueued
  <2>4. MassesFound(w)  BY <1>1 DEF AxlesInv
  <2> QED  BY <2>2, <2>3, <2>4 DEF MassesFound
<1>14. LimitsRead(w, c)'
  <2>1. \A k \in LimitsOf(c.id) : k[1] = "limit" /\ k[2] = c.id  BY Keys DEF LimitsOf
  <2> QED  BY <1>1, <1>6, <2>1 DEF LimitsRead, LimitsOf
<1>15. \A d \in Massed(w)' :
          /\ Config(d.id) \in DOMAIN rows' /\ Insists(w, d.id)'
          /\ Doomed(w, d.id)' \/ MassesPromised(w, d)'
  BY <1>1, <1>3, <1>6, <1>7, <1>11, <1>12, <1>13 DEF AxlesInv
<1>16. \A d \in Done(w)' : Doomed(w, d.id)' \/ LimitsPromised(w, d)'
  BY <1>6, <1>7, <1>11 DEF AxlesInv
<1>17. \A d \in Massed(w)' \ Done(w)' : LimitsRead(w, d)'
  BY <1>7, <1>14
<1> QED  BY <1>1, <1>3, <1>9, <1>10, <1>15, <1>16, <1>17 DEF AxlesInv

(* The limits of a configuration that an edit has come to are stored, and not  *)
(* yet touched by it.                                                          *)
LEMMA LimitsAreStored ==
    ASSUME WholeInv, NEW w \in Workers, AxlesInv(w), at[w] = "limits",
           NEW k \in LimitsOf(Here(w).id)
    PROVE  /\ k \in DOMAIN rows /\ k[1] = "limit" /\ k[2] = Here(w).id
           /\ k \notin DOMAIN writes[w] \union Pending(w)
           /\ k \in DOMAIN Seen(w) /\ Seen(w)[k] = rows[k]
<1> DEFINE c == Here(w)
<1>1. Config(c.id) \in DOMAIN rows
  BY DEF WholeInv, WorkerInv, InPlace
<1>2. Config(c.id)[1] = "config" /\ Config(c.id)[2] = c.id  BY Keys
<1>3. k \in DOMAIN rows
  BY <1>1, <1>2 DEF WholeInv, Whole, AllWhole
<1>4. k[1] = "limit" /\ k[2] = c.id
  BY Keys DEF LimitsOf
<1>5. k \notin DOMAIN writes[w] \union Pending(w)
  BY <1>4, HereIsNew
<1> QED  BY <1>3, <1>4, <1>5, SeenNow

LEMMA ReadLimitAxles ==
    ASSUME WholeInv, WholeInv', NEW w \in Workers, AxlesInv(w), ReadLimit(w)
    PROVE  AxlesInv(w)'
<1> SUFFICES ASSUME NEW c, c = Here(w) PROVE AxlesInv(w)'
  OBVIOUS
<1>1. PICK k : /\ k[1] = "limit" /\ k[2] = c.id
               /\ loaded'[w] = Over(Row(k, Seen(w)[k]), loaded[w])
  <2> DEFINE n == CHOOSE n \in Unread(w) : \A m \in Unread(w) : n <= m
             k == Limit(Here(w).id, Schemes[n])
  <2>1. loaded'[w] = Over(Row(k, Seen(w)[k]), loaded[w])
    BY DEF ReadLimit, WholeInv, Domains
  <2>2. k[1] = "limit" /\ k[2] = c.id  BY Keys
  <2> HIDE DEF k
  <2> QED  BY <2>1, <2>2
<1> DEFINE row == Row(k, Seen(w)[k])
<1>2. DOMAIN row = {k} /\ row[k] = Seen(w)[k]  BY Single
<1> HIDE DEF row
<1>3. /\ DOMAIN Over(row, loaded[w]) = DOMAIN row \union DOMAIN loaded[w]
      /\ \A x \in DOMAIN row : Over(row, loaded[w])[x] = row[x]
      /\ \A x \in DOMAIN loaded[w] \ DOMAIN row : Over(row, loaded[w])[x] = loaded[w][x]
  BY Merged
<1>4. /\ DOMAIN loaded'[w] = {k} \union DOMAIN loaded[w]
      /\ loaded'[w][k] = Seen(w)[k]
      /\ \A x \in DOMAIN loaded[w] \ {k} : loaded'[w][x] = loaded[w][x]
  BY <1>1, <1>2, <1>3 DEF row
<1>5. /\ at[w] = "limits" /\ at' = at /\ writes' = writes /\ body' = body /\ i' = i
      /\ rows' = rows /\ unflushed' = unflushed
  BY DEF ReadLimit, dbvars
<1>6. /\ i[w] \in DOMAIN body[w].configs /\ c = body[w].configs[i[w]]
      /\ \A d \in Done(w) : d.id # c.id
  BY <1>5, HereIsNew
<1>7. /\ \A d : d \in Massed(w)' <=> d \in Massed(w)
      /\ \A d : d \in Done(w)' <=> d \in Done(w)
      /\ Accepted(w)'
  BY <1>5, PlaceStays DEF AxlesInv
<1>8. c \in Massed(w) /\ \A d \in Massed(w) \ Done(w) : d = c
  BY <1>5, <1>6 DEF Massed, Done, UpTo
<1>9. \A x : Same(w, x)  BY <1>5, SameIs
<1>10. \A x : x \in Pending(w)' <=> x \in Pending(w)  BY <1>9, SamePending
<1>11. OwnAxles(w)'
  BY <1>1, <1>4, <1>5, <1>7, <1>8, <1>10 DEF AxlesInv, OwnAxles
<1>12. Adding(w)' = Adding(w) /\ Editing(w)' = Editing(w)  BY <1>5 DEF Adding, Editing
<1>13. \A d : /\ Insists(w, d) => Insists(w, d)'
              /\ Doomed(w, d) => Doomed(w, d)'
  BY <1>5, <1>12 DEF Insists, Doomed
<1>14. \A d : /\ MassesPromised(w, d) => MassesPromised(w, d)'
              /\ LimitsPromised(w, d) => LimitsPromised(w, d)'
  BY <1>9, PromisesStay
<1>15. LimitsRead(w, c) => LimitsRead(w, c)'
  <2> SUFFICES ASSUME LimitsRead(w, c), NEW x \in LimitsOf(c.id), x \in DOMAIN loaded'[w]
               PROVE  x \in DOMAIN rows' /\ loaded'[w][x] = rows'[x]
    BY DEF LimitsRead, LimitsOf
  <2>1. x \in DOMAIN rows /\ Seen(w)[x] = rows[x]
    BY <1>5, LimitsAreStored
  <2> QED  BY <1>4, <1>5, <2>1 DEF LimitsRead
<1>16. /\ \A d \in Massed(w)' :
             /\ Editing(w)' => Config(d.id) \in DOMAIN rows' /\ Insists(w, d.id)'
             /\ Adding(w)' => Config(d.id) \in DOMAIN writes'[w]
             /\ Doomed(w, d.id)' \/ MassesPromised(w, d)'
       /\ \A d \in Done(w)' : Doomed(w, d.id)' \/ LimitsPromised(w, d)'
  BY <1>5, <1>7, <1>12, <1>13, <1>14 DEF AxlesInv
<1>17. \A d \in Massed(w)' \ Done(w)' : Doomed(w, d.id)' \/ LimitsRead(w, d)'
  BY <1>7, <1>8, <1>13, <1>15 DEF AxlesInv
<1> QED  BY <1>5, <1>7, <1>11, <1>16, <1>17 DEF AxlesInv

(* A row that an UPDATE leaves as asked                                        *)
LEMMA LimitUpdated ==
    ASSUME NEW old, NEW v, NEW u, old = [limit |-> old.limit],
           DOMAIN u \subseteq {"limit"}, \A x \in DOMAIN u : u[x] = v,
           DOMAIN u # {} \/ old.limit = v
    PROVE  Over(u, old) = [limit |-> v] /\ (DOMAIN u = {} => old = [limit |-> v])
<1> DEFINE x == Over(u, old)
<1>1. DOMAIN old = {"limit"}  OBVIOUS
<1>2. x = [c \in DOMAIN u \union DOMAIN old |-> x[c]]
  BY DEF Over
<1>3. DOMAIN u \union DOMAIN old = {"limit"}  BY <1>1
<1>4. x["limit"] = v
  BY <1>1 DEF Over
<1> HIDE DEF x
<1>5. x = [limit |-> v]  BY <1>2, <1>3, <1>4
<1> QED  BY <1>5 DEF x

LEMMA UpdateLimitsAxles ==
    ASSUME WholeInv, WholeInv', NEW w \in Workers, AxlesInv(w), UpdateLimits(w)
    PROVE  AxlesInv(w)'
<1> SUFFICES ASSUME NEW c, c = Here(w) PROVE AxlesInv(w)'
  OBVIOUS
<1> DEFINE new == Update("limit", NewLimits(c), loaded[w])
<1>1. /\ at[w] = "limits" /\ at'[w] = "config" /\ rows' = rows /\ body'[w] = body[w]
      /\ i'[w] = i[w] + 1 /\ writes'[w] = writes[w] /\ loaded'[w] = loaded[w]
      /\ unflushed'[w] = unflushed[w] \union new /\ Unread(w) = {}
  BY DEF UpdateLimits, Queue, NextConfig, Goto, WholeInv, TypeOK, Domains
<1>2. Editing(w) /\ Editing(w)' /\ ~Adding(w)'
  BY <1>1 DEF WholeInv, WorkerInv, InPlace, Editing, Adding
<1>3. /\ \A s \in new : s.op = "update" /\ DOMAIN s.on \subseteq DOMAIN NewLimits(c)
      /\ \A s \in new : \A k \in DOMAIN s.on :
             /\ \A x \in DOMAIN s.on[k] : s.on[k][x] = NewLimits(c)[k][x]
             /\ DOMAIN s.on[k] \subseteq DOMAIN NewLimits(c)[k] /\ DOMAIN s.on[k] # {}
      /\ \A k \in DOMAIN NewLimits(c) :
             (\A s \in new : k \notin DOMAIN s.on) =>
                 \A x \in DOMAIN NewLimits(c)[k] : NewLimits(c)[k][x] = loaded[w][k][x]
  BY Updates
<1> HIDE DEF new
<1>4. /\ i[w] \in DOMAIN body[w].configs /\ c = body[w].configs[i[w]]
      /\ \A d \in Done(w) : d.id # c.id
  BY <1>1, HereIsNew
<1>5. DOMAIN body[w].configs \subseteq Nat /\ i[w] \in Nat
  BY <1>1, Bodies_ DEF WholeInv
<1>6. \A n \in DOMAIN body[w].configs : n < i[w] + 1 <=> n < i[w] \/ n = i[w]
  BY <1>5
<1>7. /\ \A d : d \in Massed(w)' <=> d \in Massed(w)
      /\ \A d : d \in Done(w)' <=> d \in Done(w) \/ d = c
      /\ \A d : d \in Massed(w) <=> d \in Done(w) \/ d = c
      /\ \A d : d \in Reached(w)' <=> d \in Reached(w)
  BY <1>1, <1>4, <1>6 DEF Massed, Done, Reached, UpTo
<1>8. \A k : k \in Pending(w)' <=> k \in Pending(w) \/ \E s \in new : k \in DOMAIN s.on
  BY <1>1 DEF Pending
<1>9. \A s \in new : \A k \in DOMAIN s.on : k[1] = "limit" /\ k[2] = c.id
  BY <1>3, NewRowsAreAxles
<1>10. OwnAxles(w)'
  BY <1>1, <1>7, <1>8, <1>9 DEF AxlesInv, OwnAxles
<1>11. Accepted(w)'
  <2>1. \A m, n \in DOMAIN body[w].configs :
           m < n /\ n < i[w] + 1 => body[w].configs[m].id # body[w].configs[n].id
    BY <1>1, <1>6 DEF AxlesInv, Accepted
  <2> QED  BY <1>1, <1>2, <1>7, <2>1 DEF AxlesInv, Accepted
<1>12. \A k : ~(k[1] = "limit" /\ k[2] = c.id) => Same(w, k)
  <2> SUFFICES ASSUME NEW k, ~(k[1] = "limit" /\ k[2] = c.id) PROVE Same(w, k)
    OBVIOUS
  <2> QED  BY <1>1, <1>9, SameIs
<1>13. \A d : d.id # c.id => (LimitsPromised(w, d) => LimitsPromised(w, d)')
  BY <1>12, PromisesStay
<1>14. \A d : /\ Insists(w, d) => Insists(w, d)'
              /\ Doomed(w, d) => Doomed(w, d)'
  BY <1>1, <1>2 DEF Insists, Doomed
<1>15. \A d : MassesPromised(w, d) => MassesPromised(w, d)'
  <2> SUFFICES ASSUME NEW d, MassesPromised(w, d) PROVE MassesPromised(w, d)'
    OBVIOUS
  <2>1. \A n : Mass(d.id, n)[1] = "mass"  BY Keys
  <2>2. \A n \in DOMAIN d.masses : Becomes(w, Mass(d.id, n), [mass |-> d.masses[n]])'
    <3> SUFFICES ASSUME NEW n \in DOMAIN d.masses
                 PROVE  Becomes(w, Mass(d.id, n), [mass |-> d.masses[n]])'
      OBVIOUS
    <3> DEFINE v == [mass |-> d.masses[n]]
               k == Mass(d.id, n)
    <3>1. Becomes(w, k, v) /\ Same(w, k)  BY <1>12, <2>1 DEF MassesPromised
    <3> HIDE DEF v, k
    <3>2. Becomes(w, k, v)'  BY <3>1, BecomesStays
    <3> QED  BY <3>2 DEF v, k
  <2>3. \A k \in DOMAIN Seen(w)' \union Pending(w)' :
           k[1] = "mass" => k \in DOMAIN Seen(w) \union Pending(w)
    BY <1>12, SamePending DEF Same
  <2> QED  BY <2>2, <2>3 DEF MassesPromised
<1>16. LimitsRead(w, c) => LimitsPromised(w, c)'
  <2> SUFFICES ASSUME LimitsRead(w, c), NEW k \in LimitsOf(c.id)
               PROVE  Becomes(w, k, [limit |-> c.limits[k[3]]])'
    BY DEF LimitsPromised, LimitsOf
  <2> DEFINE v == c.limits[k[3]]
             old == rows[k]
  <2>1. /\ k \in DOMAIN rows /\ k[1] = "limit" /\ k[2] = c.id
        /\ k \notin DOMAIN writes[w] \union Pending(w)
    BY <1>1, LimitsAreStored
  <2>2. old = [limit |-> old.limit]
    BY <2>1 DEF WholeInv, Stored, Shaped
  <2>3. k \in DOMAIN loaded[w]
    <3>1. PICK n \in DOMAIN Schemes : k = Limit(c.id, Schemes[n])  BY DEF LimitsOf
    <3> QED  BY <1>1, <3>1 DEF Unread
  <2>4. loaded[w][k] = old
    BY <2>3 DEF LimitsRead
  <2>5. NewLimits(c)[k] = [limit |-> v] /\ k \in DOMAIN NewLimits(c)
    BY NewLimitRows
  <2>6. DOMAIN NewLimits(c)[k] = {"limit"} /\ NewLimits(c)[k]["limit"] = v
    BY <2>5
  <2>7. k \in DOMAIN Seen(w)' /\ Seen(w)'[k] = old
    <3>1. Stored(rows)'  BY DEF WholeInv
    <3> QED  BY <1>1, <2>1, <3>1, SeenThen
  <2>8. \A s \in unflushed'[w] : k \in DOMAIN s.on => s \in new
    BY <1>1, <2>1, PendingIs
  <2>9. \A s \in new : k \in DOMAIN s.on => Over(s.on[k], old) = [limit |-> v]
    <3> SUFFICES ASSUME NEW s \in new, k \in DOMAIN s.on
                 PROVE  Over(s.on[k], old) = [limit |-> v]
      OBVIOUS
    <3>1. /\ DOMAIN s.on[k] \subseteq {"limit"} /\ DOMAIN s.on[k] # {}
          /\ \A x \in DOMAIN s.on[k] : s.on[k][x] = v
      BY <1>3, <2>6
    <3> HIDE DEF old, v
    <3> QED  BY <2>2, <3>1, LimitUpdated
  <2>10. (\A s \in new : k \notin DOMAIN s.on) => old = [limit |-> v]
    <3>1. (\A s \in new : k \notin DOMAIN s.on) => v = old["limit"]
      BY <1>3, <2>4, <2>5, <2>6
    <3> QED  BY <2>2, <3>1
  <2> HIDE DEF old, v
  <2> DEFINE x == [limit |-> v]
  <2>11. \A s \in unflushed'[w] : k \in DOMAIN s.on => s.op # "insert"
    BY <1>3, <2>8
  <2> HIDE DEF x
  <2>12. Becomes(w, k, x)'
    BY <1>8, <2>7, <2>8, <2>9, <2>10, <2>11 DEF Becomes, x
  <2> QED  BY <2>12 DEF x, v
<1>17. \A d \in Massed(w)' :
          /\ Editing(w)' => Config(d.id) \in DOMAIN rows' /\ Insists(w, d.id)'
          /\ Doomed(w, d.id)' \/ MassesPromised(w, d)'
  BY <1>1, <1>2, <1>7, <1>14, <1>15 DEF AxlesInv
<1>18. \A d \in Done(w)' : Doomed(w, d.id)' \/ LimitsPromised(w, d)'
  BY <1>4, <1>7, <1>13, <1>14, <1>16 DEF AxlesInv
<1>19. \A d \in Massed(w)' \ Done(w)' : FALSE
  BY <1>7
<1> QED  BY <1>1, <1>2, <1>10, <1>11, <1>17, <1>18, <1>19 DEF AxlesInv

-----------------------------------------------------------------------------
(* A flush makes of a row what it was to become.                               *)
LEMMA OverTwice ==
    ASSUME NEW u, NEW v
    PROVE  Over(u, Over(u, v)) = Over(u, v)
<1> DEFINE x == Over(u, v)
<1>1. /\ DOMAIN x = DOMAIN u \union DOMAIN v
      /\ \A c \in DOMAIN u : x[c] = u[c]
      /\ x = [c \in DOMAIN x |-> x[c]]
  BY DEF Over
<1> HIDE DEF x
<1>2. Over(u, x) = [c \in DOMAIN x |-> IF c \in DOMAIN u THEN u[c] ELSE x[c]]
  BY <1>1 DEF Over
<1>3. \A c \in DOMAIN x : (IF c \in DOMAIN u THEN u[c] ELSE x[c]) = x[c]
  BY <1>1
<1>4. Over(u, x) = [c \in DOMAIN x |-> x[c]]  BY <1>2, <1>3
<1> QED  BY <1>1, <1>4 DEF x

LEMMA BecomesSent ==
    ASSUME WholeInv, WholeInv', NEW w \in Workers, rows' = rows,
           NEW s \in unflushed[w],
           unflushed'[w] = unflushed[w] \ {s},
           DOMAIN writes'[w] = DOMAIN s.on \union DOMAIN writes[w],
           \A x \in DOMAIN writes[w] \ DOMAIN s.on : writes'[w][x] = writes[w][x],
           \A x \in DOMAIN s.on :
              IF s.op = "insert" THEN writes'[w][x] = s.on[x] /\ x \notin DOMAIN Seen(w)
              ELSE writes'[w][x] = Over(s.on[x], Seen(w)[x]),
           NEW k, NEW v, v # Deleted, Becomes(w, k, v)
    PROVE  Becomes(w, k, v)'
<1>1. Stored(rows)'  BY DEF WholeInv
<1>2. k \in Pending(w) <=> \E t \in unflushed[w] : k \in DOMAIN t.on
  BY PendingIs
<1>3. k \in Pending(w)' <=> \E t \in unflushed'[w] : k \in DOMAIN t.on
  BY DEF Pending
<1>4. CASE k \in DOMAIN s.on
  <2>1. writes'[w][k] = v
    BY <1>4 DEF Becomes
  <2>2. k \in DOMAIN Seen(w)' /\ Seen(w)'[k] = v
    BY <1>1, <1>4, <2>1, SeenThen
  <2>3. \A t \in unflushed'[w] : k \in DOMAIN t.on =>
            IF t.op = "insert" THEN t.on[k] = v ELSE Over(t.on[k], v) = v
    <3> SUFFICES ASSUME NEW t \in unflushed'[w], k \in DOMAIN t.on
                 PROVE  IF t.op = "insert" THEN t.on[k] = v ELSE Over(t.on[k], v) = v
      OBVIOUS
    <3>1. t.op = "insert" => t.on[k] = v  BY DEF Becomes
    <3>2. t.op # "insert" => Over(t.on[k], Seen(w)[k]) = v  BY DEF Becomes
    <3> QED  BY <3>1, <3>2, OverTwice
  <2> QED  BY <2>2, <2>3 DEF Becomes
<1>5. CASE k \notin DOMAIN s.on
  <2>1. /\ k \in DOMAIN Seen(w)' <=> k \in DOMAIN Seen(w)
        /\ k \in DOMAIN Seen(w) => Seen(w)'[k] = Seen(w)[k]
    BY <1>1, <1>5, SeenThen, SeenNow
  <2> QED  BY <1>2, <1>3, <1>5, <2>1 DEF Becomes
<1> QED  BY <1>4, <1>5

LEMMA AxleRowsAreNotDeleted ==
    ASSUME NEW x
    PROVE  [mass |-> x] # Deleted /\ [limit |-> x] # Deleted
<1>1. "deleted" \in DOMAIN Deleted  BY DEF Deleted
<1>2. "deleted" \notin DOMAIN [mass |-> x] /\ "deleted" \notin DOMAIN [limit |-> x]
  OBVIOUS
<1> QED  BY <1>1, <1>2

LEMMA FlushAxles ==
    ASSUME WholeInv, WholeInv', NEW w \in Workers, AxlesInv(w), Flush(w), at[w] # "newConfig"
    PROVE  AxlesInv(w)'
<1>1. /\ at' = at /\ body' = body /\ i' = i /\ rows' = rows /\ loaded' = loaded /\ Send(w)
  BY DEF Flush, Send, hvars
<1>2. at[w] \notin {"idle", "newConfig", "deleting", "limits"}
  BY DEF Flush, Flushing, AtEnd, AtLoop
<1>3. PICK s \in unflushed[w] :
         /\ unflushed'[w] = unflushed[w] \ {s}
         /\ DOMAIN writes'[w] = DOMAIN s.on \union DOMAIN writes[w]
         /\ \A x \in DOMAIN writes[w] \ DOMAIN s.on : writes'[w][x] = writes[w][x]
         /\ \A x \in DOMAIN s.on :
               IF s.op = "insert" THEN writes'[w][x] = s.on[x] /\ x \notin DOMAIN Seen(w)
               ELSE writes'[w][x] = Over(s.on[x], Seen(w)[x])
  BY <1>1, SendFacts
<1>4. /\ \A c : c \in Massed(w)' <=> c \in Massed(w)
      /\ \A c : c \in Done(w)' <=> c \in Done(w)
      /\ Accepted(w)'
  BY <1>1, <1>2, PlaceStays DEF AxlesInv
<1>5. \A c \in Massed(w) : c \in Done(w)
  BY <1>2 DEF Massed, Done, UpTo
<1>6. Adding(w)' = Adding(w) /\ Editing(w)' = Editing(w)  BY <1>1 DEF Adding, Editing
<1>7. \A k : k \in DOMAIN writes'[w] \union Pending(w)' <=> k \in DOMAIN writes[w] \union Pending(w)
  <2>1. \A k : k \in Pending(w)' <=> \E t \in unflushed[w] \ {s} : k \in DOMAIN t.on
    BY <1>3 DEF Pending
  <2>2. \A k : k \in Pending(w) <=> \E t \in unflushed[w] : k \in DOMAIN t.on
    BY PendingIs
  <2> QED  BY <1>3, <2>1, <2>2
<1>8. OwnAxles(w)'
  BY <1>1, <1>4, <1>7 DEF AxlesInv, OwnAxles
<1>9. Planned(w, s)  BY DEF WholeInv, WorkerInv
<1>10. \A x \in DOMAIN s.on : x[1] = "mass" =>
           /\ s.op = "insert" /\ writes'[w][x] # Deleted /\ x \notin DOMAIN Seen(w)
  <2> SUFFICES ASSUME NEW x \in DOMAIN s.on, x[1] = "mass"
               PROVE  s.op = "insert" /\ writes'[w][x] # Deleted /\ x \notin DOMAIN Seen(w)
    OBVIOUS
  <2>1. s.op = "insert" /\ Shaped(x, s.on[x])
    BY <1>9 DEF Planned, Columns
  <2>2. s.on[x] # Deleted  BY <2>1, RowsAreNotDeleted
  <2> QED  BY <1>3, <2>1, <2>2
<1>11. \A c : Mass(c, 1)[1] = "mass"  BY Keys
<1>12. \A c : Insists(w, c) => Insists(w, c)'
  BY <1>3, <1>10, <1>11 DEF Insists
<1>13. \A c : Doomed(w, c) => Doomed(w, c)'
  <2> SUFFICES ASSUME NEW c, Doomed(w, c) PROVE Doomed(w, c)'
    OBVIOUS
  <2>1. Mass(c, 1) \in DOMAIN Seen(w)  BY SeenNow DEF Doomed
  <2>2. Mass(c, 1) \notin DOMAIN s.on  BY <1>10, <1>11, <2>1
  <2> QED  BY <1>1, <1>3, <1>6, <2>2 DEF Doomed
<1>14. ASSUME NEW c, MassesPromised(w, c) PROVE MassesPromised(w, c)'
  <2>1. \A n \in DOMAIN c.masses : Becomes(w, Mass(c.id, n), [mass |-> c.masses[n]])'
    <3> SUFFICES ASSUME NEW n \in DOMAIN c.masses
                 PROVE  Becomes(w, Mass(c.id, n), [mass |-> c.masses[n]])'
      OBVIOUS
    <3> DEFINE v == [mass |-> c.masses[n]]
               k == Mass(c.id, n)
    <3>1. v # Deleted  BY AxleRowsAreNotDeleted
    <3>2. Becomes(w, k, v)  BY <1>14 DEF MassesPromised
    <3> HIDE DEF v, k
    <3>3. Becomes(w, k, v)'  BY <1>1, <1>3, <3>1, <3>2, BecomesSent
    <3> QED  BY <3>3 DEF v, k
  <2>2. \A k \in DOMAIN Seen(w)' \union Pending(w)' : k \in DOMAIN Seen(w) \union Pending(w)
    <3>1. Stored(rows)'  BY DEF WholeInv
    <3>2. \A k \in DOMAIN s.on : k \in Pending(w)  BY PendingIs
    <3>3. \A k \in Pending(w)' : k \in Pending(w)
      BY <1>3, PendingIs DEF Pending
    <3>4. \A k \in DOMAIN Seen(w)' : k \in DOMAIN s.on \/ k \in DOMAIN Seen(w)
      BY <1>1, <1>3, <3>1, SeenThen, SeenNow
    <3> QED  BY <3>2, <3>3, <3>4
  <2> QED  BY <1>14, <2>1, <2>2 DEF MassesPromised
<1>15. ASSUME NEW c, LimitsPromised(w, c) PROVE LimitsPromised(w, c)'
  <2> SUFFICES ASSUME NEW k \in LimitsOf(c.id)
               PROVE  Becomes(w, k, [limit |-> c.limits[k[3]]])'
    BY DEF LimitsPromised, LimitsOf
  <2> DEFINE v == [limit |-> c.limits[k[3]]]
  <2>1. v # Deleted  BY AxleRowsAreNotDeleted
  <2>2. Becomes(w, k, v)  BY <1>15 DEF LimitsPromised
  <2> HIDE DEF v
  <2>3. Becomes(w, k, v)'  BY <1>1, <1>3, <2>1, <2>2, BecomesSent
  <2> QED  BY <2>3 DEF v
<1>16. \A c \in Massed(w)' :
          /\ Editing(w)' => Config(c.id) \in DOMAIN rows' /\ Insists(w, c.id)'
          /\ Adding(w)' => Config(c.id) \in DOMAIN writes'[w]
          /\ Doomed(w, c.id)' \/ MassesPromised(w, c)'
  BY <1>1, <1>3, <1>4, <1>6, <1>12, <1>13, <1>14 DEF AxlesInv
<1>17. \A c \in Done(w)' : Doomed(w, c.id)' \/ LimitsPromised(w, c)'
  BY <1>4, <1>13, <1>15 DEF AxlesInv
<1>18. \A c \in Massed(w)' \ Done(w)' : FALSE
  BY <1>4, <1>5
<1> QED  BY <1>1, <1>2, <1>4, <1>8, <1>16, <1>17, <1>18 DEF AxlesInv

-----------------------------------------------------------------------------
(* Another request that commits axles of a configuration w knows of has        *)
(* inserted its first mass.                                                    *)
LEMMA CommitInsists ==
    ASSUME WholeInv, AxlesAreKept, NEW w \in Workers, NEW o \in Workers, o # w, Accept(o),
           NEW id, NEW k \in DOMAIN writes[o], k[1] \in {"mass", "limit"}, k[2] = id,
           Config(id) \in DOMAIN rows \union DOMAIN writes[w]
    PROVE  /\ Config(id) \in DOMAIN rows
           /\ Mass(id, 1) \in DOMAIN writes[o] /\ Mass(id, 1) \in DOMAIN rows'
           /\ Mass(id, 1) \notin DOMAIN writes[w]
<1>1. /\ at[o] \in {"header", "config"} /\ unflushed[o] = {} /\ Pending(o) = {}
      /\ \A x \in DOMAIN writes[o] : Drafted(o, x)
      /\ \A x : x \in DOMAIN rows' <=>
            /\ x \in DOMAIN rows \union DOMAIN writes[o]
            /\ x \in DOMAIN writes[o] => writes[o][x] # Deleted
  BY CommitFacts
<1>2. AxlesInv(o)  BY <1>1 DEF AxlesAreKept
<1>3. PICK c \in Massed(o) : c.id = id
  <2>1. \A c \in Done(o) : c \in Massed(o)  BY DEF Done, Massed, UpTo
  <2> QED  BY <1>2, <2>1 DEF AxlesInv, OwnAxles
<1>4. Config(id)[1] = "config"  BY Keys
<1>5. DOMAIN writes[o] \cap DOMAIN writes[w] = {}
  BY DEF WholeInv, LocksAreExclusive
<1>6. Adding(o) \/ Editing(o)
  BY <1>1, Bodies_ DEF WholeInv, Adding, Editing
<1>7. Editing(o)
  <2>1. Adding(o) => Config(id) \in DOMAIN writes[o] /\ Config(id) \notin DOMAIN rows
    BY <1>1, <1>2, <1>3, <1>4 DEF AxlesInv, Drafted
  <2> QED  BY <1>5, <1>6, <2>1
<1>8. Config(id) \in DOMAIN rows /\ Insists(o, id)
  BY <1>2, <1>3, <1>7 DEF AxlesInv
<1>9. Mass(id, 1) \in DOMAIN writes[o] /\ writes[o][Mass(id, 1)] # Deleted
  BY <1>1, <1>8 DEF Insists
<1> QED  BY <1>1, <1>5, <1>8, <1>9

LEMMA OthersCommitAxles ==
    ASSUME WholeInv, WholeInv', AxlesAreKept,
           NEW w \in Workers, NEW o \in Workers, o # w, Accept(o),
           at[w] \notin {"idle", "newConfig"}
    PROVE  AxlesInv(w)'
<1>1. /\ at'[w] = at[w] /\ body'[w] = body[w] /\ i'[w] = i[w] /\ loaded'[w] = loaded[w]
      /\ writes'[w] = writes[w] /\ unflushed'[w] = unflushed[w]
      /\ targets'[w] = targets[w] \ DOMAIN writes[o]
  BY DEF Accept, Commit, Ends, Goto, WholeInv, TypeOK, Domains
<1>2. /\ \A x : x \in DOMAIN rows' <=>
            /\ x \in DOMAIN rows \union DOMAIN writes[o]
            /\ x \in DOMAIN writes[o] => writes[o][x] # Deleted
      /\ \A x \in DOMAIN rows' :
            rows'[x] = IF x \in DOMAIN writes[o] THEN writes[o][x] ELSE rows[x]
      /\ \A x \in DOMAIN rows : x[1] # "mass" => x \in DOMAIN rows'
  BY CommitFacts
<1>3. AxlesInv(w)  BY DEF AxlesAreKept
<1>4. /\ \A c : c \in Massed(w)' <=> c \in Massed(w)
      /\ \A c : c \in Done(w)' <=> c \in Done(w)
      /\ Accepted(w)'
  BY <1>1, <1>3, PlaceStays DEF AxlesInv
<1>5. /\ Adding(w)' = Adding(w) /\ Editing(w)' = Editing(w)
      /\ Adding(w) \/ Editing(w)
  BY <1>1, Bodies_ DEF WholeInv, Adding, Editing
<1>6. \A k : k \in Pending(w)' <=> k \in Pending(w)  BY <1>1 DEF Pending
<1>7. OwnAxles(w)'
  BY <1>1, <1>3, <1>4, <1>6 DEF AxlesInv, OwnAxles
<1>8. \A c : Config(c)[1] = "config" /\ Mass(c, 1)[1] = "mass" /\ Mass(c, 1)[2] = c
  BY Keys
<1>9. \A c : Insists(w, c) => Insists(w, c)'  BY <1>1 DEF Insists
<1> DEFINE Touched(id) == \E k \in DOMAIN writes[o] : k[1] \in {"mass", "limit"} /\ k[2] = id
<1>10. ASSUME NEW id, Touched(id), Config(id) \in DOMAIN rows \union DOMAIN writes[w],
              Adding(w) => Config(id) \in DOMAIN writes[w]
       PROVE  /\ Doomed(w, id)'
              /\ Mass(id, 1) \in DOMAIN rows' /\ Mass(id, 1) \in DOMAIN writes[o]
  <2>1. /\ Config(id) \in DOMAIN rows
        /\ Mass(id, 1) \in DOMAIN writes[o] /\ Mass(id, 1) \in DOMAIN rows'
        /\ Mass(id, 1) \notin DOMAIN writes[w]
    BY <1>10, CommitInsists
  <2>2. Editing(w)
    <3>1. Adding(w) => Drafted(w, Config(id))  BY <1>10 DEF WholeInv, WorkerInv
    <3> QED  BY <1>5, <1>8, <2>1, <3>1 DEF Drafted
  <2> QED  BY <1>1, <1>5, <2>1, <2>2 DEF Doomed
<1>11. ASSUME NEW id, ~Touched(id)
       PROVE  /\ \A k : k[1] \in {"mass", "limit"} /\ k[2] = id => Same(w, k)
              /\ Doomed(w, id) => Doomed(w, id)'
              /\ \A k : k[1] \in {"mass", "limit"} /\ k[2] = id =>
                    /\ k \in DOMAIN rows' <=> k \in DOMAIN rows
                    /\ k \in DOMAIN rows => rows'[k] = rows[k]
                    /\ k \notin DOMAIN writes[o]
  <2>1. \A k : k[1] \in {"mass", "limit"} /\ k[2] = id =>
            /\ k \in DOMAIN rows' <=> k \in DOMAIN rows
            /\ k \in DOMAIN rows => rows'[k] = rows[k]
            /\ k \notin DOMAIN writes[o]
    BY <1>2, <1>11
  <2>2. \A k : k[1] \in {"mass", "limit"} /\ k[2] = id => Same(w, k)
    <3> SUFFICES ASSUME NEW k, k[1] \in {"mass", "limit"} /\ k[2] = id PROVE Same(w, k)
      OBVIOUS
    <3> QED  BY <1>1, <2>1, SameIs
  <2>3. Doomed(w, id) => Doomed(w, id)'
    BY <1>1, <1>5, <1>8, <2>1 DEF Doomed
  <2> QED  BY <2>1, <2>2, <2>3
<1> HIDE DEF Touched
<1>12. \A c \in Massed(w) :
           /\ Config(c.id) \in DOMAIN rows \union DOMAIN writes[w]
           /\ Adding(w) => Config(c.id) \in DOMAIN writes[w]
  BY <1>3, <1>5 DEF AxlesInv
<1>13. \A c \in Done(w) : c \in Massed(w)  BY DEF Done, Massed, UpTo
<1>14. ASSUME NEW c \in Massed(w) PROVE Doomed(w, c.id)' \/ MassesPromised(w, c)'
  <2>1. CASE Touched(c.id)  BY <1>10, <1>12, <2>1
  <2>2. CASE ~Touched(c.id)
    <3>1. MassesPromised(w, c) => MassesPromised(w, c)'  BY <1>11, <2>2, PromisesStay
    <3> QED  BY <1>3, <1>11, <2>2, <3>1 DEF AxlesInv
  <2> QED  BY <2>1, <2>2
<1>15. ASSUME NEW c \in Done(w) PROVE Doomed(w, c.id)' \/ LimitsPromised(w, c)'
  <2>1. CASE Touched(c.id)  BY <1>10, <1>12, <1>13, <2>1
  <2>2. CASE ~Touched(c.id)
    <3>1. LimitsPromised(w, c) => LimitsPromised(w, c)'  BY <1>11, <2>2, PromisesStay
    <3> QED  BY <1>3, <1>11, <2>2, <3>1 DEF AxlesInv
  <2> QED  BY <2>1, <2>2
<1>16. ASSUME NEW c \in Massed(w), c \notin Done(w)
       PROVE  Doomed(w, c.id)' \/ LimitsRead(w, c)'
  <2>1. CASE Touched(c.id)  BY <1>10, <1>12, <2>1
  <2>2. CASE ~Touched(c.id)
    <3>1. \A k \in LimitsOf(c.id) : k[1] = "limit" /\ k[2] = c.id  BY Keys DEF LimitsOf
    <3>2. \A k \in LimitsOf(c.id) :
             /\ k \in DOMAIN rows' <=> k \in DOMAIN rows
             /\ k \in DOMAIN rows => rows'[k] = rows[k]
      BY <1>11, <2>2, <3>1
    <3>3. LimitsRead(w, c) => LimitsRead(w, c)'
      <4> SUFFICES ASSUME LimitsRead(w, c), NEW k \in LimitsOf(c.id), k \in DOMAIN loaded'[w]
                   PROVE  k \in DOMAIN rows' /\ loaded'[w][k] = rows'[k]
        BY DEF LimitsRead, LimitsOf
      <4> QED  BY <1>1, <3>2 DEF LimitsRead
    <3> QED  BY <1>3, <1>11, <1>16, <2>2, <3>3 DEF AxlesInv
  <2> QED  BY <2>1, <2>2
<1>17. at[w] = "deleting" => MassesFound(w)'
  <2> SUFFICES ASSUME at[w] = "deleting", NEW c, c = Here(w) PROVE MassesFound(w)'
    OBVIOUS
  <2>1. Here(w)' = c  BY <1>1 DEF Here
  <2>2. Config(c.id) \in DOMAIN rows /\ ~Adding(w)
    BY DEF WholeInv, WorkerInv, InPlace, Adding, Editing
  <2>3. MassesFound(w)  BY <1>3 DEF AxlesInv
  <2>4. CASE Touched(c.id)
    BY <1>1, <1>10, <2>1, <2>2, <2>4 DEF MassesFound
  <2>5. CASE ~Touched(c.id)
    <3>1. \A k : k[1] = "mass" /\ k[2] = c.id =>
              /\ k \in DOMAIN rows' <=> k \in DOMAIN rows
              /\ k \notin DOMAIN writes[o]
      BY <1>11, <2>5
    <3> QED  BY <1>1, <1>8, <2>1, <2>3, <3>1 DEF MassesFound, MassesOf
  <2> QED  BY <2>4, <2>5
<1>18. \A c \in Massed(w) :
           /\ Editing(w) => Config(c.id) \in DOMAIN rows' /\ Insists(w, c.id)'
           /\ Adding(w) => Config(c.id) \in DOMAIN writes'[w]
  BY <1>1, <1>2, <1>3, <1>8, <1>9 DEF AxlesInv
<1> QED  BY <1>1, <1>4, <1>5, <1>7, <1>14, <1>15, <1>16, <1>17, <1>18 DEF AxlesInv

-----------------------------------------------------------------------------
LEMMA EndedAxles ==
    ASSUME WholeInv, NEW w \in Workers, Aborts(w) \/ Accept(w)
    PROVE  at'[w] = "idle" /\ DOMAIN loaded'[w] = {}
BY DEF Aborts, Accept, Ends, Goto, Nothing, WholeInv, TypeOK, Domains

LEMMA WithinAxles ==
    ASSUME WholeInv, WholeInv', AxlesAreKept, NEW w \in Workers, Within(w),
           at'[w] # "newConfig"
    PROVE  AxlesInv(w)'
<1>1. at[w] # "idle"  BY WithinIsLocal
<1>2. AddConfig(w) => at'[w] = "newConfig"
  BY DEF AddConfig, Goto, WholeInv, TypeOK
<1>3. at[w] # "newConfig"
  BY <1>2 DEF Within, AddParents, AddChildren, LookUp, ReadRange, StoreConfig, AtConfig, AtLoop,
     AddAxles, DeleteMasses, MassesDeleted, ReadLimit, UpdateLimits, Flush, hvars
<1>4. AxlesInv(w)  BY <1>1, <1>3 DEF AxlesAreKept
<1> QED  BY <1>2, <1>3, <1>4, HeaderAxles, StoreConfigAxles, AddAxlesAxles, DeleteMassesAxles,
         MassesDeletedAxles, ReadLimitAxles, UpdateLimitsAxles, FlushAxles DEF Within

LEMMA StepAxles ==
    ASSUME WholeInv, AxlesAreKept, NEW o \in Workers, Receive(o) \/ Step(o) \/ Fail(o)
    PROVE  AxlesAreKept'
<1>1. WholeInv'  BY StepWhole
<1>2. Receive(o) \/ Within(o) \/ Aborts(o) \/ Accept(o)  BY StepCases
<1>3. ASSUME NEW w \in Workers, w # o
      PROVE  /\ at'[w] = "idle" => DOMAIN loaded'[w] = {}
             /\ at'[w] \notin {"idle", "newConfig"} => AxlesInv(w)'
  <2>1. CASE Accept(o)
    <3>1. at'[w] = at[w] /\ loaded'[w] = loaded[w]
      BY <1>3, <2>1 DEF Accept, Ends, Goto, WholeInv, TypeOK, Domains
    <3> QED  BY <1>1, <1>3, <2>1, <3>1, OthersCommitAxles DEF AxlesAreKept
  <2>2. CASE Receive(o) \/ Within(o) \/ Aborts(o)
    <3>1. Elsewhere(o)  BY <2>2, ReceiveWhole, WithinIsLocal, AbortsWhole
    <3> QED  BY <1>1, <1>3, <3>1, AxlesElsewhere DEF AxlesAreKept, Elsewhere
  <2> QED  BY <1>2, <2>1, <2>2
<1>4. /\ at'[o] = "idle" => DOMAIN loaded'[o] = {}
      /\ at'[o] \notin {"idle", "newConfig"} => AxlesInv(o)'
  <2>1. CASE Aborts(o) \/ Accept(o)  BY <2>1, EndedAxles
  <2>2. CASE Receive(o)
    <3>1. at'[o] # "idle"  BY <2>2 DEF Receive, Goto, WholeInv, TypeOK
    <3> QED  BY <2>2, <3>1, ReceiveAxles
  <2>3. CASE Within(o)
    BY <1>1, <2>3, WithinIsLocal, WithinAxles
  <2> QED  BY <1>2, <2>1, <2>2, <2>3
<1> QED  BY <1>3, <1>4 DEF AxlesAreKept

LEMMA InitAxles == Init => AxlesAreKept
<1>1. DOMAIN Nothing = {}  BY DEF Nothing
<1>2. Init => \A w \in Workers : at[w] = "idle" /\ loaded[w] = Nothing
  BY DEF Init
<1> QED  BY <1>1, <1>2 DEF AxlesAreKept

LEMMA NothingHappensToAxles ==
    ASSUME WholeInv, AxlesAreKept, UNCHANGED vars
    PROVE  AxlesAreKept'
<1>1. WholeInv'  BY NothingHappens
<1> QED  BY <1>1, AxlesElsewhere DEF vars, dbvars, hvars, AxlesAreKept

(* Of every configuration that an open request has come to, what its flush and *)
(* its commit will leave is the masses and the limits it names, unless another *)
(* request has committed the configuration's first mass in between: then the   *)
(* request's own insert of that mass will be refused.                          *)
THEOREM AxlesInvariant == Spec => []AxlesAreKept
<1>1. WholeInv /\ AxlesAreKept /\ [Next]_vars => AxlesAreKept'
  BY StepAxles, NothingHappensToAxles DEF Next
<1> QED  BY <1>1, InitAxles, WholeIsInvariant, PTL DEF Spec

LEMMA AcceptedAxles ==
    ASSUME WholeInv, AxlesAreKept, NEW w \in Workers, Accept(w),
           NEW n \in DOMAIN body[w].configs
    PROVE  AxlesAre(body[w].configs[n], rows')
<1> DEFINE c == body[w].configs[n]
<1>1. /\ at[w] \in {"header", "config"} /\ i[w] > Len(body[w].configs) /\ unflushed[w] = {}
      /\ rows' = Seen(w)
  BY DEF Accept, AtEnd, AtLoop, Commit
<1>2. AxlesInv(w)  BY <1>1 DEF AxlesAreKept
<1>3. /\ DOMAIN body[w].configs = 1..Len(body[w].configs) /\ Len(body[w].configs) \in Nat
      /\ i[w] \in Nat /\ (Adding(w) \/ Editing(w))
  BY <1>1, Bodies_ DEF WholeInv, Adding, Editing
<1>4. c \in Done(w) /\ c \in Massed(w)
  <2>1. n < i[w]  BY <1>1, <1>3
  <2> QED  BY <2>1 DEF Done, Massed, UpTo
<1> HIDE DEF c
<1>5. \A k : k \notin Pending(w)  BY <1>1 DEF Pending
<1>6. ~Doomed(w, c.id)
  BY <1>1, <1>2, <1>4 DEF AxlesInv, Doomed, Insists
<1>7. MassesPromised(w, c) /\ LimitsPromised(w, c)
  BY <1>2, <1>4, <1>6 DEF AxlesInv
<1>8. \A m \in DOMAIN c.masses :
          Mass(c.id, m) \in DOMAIN rows' /\ rows'[Mass(c.id, m)].mass = c.masses[m]
  <2> SUFFICES ASSUME NEW m \in DOMAIN c.masses
               PROVE  Mass(c.id, m) \in DOMAIN rows' /\ rows'[Mass(c.id, m)].mass = c.masses[m]
    OBVIOUS
  <2> DEFINE v == [mass |-> c.masses[m]]
             k == Mass(c.id, m)
  <2>1. Becomes(w, k, v) /\ v.mass = c.masses[m]  BY <1>7 DEF MassesPromised
  <2> HIDE DEF v, k
  <2>2. k \in DOMAIN rows' /\ rows'[k] = v  BY <1>1, <1>5, <2>1 DEF Becomes
  <2> QED  BY <2>1, <2>2 DEF k
<1>9. \A k \in LimitsOf(c.id) : rows'[k].limit = c.limits[k[3]]
  <2> SUFFICES ASSUME NEW k \in LimitsOf(c.id) PROVE rows'[k].limit = c.limits[k[3]]
    OBVIOUS
  <2> DEFINE v == [limit |-> c.limits[k[3]]]
  <2>1. Becomes(w, k, v) /\ v.limit = c.limits[k[3]]  BY <1>7 DEF LimitsPromised
  <2> HIDE DEF v
  <2>2. rows'[k] = v  BY <1>1, <1>5, <2>1 DEF Becomes
  <2> QED  BY <2>1, <2>2
<1>10. MassesOf(c.id, rows') = {Mass(c.id, m) : m \in DOMAIN c.masses}
  <2>1. \A k \in DOMAIN rows' : k[1] = "mass" /\ k[2] = c.id => \E m \in DOMAIN c.masses : k = Mass(c.id, m)
    BY <1>1, <1>7 DEF MassesPromised
  <2>2. \A m : Mass(c.id, m)[1] = "mass" /\ Mass(c.id, m)[2] = c.id  BY Keys
  <2> QED  BY <1>8, <2>1, <2>2 DEF MassesOf
<1> QED  BY <1>8, <1>9, <1>10 DEF AxlesAre, c

(* A request that is accepted has stored the masses and the limits of each of  *)
(* its configurations as it gave them, whichever requests for the same         *)
(* configuration were committed while it ran.                                  *)
THEOREM AxlesAreStored == Spec => StoresItsAxles
<1>1. WholeInv /\ AxlesAreKept =>
         \A w \in Workers : Accept(w) =>
            \A n \in DOMAIN body[w].configs : AxlesAre(body[w].configs[n], rows')
  BY AcceptedAxles
<1> QED  BY <1>1, WholeIsInvariant, AxlesInvariant, PTL DEF StoresItsAxles

-----------------------------------------------------------------------------
(* The other columns, while nobody else commits.                               *)

LEMMA UpdatesColumns ==
    ASSUME NEW table, NEW k, NEW v, NEW was
    PROVE  \A s \in Update(table, Row(k, v), was) :
              k \in DOMAIN s.on =>
                 \A x \in DOMAIN v : x \notin DOMAIN s.on[k] => v[x] = was[k][x]
<1> DEFINE new == Row(k, v)
           set == [x \in {x \in DOMAIN new : Changed(was[x], new[x]) # {}} |->
                    [c \in Changed(was[x], new[x]) |-> new[x][c]]]
<1>1. DOMAIN new = {k} /\ new[k] = v  BY Single
<1>2. Update(table, new, was) = Statement(table, "update", set)  BY DEF Update
<1>3. \A x \in DOMAIN set : DOMAIN set[x] = Changed(was[x], new[x])
  OBVIOUS
<1> HIDE DEF new, set
<1>4. \A s \in Update(table, new, was) : s.on = set
  BY <1>2, Statements
<1>5. \A x \in DOMAIN v : x \notin Changed(was[k], v) => v[x] = was[k][x]
  BY DEF Changed
<1>6. \A s \in Update(table, new, was) :
         k \in DOMAIN s.on => \A x \in DOMAIN v : x \notin DOMAIN s.on[k] => v[x] = was[k][x]
  BY <1>1, <1>3, <1>4, <1>5
<1> QED  BY <1>6 DEF new

(* An UPDATE of row k makes of it what is asked, if the row is as it was read. *)
LEMMA RowUpdated ==
    ASSUME NEW table, NEW k, NEW v, NEW was, DOMAIN v \subseteq DOMAIN was[k],
           was[k] = [x \in DOMAIN was[k] |-> was[k][x]]
    PROVE  /\ \A s \in Update(table, Row(k, v), was) :
                 /\ s.op = "update" /\ DOMAIN s.on = {k}
                 /\ Over(s.on[k], was[k]) = Over(v, was[k])
           /\ (\A s \in Update(table, Row(k, v), was) : FALSE) => was[k] = Over(v, was[k])
<1> DEFINE old == was[k]
           new == Over(v, old)
<1>1. /\ new = [x \in DOMAIN old |-> new[x]]
      /\ \A x \in DOMAIN v : new[x] = v[x]
      /\ \A x \in DOMAIN old \ DOMAIN v : new[x] = old[x]
  <2>1. DOMAIN v \union DOMAIN old = DOMAIN old  OBVIOUS
  <2>2. new = [x \in DOMAIN v \union DOMAIN old |-> IF x \in DOMAIN v THEN v[x] ELSE old[x]]
    BY DEF Over
  <2> HIDE DEF new
  <2> QED  BY <2>1, <2>2
<1> HIDE DEF new
<1>2. ASSUME NEW s \in Update(table, Row(k, v), was)
      PROVE  s.op = "update" /\ DOMAIN s.on = {k} /\ Over(s.on[k], old) = new
  <2>1. /\ s.op = "update" /\ DOMAIN s.on = {k}
        /\ \A x \in DOMAIN s.on[k] : s.on[k][x] = v[x]
        /\ DOMAIN s.on[k] \subseteq DOMAIN v
    BY UpdatesRow
  <2>2. \A x \in DOMAIN v : x \notin DOMAIN s.on[k] => v[x] = old[x]
    BY <2>1, UpdatesColumns
  <2> DEFINE u == s.on[k]
             y == Over(u, old)
  <2>3. y = [x \in DOMAIN u \union DOMAIN old |-> IF x \in DOMAIN u THEN u[x] ELSE old[x]]
    BY DEF Over
  <2>4. DOMAIN u \union DOMAIN old = DOMAIN old  BY <2>1
  <2>5. \A x \in DOMAIN old : (IF x \in DOMAIN u THEN u[x] ELSE old[x]) = new[x]
    BY <1>1, <2>1, <2>2
  <2> HIDE DEF y, u, old
  <2>6. y = [x \in DOMAIN old |-> new[x]]
    BY <2>3, <2>4, <2>5
  <2> QED  BY <1>1, <2>1, <2>6 DEF y, u
<1>3. ASSUME \A s \in Update(table, Row(k, v), was) : FALSE
      PROVE  old = new
  <2>1. \A x \in DOMAIN v : v[x] = old[x]  BY <1>3, UpdatesRow
  <2>2. \A x \in DOMAIN old : old[x] = new[x]  BY <1>1, <2>1
  <2>3. old = [x \in DOMAIN old |-> old[x]]  OBVIOUS
  <2> HIDE DEF old
  <2> QED  BY <1>1, <2>2, <2>3
<1> QED  BY <1>2, <1>3 DEF new

LEMMA BecomesUpdated ==
    ASSUME NEW w, NEW k, NEW old, NEW v,
           k \in DOMAIN Seen(w)', Seen(w)'[k] = old,
           \A s \in unflushed'[w] : k \in DOMAIN s.on =>
               s.op = "update" /\ Over(s.on[k], old) = v,
           k \notin Pending(w)' => old = v
    PROVE  Becomes(w, k, v)'
BY DEF Becomes

LEMMA HeadRowsAreNotDeleted ==
    ASSUME NEW x, NEW y, NEW z
    PROVE  /\ [template |-> x, category |-> y, default |-> z] # Deleted
           /\ [min |-> x, max |-> y] # Deleted
           /\ [template |-> x, length |-> y] # Deleted
<1>1. "deleted" \in DOMAIN Deleted  BY DEF Deleted
<1>2. /\ "deleted" \notin DOMAIN [template |-> x, category |-> y, default |-> z]
      /\ "deleted" \notin DOMAIN [min |-> x, max |-> y]
      /\ "deleted" \notin DOMAIN [template |-> x, length |-> y]
  OBVIOUS
<1> QED  BY <1>1, <1>2

LEMMA BecomesIsThere ==
    ASSUME WholeInv', NEW w \in Workers, NEW k, NEW v, Becomes(w, k, v)'
    PROVE  k \in DOMAIN rows' \union DOMAIN writes'[w] \union Pending(w)'
<1>1. Stored(rows)'  BY DEF WholeInv
<1>2. k \notin Pending(w)' => k \in DOMAIN Seen(w)'  BY DEF Becomes
<1> QED  BY <1>1, <1>2, SeenThen

(* The profile, with its range, and the configurations                         *)
HeaderRow(b) == [template |-> b.template, category |-> b.category, default |-> b.default]
Lengths(b) == [min |-> b.min, max |-> b.max]
ConfigRow(b, c) == [template |-> b.template, length |-> c.length]

LEMMA HeaderHolds ==
    ASSUME WholeInv', NEW w \in Workers, NEW b, NEW r, r[1] = "range", r[2] = b.template,
           Becomes(w, r, Lengths(b))', Becomes(w, Profile(b.profile), HeaderRow(b))'
    PROVE  HeaderPromised(w, b)'
<1>1. r \in DOMAIN rows' \union DOMAIN writes'[w] \union Pending(w)'
  BY BecomesIsThere
<1> QED  BY <1>1 DEF HeaderPromised, Lengths, HeaderRow

LEMMA HeaderStays ==
    ASSUME WholeInv', NEW w \in Workers, NEW b, HeaderPromised(w, b),
           \A k : k[1] \in {"profile", "range"} => Same(w, k)
    PROVE  HeaderPromised(w, b)'
<1>1. Profile(b.profile)[1] = "profile"  BY Keys
<1>2. Becomes(w, Profile(b.profile), HeaderRow(b))
  BY DEF HeaderPromised, HeaderRow
<1>3. PICK r : r[1] = "range" /\ r[2] = b.template /\ Becomes(w, r, Lengths(b))
  BY DEF HeaderPromised, Lengths
<1>4. Becomes(w, Profile(b.profile), HeaderRow(b))' /\ Becomes(w, r, Lengths(b))'
  BY <1>1, <1>2, <1>3, BecomesStays
<1> QED  BY <1>3, <1>4, HeaderHolds

(* A step that stores and queues no configuration                              *)
LEMMA AskedStays ==
    ASSUME WholeInv, WholeInv', NEW w \in Workers, NEW b, AsAskedInv(w, b),
           rows' = rows,
           \A k : k[1] = "config" => (k \in DOMAIN writes'[w] <=> k \in DOMAIN writes[w]),
           \A k : k[1] = "config" => Same(w, k),
           \A c : c \in Reached(w)' <=> c \in Reached(w),
           at'[w] = "range" => ProfileRead(w, b)',
           at'[w] \notin {"checks", "parents", "lookup", "range"} => HeaderPromised(w, b)'
    PROVE  AsAskedInv(w, b)'
<1>1. \A c : Config(c)[1] = "config"  BY Keys
<1>2. ASSUME NEW c \in Reached(w) PROVE ConfigPromised(w, b, c)'
  <2>1. Becomes(w, Config(c.id), ConfigRow(b, c))
    BY <1>2 DEF AsAskedInv, ConfigPromised, ConfigRow
  <2>2. Becomes(w, Config(c.id), ConfigRow(b, c))'
    BY <1>1, <2>1, BecomesStays
  <2> QED  BY <2>2 DEF ConfigPromised, ConfigRow
<1>3. \A k \in DOMAIN writes'[w] \union Pending(w)' : k[1] = "config" =>
          k \in DOMAIN writes[w] \union Pending(w)
  BY SamePending
<1> QED  BY <1>2, <1>3 DEF AsAskedInv

(* The steps that store or queue axles leave the other rows alone.             *)
LEMMA AxleStepsAsked ==
    ASSUME WholeInv, WholeInv', NEW w \in Workers, NEW b, AsAskedInv(w, b),
           at[w] \in {"axle", "deleting", "limits"},
           at'[w] \notin {"checks", "parents", "lookup", "range"},
           rows' = rows,
           \A c : c \in Reached(w)' <=> c \in Reached(w),
           \A k : k[1] \notin {"mass", "limit"} =>
               /\ k \in DOMAIN writes'[w] <=> k \in DOMAIN writes[w]
               /\ k \in DOMAIN writes[w] => writes'[w][k] = writes[w][k],
           \A s \in unflushed[w] \union unflushed'[w] :
               \/ s \in unflushed[w] /\ s \in unflushed'[w]
               \/ \A k \in DOMAIN s.on : k[1] \in {"mass", "limit"}
    PROVE  AsAskedInv(w, b)'
<1>1. \A k : k[1] \in {"profile", "range", "config"} => Same(w, k)
  <2> SUFFICES ASSUME NEW k, k[1] \in {"profile", "range", "config"} PROVE Same(w, k)
    OBVIOUS
  <2>1. k[1] \notin {"mass", "limit"}  OBVIOUS
  <2>2. \A s \in unflushed[w] \union unflushed'[w] :
            k \in DOMAIN s.on => s \in unflushed[w] /\ s \in unflushed'[w]
    BY <2>1
  <2> QED  BY <2>1, <2>2, SameIs
<1>2. HeaderPromised(w, b)  BY DEF AsAskedInv
<1>3. HeaderPromised(w, b)'  BY <1>1, <1>2, HeaderStays
<1> QED  BY <1>1, <1>3, AskedStays

LEMMA StoringAxlesAsked ==
    ASSUME WholeInv, WholeInv', NEW w \in Workers, NEW b, AsAskedInv(w, b),
           AddAxles(w) \/ DeleteMasses(w) \/ MassesDeleted(w) \/ ReadLimit(w) \/ UpdateLimits(w)
    PROVE  AsAskedInv(w, b)'
<1> SUFFICES ASSUME NEW c, c = Here(w) PROVE AsAskedInv(w, b)'
  OBVIOUS
<1>1. at[w] \in {"axle", "deleting", "limits"}
  BY DEF AddAxles, DeleteMasses, MassesDeleted, ReadLimit, UpdateLimits
<1>2. /\ DOMAIN body[w].configs \subseteq Nat /\ i[w] \in Nat
  BY <1>1, Bodies_ DEF WholeInv
<1>3. \A n \in DOMAIN body[w].configs : n < i[w] + 1 <=> n < i[w] \/ n = i[w]
  BY <1>2
<1>4. CASE AddAxles(w)
  <2>1. /\ at[w] = "axle" /\ at'[w] = "config" /\ rows' = rows /\ body'[w] = body[w]
        /\ i'[w] = i[w] + 1 /\ writes'[w] = writes[w]
        /\ unflushed'[w] = unflushed[w] \union (Insert("limit", NewLimits(c))
                                                  \union Insert("mass", NewMasses(c)))
    BY <1>4 DEF AddAxles, Queue, NextConfig, Goto, WholeInv, TypeOK, Domains
  <2>2. \A s \in Insert("limit", NewLimits(c)) \union Insert("mass", NewMasses(c)) :
            s.on = NewLimits(c) \/ s.on = NewMasses(c)
    BY Inserts
  <2>3. \A s \in unflushed'[w] : s \in unflushed[w] \/ \A k \in DOMAIN s.on : k[1] \in {"mass", "limit"}
    BY <2>1, <2>2, NewRowsAreAxles
  <2>4. \A d : d \in Reached(w)' <=> d \in Reached(w)
    BY <1>3, <2>1 DEF Reached, UpTo
  <2> QED  BY <1>1, <2>1, <2>3, <2>4, AxleStepsAsked
<1>5. CASE DeleteMasses(w)
  <2>1. /\ at[w] = "axle" /\ at'[w] = "deleting" /\ rows' = rows /\ body'[w] = body[w]
        /\ i'[w] = i[w] /\ writes'[w] = writes[w] /\ unflushed'[w] = unflushed[w]
    BY <1>5 DEF DeleteMasses, StartDelete, Goto, WholeInv, TypeOK, Domains
  <2>2. \A d : d \in Reached(w)' <=> d \in Reached(w)
    BY <2>1 DEF Reached, UpTo
  <2> QED  BY <1>1, <2>1, <2>2, AxleStepsAsked
<1>6. CASE MassesDeleted(w)
  <2> DEFINE gone == [k \in targets[w] |-> Deleted]
  <2>1. /\ at[w] = "deleting" /\ at'[w] = "limits" /\ rows' = rows /\ body'[w] = body[w]
        /\ i'[w] = i[w] /\ writes'[w] = Over(gone, writes[w])
        /\ unflushed'[w] = unflushed[w] \union Insert("mass", NewMasses(c))
    BY <1>6 DEF MassesDeleted, FinishDelete, Write, Queue, Goto, WholeInv, TypeOK, Domains
  <2>2. DOMAIN gone = targets[w]  OBVIOUS
  <2> HIDE DEF gone
  <2>3. /\ DOMAIN Over(gone, writes[w]) = DOMAIN gone \union DOMAIN writes[w]
        /\ \A x \in DOMAIN writes[w] \ DOMAIN gone : Over(gone, writes[w])[x] = writes[w][x]
    BY Merged
  <2>4. \A k \in targets[w] : k[1] = "mass"
    <3>1. InPlace(w)  BY DEF WholeInv, WorkerInv
    <3> QED  BY <2>1, <3>1 DEF InPlace
  <2>5. \A s \in Insert("mass", NewMasses(c)) : s.on = NewMasses(c)  BY Inserts
  <2>6. \A s \in unflushed'[w] : s \in unflushed[w] \/ \A k \in DOMAIN s.on : k[1] \in {"mass", "limit"}
    BY <2>1, <2>5, NewRowsAreAxles
  <2>7. \A d : d \in Reached(w)' <=> d \in Reached(w)
    BY <2>1 DEF Reached, UpTo
  <2>8. \A k : k[1] \notin {"mass", "limit"} =>
               /\ k \in DOMAIN writes'[w] <=> k \in DOMAIN writes[w]
               /\ k \in DOMAIN writes[w] => writes'[w][k] = writes[w][k]
    BY <2>1, <2>2, <2>3, <2>4
  <2> QED  BY <1>1, <2>1, <2>6, <2>7, <2>8, AxleStepsAsked
<1>7. CASE ReadLimit(w)
  <2>1. /\ at[w] = "limits" /\ at' = at /\ rows' = rows /\ body' = body
        /\ i' = i /\ writes' = writes /\ unflushed' = unflushed
    BY <1>7 DEF ReadLimit, dbvars
  <2>2. \A d : d \in Reached(w)' <=> d \in Reached(w)
    BY <2>1 DEF Reached, UpTo
  <2> QED  BY <1>1, <2>1, <2>2, AxleStepsAsked
<1>8. CASE UpdateLimits(w)
  <2> DEFINE new == Update("limit", NewLimits(c), loaded[w])
  <2>1. /\ at[w] = "limits" /\ at'[w] = "config" /\ rows' = rows /\ body'[w] = body[w]
        /\ i'[w] = i[w] + 1 /\ writes'[w] = writes[w]
        /\ unflushed'[w] = unflushed[w] \union new
    BY <1>8 DEF UpdateLimits, Queue, NextConfig, Goto, WholeInv, TypeOK, Domains
  <2>2. \A s \in new : DOMAIN s.on \subseteq DOMAIN NewLimits(c)  BY Updates
  <2> HIDE DEF new
  <2>3. \A s \in unflushed'[w] : s \in unflushed[w] \/ \A k \in DOMAIN s.on : k[1] \in {"mass", "limit"}
    BY <2>1, <2>2, NewRowsAreAxles
  <2>4. \A d : d \in Reached(w)' <=> d \in Reached(w)
    BY <1>3, <2>1 DEF Reached, UpTo
  <2> QED  BY <1>1, <2>1, <2>3, <2>4, AxleStepsAsked
<1> QED  BY <1>4, <1>5, <1>6, <1>7, <1>8

LEMMA FlushAsked ==
    ASSUME WholeInv, WholeInv', NEW w \in Workers, NEW b, AsAskedInv(w, b), Flush(w)
    PROVE  AsAskedInv(w, b)'
<1>1. /\ at' = at /\ body' = body /\ i' = i /\ rows' = rows /\ loaded' = loaded /\ Send(w)
  BY DEF Flush, Send, hvars
<1>2. PICK s \in unflushed[w] :
         /\ unflushed'[w] = unflushed[w] \ {s}
         /\ DOMAIN writes'[w] = DOMAIN s.on \union DOMAIN writes[w]
         /\ \A x \in DOMAIN writes[w] \ DOMAIN s.on : writes'[w][x] = writes[w][x]
         /\ \A x \in DOMAIN s.on :
               IF s.op = "insert" THEN writes'[w][x] = s.on[x] /\ x \notin DOMAIN Seen(w)
               ELSE writes'[w][x] = Over(s.on[x], Seen(w)[x])
  BY <1>1, SendFacts
<1>3. \A k, v : v # Deleted /\ Becomes(w, k, v) => Becomes(w, k, v)'
  BY <1>1, <1>2, BecomesSent
<1>4. \A c : c \in Reached(w)' <=> c \in Reached(w)
  BY <1>1 DEF Reached, UpTo
<1>5. \A k : k \in DOMAIN writes'[w] \union Pending(w)' => k \in DOMAIN writes[w] \union Pending(w)
  <2>1. \A k : k \in Pending(w)' => k \in Pending(w)
    BY <1>2, PendingIs DEF Pending
  <2>2. \A k \in DOMAIN s.on : k \in Pending(w)  BY PendingIs
  <2> QED  BY <1>2, <2>1, <2>2
<1>6. HeaderPromised(w, b) => HeaderPromised(w, b)'
  <2> SUFFICES ASSUME HeaderPromised(w, b) PROVE HeaderPromised(w, b)'
    OBVIOUS
  <2>1. Becomes(w, Profile(b.profile), HeaderRow(b))
    BY DEF HeaderPromised, HeaderRow
  <2>2. PICK r : r[1] = "range" /\ r[2] = b.template /\ Becomes(w, r, Lengths(b))
    BY DEF HeaderPromised, Lengths
  <2>3. HeaderRow(b) # Deleted /\ Lengths(b) # Deleted
    BY HeadRowsAreNotDeleted DEF HeaderRow, Lengths
  <2>4. Becomes(w, Profile(b.profile), HeaderRow(b))' /\ Becomes(w, r, Lengths(b))'
    BY <1>3, <2>1, <2>2, <2>3
  <2> QED  BY <2>2, <2>4, HeaderHolds
<1>7. ASSUME NEW c \in Reached(w) PROVE ConfigPromised(w, b, c)'
  <2>1. Becomes(w, Config(c.id), ConfigRow(b, c))
    BY <1>7 DEF AsAskedInv, ConfigPromised, ConfigRow
  <2>2. ConfigRow(b, c) # Deleted  BY HeadRowsAreNotDeleted DEF ConfigRow
  <2>3. Becomes(w, Config(c.id), ConfigRow(b, c))'
    BY <1>3, <2>1, <2>2
  <2> QED  BY <2>3 DEF ConfigPromised, ConfigRow
<1>8. at[w] # "range"
  BY DEF Flush, Flushing, AtEnd, AtLoop
<1> QED  BY <1>1, <1>4, <1>5, <1>6, <1>7, <1>8 DEF AsAskedInv

(* Adding the profile, its range and their parents                             *)
LEMMA ChildrenAsked ==
    ASSUME WholeInv, WholeInv', NEW w \in Workers, NEW b, b = body[w], AsAskedInv(w, b),
           AddChildren(w)
    PROVE  AsAskedInv(w, b)'
<1> DEFINE r == Range_(b.template, b.profile)
           p == Profile(b.profile)
           range == Row(r, Lengths(b))
           profile == Row(p, HeaderRow(b))
<1>1. /\ at[w] = "parents" /\ at'[w] = "header" /\ rows' = rows /\ body' = body
      /\ i' = i /\ writes' = writes /\ unflushed[w] = {}
      /\ unflushed'[w] = Insert("range", range) \union Insert("profile", profile)
  BY DEF AddChildren, Queue, Goto, Lengths, HeaderRow, WholeInv, TypeOK, Domains
<1>2. /\ DOMAIN range = {r} /\ range[r] = Lengths(b)
      /\ DOMAIN profile = {p} /\ profile[p] = HeaderRow(b)
  BY Single
<1>3. p[1] = "profile" /\ r[1] = "range" /\ r[2] = b.template  BY Keys
<1> HIDE DEF range, profile, r, p
<1>4. /\ \A s \in Insert("range", range) : s.op = "insert" /\ s.on = range
      /\ \A s \in Insert("profile", profile) : s.op = "insert" /\ s.on = profile
      /\ \E s \in Insert("range", range) : TRUE
      /\ \E s \in Insert("profile", profile) : TRUE
  BY <1>2, Inserts
<1>5. \A k : k \in Pending(w)' <=> \E s \in unflushed'[w] : k \in DOMAIN s.on
  BY DEF Pending
<1>6. r \in Pending(w)' /\ p \in Pending(w)'
  BY <1>1, <1>2, <1>4, <1>5
<1>7. Becomes(w, r, Lengths(b))'
  <2>1. \A s \in unflushed'[w] : r \in DOMAIN s.on => s.op = "insert" /\ s.on = range
    BY <1>1, <1>2, <1>3, <1>4
  <2> QED  BY <1>2, <1>6, <2>1, BecomesInserted
<1>8. Becomes(w, p, HeaderRow(b))'
  <2>1. \A s \in unflushed'[w] : p \in DOMAIN s.on => s.op = "insert" /\ s.on = profile
    BY <1>1, <1>2, <1>3, <1>4
  <2> QED  BY <1>2, <1>6, <2>1, BecomesInserted
<1>9. HeaderPromised(w, b)'
  BY <1>3, <1>7, <1>8, HeaderHolds DEF p
<1>10. \A k : k[1] = "config" => Same(w, k)
  <2> SUFFICES ASSUME NEW k, k[1] = "config" PROVE Same(w, k)
    OBVIOUS
  <2>1. \A s \in unflushed[w] \union unflushed'[w] :
            k \in DOMAIN s.on => s \in unflushed[w] /\ s \in unflushed'[w]
    BY <1>1, <1>2, <1>3, <1>4
  <2> QED  BY <1>1, <2>1, SameIs
<1>11. \A c : c \in Reached(w)' <=> c \in Reached(w)
  BY <1>1 DEF Reached, UpTo
<1> QED  BY <1>1, <1>9, <1>10, <1>11, AskedStays

LEMMA LookUpAsked ==
    ASSUME WholeInv, WholeInv', NEW w \in Workers, NEW b, b = body[w], AsAskedInv(w, b),
           LookUp(w)
    PROVE  AsAskedInv(w, b)'
<1> DEFINE p == Profile(b.profile)
           row == Row(p, Seen(w)[p])
<1>1. /\ at[w] = "lookup" /\ at'[w] = "range" /\ rows' = rows /\ body' = body /\ i' = i
      /\ writes' = writes /\ unflushed' = unflushed /\ loaded'[w] = row /\ Known(w)
  BY DEF LookUp, dbvars, Goto, WholeInv, TypeOK, Domains
<1>2. DOMAIN row = {p} /\ row[p] = Seen(w)[p]  BY Single
<1> HIDE DEF row
<1>3. DOMAIN writes[w] = {}
  <2>1. InPlace(w)  BY DEF WholeInv, WorkerInv
  <2> QED  BY <1>1, <2>1 DEF InPlace
<1>4. p \in DOMAIN rows /\ Seen(w)[p] = rows[p]
      /\ rows[p].template = b.template /\ rows[p].category = b.category
  BY <1>1, <1>3, SeenNow DEF Known, Exists
<1>5. ProfileRead(w, b)'
  BY <1>1, <1>2, <1>4 DEF ProfileRead
<1>6. \A k : Same(w, k)  BY <1>1, SameIs
<1>7. \A c : c \in Reached(w)' <=> c \in Reached(w)
  BY <1>1 DEF Reached, UpTo
<1> QED  BY <1>1, <1>5, <1>6, <1>7, AskedStays

LEMMA ReadRangeAsked ==
    ASSUME WholeInv, WholeInv', NEW w \in Workers, NEW b, b = body[w], AsAskedInv(w, b),
           ReadRange(w)
    PROVE  AsAskedInv(w, b)'
<1> DEFINE p == Profile(b.profile)
           lengths == Lengths(b)
           length == [default |-> b.default]
           first == CHOOSE k \in RangesOf(b.template, Seen(w)) : TRUE
           profile == Update("profile", Row(p, length), loaded[w])
<1>queued. unflushed'[w] = unflushed[w] \union
           (Update("range", Row(first, lengths), Row(first, Seen(w)[first])) \union profile)
  BY DEF ReadRange, Queue, Goto, Lengths, WholeInv, TypeOK, Domains
<1> HIDE DEF profile, lengths, length
<1>1. /\ at[w] = "range" /\ at'[w] = "header" /\ writes' = writes
      /\ body' = body /\ i' = i /\ rows' = rows
  BY DEF ReadRange, Queue, Goto, WholeInv, TypeOK, Domains
<1>2. DOMAIN writes[w] = {} /\ unflushed[w] = {}
  <2>1. InPlace(w)  BY DEF WholeInv, WorkerInv
  <2> QED  BY <1>1, <2>1 DEF InPlace
<1>3. /\ p \in DOMAIN rows /\ loaded[w][p] = rows[p]
      /\ rows[p].template = b.template /\ rows[p].category = b.category
  BY <1>1 DEF AsAskedInv, ProfileRead
<1>4. p[1] = "profile"  BY Keys
<1>5. /\ \A k : k \in DOMAIN Seen(w) <=> k \in DOMAIN rows
      /\ \A k \in DOMAIN rows : Seen(w)[k] = rows[k]
  BY <1>2, SeenNow
<1>6. PICK r \in DOMAIN rows :
         /\ r[1] = "range" /\ r[2] = b.template
         /\ unflushed'[w] = unflushed[w] \union
               (Update("range", Row(r, lengths), Row(r, Seen(w)[r])) \union profile)
  <2>1. \E k \in DOMAIN rows : k \in RangesOf(b.template, rows)
    BY <1>3, <1>4 DEF WholeInv, Whole, AllWhole, RangesOf
  <2>2. first \in RangesOf(b.template, Seen(w))
    BY <1>5, <2>1 DEF RangesOf
  <2> HIDE DEF first
  <2>3. first \in DOMAIN rows /\ first[1] = "range" /\ first[2] = b.template
    BY <1>5, <2>2 DEF RangesOf
  <2> QED  BY <1>queued, <2>3
<1> HIDE DEF p, first
<1> DEFINE was == Row(r, Seen(w)[r])
           range == Update("range", Row(r, lengths), was)
<1>7. was[r] = rows[r]  BY <1>5, <1>6, Single
<1> HIDE DEF was
<1>8. /\ rows[r] = [min |-> rows[r].min, max |-> rows[r].max]
      /\ rows[p] = [template |-> rows[p].template, category |-> rows[p].category,
                    default |-> rows[p].default]
  BY <1>3, <1>4, <1>6 DEF WholeInv, Stored, Shaped
<1>9. Over(lengths, was[r]) = Lengths(b)
  <2>1. DOMAIN lengths = {"min", "max"} /\ lengths = [x \in DOMAIN lengths |-> lengths[x]]
    BY DEF Lengths, lengths
  <2>2. DOMAIN was[r] = {"min", "max"}  BY <1>7, <1>8
  <2>3. Over(lengths, was[r]) = [x \in DOMAIN lengths |-> lengths[x]]
    BY <2>1, <2>2 DEF Over
  <2> QED  BY <2>1, <2>3 DEF lengths
<1>10. Over(length, loaded[w][p]) = HeaderRow(b)
  <2> DEFINE y == Over(length, loaded[w][p])
  <2>1. DOMAIN length = {"default"} /\ length["default"] = b.default  BY DEF length
  <2>2. DOMAIN loaded[w][p] = {"template", "category", "default"}  BY <1>3, <1>8
  <2>3. y = [x \in DOMAIN length \union DOMAIN loaded[w][p] |-> y[x]]
        /\ y["default"] = b.default
        /\ y["template"] = loaded[w][p]["template"] /\ y["category"] = loaded[w][p]["category"]
    BY <2>1, <2>2 DEF Over
  <2>4. DOMAIN length \union DOMAIN loaded[w][p] = {"template", "category", "default"}
    BY <2>1, <2>2
  <2>5. loaded[w][p]["template"] = b.template /\ loaded[w][p]["category"] = b.category
    BY <1>3
  <2> HIDE DEF y
  <2>6. y = [template |-> b.template, category |-> b.category, default |-> b.default]
    BY <2>3, <2>4, <2>5
  <2> QED  BY <2>6 DEF HeaderRow, y
<1>11. /\ DOMAIN lengths \subseteq DOMAIN was[r]
       /\ was[r] = [x \in DOMAIN was[r] |-> was[r][x]]
       /\ DOMAIN length \subseteq DOMAIN loaded[w][p]
       /\ loaded[w][p] = [x \in DOMAIN loaded[w][p] |-> loaded[w][p][x]]
  <2>1. DOMAIN lengths = {"min", "max"} /\ DOMAIN length = {"default"}
    BY DEF Lengths, lengths, length
  <2>2. DOMAIN rows[r] = {"min", "max"} /\ rows[r] = [x \in DOMAIN rows[r] |-> rows[r][x]]
    BY <1>8
  <2>3. DOMAIN rows[p] = {"template", "category", "default"}
        /\ rows[p] = [x \in DOMAIN rows[p] |-> rows[p][x]]
    BY <1>8
  <2> QED  BY <1>3, <1>7, <2>1, <2>2, <2>3
<1>12. /\ \A s \in range : /\ s.op = "update" /\ DOMAIN s.on = {r}
                           /\ Over(s.on[r], was[r]) = Lengths(b)
       /\ (\A s \in range : FALSE) => was[r] = Lengths(b)
  BY <1>9, <1>11, RowUpdated
<1>13. /\ \A s \in profile : /\ s.op = "update" /\ DOMAIN s.on = {p}
                             /\ Over(s.on[p], loaded[w][p]) = HeaderRow(b)
       /\ (\A s \in profile : FALSE) => loaded[w][p] = HeaderRow(b)
  BY <1>10, <1>11, RowUpdated DEF profile
<1>sent. unflushed'[w] = unflushed[w] \union (range \union profile)
  BY <1>6 DEF was
<1> HIDE DEF range
<1>14. \A k : k \in Pending(w)' <=> \E s \in range \union profile : k \in DOMAIN s.on
  BY <1>sent, <1>2 DEF Pending
<1>15. /\ \A k : k \in DOMAIN Seen(w)' <=> k \in DOMAIN rows
       /\ \A k \in DOMAIN rows : Seen(w)'[k] = rows[k]
  <2>1. Stored(rows)'  BY DEF WholeInv
  <2> QED  BY <1>1, <1>2, <2>1, SeenThen
<1>16. Becomes(w, r, Lengths(b))'
  <2>1. \A s \in unflushed'[w] : r \in DOMAIN s.on =>
            s.op = "update" /\ Over(s.on[r], rows[r]) = Lengths(b)
    BY <1>sent, <1>2, <1>4, <1>6, <1>7, <1>12, <1>13
  <2>2. r \notin Pending(w)' => rows[r] = Lengths(b)
    BY <1>7, <1>12, <1>14
  <2>3. r \in DOMAIN Seen(w)' /\ Seen(w)'[r] = rows[r]  BY <1>6, <1>15
  <2> QED  BY <2>1, <2>2, <2>3, BecomesUpdated
<1>17. Becomes(w, p, HeaderRow(b))'
  <2>1. \A s \in unflushed'[w] : p \in DOMAIN s.on =>
            s.op = "update" /\ Over(s.on[p], rows[p]) = HeaderRow(b)
    BY <1>sent, <1>2, <1>3, <1>4, <1>6, <1>12, <1>13
  <2>2. p \notin Pending(w)' => rows[p] = HeaderRow(b)
    BY <1>3, <1>13, <1>14
  <2>3. p \in DOMAIN Seen(w)' /\ Seen(w)'[p] = rows[p]  BY <1>3, <1>15
  <2> QED  BY <2>1, <2>2, <2>3, BecomesUpdated
<1>18. HeaderPromised(w, b)'
  BY <1>6, <1>16, <1>17, HeaderHolds DEF p
<1>19. \A k : k[1] = "config" => Same(w, k)
  <2> SUFFICES ASSUME NEW k, k[1] = "config" PROVE Same(w, k)
    OBVIOUS
  <2>1. \A s \in unflushed[w] \union unflushed'[w] :
            k \in DOMAIN s.on => s \in unflushed[w] /\ s \in unflushed'[w]
    BY <1>sent, <1>2, <1>4, <1>6, <1>12, <1>13
  <2> QED  BY <1>1, <2>1, SameIs
<1>20. \A c : c \in Reached(w)' <=> c \in Reached(w)
  BY <1>1 DEF Reached, UpTo
<1> QED  BY <1>1, <1>18, <1>19, <1>20, AskedStays

LEMMA StoreConfigAsked ==
    ASSUME WholeInv, WholeInv', NEW w \in Workers, NEW b, b = body[w], AsAskedInv(w, b),
           StoreConfig(w)
    PROVE  AsAskedInv(w, b)'
<1> SUFFICES ASSUME NEW c, c = Here(w) PROVE AsAskedInv(w, b)'
  OBVIOUS
<1> DEFINE k == Config(c.id)
           v == ConfigRow(b, c)
           length == [length |-> c.length]
           new == ConfigStatement(w)
<1>1. /\ at[w] \in {"header", "config"} /\ at'[w] = "axle" /\ rows' = rows /\ body' = body
      /\ i' = i /\ writes' = writes /\ unflushed'[w] = unflushed[w] \union new
      /\ Acceptable(b, i[w]) /\ i[w] <= Len(b.configs) /\ ~StoredElsewhere(w)
      /\ b.op = "update" => k \in DOMAIN Seen(w)
  BY DEF StoreConfig, AtConfig, AtLoop, Exists, Queue, Goto, WholeInv, TypeOK, Domains
<1>2. /\ i[w] \in DOMAIN b.configs /\ c = b.configs[i[w]] /\ i[w] \in Nat
      /\ DOMAIN b.configs \subseteq Nat \ {0} /\ b.op \in {"add", "update"}
  <2>1. /\ b.op \in {"add", "update"} /\ Len(b.configs) \in Nat
        /\ DOMAIN b.configs = 1..Len(b.configs) /\ i[w] \in 1..(Len(b.configs) + 1)
    BY <1>1, Bodies_ DEF WholeInv
  <2> QED  BY <1>1, <2>1 DEF Here
<1>3. \A d \in Reached(w) : d.id # c.id
  <2>1. \A n \in DOMAIN b.configs : n < i[w] => b.configs[n].id # c.id
    BY <1>1, <1>2 DEF Acceptable
  <2> QED  BY <1>1, <2>1 DEF Reached, UpTo
<1>4. \A d : d \in Reached(w)' <=> d \in Reached(w) \/ d = c
  BY <1>1, <1>2 DEF Reached, UpTo
<1>5. \A x : Config(x)[1] = "config" /\ Config(x)[2] = x  BY Keys
<1>6. k \notin Pending(w)
  BY <1>3, <1>5 DEF AsAskedInv
<1>7. b.op = "update" =>
         /\ Seen(w)[k] = [template |-> Seen(w)[k].template, length |-> Seen(w)[k].length]
         /\ Seen(w)[k].template = b.template
  <2> SUFFICES ASSUME b.op = "update"
               PROVE  /\ Shaped(k, Seen(w)[k]) /\ Seen(w)[k].template = b.template
    BY <1>5 DEF Shaped
  <2>1. k \in DOMAIN Seen(w)  BY <1>1
  <2>2. Seen(w)[k].template = b.template
    BY <1>1, <2>1 DEF StoredElsewhere, Exists
  <2>3. Shaped(k, Seen(w)[k])
    <3>1. k \in DOMAIN writes[w] => Drafted(w, k)  BY DEF WholeInv, WorkerInv
    <3>2. Stored(rows)  BY DEF WholeInv
    <3> QED  BY <1>5, <2>1, <3>1, <3>2, SeenNow DEF Drafted, Stored
  <2> QED  BY <2>2, <2>3
<1>8. \A s \in new : DOMAIN s.on = {k}
  <2> DEFINE row == Row(k, v)
             was == Row(k, Seen(w)[k])
  <2>1. \/ new = Insert("config", row)
        \/ new = Update("config", Row(k, length), was)
    BY DEF ConfigStatement, ConfigRow
  <2>2. DOMAIN row = {k}  BY Single
  <2> HIDE DEF row, was, new
  <2>3. \A s \in Insert("config", row) : DOMAIN s.on = {k}  BY <2>2, Inserts
  <2>4. \A s \in Update("config", Row(k, length), was) : DOMAIN s.on = {k}  BY UpdatesRow
  <2> QED  BY <2>1, <2>3, <2>4
<1>9. \A x : x \in Pending(w)' <=> x \in Pending(w) \/ \E s \in new : x \in DOMAIN s.on
  BY <1>1 DEF Pending
<1>10. \A s \in unflushed'[w] : k \in DOMAIN s.on => s \in new
  BY <1>1, <1>6, PendingIs
<1>11. /\ k \in DOMAIN Seen(w)' <=> k \in DOMAIN Seen(w)
       /\ k \in DOMAIN Seen(w) => Seen(w)'[k] = Seen(w)[k]
  <2>1. Stored(rows)'  BY DEF WholeInv
  <2> QED  BY <1>1, <2>1, SeenThen, SeenNow
<1>12. Becomes(w, k, v)'
  <2>1. CASE b.op = "add"
    <3> DEFINE row == Row(k, v)
    <3>1. DOMAIN row = {k} /\ row[k] = v  BY Single
    <3>2. new = Insert("config", row)
      BY <2>1 DEF ConfigStatement, ConfigRow
    <3> HIDE DEF row
    <3>3. (\A s \in new : s.op = "insert" /\ s.on = row) /\ \E s \in new : s.on = row
      BY <3>1, <3>2, Inserts
    <3> HIDE DEF new, v, k
    <3>4. k \in Pending(w)'  BY <1>9, <3>1, <3>3
    <3>5. \A s \in unflushed'[w] : k \in DOMAIN s.on => s.op = "insert" /\ s.on = row
      BY <1>10, <3>3
    <3> QED  BY <3>1, <3>4, <3>5, BecomesInserted
  <2>2. CASE b.op = "update"
    <3> DEFINE old == Seen(w)[k]
               was == Row(k, old)
    <3>1. new = Update("config", Row(k, length), was)
      BY <2>2 DEF ConfigStatement
    <3>2. was[k] = old  BY Single
    <3>3. old = [template |-> old.template, length |-> old.length] /\ old.template = b.template
      BY <1>7, <2>2
    <3>4. DOMAIN length = {"length"} /\ length["length"] = c.length  OBVIOUS
    <3> HIDE DEF new, length, was, old
    <3>5. DOMAIN old = {"template", "length"} /\ old = [x \in DOMAIN old |-> old[x]]
      BY <3>3
    <3>6. Over(length, old) = v
      <4> DEFINE y == Over(length, old)
      <4>1. y = [x \in DOMAIN length \union DOMAIN old |-> y[x]]
            /\ y["length"] = c.length /\ y["template"] = old["template"]
        BY <3>4, <3>5 DEF Over
      <4>2. DOMAIN length \union DOMAIN old = {"template", "length"}  BY <3>4, <3>5
      <4>3. old["template"] = b.template  BY <3>3
      <4> HIDE DEF y
      <4>4. y = [template |-> b.template, length |-> c.length]
        BY <4>1, <4>2, <4>3
      <4> QED  BY <4>4 DEF ConfigRow, y
    <3> HIDE DEF v
    <3>7. /\ \A s \in new : s.op = "update" /\ Over(s.on[k], old) = v
          /\ (\A s \in new : FALSE) => old = v
      <4>1. DOMAIN length \subseteq DOMAIN was[k]
            /\ was[k] = [x \in DOMAIN was[k] |-> was[k][x]]
        BY <3>2, <3>4, <3>5
      <4>2. /\ \A s \in Update("config", Row(k, length), was) :
                  s.op = "update" /\ Over(s.on[k], was[k]) = Over(length, was[k])
            /\ (\A s \in Update("config", Row(k, length), was) : FALSE) =>
                  was[k] = Over(length, was[k])
        BY <4>1, RowUpdated
      <4> QED  BY <3>1, <3>2, <3>6, <4>2
    <3>8. k \in DOMAIN Seen(w)' /\ Seen(w)'[k] = old
      BY <1>1, <1>11, <2>2 DEF old
    <3>9. \A s \in unflushed'[w] : k \in DOMAIN s.on =>
              s.op = "update" /\ Over(s.on[k], old) = v
      BY <1>10, <3>7
    <3>10. k \notin Pending(w)' => old = v
      BY <1>8, <1>9, <3>7
    <3> HIDE DEF k
    <3> QED  BY <3>8, <3>9, <3>10, BecomesUpdated
  <2> QED  BY <1>2, <2>1, <2>2
<1> HIDE DEF new
<1>13. \A x : x # k => Same(w, x)
  <2> SUFFICES ASSUME NEW x, x # k PROVE Same(w, x)
    OBVIOUS
  <2>1. \A s \in unflushed[w] \union unflushed'[w] :
            x \in DOMAIN s.on => s \in unflushed[w] /\ s \in unflushed'[w]
    BY <1>1, <1>8
  <2> QED  BY <1>1, <2>1, SameIs
<1>14. HeaderPromised(w, b)'
  <2>1. HeaderPromised(w, b)  BY <1>1 DEF AsAskedInv
  <2>2. \A x : x[1] \in {"profile", "range"} => Same(w, x)  BY <1>5, <1>13
  <2> QED  BY <2>1, <2>2, HeaderStays
<1>15. \A d \in Reached(w)' : ConfigPromised(w, b, d)'
  <2> SUFFICES ASSUME NEW d, d \in Reached(w)' PROVE ConfigPromised(w, b, d)'
    OBVIOUS
  <2>1. CASE d = c  BY <1>12, <2>1 DEF ConfigPromised, ConfigRow
  <2>2. CASE d \in Reached(w)
    <3>1. Becomes(w, Config(d.id), ConfigRow(b, d))
      BY <2>2 DEF AsAskedInv, ConfigPromised, ConfigRow
    <3>2. Config(d.id) # k  BY <1>3, <1>5, <2>2
    <3>3. Becomes(w, Config(d.id), ConfigRow(b, d))'
      BY <1>13, <3>1, <3>2, BecomesStays
    <3> QED  BY <3>3 DEF ConfigPromised, ConfigRow
  <2> QED  BY <1>4, <2>1, <2>2
<1>16. \A x \in DOMAIN writes'[w] \union Pending(w)' :
           x[1] = "config" => \E d \in Reached(w)' : x[2] = d.id
  BY <1>1, <1>4, <1>5, <1>8, <1>9 DEF AsAskedInv
<1> QED  BY <1>1, <1>14, <1>15, <1>16 DEF AsAskedInv

LEMMA ReceiveAsked ==
    ASSUME WholeInv, NEW w \in Workers, NEW b, Receive(w)
    PROVE  AsAskedInv(w, b)'
<1>1. /\ at[w] = "idle" /\ at'[w] \in {"checks", "lookup"}
      /\ i'[w] = i[w] /\ writes'[w] = writes[w] /\ unflushed'[w] = unflushed[w]
  BY DEF Receive, Goto, dbvars, WholeInv, TypeOK
<1>2. DOMAIN writes'[w] = {} /\ unflushed'[w] = {} /\ i'[w] = 1
  BY <1>1 DEF WholeInv, WorkerInv, InPlace
<1>3. body'[w] \in Bodies
  BY <1>1, ReceiveWhole DEF WholeInv, TypeOK
<1>4. Len(body'[w].configs) \in Nat /\ DOMAIN body'[w].configs = 1..Len(body'[w].configs)
  BY <1>3, VehiclesAssumption, Sequences_
<1>5. \A n \in DOMAIN body'[w].configs : ~(n < i'[w])
  BY <1>2, <1>4
<1>6. \A c : c \notin Reached(w)'
  BY <1>1, <1>2, <1>5 DEF Reached, UpTo
<1>7. \A k : k \notin Pending(w)'  BY <1>2 DEF Pending
<1> QED  BY <1>1, <1>2, <1>6, <1>7 DEF AsAskedInv

LEMMA ParentsAsked ==
    ASSUME WholeInv, WholeInv', NEW w \in Workers, NEW b, AsAskedInv(w, b), AddParents(w)
    PROVE  AsAskedInv(w, b)'
<1>1. /\ at[w] = "checks" /\ at'[w] = "parents" /\ rows' = rows /\ body'[w] = body[w]
      /\ i'[w] = i[w] /\ writes'[w] = writes[w]
      /\ unflushed'[w] = unflushed[w] \union Insert("template", Parents(w))
  BY DEF AddParents, Queue, Goto, WholeInv, TypeOK, Domains
<1>2. \A k \in DOMAIN Parents(w) : k[1] # "config"
  <2>1. \A x : Template(x)[1] = "template" /\ Category(x)[1] = "category"  BY Keys
  <2> QED  BY <2>1 DEF Parents
<1>3. \A s \in Insert("template", Parents(w)) : s.on = Parents(w)  BY Inserts
<1>4. \A k : k[1] = "config" => Same(w, k)
  <2> SUFFICES ASSUME NEW k, k[1] = "config" PROVE Same(w, k)
    OBVIOUS
  <2>1. \A s \in unflushed[w] \union unflushed'[w] :
            k \in DOMAIN s.on => s \in unflushed[w] /\ s \in unflushed'[w]
    BY <1>1, <1>2, <1>3
  <2> QED  BY <1>1, <2>1, SameIs
<1>5. \A c : c \in Reached(w)' <=> c \in Reached(w)
  BY <1>1 DEF Reached, UpTo
<1> QED  BY <1>1, <1>4, <1>5, AskedStays

(* What another worker does, except a commit, changes no promise.              *)
LEMMA AskedElsewhere ==
    ASSUME WholeInv, WholeInv', NEW w \in Workers, NEW b, AsAskedInv(w, b), rows' = rows,
           at'[w] = at[w], body'[w] = body[w], i'[w] = i[w], loaded'[w] = loaded[w],
           writes'[w] = writes[w], unflushed'[w] = unflushed[w]
    PROVE  AsAskedInv(w, b)'
<1>1. \A k : Same(w, k)  BY SameIs
<1>2. \A c : c \in Reached(w)' <=> c \in Reached(w)
  BY DEF Reached, UpTo
<1>3. ProfileRead(w, b) => ProfileRead(w, b)'  BY DEF ProfileRead
<1>4. HeaderPromised(w, b) => HeaderPromised(w, b)'  BY <1>1, HeaderStays
<1>5. /\ at[w] = "range" => ProfileRead(w, b)
      /\ at[w] \notin {"checks", "parents", "lookup", "range"} => HeaderPromised(w, b)
  BY DEF AsAskedInv
<1> QED  BY <1>1, <1>2, <1>3, <1>4, <1>5, AskedStays

LEMMA WithinAsked ==
    ASSUME WholeInv, WholeInv', NEW w \in Workers, NEW b, b = body[w], AsAskedInv(w, b),
           Within(w), at'[w] # "newConfig"
    PROVE  AsAskedInv(w, b)'
<1>1. AddConfig(w) => at'[w] = "newConfig"
  BY DEF AddConfig, Goto, WholeInv, TypeOK
<1> QED  BY <1>1, ParentsAsked, ChildrenAsked, LookUpAsked, ReadRangeAsked, StoreConfigAsked,
         StoringAxlesAsked, FlushAsked DEF Within

LEMMA StepAsked ==
    ASSUME WholeInv, AloneStoresAsAsked, NEW o \in Workers, Receive(o) \/ Step(o) \/ Fail(o)
    PROVE  AloneStoresAsAsked'
<1> SUFFICES ASSUME NEW w \in Workers, NEW b \in Bodies,
                    at'[w] \notin {"idle", "newConfig"}, alone'[w], body'[w] = b
             PROVE  AsAskedInv(w, b)'
  BY DEF AloneStoresAsAsked
<1>1. WholeInv'  BY StepWhole
<1>2. Receive(o) \/ Within(o) \/ Aborts(o) \/ Accept(o)  BY StepCases
<1>3. CASE Accept(o)
  <2>1. alone'[w] = FALSE  BY <1>3 DEF Accept
  <2> QED  BY <2>1
<1>4. CASE w # o /\ ~Accept(o)
  <2>1. Elsewhere(o)  BY <1>2, <1>4, ReceiveWhole, WithinIsLocal, AbortsWhole
  <2>2. alone'[w] = alone[w]
    <3>1. CASE Receive(o)  BY <1>4, <3>1 DEF Receive, WholeInv, TypeOK
    <3>2. CASE Aborts(o)  BY <1>4, <3>2 DEF Aborts, WholeInv, TypeOK
    <3>3. CASE Within(o)  BY <3>3, WithinIsLocal
    <3> QED  BY <1>2, <1>4, <3>1, <3>2, <3>3
  <2>3. AsAskedInv(w, b)
    BY <1>4, <2>1, <2>2 DEF AloneStoresAsAsked, Elsewhere
  <2> QED  BY <1>1, <1>4, <2>1, <2>3, AskedElsewhere DEF Elsewhere
<1>5. CASE w = o /\ ~Accept(o)
  <2>1. CASE Aborts(o)  BY <1>5, <2>1, EndedAxles
  <2>2. CASE Receive(o)  BY <1>5, <2>2, ReceiveAsked
  <2>3. CASE Within(o)
    <3>1. at[w] # "idle" /\ body' = body /\ alone' = alone  BY <1>5, <2>3, WithinIsLocal
    <3>2. at[w] # "newConfig"
      <4>1. AddConfig(w) => at'[w] = "newConfig"
        BY DEF AddConfig, Goto, WholeInv, TypeOK
      <4> QED  BY <1>5, <2>3, <4>1 DEF Within, AddParents, AddChildren, LookUp, ReadRange,
               StoreConfig, AtConfig, AtLoop, AddAxles, DeleteMasses, MassesDeleted, ReadLimit,
               UpdateLimits, Flush, hvars
    <3>3. AsAskedInv(w, b)  BY <3>1, <3>2 DEF AloneStoresAsAsked
    <3> QED  BY <1>1, <1>5, <2>3, <3>1, <3>3, WithinAsked
  <2> QED  BY <1>2, <1>5, <2>1, <2>2, <2>3
<1> QED  BY <1>3, <1>4, <1>5

LEMMA InitAsked == Init => AloneStoresAsAsked
BY DEF Init, AloneStoresAsAsked

LEMMA NothingHappensToAsked ==
    ASSUME WholeInv, AloneStoresAsAsked, UNCHANGED vars
    PROVE  AloneStoresAsAsked'
<1>1. WholeInv'  BY NothingHappens
<1> SUFFICES ASSUME NEW w \in Workers, NEW b \in Bodies,
                    at'[w] \notin {"idle", "newConfig"}, alone'[w], body'[w] = b
             PROVE  AsAskedInv(w, b)'
  BY DEF AloneStoresAsAsked
<1>2. AsAskedInv(w, b)  BY DEF AloneStoresAsAsked, vars, hvars
<1> QED  BY <1>1, <1>2, AskedElsewhere DEF vars, dbvars, hvars

(* As long as nobody else commits, what a request's flush and commit will      *)
(* leave of its profile, its range and the configurations it has come to is    *)
(* what it asked for.                                                          *)
THEOREM AskedInvariant == Spec => []AloneStoresAsAsked
<1>1. WholeInv /\ AloneStoresAsAsked /\ [Next]_vars => AloneStoresAsAsked'
  BY StepAsked, NothingHappensToAsked DEF Next
<1> QED  BY <1>1, InitAsked, WholeIsInvariant, PTL DEF Spec

LEMMA AcceptedAsAsked ==
    ASSUME WholeInv, AloneStoresAsAsked, NEW w \in Workers, Accept(w), alone[w]
    PROVE  StoredAsAsked(body[w], rows')
<1> SUFFICES ASSUME NEW b, b = body[w] PROVE StoredAsAsked(b, rows')
  OBVIOUS
<1>1. /\ at[w] \in {"header", "config"} /\ i[w] > Len(b.configs) /\ unflushed[w] = {}
      /\ rows' = Seen(w)
  BY DEF Accept, AtEnd, AtLoop, Commit
<1>2. /\ b \in Bodies /\ DOMAIN b.configs = 1..Len(b.configs) /\ Len(b.configs) \in Nat
      /\ i[w] \in Nat
  BY <1>1, Bodies_ DEF WholeInv
<1>3. AsAskedInv(w, b)  BY <1>1, <1>2 DEF AloneStoresAsAsked
<1>4. \A k, v : Becomes(w, k, v) => k \in DOMAIN rows' /\ rows'[k] = v
  <2>1. \A k : k \notin Pending(w)  BY <1>1 DEF Pending
  <2> QED  BY <1>1, <2>1 DEF Becomes
<1>5. Becomes(w, Profile(b.profile), HeaderRow(b))
  BY <1>1, <1>3 DEF AsAskedInv, HeaderPromised, HeaderRow
<1>6. PICK r : r[1] = "range" /\ r[2] = b.template /\ Becomes(w, r, Lengths(b))
  BY <1>1, <1>3 DEF AsAskedInv, HeaderPromised, Lengths
<1>7. \A n \in DOMAIN b.configs :
          rows'[Config(b.configs[n].id)] = ConfigRow(b, b.configs[n])
  <2> SUFFICES ASSUME NEW n \in DOMAIN b.configs
               PROVE  rows'[Config(b.configs[n].id)] = ConfigRow(b, b.configs[n])
    OBVIOUS
  <2>1. n < i[w]  BY <1>1, <1>2
  <2>2. b.configs[n] \in Reached(w)  BY <2>1 DEF Reached, UpTo
  <2>3. Becomes(w, Config(b.configs[n].id), ConfigRow(b, b.configs[n]))
    BY <1>3, <2>2 DEF AsAskedInv, ConfigPromised, ConfigRow
  <2> QED  BY <1>4, <2>3
<1>8. \A x \in RangesOf(b.template, rows') : x = r
  <2> DEFINE p == Profile(b.profile)
  <2>1. p \in DOMAIN rows' /\ rows'[p] = HeaderRow(b) /\ p[1] = "profile"
    BY <1>4, <1>5, Keys
  <2>2. rows'[p].template = b.template  BY <2>1 DEF HeaderRow
  <2>3. r \in RangesOf(b.template, rows')  BY <1>4, <1>6 DEF RangesOf
  <2>4. AllWhole(rows')  BY CommitIsWhole DEF Whole
  <2> HIDE DEF p
  <2>5. \E y \in RangesOf(b.template, rows') : RangesOf(b.template, rows') = {y}
    BY <2>1, <2>2, <2>4 DEF AllWhole
  <2> QED  BY <2>3, <2>5
<1>9. rows'[Profile(b.profile)] = HeaderRow(b) /\ rows'[r] = Lengths(b)
  BY <1>4, <1>5, <1>6
<1> QED  BY <1>7, <1>8, <1>9 DEF StoredAsAsked, HeaderRow, Lengths, ConfigRow

(* A request during which nobody else commits leaves the profile, every range  *)
(* of its template and its configurations as it named them.                    *)
THEOREM AloneStores == Spec => AloneIsExact
<1>1. WholeInv /\ AloneStoresAsAsked =>
         \A w \in Workers : Accept(w) /\ alone[w] => StoredAsAsked(body[w], rows')
  BY AcceptedAsAsked
<1> QED  BY <1>1, WholeIsInvariant, AskedInvariant, PTL DEF AloneIsExact

(* Vehicles stay whole, requests store their axles together, and a request     *)
(* nothing disturbs is stored as asked, for any requests and workers.          *)
THEOREM VehiclesInvariantHolds == Spec => []VehiclesInv
BY WholeIsInvariant, AxlesInvariant, AskedInvariant, PTL DEF VehiclesInv
=============================================================================
