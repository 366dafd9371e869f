------------------------------ MODULE Vehicles ------------------------------
(* The vehicle administration: admin_add_vehicle and admin_update_vehicle,     *)
(* served by several workers at once.  A vehicle is a profile, a template that *)
(* profiles may share, its range of lengths (with the dimension rule, stored   *)
(* and kept beside it) and its axle configurations, each with the masses of    *)
(* its axle groups and a limit per mass scheme.                                *)
EXTENDS ReadCommitted, Sequences

CONSTANTS
    Bodies,   \* the requests that may come in
    Schemes,  \* GML, CML, HML in the order the code takes them
    Stock,    \* the rows of the seed files
    None,     \* no request
    MaxRequests   \* bound: how many requests come in

VARIABLES
    at,      \* per worker: the statement its handler has come to
    body,    \* per worker: the request it serves
    i,       \* per worker: the position in the loop over axle configurations
    loaded,  \* per worker: the rows its session has read
    received,  \* how many requests have come in
    alone    \* history: nothing was committed while the request was served

hvars == <<at, body, i, loaded, alone, received>>
vars  == <<dbvars, hvars>>

Profile(p)   == <<"profile", p>>
Template(t)  == <<"template", t>>
Category(g)  == <<"category", g>>
Range_(t, p) == <<"range", t, p>>    \* a serial key: one per inserting request
Config(c)    == <<"config", c>>
Mass(c, n)   == <<"mass", c, n>>
Limit(c, s)  == <<"limit", c, s>>

RangesOf(t, table) == {k \in DOMAIN table : k[1] = "range" /\ k[2] = t}
MassesOf(c, table) == {k \in DOMAIN table : k[1] = "mass" /\ k[2] = c}
LimitsOf(c) == {Limit(c, s) : s \in {Schemes[n] : n \in DOMAIN Schemes}}

(* Every profile has its category and template, the template exactly one range *)
(* (which the schema does not ask for), and every configuration a limit for    *)
(* every scheme.                                                               *)
AllWhole(table) ==
    /\ \A k \in DOMAIN table : k[1] = "profile" =>
          /\ {Template(table[k].template), Category(table[k].category)} \subseteq DOMAIN table
          /\ \E r \in RangesOf(table[k].template, table) :
                RangesOf(table[k].template, table) = {r}
    /\ \A k \in DOMAIN table : k[1] = "config" =>
          /\ Template(table[k].template) \in DOMAIN table
          /\ LimitsOf(k[2]) \subseteq DOMAIN table

(* The columns of a row                                                        *)
Shaped(k, v) ==
    /\ k[1] \in {"category", "template"} => v = [kept |-> TRUE]
    /\ k[1] = "profile" =>
          v = [template |-> v.template, category |-> v.category, default |-> v.default]
    /\ k[1] = "range" => v = [min |-> v.min, max |-> v.max]
    /\ k[1] = "config" => v = [template |-> v.template, length |-> v.length]
    /\ k[1] = "limit" => v = [limit |-> v.limit]
    /\ k[1] = "mass" => v = [mass |-> v.mass]

(* Rows have their columns, and refer to rows that exist (foreign keys).       *)
Stored(table) ==
    \A k \in DOMAIN table :
        /\ k[1] \in {"category", "template", "profile", "range", "config", "limit", "mass"}
        /\ Shaped(k, table[k])
        /\ k[1] = "range" => Template(k[2]) \in DOMAIN table
        /\ k[1] = "mass" => Config(k[2]) \in DOMAIN table

IsSequence(s) == s \in Seq({s[n] : n \in DOMAIN s})

ASSUME VehiclesAssumption ==
    /\ MaxRequests \in Nat
    /\ None \notin Bodies
    /\ \A b \in Bodies :
          /\ b.op \in {"add", "update"}
          /\ IsSequence(b.configs)
          /\ \A n \in DOMAIN b.configs : IsSequence(b.configs[n].masses)
    /\ Stored(Stock) /\ AllWhole(Stock)

-----------------------------------------------------------------------------
(* What a request must be to get as far as the database, and each of its       *)
(* configurations to be stored.                                                *)

WellFormed(b) ==
    b.min <= b.default /\ b.default <= b.max

Here(w) == body[w].configs[i[w]]

FitsRange(b, c) == b.min <= c.length /\ c.length <= b.max

Acceptable(b, n) ==
    /\ \A m \in 1..(n - 1) : b.configs[m].id # b.configs[n].id
    /\ FitsRange(b, b.configs[n])
    /\ b.op = "update" => b.configs[n].masses # <<>>

-----------------------------------------------------------------------------
(* Steps of a worker.                                                          *)

Goto(w, next) == at' = [at EXCEPT ![w] = next]

Queue(w, statements) == unflushed' = [unflushed EXCEPT ![w] = @ \union statements]

\* mutant: the loop goes on where the last request left it
EndsInLoop(w) ==
    /\ Goto(w, "idle")
    /\ body' = [body EXCEPT ![w] = None]
    /\ loaded' = [loaded EXCEPT ![w] = Nothing]
    /\ UNCHANGED i
Ends(w) ==
    /\ Goto(w, "idle")
    /\ body' = [body EXCEPT ![w] = None]
    /\ loaded' = [loaded EXCEPT ![w] = Nothing]
    /\ i' = [i EXCEPT ![w] = 1]

(* return, raise: finally closes the session, which rolls back.                *)
Aborts(w) ==
    /\ Rollback(w)
    /\ Ends(w)
    /\ alone' = [alone EXCEPT ![w] = FALSE]
    /\ UNCHANGED received

Receive(w) ==
    /\ at[w] = "idle" /\ received < MaxRequests
    /\ \E b \in Bodies :
          /\ WellFormed(b)
          /\ body' = [body EXCEPT ![w] = b]
          /\ Goto(w, IF b.op = "add" THEN "checks" ELSE "lookup")
    /\ alone' = [alone EXCEPT ![w] = TRUE]
    /\ received' = received + 1
    /\ UNCHANGED <<dbvars, i, loaded>>

-----------------------------------------------------------------------------
(* admin_add_vehicle *)

Exists(w, k) == k \in DOMAIN Seen(w)

AddRefused(w) ==
    /\ at[w] = "checks"
    /\ Exists(w, Profile(body[w].profile)) \/ Exists(w, Template(body[w].template))
    /\ Aborts(w)

Parents(w) ==
    LET b == body[w]
    IN  [k \in ({Category(b.category)} \ DOMAIN Seen(w)) \union {Template(b.template)}
            |-> [kept |-> TRUE]]

\* mutant: a vehicle may be added to a template that exists
AddToTemplate(w) ==
    /\ at[w] = "checks"
    /\ ~Exists(w, Profile(body[w].profile))
    /\ Queue(w, Insert("template", [k \in DOMAIN Parents(w) \ DOMAIN Seen(w) |-> Parents(w)[k]]))
    /\ Goto(w, "parents")
    /\ UNCHANGED <<rows, writes, targets, body, i, loaded, alone, received>>
AddParents(w) ==
    /\ at[w] = "checks"
    /\ ~Exists(w, Profile(body[w].profile)) /\ ~Exists(w, Template(body[w].template))
    /\ Queue(w, Insert("template", Parents(w)))
    /\ Goto(w, "parents")
    /\ UNCHANGED <<rows, writes, targets, body, i, loaded, alone, received>>

AddChildren(w) ==
    /\ at[w] = "parents" /\ unflushed[w] = {}
    /\ LET b == body[w] IN
       Queue(w, Insert("range", Row(Range_(b.template, b.profile), [min |-> b.min, max |-> b.max]))
                \union Insert("profile", Row(Profile(b.profile),
                            [template |-> b.template, category |-> b.category,
                             default |-> b.default])))
    /\ Goto(w, "header")
    /\ UNCHANGED <<rows, writes, targets, body, i, loaded, alone, received>>

-----------------------------------------------------------------------------
(* admin_update_vehicle *)

Known(w) ==
    LET b == body[w]
        p == Profile(b.profile)
    IN  /\ Exists(w, p)
        /\ Seen(w)[p].template = b.template /\ Seen(w)[p].category = b.category

UpdateRefused(w) ==
    /\ at[w] = "lookup" /\ ~Known(w)
    /\ Aborts(w)

LookUp(w) ==
    /\ at[w] = "lookup" /\ Known(w)
    /\ LET p == Profile(body[w].profile) IN
       loaded' = [loaded EXCEPT ![w] = Row(p, Seen(w)[p])]
    /\ Goto(w, "range")
    /\ UNCHANGED <<dbvars, body, i, alone, received>>

(* The range that is read first is updated; there is one (Whole).              *)
ReadRange(w) ==
    /\ at[w] = "range"
    /\ LET b == body[w]
           p == Profile(b.profile)
           r == CHOOSE k \in RangesOf(b.template, Seen(w)) : TRUE
       IN  Queue(w, Update("range", Row(r, [min |-> b.min, max |-> b.max]), Row(r, Seen(w)[r]))
                    \union Update("profile", Row(p, [default |-> b.default]), loaded[w]))
    /\ Goto(w, "header")
    /\ UNCHANGED <<rows, writes, targets, body, i, loaded, alone, received>>

-----------------------------------------------------------------------------
(* The loop over the axle configurations.  What one pass leaves unsent goes    *)
(* with the next flush.                                                        *)

AtLoop(w) == at[w] = "config" \/ (at[w] = "header" /\ unflushed[w] = {})

AtConfig(w) == AtLoop(w) /\ i[w] <= Len(body[w].configs)
AtEnd(w)    == AtLoop(w) /\ i[w] > Len(body[w].configs)

StoredElsewhere(w) ==
    LET k == Config(Here(w).id) IN
    /\ Exists(w, k)
    /\ body[w].op = "update" => Seen(w)[k].template # body[w].template

ConfigRefused(w) ==
    /\ AtConfig(w)
    /\ ~Acceptable(body[w], i[w]) \/ StoredElsewhere(w)
    /\ Aborts(w)

(* A configuration that an update names first is inserted without its display  *)
(* name, which the table does not allow; what the flush takes after it is not  *)
(* sent.                                                                       *)
AddConfig(w) ==
    /\ AtConfig(w) /\ Acceptable(body[w], i[w])
    /\ body[w].op = "update" /\ ~Exists(w, Config(Here(w).id))
    /\ unflushed' = [unflushed EXCEPT ![w] = {s \in @ : s.table = "limit"}]
    /\ Goto(w, "newConfig")
    /\ UNCHANGED <<rows, writes, targets, body, i, loaded, alone, received>>

NewConfigRefused(w) ==
    /\ at[w] = "newConfig" /\ unflushed[w] = {}
    /\ Aborts(w)

\* mutant: a configuration that exists keeps its columns
StatementForNew(w) ==
    IF body[w].op = "add"
    THEN Insert("config", Row(Config(Here(w).id), [template |-> body[w].template,
                                                   length |-> Here(w).length]))
    ELSE {}
ConfigStatement(w) ==
    LET k == Config(Here(w).id) IN
    IF body[w].op = "add"
    THEN Insert("config", Row(k, [template |-> body[w].template, length |-> Here(w).length]))
    ELSE Update("config", Row(k, [length |-> Here(w).length]), Row(k, Seen(w)[k]))

StoreConfig(w) ==
    /\ AtConfig(w) /\ Acceptable(body[w], i[w]) /\ ~StoredElsewhere(w)
    /\ body[w].op = "update" => Exists(w, Config(Here(w).id))
    /\ Queue(w, ConfigStatement(w))
    /\ Goto(w, "axle")
    /\ UNCHANGED <<rows, writes, targets, body, i, loaded, alone, received>>

NewMasses(c) ==
    [k \in {Mass(c.id, n) : n \in DOMAIN c.masses} |-> [mass |-> c.masses[k[3]]]]

NewLimits(c) == [k \in LimitsOf(c.id) |-> [limit |-> c.limits[k[3]]]]

NextConfig(w) ==
    /\ Goto(w, "config")
    /\ i' = [i EXCEPT ![w] = @ + 1]

AddAxles(w) ==
    /\ at[w] = "axle" /\ unflushed[w] = {} /\ body[w].op = "add"
    /\ Queue(w, Insert("limit", NewLimits(Here(w))) \union Insert("mass", NewMasses(Here(w))))
    /\ NextConfig(w)
    /\ UNCHANGED <<rows, writes, targets, body, loaded, alone, received>>

DeleteMasses(w) ==
    /\ at[w] = "axle" /\ unflushed[w] = {} /\ body[w].op = "update"
    /\ StartDelete(w, MassesOf(Here(w).id, Seen(w)))
    /\ Goto(w, "deleting")
    /\ UNCHANGED <<body, i, loaded, alone, received>>

MassesDeleted(w) ==
    /\ at[w] = "deleting"
    /\ FinishDelete(w)
    /\ Queue(w, Insert("mass", NewMasses(Here(w))))
    /\ Goto(w, "limits")
    /\ UNCHANGED <<rows, body, i, loaded, alone, received>>

Unread(w) == {n \in DOMAIN Schemes : Limit(Here(w).id, Schemes[n]) \notin DOMAIN loaded[w]}

ReadLimit(w) ==
    /\ at[w] = "limits" /\ Unread(w) # {}
    /\ LET n == CHOOSE n \in Unread(w) : \A m \in Unread(w) : n <= m
           k == Limit(Here(w).id, Schemes[n])
       IN  loaded' = [loaded EXCEPT ![w] = Over(Row(k, Seen(w)[k]), @)]
    /\ UNCHANGED <<dbvars, at, body, i, alone, received>>

UpdateLimits(w) ==
    /\ at[w] = "limits" /\ Unread(w) = {}
    /\ Queue(w, Update("limit", NewLimits(Here(w)), loaded[w]))
    /\ NextConfig(w)
    /\ UNCHANGED <<rows, writes, targets, body, loaded, alone, received>>

-----------------------------------------------------------------------------
(* Flushing, and the end of a request.                                         *)

Flushing(w) == at[w] \in {"parents", "header", "axle", "newConfig"} \/ AtEnd(w)

Flush(w) == Flushing(w) /\ Send(w) /\ UNCHANGED hvars

(* IntegrityError *)
FlushRefused(w) ==
    /\ Flushing(w)
    /\ \E s \in Due(w) : Free(w, DOMAIN s.on) /\ Clashes(w, s)
    /\ Aborts(w)

Accept(w) ==
    /\ AtEnd(w)
    /\ Commit(w)
    /\ Ends(w)
    /\ alone' = [o \in Workers |-> FALSE]
    /\ UNCHANGED received

Waiting(w) == Flushing(w) \/ at[w] = "deleting"

Victim(w) == Deadlocked(w, {o \in Workers : Waiting(o)}) /\ Aborts(w)

(* A mass that is no number, a value the column cannot hold, a worker that is  *)
(* killed at its timeout, a lost connection.                                   *)
Fail(w) == at[w] # "idle" /\ Aborts(w)

Refuses(w) ==
    \/ AddRefused(w) \/ UpdateRefused(w) \/ ConfigRefused(w) \/ NewConfigRefused(w)
    \/ FlushRefused(w)

Step(w) ==
    \/ AddRefused(w) \/ AddParents(w) \/ AddChildren(w)
    \/ UpdateRefused(w) \/ LookUp(w) \/ ReadRange(w)
    \/ ConfigRefused(w) \/ StoreConfig(w)
    \/ AddConfig(w) \/ NewConfigRefused(w)
    \/ AddAxles(w) \/ DeleteMasses(w) \/ MassesDeleted(w)
    \/ ReadLimit(w) \/ UpdateLimits(w)
    \/ Flush(w) \/ FlushRefused(w) \/ Accept(w) \/ Victim(w)

Next == \E w \in Workers : Receive(w) \/ Step(w) \/ Fail(w)

Init ==
    /\ DatabaseInit(Stock)
    /\ at = [w \in Workers |-> "idle"]
    /\ body = [w \in Workers |-> None]
    /\ i = [w \in Workers |-> 1]
    /\ loaded = [w \in Workers |-> Nothing]
    /\ received = 0
    /\ alone = [w \in Workers |-> FALSE]

Spec == Init /\ [][Next]_vars

(* A worker goes on with its request, and PostgreSQL ends deadlocks.           *)
FairSpec == Spec /\ \A w \in Workers : WF_vars(Step(w))

-----------------------------------------------------------------------------
(* Properties. *)

Ids(b) == {b.configs[n].id : n \in DOMAIN b.configs}

Pcs == {"idle", "checks", "parents", "lookup", "range", "header", "config",
        "axle", "newConfig", "deleting", "limits"}

TypeOK ==
    /\ at \in [Workers -> Pcs]
    /\ body \in [Workers -> Bodies \union {None}]
    /\ \A w \in Workers : at[w] # "idle" =>
          body[w] \in Bodies /\ i[w] \in 1..(Len(body[w].configs) + 1)
    /\ alone \in [Workers -> BOOLEAN]
    /\ received \in 0..MaxRequests

(* Every stored vehicle is whole, whoever added or changed it beside whom.     *)
Whole == AllWhole(rows)

(* The axle data of configuration c are those of the request. *)
AxlesAre(c, table) ==
    /\ MassesOf(c.id, table) = {Mass(c.id, n) : n \in DOMAIN c.masses}
    /\ \A n \in DOMAIN c.masses : table[Mass(c.id, n)].mass = c.masses[n]
    /\ \A k \in LimitsOf(c.id) : table[k].limit = c.limits[k[3]]

(* An accepted request has stored the group masses and the limits of each of   *)
(* its configurations together and as it gave them, even when other requests   *)
(* for the same configuration were committed while it ran: two overlapping     *)
(* edits are never mixed into masses of one and limits of the other.           *)
StoresItsAxles ==
    [][\A w \in Workers : Accept(w) =>
          \A n \in DOMAIN body[w].configs : AxlesAre(body[w].configs[n], rows')]_vars

(* A request during which nothing else was committed leaves in every table     *)
(* what it said.                                                               *)
StoredAsAsked(b, table) ==
    /\ table[Profile(b.profile)] =
          [template |-> b.template, category |-> b.category, default |-> b.default]
    /\ \A r \in RangesOf(b.template, table) : table[r] = [min |-> b.min, max |-> b.max]
    /\ \A n \in DOMAIN b.configs :
          table[Config(b.configs[n].id)] =
              [template |-> b.template, length |-> b.configs[n].length]

AloneIsExact ==
    [][\A w \in Workers : Accept(w) /\ alone[w] => StoredAsAsked(body[w], rows')]_vars

(* Every request is answered, although requests wait for each other's locks.   *)
Answered == \A w \in Workers : at[w] # "idle" ~> at[w] = "idle"

(* A request that nothing else disturbs is refused only for a reason.  It does *)
(* not hold: test_successfully_add_new_axle_during_edit expects 200 for an     *)
(* update that names a new configuration (test_admin_edit_vehicle.py:1330).    *)
HasReason(b) ==
    \/ b.op = "add"
    \/ Profile(b.profile) \notin DOMAIN rows
    \/ rows[Profile(b.profile)].template # b.template
    \/ rows[Profile(b.profile)].category # b.category
    \/ \E n \in DOMAIN b.configs :
          \/ ~Acceptable(b, n)
          \/ /\ Config(b.configs[n].id) \in DOMAIN rows
             /\ rows[Config(b.configs[n].id)].template # b.template

RefusedForAReason ==
    [][\A w \in Workers : Refuses(w) /\ alone[w] => HasReason(body[w])]_vars
=============================================================================
