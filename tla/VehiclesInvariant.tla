-------------------------- MODULE VehiclesInvariant --------------------------
(* The inductive invariants behind the properties of Vehicles.                 *)
EXTENDS Vehicles

Adding(w)  == at[w] # "idle" /\ body[w].op = "add"
Editing(w) == at[w] # "idle" /\ body[w].op = "update"

Pending(w) == UNION {DOMAIN s.on : s \in unflushed[w]}

-----------------------------------------------------------------------------
(* What is stored, and what every transaction would leave, is whole.           *)

Domains ==
    /\ DOMAIN writes = Workers /\ DOMAIN unflushed = Workers
    /\ DOMAIN targets = Workers /\ DOMAIN loaded = Workers /\ DOMAIN i = Workers

(* Where a handler is in its request                                           *)
InPlace(w) ==
    /\ at[w] \in {"idle", "checks", "lookup", "range"} =>
          DOMAIN writes[w] = {} /\ unflushed[w] = {}
    /\ at[w] \in {"idle", "checks", "parents", "lookup", "range", "header"} => i[w] = 1
    /\ at[w] \in {"checks", "parents"} => Adding(w)
    /\ at[w] \in {"lookup", "range", "newConfig", "deleting", "limits"} => Editing(w)
    /\ at[w] \in {"axle", "newConfig", "deleting", "limits"} => i[w] <= Len(body[w].configs)
    /\ at[w] # "deleting" => targets[w] = {}
    /\ at[w] = "deleting" =>
          unflushed[w] = {} /\ \A k \in targets[w] : k[1] = "mass" /\ k[2] = Here(w).id
    /\ at[w] \in {"axle", "deleting", "limits"} =>
          Config(Here(w).id) \in
              (IF Editing(w) THEN DOMAIN rows ELSE DOMAIN writes[w] \union Pending(w))
    /\ at[w] = "range" =>
          LET p == Profile(body[w].profile) IN
          p \in DOMAIN rows /\ rows[p].template = body[w].template
    /\ Adding(w) /\ at[w] # "checks" =>
          LET unsent == IF at[w] = "parents" THEN Pending(w) ELSE {} IN
          /\ Template(body[w].template) \in DOMAIN writes[w] \union unsent
          /\ Category(body[w].category) \in DOMAIN rows \union DOMAIN writes[w] \union unsent

(* The row v that w stores, or is about to, at key k: parents that a request   *)
(* adds are its own until it ends, and an edit leaves them as they are.        *)
Fits(w, k, v) ==
    LET b == body[w]
        mine == Adding(w) /\ Template(b.template) \in DOMAIN writes[w]
    IN
    /\ k[1] \in {"category", "template", "profile", "range", "config", "limit", "mass"}
    /\ k[1] # "mass" => Adding(w) \/ k \in DOMAIN rows
    /\ k[1] = "template" => Adding(w) /\ k = Template(b.template)
    /\ k[1] = "range" =>
          k \in DOMAIN rows \/ (mine /\ k = Range_(b.template, b.profile))
    /\ k[1] = "profile" =>
          \/ /\ k \in DOMAIN rows
             /\ v.template = rows[k].template /\ v.category = rows[k].category
          \/ /\ mine
             /\ v.template = b.template /\ v.category = b.category
             /\ Category(b.category) \in DOMAIN rows \union DOMAIN writes[w]
             /\ Range_(b.template, b.profile) \in DOMAIN writes[w] \union Pending(w)
    /\ k[1] = "config" =>
          \/ k \in DOMAIN rows /\ v.template = rows[k].template
          \/ /\ mine
             /\ v.template = b.template
             /\ \/ LimitsOf(k[2]) \subseteq DOMAIN writes[w] \union Pending(w)
                \/ at[w] = "axle" /\ k = Config(Here(w).id)
    /\ k[1] = "mass" => Config(k[2]) \in DOMAIN rows \union DOMAIN writes[w]

Drafted(w, k) ==
    /\ Fits(w, k, writes[w][k])
    /\ (k[1] = "mass" /\ writes[w][k] = Deleted) \/ Shaped(k, writes[w][k])
    /\ k[1] = "template" => k \notin DOMAIN rows
    /\ k[1] \in {"profile", "config"} /\ Adding(w) => k \notin DOMAIN rows

(* The columns an UPDATE may set                                               *)
Columns ==
    [profile |-> {"default"}, range |-> {"min", "max"}, config |-> {"length"}, limit |-> {"limit"}]

Planned(w, s) ==
    \/ /\ s.op = "insert"
       /\ \A k \in DOMAIN s.on : Fits(w, k, s.on[k]) /\ Shaped(k, s.on[k])
    \/ /\ s.op = "update" /\ Editing(w)
       /\ \A k \in DOMAIN s.on :
             /\ k \in DOMAIN rows
             /\ k[1] \in DOMAIN Columns /\ DOMAIN s.on[k] \subseteq Columns[k[1]]

WorkerInv(w) ==
    /\ InPlace(w)
    /\ \A k \in DOMAIN writes[w] : Drafted(w, k)
    /\ \A s \in unflushed[w] : Planned(w, s)

LocksAreExclusive ==
    \A w, o \in Workers : w # o => DOMAIN writes[w] \cap DOMAIN writes[o] = {}

(* Every row a request stores or queues would leave the vehicles whole,        *)
(* whatever the others do: parents it adds are its own until it ends, what an  *)
(* edit changes exists, and no two requests hold a row.                        *)
WholeInv ==
    /\ TypeOK /\ Domains
    /\ Stored(rows) /\ Whole
    /\ LocksAreExclusive
    /\ \A w \in Workers : WorkerInv(w)

-----------------------------------------------------------------------------
(* What the flush and the commit will make of row k: v.                        *)
Becomes(w, k, v) ==
    /\ \A s \in unflushed[w] : k \in DOMAIN s.on =>
          IF s.op = "insert" THEN s.on[k] = v
          ELSE k \in DOMAIN Seen(w) /\ Over(s.on[k], Seen(w)[k]) = v
    /\ k \notin Pending(w) => k \in DOMAIN Seen(w) /\ Seen(w)[k] = v

(* The configurations the request has come to: those before this one, and this *)
(* one when the handler is at one of these statements.                         *)
UpTo(w, statements) ==
    {body[w].configs[n] : n \in
        {m \in DOMAIN body[w].configs : m < i[w] \/ (m = i[w] /\ at[w] \in statements)}}

Reached(w) == UpTo(w, {"axle", "deleting", "limits"})   \* found acceptable
Massed(w)  == UpTo(w, {"limits"})                       \* their masses are queued
Done(w)    == UpTo(w, {})

(* They are different, and an update names masses for each.                    *)
Accepted(w) ==
    /\ \A m, n \in DOMAIN body[w].configs :
          m < n /\ (n < i[w] \/ (n = i[w] /\ at[w] \in {"axle", "deleting", "limits"})) =>
              body[w].configs[m].id # body[w].configs[n].id
    /\ Editing(w) => \A c \in Reached(w) : c.masses # <<>>

(* The first mass of a configuration is in whatever request stores its axles:  *)
(* it is what makes one of two overlapping requests fail.                      *)
Insists(w, c) ==
    \/ Mass(c, 1) \in DOMAIN writes[w] /\ writes[w][Mass(c, 1)] # Deleted
    \/ \E s \in unflushed[w] : s.op = "insert" /\ Mass(c, 1) \in DOMAIN s.on

(* Another request has committed its first mass since w found none, or deleted *)
(* the ones it found.                                                          *)
Doomed(w, c) == Editing(w) /\ Mass(c, 1) \in DOMAIN rows \ DOMAIN writes[w]

MassesPromised(w, c) ==
    /\ \A n \in DOMAIN c.masses : Becomes(w, Mass(c.id, n), [mass |-> c.masses[n]])
    /\ \A k \in DOMAIN Seen(w) \union Pending(w) :
          k[1] = "mass" /\ k[2] = c.id => \E n \in DOMAIN c.masses : k = Mass(c.id, n)

LimitsPromised(w, c) ==
    \A k \in LimitsOf(c.id) : Becomes(w, k, [limit |-> c.limits[k[3]]])

(* The limits read so far are those committed.                                 *)
LimitsRead(w, c) ==
    \A k \in LimitsOf(c.id) \cap DOMAIN loaded[w] :
        k \in DOMAIN rows /\ loaded[w][k] = rows[k]

(* The masses a DELETE is to find                                              *)
MassesFound(w) ==
    \/ Mass(Here(w).id, 1) \in DOMAIN rows \ targets[w]
    \/ MassesOf(Here(w).id, rows) \subseteq targets[w]

(* The rows of axles that w stores, will store or has read belong to           *)
(* configurations it has come to.                                              *)
OwnAxles(w) ==
    /\ \A k \in DOMAIN writes[w] \union Pending(w) :
          /\ k[1] = "mass" => \E c \in Massed(w) : k[2] = c.id
          /\ k[1] = "limit" => \E c \in Done(w) : k[2] = c.id
    /\ \A k \in DOMAIN loaded[w] :
          k[1] = "limit" => \E c \in Massed(w) : k[2] = c.id

AxlesInv(w) ==
    /\ OwnAxles(w) /\ Accepted(w)
    /\ \A c \in Massed(w) :
          /\ Editing(w) => Config(c.id) \in DOMAIN rows /\ Insists(w, c.id)
          /\ Adding(w) => Config(c.id) \in DOMAIN writes[w]
          /\ Doomed(w, c.id) \/ MassesPromised(w, c)
    /\ \A c \in Done(w) : Doomed(w, c.id) \/ LimitsPromised(w, c)
    /\ \A c \in Massed(w) \ Done(w) : Doomed(w, c.id) \/ LimitsRead(w, c)
    /\ at[w] = "deleting" => MassesFound(w)

(* The masses and limits of the configurations behind a request are those it   *)
(* gave, or will be when it has flushed, or its flush is to fail on the first  *)
(* mass.  A request that is at a new configuration will not be accepted.       *)
AxlesAreKept ==
    \A w \in Workers :
        /\ at[w] = "idle" => DOMAIN loaded[w] = {}
        /\ at[w] \notin {"idle", "newConfig"} => AxlesInv(w)

-----------------------------------------------------------------------------
(* Without a commit of others, what was read is what is stored.                *)
HeaderPromised(w, b) ==
    /\ Becomes(w, Profile(b.profile),
               [template |-> b.template, category |-> b.category, default |-> b.default])
    /\ \E r \in DOMAIN rows \union DOMAIN writes[w] \union Pending(w) :
          r[1] = "range" /\ r[2] = b.template /\ Becomes(w, r, [min |-> b.min, max |-> b.max])

ConfigPromised(w, b, c) ==
    Becomes(w, Config(c.id), [template |-> b.template, length |-> c.length])

ProfileRead(w, b) ==
    LET p == Profile(b.profile) IN
    /\ p \in DOMAIN rows \cap DOMAIN loaded[w] /\ loaded[w][p] = rows[p]
    /\ rows[p].template = b.template /\ rows[p].category = b.category

AsAskedInv(w, b) ==
    /\ at[w] = "range" => ProfileRead(w, b)
    /\ at[w] \notin {"checks", "parents", "lookup", "range"} => HeaderPromised(w, b)
    /\ \A k \in DOMAIN writes[w] \union Pending(w) :
          k[1] = "config" => \E c \in Reached(w) : k[2] = c.id
    /\ \A c \in Reached(w) : ConfigPromised(w, b, c)

(* While nothing else is committed, a request has stored, or will when it has  *)
(* flushed, the profile, the range and the configurations it gave.             *)
AloneStoresAsAsked ==
    \A w \in Workers, b \in Bodies :
        at[w] \notin {"idle", "newConfig"} /\ alone[w] /\ body[w] = b => AsAskedInv(w, b)

(* Vehicles stay whole, requests store their axles together, and what nothing  *)
(* disturbed is stored as asked.                                               *)
VehiclesInv == WholeInv /\ AxlesAreKept /\ AloneStoresAsAsked
=============================================================================
