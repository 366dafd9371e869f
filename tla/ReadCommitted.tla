---------------------------- MODULE ReadCommitted ----------------------------
(* What routes.py uses of PostgreSQL and of a SQLAlchemy session: one          *)
(* transaction per request at READ COMMITTED, a lock on every row it wrote     *)
(* until it ends, unique keys, and a session that collects changes (autoflush  *)
(* is off) and sends them when it is flushed.                                  *)
EXTENDS Naturals

CONSTANTS
    Workers,   \* the processes that serve the API, one request at a time each
    Inexact    \* numbers whose float differs from the stored NUMERIC

VARIABLES
    rows,       \* what is committed: the keys that exist, with their columns
    writes,     \* per worker: the rows its open transaction wrote and locks
    unflushed,  \* per worker: the statements its session has not sent
    targets     \* per worker: the keys its DELETE found when it started

dbvars == <<rows, writes, unflushed, targets>>

Deleted == [deleted |-> TRUE]
Nothing == <<>>   \* the empty function

Row(k, v)  == [x \in {k} |-> v]
Over(f, g) == [x \in DOMAIN f \union DOMAIN g |-> IF x \in DOMAIN f THEN f[x] ELSE g[x]]

(* What a statement of w sees: the committed rows and its own.                 *)
Seen(w) ==
    [k \in (DOMAIN rows \union DOMAIN writes[w]) \ {x \in DOMAIN writes[w] : writes[w][x] = Deleted}
        |-> IF k \in DOMAIN writes[w] THEN writes[w][k] ELSE rows[k]]

Free(w, keys) == \A o \in Workers \ {w} : DOMAIN writes[o] \cap keys = {}

Write(w, changed) == writes' = [writes EXCEPT ![w] = Over(changed, @)]

-----------------------------------------------------------------------------
(* Statements.  An UPDATE sets the columns whose value is not what was read.   *)

Statement(table, op, on) ==
    IF DOMAIN on = {} THEN {} ELSE {[table |-> table, op |-> op, on |-> on]}

Changed(old, new) == {c \in DOMAIN new : new[c] # old[c] \/ new[c] \in Inexact}

Update(table, new, old) ==
    Statement(table, "update",
        [k \in {x \in DOMAIN new : Changed(old[x], new[x]) # {}} |->
            [c \in Changed(old[k], new[k]) |-> new[k][c]]])

Insert(table, new) == Statement(table, "insert", new)

(* A flush takes the tables in this order.                                     *)
FlushOrder == [template |-> 1, range |-> 2, profile |-> 3,
               limit |-> 4, config |-> 5, mass |-> 6]

(* What a flush sends next.                                                    *)
Due(w) ==
    {s \in unflushed[w] :
        \A u \in unflushed[w] : FlushOrder[s.table] <= FlushOrder[u.table]}

\* mutant: UNIQUE (axle_config_id, group_order) is missing
NoUniqueMass(w, s) ==
    s.op = "insert" /\ \E k \in DOMAIN s.on \cap DOMAIN Seen(w) : k[1] # "mass"
Clashes(w, s) == s.op = "insert" /\ DOMAIN s.on \cap DOMAIN Seen(w) # {}

Sent(w, s) ==
    IF s.op = "insert" THEN s.on ELSE [k \in DOMAIN s.on |-> Over(s.on[k], Seen(w)[k])]

(* It waits until nobody else has its rows locked.                             *)
Send(w) ==
    /\ \E s \in Due(w) :
          /\ Free(w, DOMAIN s.on) /\ ~Clashes(w, s)
          /\ Write(w, Sent(w, s))
          /\ unflushed' = [unflushed EXCEPT ![w] = @ \ {s}]
    /\ UNCHANGED <<rows, targets>>

(* A DELETE deletes the rows it found when it started, without those another   *)
(* transaction has deleted or replaced before it got their locks.              *)
StartDelete(w, keys) ==
    /\ targets' = [targets EXCEPT ![w] = keys]
    /\ UNCHANGED <<rows, writes, unflushed>>

FinishDelete(w) ==
    /\ Free(w, targets[w])
    /\ Write(w, [k \in targets[w] |-> Deleted])
    /\ targets' = [targets EXCEPT ![w] = {}]

Commit(w) ==
    /\ unflushed[w] = {}
    /\ rows' = Seen(w)
    /\ writes' = [writes EXCEPT ![w] = Nothing]
    /\ targets' = [o \in Workers |-> targets[o] \ DOMAIN writes[w]]
    /\ UNCHANGED unflushed

\* mutant: a rollback to a savepoint, which undoes the changes and keeps their locks
UndoOnly(w) ==
    /\ writes' = [writes EXCEPT ![w] = [k \in DOMAIN @ \cap DOMAIN rows |-> rows[k]]]
    /\ unflushed' = [unflushed EXCEPT ![w] = {}]
    /\ targets' = [targets EXCEPT ![w] = {}]
    /\ UNCHANGED rows

Rollback(w) ==
    /\ writes' = [writes EXCEPT ![w] = Nothing]
    /\ unflushed' = [unflushed EXCEPT ![w] = {}]
    /\ targets' = [targets EXCEPT ![w] = {}]
    /\ UNCHANGED rows

-----------------------------------------------------------------------------
(* The locks that the statement w is in waits for, and who holds them.         *)
Wanted(w) ==
    targets[w] \union UNION {DOMAIN s.on : s \in Due(w)}

WaitsFor(w, o) == o # w /\ Wanted(w) \cap DOMAIN writes[o] # {}

(* PostgreSQL ends one of the transactions that wait for each other.           *)
Deadlocked(w, waiting) ==
    \E s \in SUBSET waiting :
        /\ w \in s
        /\ \A x \in s : \E y \in s : WaitsFor(x, y)
        /\ \A y \in s : \E x \in s : WaitsFor(x, y)

DatabaseInit(seed) ==
    /\ rows = seed
    /\ writes = [w \in Workers |-> Nothing]
    /\ unflushed = [w \in Workers |-> {}]
    /\ targets = [w \in Workers |-> {}]
=============================================================================
