---------------------------- MODULE SearchProofs ----------------------------
(* Proofs about the two searches of RouteSearch.  First BucketQueue alone: a  *)
(* queue holds a set of labels, each once, in the bucket that its cost asks   *)
(* for, through adds, decreases, pops and refills.  Then the queues of the     *)
(* searches, what is popped from them, the types that follow, and that the     *)
(* searches find a route where there is one.                                  *)
EXTENDS RouteProofs

Places == 0..Count + 1
IsOnce(s) == \A i, j \in DOMAIN s : s[i] = s[j] => i = j

(* The current bucket begins at the current cost, save in a queue that was    *)
(* popped when it held nothing.                                               *)
Ranged(q) ==
    /\ q \in Queue
    /\ \/ q.current = q.low + (q.at - 1) * Width
       \/ q.at = Count + 1 /\ q.current >= q.low + Count * Width

(* q holds the labels S, of the costs given.                                  *)
Holds(q, cost, S) ==
    \A b \in Places :
        /\ ToSet(Contents(q, b)) = {i \in S : BucketOf(q, cost[i]) = b}
        /\ IsOnce(Contents(q, b))

(* Nothing held costs less than the current cost, once that is above low.     *)
Rises(q, cost, S, low) == q.current = low \/ \A i \in S : q.current <= cost[i]
(* No label of S costs a bucket less than i, taking low for what is below it. *)
IsCheapest(i, cost, S, low) ==
    \A j \in S : cost[i] < Width + (IF cost[j] < low THEN low ELSE cost[j])

-----------------------------------------------------------------------------
(* What is kept of a sequence. *)

LEMMA KeptIs ==
    ASSUME NEW T, NEW s \in Seq(T), NEW S
    PROVE  /\ Kept(s, S) \in Seq(T) /\ ToSet(Kept(s, S)) = ToSet(s) \cap S
           /\ IsOnce(s) => IsOnce(Kept(s, S))
<1> DEFINE N == Len(s)
           Next_(u, k) == IF s[k] \in S THEN Append(u, s[k]) ELSE u
           Step_(U) == [k \in 0..N |->
                           IF k = 0 THEN <<>>
                           ELSE IF s[k] \in S THEN Append(U[k - 1], s[k]) ELSE U[k - 1]]
           G == [k \in 1..N |-> [u \in Seq(T) |-> Next_(u, k)]]
<1>1. N \in Nat /\ DOMAIN s = 1..N /\ \A k \in 1..N : s[k] \in T
  OBVIOUS
<1> HIDE DEF N
<1>2. <<>> \in Seq(T) /\ G \in [1..N -> [Seq(T) -> Seq(T)]]
  BY <1>1
<1>3. \E F \in [0..N -> Seq(T)] : F[0] = <<>> /\ \A k \in 1..N : F[k] = Next_(F[k - 1], k)
  <2>1. PICK F \in [0..N -> Seq(T)] : F[0] = <<>> /\ \A k \in 1..N : F[k] = G[k][F[k - 1]]
    <3> DEFINE Q == Seq(T)
               none == <<>>
    <3> HIDE DEF G, Q, none
    <3>1. none \in Q /\ G \in Steps(N, Q)  BY <1>2 DEF Q, none, Steps
    <3>2. N \in Nat  BY <1>1
    <3>3. \E F : Iterates(F, N, Q, none, G)  BY <3>1, <3>2, Recursion
    <3> QED  BY <3>3 DEF Q, none, Iterates
  <2>2. \A k \in 1..N : k - 1 \in 0..N /\ F[k - 1] \in Seq(T)
    BY <1>1
  <2>3. \A k \in 1..N : G[k][F[k - 1]] = Next_(F[k - 1], k)
    BY <2>2
  <2> QED  BY <2>1, <2>3
<1>4. \E U : U = Step_(U)
  <2>1. PICK F \in [0..N -> Seq(T)] : F[0] = <<>> /\ \A k \in 1..N : F[k] = Next_(F[k - 1], k)
    BY <1>3
  <2>2. ASSUME NEW k \in 0..N PROVE F[k] = Step_(F)[k]
    <3>1. CASE k = 0  BY <2>1, <3>1
    <3>2. CASE k # 0
      <4>1. k \in 1..N  BY <1>1, <3>2
      <4>2. F[k] = Next_(F[k - 1], k)  BY <2>1, <4>1
      <4> QED  BY <3>2, <4>2
    <3> QED  BY <3>1, <3>2
  <2>3. F = Step_(F)
    <3>1. DOMAIN F = 0..N  BY <2>1
    <3> QED  BY <2>1, <2>2, <3>1
  <2> QED  BY <2>3
<1> DEFINE U == CHOOSE V : V = Step_(V)
<1>5. U = Step_(U)
  BY <1>4
<1>6. Kept(s, S) = U[N]
  BY DEF Kept, N
<1> HIDE DEF U
<1>7. U[0] = <<>> /\ \A k \in 1..N : U[k] = Next_(U[k - 1], k)
  <2>1. \A k \in 0..N : U[k] = Step_(U)[k]
    BY <1>5
  <2> HIDE DEF U
  <2> QED  BY <1>1, <2>1
<1> DEFINE Upto(k) == {s[j] : j \in 1..k}
           Good(k) == /\ U[k] \in Seq(T) /\ ToSet(U[k]) = Upto(k) \cap S
                      /\ IsOnce(s) => IsOnce(U[k])
           A == {k \in 0..N : Good(k)}
<1>8. 0 \in A
  <2>1. U[0] \in Seq(T) /\ DOMAIN U[0] = {} /\ 0 \in 0..N /\ 1..0 = {}
    BY <1>1, <1>7
  <2>2. ToSet(U[0]) = {} /\ Upto(0) = {} /\ IsOnce(U[0])
    BY <2>1 DEF IsOnce, ToSet
  <2> QED  BY <2>1, <2>2
<1>9. ASSUME NEW k \in 1..N, k - 1 \in A PROVE k \in A
  <2>1. Good(k - 1) /\ s[k] \in T /\ U[k] = Next_(U[k - 1], k)
    BY <1>1, <1>7, <1>9
  <2>2. Upto(k) = Upto(k - 1) \cup {s[k]}
    <3>1. 1..k = (1..k - 1) \cup {k}  OBVIOUS
    <3> QED  BY <3>1
  <2>3. CASE s[k] \notin S
    BY <2>1, <2>2, <2>3
  <2>4. CASE s[k] \in S
    <3> DEFINE u == U[k - 1]
               v == Append(u, s[k])
    <3>1. u \in Seq(T) /\ U[k] = v
      BY <2>1, <2>4
    <3> HIDE DEF U
    <3>2. /\ v \in Seq(T) /\ DOMAIN v = 1..Len(u) + 1 /\ Len(u) \in Nat /\ DOMAIN u = 1..Len(u)
          /\ v[Len(u) + 1] = s[k] /\ \A i \in 1..Len(u) : v[i] = u[i]
      BY <2>1, <3>1
    <3>3. ToSet(v) = ToSet(u) \cup {s[k]}
      <4>1. 1..Len(u) + 1 = (1..Len(u)) \cup {Len(u) + 1}  BY <3>2
      <4> QED  BY <3>2, <4>1 DEF ToSet
    <3>4. ToSet(U[k]) = Upto(k) \cap S
      <4> HIDE DEF v, u, Upto
      <4>1. ToSet(u) = Upto(k - 1) \cap S  BY <2>1 DEF u
      <4> QED  BY <2>2, <2>4, <3>1, <3>3, <4>1
    <3>5. ASSUME IsOnce(s) PROVE IsOnce(v)
      <4>1. IsOnce(u) /\ ToSet(u) = Upto(k - 1) \cap S  BY <2>1, <3>5
      <4>2. s[k] \notin Upto(k - 1)  BY <1>1, <3>5 DEF IsOnce
      <4>3. \A i \in 1..Len(u) : u[i] # s[k]
        <5>1. \A i \in 1..Len(u) : u[i] \in ToSet(u)  BY <3>2 DEF ToSet
        <5> HIDE DEF u, Upto
        <5> QED  BY <4>1, <4>2, <5>1
      <4> HIDE DEF u, v, Upto
      <4> QED  BY <3>2, <4>1, <4>3 DEF IsOnce
    <3> HIDE DEF u, v
    <3> QED  BY <3>1, <3>2, <3>4, <3>5
  <2> QED  BY <2>3, <2>4
<1>10. N \in A
  <2> HIDE DEF A
  <2> QED  BY <1>1, <1>8, <1>9, UpTo
<1>11. ToSet(s) = Upto(N)
  BY <1>1 DEF ToSet
<1> QED  BY <1>6, <1>10, <1>11

LEMMA AppendedIs ==
    ASSUME NEW T, NEW s \in Seq(T), NEW x \in T
    PROVE  /\ Append(s, x) \in Seq(T) /\ ToSet(Append(s, x)) = ToSet(s) \cup {x}
           /\ IsOnce(s) /\ x \notin ToSet(s) => IsOnce(Append(s, x))
<1> DEFINE t == Append(s, x)
           n == Len(s)
<1>1. /\ t \in Seq(T) /\ n \in Nat /\ DOMAIN s = 1..n /\ DOMAIN t = (1..n) \cup {n + 1}
      /\ n + 1 \notin 1..n /\ t[n + 1] = x /\ \A i \in 1..n : t[i] = s[i]
  OBVIOUS
<1> HIDE DEF t, n
<1>2. ToSet(t) = ToSet(s) \cup {x}
  BY <1>1 DEF ToSet
<1>3. IsOnce(s) /\ x \notin ToSet(s) => IsOnce(t)
  BY <1>1 DEF IsOnce, ToSet
<1> QED  BY <1>1, <1>2, <1>3 DEF t

LEMMA FrontIs ==
    ASSUME NEW T, NEW s \in Seq(T), s # <<>>, IsOnce(s)
    PROVE  /\ Front(s) \in Seq(T) /\ IsOnce(Front(s)) /\ Last(s) \in ToSet(s)
           /\ ToSet(Front(s)) = ToSet(s) \ {Last(s)}
<1> DEFINE n == Len(s)
           t == Front(s)
<1>1. /\ n \in Nat \ {0} /\ DOMAIN s = (1..n - 1) \cup {n} /\ n \notin 1..n - 1
      /\ Last(s) = s[n] /\ DOMAIN t = 1..n - 1
      /\ t \in Seq(T) /\ \A i \in 1..n - 1 : t[i] = s[i]
  <2>1. n \in Nat \ {0} /\ DOMAIN s = 1..n /\ Last(s) = s[n]
    BY DEF Last
  <2>2. t = SubSeq(s, 1, n - 1)
    BY DEF Front
  <2> HIDE DEF t
  <2>3. t \in Seq(T) /\ DOMAIN t = 1..n - 1 /\ \A i \in 1..n - 1 : t[i] = s[i]
    BY <2>1, <2>2
  <2> QED  BY <2>1, <2>3
<1> HIDE DEF n, t
<1>2. \A i \in 1..n - 1 : s[i] # s[n]
  BY <1>1 DEF IsOnce
<1>3. ToSet(t) = ToSet(s) \ {s[n]}
  BY <1>1, <1>2 DEF ToSet
<1>4. IsOnce(t) /\ s[n] \in ToSet(s)
  BY <1>1 DEF IsOnce, ToSet
<1> QED  BY <1>1, <1>3, <1>4 DEF t

-----------------------------------------------------------------------------
(* Where a cost belongs. *)

LEMMA Division ==
    ASSUME NEW x \in Int, NEW W \in Nat \ {0}
    PROVE  x \div W \in Int /\ W * (x \div W) <= x /\ x < W * (x \div W) + W
OBVIOUS

LEMMA Quotient ==
    ASSUME NEW x \in Int, NEW W \in Nat \ {0}, NEW k \in Int
    PROVE  (k <= x \div W) <=> (k * W <= x)
<1> DEFINE d == x \div W
<1>1. d \in Int /\ W * d <= x /\ x < W * d + W
  BY Division
<1> HIDE DEF d
<1>2. CASE k <= d
  <2>1. k * W <= d * W  BY <1>1, <1>2
  <2> QED  BY <1>1, <1>2, <2>1
<1>3. CASE d + 1 <= k
  <2>1. (d + 1) * W <= k * W  BY <1>1, <1>3
  <2>2. (d + 1) * W = W * d + W  BY <1>1
  <2> QED  BY <1>1, <1>3, <2>1, <2>2
<1> QED  BY <1>1, <1>2, <1>3 DEF d

LEMMA SlotIs ==
    ASSUME NEW q \in Queue, NEW c \in Int, NEW k \in Int
    PROVE  /\ Slot(q, c) \in Int
           /\ k <= Slot(q, c) <=> q.low + (k - 1) * Width <= c
<1>1. q.low \in Int /\ Width \in Nat \ {0}
  BY BucketAssumption DEF Queue
<1> DEFINE x == c - q.low
           j == k - 1
<1>2. x \in Int /\ j \in Int  BY <1>1
<1>3. (j <= x \div Width) <=> (j * Width <= x)  BY <1>1, <1>2, Quotient
<1>4. x \div Width \in Int /\ j * Width \in Int  BY <1>1, <1>2, Division
<1>5. Slot(q, c) = 1 + (x \div Width)  BY DEF Slot
<1>6. k <= Slot(q, c) <=> j <= x \div Width  BY <1>4, <1>5
<1>7. (j * Width <= x) <=> (q.low + (k - 1) * Width <= c)
  <2> DEFINE y == j * Width
  <2>1. y \in Int  BY <1>4
  <2> HIDE DEF y
  <2>2. (y <= c - q.low) <=> (q.low + y <= c)  BY <1>1, <2>1
  <2> QED  BY <2>2 DEF y
<1> QED  BY <1>3, <1>4, <1>5, <1>6, <1>7

LEMMA PlaceIs ==
    ASSUME NEW q, Ranged(q), NEW c \in Int
    PROVE  /\ BucketOf(q, c) \in Places
           /\ BucketOf(q, c) = 0 \/ q.at <= BucketOf(q, c)
           /\ BucketOf(q, c) = 0 => Max_(q) <= c
           /\ BucketOf(q, c) # 0 /\ q.current <= c =>
                 BucketOf(q, c) = Slot(q, c) /\ BucketOf(q, c) <= Count
<1> DEFINE end == q.low + Count * Width
           here == q.low + (q.at - 1) * Width
<1>1. /\ q \in Queue /\ q.low \in Int /\ q.current \in Int /\ q.at \in 1..Count + 1
      /\ Width \in Nat \ {0} /\ Count \in Nat \ {0}
  BY BucketAssumption DEF Ranged, Queue, Buckets
<1>2. end \in Int /\ here \in Int /\ Max_(q) = end
  BY <1>1 DEF Max_, Range_
<1>3. q.current = here \/ (q.at = Count + 1 /\ q.current >= end)
  BY DEF Ranged
<1>4. /\ q.at <= Slot(q, c) <=> here <= c
      /\ Count + 1 <= Slot(q, c) <=> end <= c
      /\ Slot(q, c) \in Int
  <2>1. Count + 1 <= Slot(q, c) <=> q.low + ((Count + 1) - 1) * Width <= c
    BY <1>1, SlotIs
  <2>2. (Count + 1) - 1 = Count  BY <1>1
  <2>3. q.at <= Slot(q, c) <=> q.low + (q.at - 1) * Width <= c
    BY <1>1, SlotIs
  <2> QED  BY <1>1, <2>1, <2>2, <2>3, SlotIs
<1>5. q.at = Count + 1 => here = end
  BY <1>1
<1> HIDE DEF end, here
<1> QED  BY <1>1, <1>2, <1>3, <1>4, <1>5 DEF BucketOf, Places

(* Moving on to a bucket leaves the costs where they belong.                  *)
LEMMA AdvancedIs ==
    ASSUME NEW q, Ranged(q), NEW b \in Buckets, q.at <= b
    PROVE  /\ Ranged(AdvanceTo(q, b)) /\ AdvanceTo(q, b).at = b
           /\ AdvanceTo(q, b).low = q.low
           /\ AdvanceTo(q, b).bucket = q.bucket /\ AdvanceTo(q, b).overflow = q.overflow
           /\ b = q.at => AdvanceTo(q, b).current = q.current
           /\ b > q.at => AdvanceTo(q, b).current = q.low + (b - 1) * Width
           /\ \A c \in Int : BucketOf(q, c) = 0 \/ b <= BucketOf(q, c) =>
                 BucketOf(AdvanceTo(q, b), c) = BucketOf(q, c)
<1> DEFINE r == AdvanceTo(q, b)
           there == q.low + (b - 1) * Width
<1>1. /\ q \in Queue /\ q.low \in Int /\ q.current \in Int /\ q.at \in 1..Count + 1
      /\ Width \in Nat \ {0} /\ Count \in Nat \ {0} /\ b \in 1..Count + 1
  BY BucketAssumption DEF Ranged, Queue, Buckets
<1>2. /\ r.at = b /\ r.low = q.low /\ r.bucket = q.bucket /\ r.overflow = q.overflow
      /\ r.current = q.current + (b - q.at) * Width /\ r \in Queue
  <2>1. q.current + (b - q.at) * Width \in Int  BY <1>1
  <2> QED  BY <1>1, <2>1 DEF AdvanceTo, Queue
<1>3. CASE b = q.at
  <2>1. r.current = q.current  BY <1>1, <1>2, <1>3
  <2> HIDE DEF r
  <2>2. \A c \in Int : BucketOf(r, c) = BucketOf(q, c)
    BY <1>2, <1>3, <2>1 DEF BucketOf, Slot, Max_
  <2>3. Ranged(r)  BY <1>2, <1>3, <2>1 DEF Ranged
  <2> QED  BY <1>1, <1>2, <1>3, <2>1, <2>2, <2>3 DEF r
<1>4. CASE b > q.at
  <2>1. q.at # Count + 1  BY <1>1, <1>4
  <2>2. q.current = q.low + (q.at - 1) * Width  BY <2>1 DEF Ranged
  <2>3. r.current = there  BY <1>1, <1>2, <2>2
  <2> HIDE DEF r
  <2>4. Ranged(r)  BY <1>2, <2>3 DEF Ranged
  <2>5. ASSUME NEW c \in Int, BucketOf(q, c) = 0 \/ b <= BucketOf(q, c)
        PROVE  BucketOf(r, c) = BucketOf(q, c)
    <3> DEFINE end == q.low + Count * Width
    <3>1. there \in Int /\ end \in Int /\ Max_(q) = end /\ Max_(r) = end /\ there <= end
      <4>1. (b - 1) * Width <= Count * Width  BY <1>1
      <4>2. (b - 1) * Width \in Int /\ Count * Width \in Int  BY <1>1
      <4>3. Count * Width = Width * Count  BY <1>1
      <4> QED  BY <1>1, <1>2, <4>1, <4>2, <4>3 DEF Max_, Range_
    <3>2. BucketOf(q, c) # q.at  BY <1>1, <1>4, <2>5
    <3>3. q.current <= c  BY <1>1, <3>2 DEF BucketOf
    <3>4. Slot(r, c) = Slot(q, c)  BY <1>2 DEF Slot
    <3>5. b <= Slot(q, c) <=> there <= c  BY <1>1, SlotIs
    <3> HIDE DEF there, end
    <3>6. CASE BucketOf(q, c) = 0
      <4>1. end <= c  BY <3>1, <3>6, PlaceIs
      <4>2. ~(c < r.current) /\ ~(c < Max_(r))  BY <2>3, <3>1, <4>1
      <4> QED  BY <3>6, <4>2 DEF BucketOf
    <3>7. CASE BucketOf(q, c) # 0
      <4>1. BucketOf(q, c) = Slot(q, c) /\ b <= Slot(q, c)  BY <2>5, <3>3, <3>7, PlaceIs
      <4>2. c < Max_(q)  BY <1>1, <3>3, <3>7 DEF BucketOf
      <4>3. there <= c  BY <3>5, <4>1
      <4>4. ~(c < r.current) /\ c < Max_(r)  BY <2>3, <3>1, <4>2, <4>3
      <4> QED  BY <3>4, <4>1, <4>4 DEF BucketOf
    <3> QED  BY <3>6, <3>7
  <2> QED  BY <1>1, <1>2, <1>4, <2>3, <2>4, <2>5 DEF r
<1> QED  BY <1>1, <1>3, <1>4

-----------------------------------------------------------------------------
(* What the operations do to the labels a queue holds. *)

LEMMA BucketsAre ==
    ASSUME NEW q \in Queue
    PROVE  /\ \A b \in Places : Contents(q, b) \in Seq(Nat)
           /\ Places = {0} \cup Buckets /\ 0 \notin Buckets
BY BucketAssumption DEF Contents, Places, Queue, Buckets

LEMMA PushedIs ==
    ASSUME NEW q \in Queue, NEW b \in Places, NEW i \in Nat
    PROVE  LET r == PushTo(q, b, i) IN
           /\ r \in Queue /\ r.low = q.low /\ r.current = q.current /\ r.at = q.at
           /\ \A c \in Places :
                 Contents(r, c) = IF c = b THEN Append(Contents(q, c), i) ELSE Contents(q, c)
<1>1. CASE b = 0
  <2> DEFINE s == Append(q.overflow, i)
  <2>1. s \in Seq(Nat)  BY DEF Queue
  <2>2. PushTo(q, b, i) = [q EXCEPT !.overflow = s]  BY <1>1 DEF PushTo
  <2> HIDE DEF s
  <2>3. /\ PushTo(q, b, i) \in Queue
        /\ PushTo(q, b, i).low = q.low /\ PushTo(q, b, i).current = q.current
        /\ PushTo(q, b, i).at = q.at /\ PushTo(q, b, i).bucket = q.bucket
        /\ PushTo(q, b, i).overflow = s
    BY <2>1, <2>2 DEF Queue
  <2> QED  BY <1>1, <2>3, BucketsAre DEF Contents, s
<1>2. CASE b \in Buckets
  <2>1. b # 0  BY <1>2, BucketsAre
  <2> DEFINE s == Append(q.bucket[b], i)
  <2>2. s \in Seq(Nat)  BY <1>2 DEF Queue
  <2>3. PushTo(q, b, i) = [q EXCEPT !.bucket = [q.bucket EXCEPT ![b] = s]]
    BY <2>1 DEF PushTo
  <2> HIDE DEF s
  <2>4. /\ PushTo(q, b, i) \in Queue
        /\ PushTo(q, b, i).overflow = q.overflow
        /\ \A c \in Buckets : PushTo(q, b, i).bucket[c] = IF c = b THEN s ELSE q.bucket[c]
    BY <1>2, <2>2, <2>3 DEF Queue
  <2>5. /\ PushTo(q, b, i).low = q.low /\ PushTo(q, b, i).current = q.current
        /\ PushTo(q, b, i).at = q.at
    BY <2>3 DEF Queue
  <2> QED  BY <1>2, <2>1, <2>4, <2>5, BucketsAre DEF Contents, s
<1> QED  BY <1>1, <1>2, BucketsAre

LEMMA TakenIs ==
    ASSUME NEW q \in Queue, NEW b \in Places, NEW i
    PROVE  LET r == TakeFrom(q, b, i) IN
           /\ r \in Queue /\ r.low = q.low /\ r.current = q.current /\ r.at = q.at
           /\ \A c \in Places :
                 Contents(r, c) = IF c = b THEN Without(Contents(q, c), i) ELSE Contents(q, c)
<1>1. \A c \in Places : Without(Contents(q, c), i) \in Seq(Nat)
  BY BucketsAre, KeptIs DEF Without
<1>2. CASE b = 0
  <2>1. Without(q.overflow, i) \in Seq(Nat)  BY <1>1, <1>2 DEF Contents
  <2> QED  BY <1>2, <2>1, BucketsAre DEF TakeFrom, Contents, Queue
<1>3. CASE b \in Buckets
  <2>1. b # 0  BY <1>3, BucketsAre
  <2> DEFINE s == Without(q.bucket[b], i)
  <2>2. s \in Seq(Nat)  BY <1>1, <2>1 DEF Contents
  <2>3. TakeFrom(q, b, i) = [q EXCEPT !.bucket = [q.bucket EXCEPT ![b] = s]]
    BY <2>1 DEF TakeFrom
  <2> HIDE DEF s
  <2>4. /\ TakeFrom(q, b, i) \in Queue
        /\ TakeFrom(q, b, i).overflow = q.overflow
        /\ \A c \in Buckets : TakeFrom(q, b, i).bucket[c] = IF c = b THEN s ELSE q.bucket[c]
    BY <1>3, <2>2, <2>3 DEF Queue
  <2>5. /\ TakeFrom(q, b, i).low = q.low /\ TakeFrom(q, b, i).current = q.current
        /\ TakeFrom(q, b, i).at = q.at
    BY <2>3 DEF Queue
  <2> QED  BY <1>3, <2>1, <2>4, <2>5, BucketsAre DEF Contents, s
<1> QED  BY <1>2, <1>3, BucketsAre

LEMMA BucketOfKept ==
    ASSUME NEW q, NEW r, r.low = q.low, r.current = q.current, r.at = q.at
    PROVE  \A c : BucketOf(r, c) = BucketOf(q, c)
BY DEF BucketOf, Slot, Max_

LEMMA EmptyHolds ==
    ASSUME NEW m \in Int, NEW cost
    PROVE  Ranged(EmptyQueue(m)) /\ Holds(EmptyQueue(m), cost, {})
<1> DEFINE q == EmptyQueue(m)
<1>1. Width \in Nat \ {0} /\ Count \in Nat \ {0}  BY BucketAssumption
<1>2. m - (m % Width) \in Int  BY <1>1
<1>3. q \in Queue /\ q.current = q.low /\ q.at = 1  BY <1>1, <1>2 DEF EmptyQueue, Queue, Buckets
<1>4. Ranged(q)
  <2>1. (1 - 1) * Width = 0 /\ q.low \in Int  BY <1>1, <1>3 DEF Queue
  <2> HIDE DEF q
  <2> QED  BY <1>3, <2>1 DEF Ranged
<1>5. \A b \in Places : Contents(q, b) = <<>>  BY BucketsAre, <1>3 DEF Contents, EmptyQueue
<1>6. Holds(q, cost, {})
  <2>1. ToSet(<<>>) = {} /\ IsOnce(<<>>)  BY DEF ToSet, IsOnce
  <2> HIDE DEF q
  <2> QED  BY <1>5, <2>1 DEF Holds
<1> QED  BY <1>4, <1>6

(* What is held is held once: it is in the one bucket its cost asks for.      *)
LEMMA HeldIs ==
    ASSUME NEW q, Ranged(q), NEW cost, NEW S \in SUBSET Nat, \A i \in S : cost[i] \in Int,
           Holds(q, cost, S)
    PROVE  /\ \A i \in S : BucketOf(q, cost[i]) \in Places
                           /\ i \in ToSet(Contents(q, BucketOf(q, cost[i])))
           /\ \A b \in Places : \A i \in ToSet(Contents(q, b)) :
                 i \in S /\ BucketOf(q, cost[i]) = b
           /\ q \in Queue
BY PlaceIs DEF Holds, Ranged

LEMMA AddRanged ==
    ASSUME NEW q, Ranged(q), NEW i \in Nat, NEW c \in Int
    PROVE  Ranged(Add(q, i, c))
<1>1. q \in Queue /\ BucketOf(q, c) \in Places  BY PlaceIs DEF Ranged
<1> QED  BY <1>1, PushedIs DEF Add, Ranged

LEMMA AddedHolds ==
    ASSUME NEW q, Ranged(q), NEW cost, NEW S \in SUBSET Nat, \A i \in S : cost[i] \in Int,
           Holds(q, cost, S), NEW i \in Nat \ S, NEW c \in Int, NEW cost_,
           cost_[i] = c, \A j \in S : cost_[j] = cost[j]
    PROVE  /\ Ranged(Add(q, i, c)) /\ Holds(Add(q, i, c), cost_, S \cup {i})
           /\ Add(q, i, c).current = q.current
<1> DEFINE b == BucketOf(q, c)
           r == Add(q, i, c)
<1>1. b \in Places /\ q \in Queue  BY PlaceIs, HeldIs
<1>2. r = PushTo(q, b, i)  BY DEF Add
<1> HIDE DEF r, b
<1>3. /\ r \in Queue /\ r.low = q.low /\ r.current = q.current /\ r.at = q.at
      /\ \A k \in Places :
            Contents(r, k) = IF k = b THEN Append(Contents(q, k), i) ELSE Contents(q, k)
  BY <1>1, <1>2, PushedIs
<1>4. Ranged(r)  BY <1>3 DEF Ranged
<1>5. \A k : BucketOf(r, k) = BucketOf(q, k)  BY <1>3, BucketOfKept
<1>6. ASSUME NEW k \in Places
      PROVE  /\ ToSet(Contents(r, k)) = {j \in S \cup {i} : BucketOf(r, cost_[j]) = k}
             /\ IsOnce(Contents(r, k))
  <2>1. /\ ToSet(Contents(q, k)) = {j \in S : BucketOf(q, cost[j]) = k}
        /\ IsOnce(Contents(q, k)) /\ Contents(q, k) \in Seq(Nat)
    BY <1>1, BucketsAre DEF Holds
  <2>2. {j \in S : BucketOf(r, cost_[j]) = k} = ToSet(Contents(q, k))
    BY <1>5, <2>1
  <2>3. BucketOf(r, cost_[i]) = b  BY <1>5 DEF b
  <2>4. CASE k = b
    <3>1. Contents(r, k) = Append(Contents(q, k), i)  BY <1>3, <2>4
    <3>2. i \notin ToSet(Contents(q, k))  BY <2>1
    <3> QED  BY <2>1, <2>2, <2>3, <2>4, <3>1, <3>2, AppendedIs
  <2>5. CASE k # b
    <3>1. Contents(r, k) = Contents(q, k)  BY <1>3, <2>5
    <3> QED  BY <2>1, <2>2, <2>3, <2>5, <3>1
  <2> QED  BY <2>4, <2>5
<1> QED  BY <1>3, <1>4, <1>6 DEF Holds, r

LEMMA DecreasedHolds ==
    ASSUME NEW q, Ranged(q), NEW cost, NEW S \in SUBSET Nat, \A i \in S : cost[i] \in Int,
           Holds(q, cost, S), NEW i \in S, NEW c \in Int, NEW cost_,
           cost_[i] = c, \A j \in S : j # i => cost_[j] = cost[j]
    PROVE  /\ Ranged(Decrease(q, i, cost[i], c)) /\ Holds(Decrease(q, i, cost[i], c), cost_, S)
           /\ Decrease(q, i, cost[i], c).current = q.current
<1> DEFINE a == BucketOf(q, cost[i])
           b == BucketOf(q, c)
           p == PushTo(q, b, i)
           r == Decrease(q, i, cost[i], c)
<1>1. a \in Places /\ b \in Places /\ q \in Queue  BY PlaceIs, HeldIs
<1>2. CASE a = b
  <2>1. r = q  BY <1>2 DEF Decrease
  <2>2. \A k \in Places : {j \in S : BucketOf(q, cost_[j]) = k}
                             = {j \in S : BucketOf(q, cost[j]) = k}
    BY <1>2
  <2> QED  BY <2>1, <2>2 DEF Holds
<1>3. CASE a # b
  <2>1. r = TakeFrom(p, a, i)  BY <1>3 DEF Decrease
  <2> HIDE DEF a, b, p, r
  <2>2. /\ p \in Queue /\ p.low = q.low /\ p.current = q.current /\ p.at = q.at
        /\ \A k \in Places :
              Contents(p, k) = IF k = b THEN Append(Contents(q, k), i) ELSE Contents(q, k)
    BY <1>1, PushedIs DEF p
  <2>3. /\ r \in Queue /\ r.low = q.low /\ r.current = q.current /\ r.at = q.at
        /\ \A k \in Places :
              Contents(r, k) = IF k = a THEN Without(Contents(p, k), i) ELSE Contents(p, k)
    BY <1>1, <2>1, <2>2, TakenIs
  <2>4. Ranged(r)  BY <2>3 DEF Ranged
  <2>5. \A k : BucketOf(r, k) = BucketOf(q, k)  BY <2>3, BucketOfKept
  <2>6. ASSUME NEW k \in Places
        PROVE  /\ ToSet(Contents(r, k)) = {j \in S : BucketOf(r, cost_[j]) = k}
               /\ IsOnce(Contents(r, k))
    <3>1. /\ ToSet(Contents(q, k)) = {j \in S : BucketOf(q, cost[j]) = k}
          /\ IsOnce(Contents(q, k)) /\ Contents(q, k) \in Seq(Nat)
      BY <1>1, BucketsAre DEF Holds
    <3>2. BucketOf(r, cost_[i]) = b /\ BucketOf(q, cost[i]) = a  BY <2>5 DEF a, b
    <3>3. \A j \in S : j # i => BucketOf(r, cost_[j]) = BucketOf(q, cost[j])  BY <2>5
    <3>4. CASE k = a
      <4>1. Contents(r, k) = Without(Contents(q, k), i)  BY <1>3, <2>2, <2>3, <3>4
      <4> DEFINE s == Contents(q, k)
      <4>2. /\ Kept(s, ToSet(s) \ {i}) \in Seq(Nat)
            /\ ToSet(Kept(s, ToSet(s) \ {i})) = ToSet(s) \cap (ToSet(s) \ {i})
            /\ IsOnce(s) => IsOnce(Kept(s, ToSet(s) \ {i}))
        BY <3>1, KeptIs
      <4>3. ToSet(Contents(r, k)) = ToSet(s) \ {i} /\ IsOnce(Contents(r, k))
        BY <3>1, <4>1, <4>2 DEF Without
      <4> QED  BY <1>3, <3>1, <3>2, <3>3, <3>4, <4>3
    <3>5. CASE k = b
      <4>1. Contents(r, k) = Append(Contents(q, k), i)  BY <1>3, <2>2, <2>3, <3>5
      <4>2. i \notin ToSet(Contents(q, k))  BY <1>3, <3>1, <3>2, <3>5
      <4>3. ToSet(Contents(r, k)) = ToSet(Contents(q, k)) \cup {i} /\ IsOnce(Contents(r, k))
        BY <3>1, <4>1, <4>2, AppendedIs
      <4> QED  BY <1>3, <3>1, <3>2, <3>3, <3>5, <4>3
    <3>6. CASE k # a /\ k # b
      <4>1. Contents(r, k) = Contents(q, k)  BY <2>2, <2>3, <3>6
      <4> QED  BY <3>1, <3>2, <3>3, <3>6, <4>1
    <3> QED  BY <3>4, <3>5, <3>6
  <2> QED  BY <2>3, <2>4, <2>6 DEF Holds, r
<1> QED  BY <1>2, <1>3

-----------------------------------------------------------------------------
(* Pop. *)

LEMMA FirstFilledIs ==
    ASSUME NEW q \in Queue, Filled(q) # {}
    PROVE  /\ FirstFilled(q) \in Filled(q) /\ \A b \in Filled(q) : FirstFilled(q) <= b
<1>1. Filled(q) \in SUBSET Nat  BY DEF Filled, Buckets
<1>2. \E b \in Filled(q) : \A c \in Filled(q) : b <= c  BY <1>1, LeastOfNat
<1> QED  BY <1>2 DEF FirstFilled

LEMMA TakeHolds ==
    ASSUME NEW q, Ranged(q), NEW cost, NEW S \in SUBSET Nat, \A i \in S : cost[i] \in Int,
           Holds(q, cost, S), Filled(q) # {}
    PROVE  /\ Take(q).label \in S /\ Ranged(Take(q).queue)
           /\ Holds(Take(q).queue, cost, S \ {Take(q).label})
           /\ \A low \in Int : Rises(q, cost, S, low) =>
                 /\ Rises(Take(q).queue, cost, S, low)
                 /\ IsCheapest(Take(q).label, cost, S, low)
<1> DEFINE b == FirstFilled(q)
           p == AdvanceTo(q, b)
           i == Last(q.bucket[b])
           s == Front(q.bucket[b])
           r == Take(q).queue
<1>1. /\ q \in Queue /\ b \in Filled(q) /\ \A k \in Filled(q) : b <= k
  BY HeldIs, FirstFilledIs
<1>2. Take(q).label = i /\ r = [p EXCEPT !.bucket = [p.bucket EXCEPT ![b] = Front(p.bucket[b])]]
  <2>1. Take(q) = [label |-> i, queue |-> [p EXCEPT !.bucket[b] = Front(@)]]
    BY DEF Take
  <2> HIDE DEF b, p, i
  <2> QED  BY <2>1
<1> HIDE DEF b, r, p, i, s
<1>3. /\ b \in Buckets /\ q.at <= b /\ q.bucket[b] # <<>> /\ b \in Places /\ b # 0
      /\ b \in Nat /\ q.at \in 1..Count + 1 /\ q.low \in Int /\ q.current \in Int
      /\ Width \in Nat \ {0} /\ Count \in Nat \ {0} /\ Contents(q, b) = q.bucket[b]
  <2>1. b \in Buckets /\ q.at <= b /\ q.bucket[b] # <<>>
    BY <1>1 DEF Filled
  <2>2. b \in Places /\ b # 0 /\ Contents(q, b) = q.bucket[b]
    BY <1>1, <2>1, BucketsAre DEF Contents
  <2> QED  BY <1>1, <2>1, <2>2, BucketAssumption DEF Queue, Buckets
<1>4. ASSUME NEW j \in S PROVE BucketOf(q, cost[j]) = 0 \/ b <= BucketOf(q, cost[j])
  <2> DEFINE k == BucketOf(q, cost[j])
  <2>1. k \in Places /\ j \in ToSet(Contents(q, k)) /\ (k = 0 \/ q.at <= k)
    BY HeldIs, PlaceIs
  <2> HIDE DEF k
  <2>2. ASSUME k # 0 PROVE b <= k
    <3>1. k \in Buckets /\ q.at <= k /\ j \in ToSet(q.bucket[k])
      BY <1>1, <2>1, <2>2, BucketsAre DEF Contents
    <3>2. q.bucket[k] # <<>>  BY <3>1 DEF ToSet
    <3>3. k \in Filled(q)  BY <3>1, <3>2 DEF Filled
    <3> QED  BY <1>1, <3>3
  <2> QED  BY <2>2 DEF k
<1>5. /\ q.bucket[b] \in Seq(Nat) /\ IsOnce(q.bucket[b]) /\ i \in ToSet(q.bucket[b])
      /\ s \in Seq(Nat) /\ ToSet(s) = ToSet(q.bucket[b]) \ {i} /\ IsOnce(s)
  <2>1. q.bucket[b] \in Seq(Nat) /\ IsOnce(q.bucket[b])
    BY <1>1, <1>3, BucketsAre DEF Holds
  <2> QED  BY <1>3, <2>1, FrontIs DEF i, s
<1>6. i \in S /\ BucketOf(q, cost[i]) = b
  BY <1>3, <1>5, HeldIs
<1>7. /\ Ranged(p) /\ p.at = b /\ p.low = q.low
      /\ p.bucket = q.bucket /\ p.overflow = q.overflow
      /\ b = q.at => p.current = q.current
      /\ b > q.at => p.current = q.low + (b - 1) * Width
      /\ \A c \in Int : BucketOf(q, c) = 0 \/ b <= BucketOf(q, c) => BucketOf(p, c) = BucketOf(q, c)
  BY <1>3, AdvancedIs DEF p
<1>8. /\ r \in Queue /\ r.low = p.low /\ r.current = p.current /\ r.at = p.at
      /\ r.overflow = q.overflow
      /\ \A k \in Buckets : r.bucket[k] = IF k = b THEN s ELSE q.bucket[k]
  <2>1. p \in Queue  BY <1>7 DEF Ranged
  <2>2. r = [p EXCEPT !.bucket = [p.bucket EXCEPT ![b] = s]]
    BY <1>2, <1>7 DEF s
  <2> QED  BY <1>3, <1>5, <1>7, <2>1, <2>2 DEF Queue
<1>9. Ranged(r)  BY <1>7, <1>8 DEF Ranged
<1>10. \A j \in S : BucketOf(r, cost[j]) = BucketOf(q, cost[j])
  BY <1>4, <1>7, <1>8, BucketOfKept
<1>11. Holds(r, cost, S \ {i})
  <2> SUFFICES ASSUME NEW k \in Places
               PROVE  /\ ToSet(Contents(r, k)) = {j \in S \ {i} : BucketOf(r, cost[j]) = k}
                      /\ IsOnce(Contents(r, k))
    BY DEF Holds
  <2>1. ToSet(Contents(q, k)) = {j \in S : BucketOf(q, cost[j]) = k} /\ IsOnce(Contents(q, k))
    BY DEF Holds
  <2>2. CASE k = b
    <3>1. Contents(r, k) = s  BY <1>3, <1>8, <2>2 DEF Contents
    <3> QED  BY <1>3, <1>5, <1>6, <1>10, <2>1, <2>2, <3>1
  <2>3. CASE k # b
    <3>1. Contents(r, k) = Contents(q, k)  BY <1>1, <1>8, <2>3, BucketsAre DEF Contents
    <3> QED  BY <1>6, <1>10, <2>1, <2>3, <3>1
  <2> QED  BY <2>2, <2>3
<1>12. ASSUME NEW low \in Int, Rises(q, cost, S, low)
       PROVE  Rises(r, cost, S, low) /\ IsCheapest(i, cost, S, low)
  <2> DEFINE here == q.low + (b - 1) * Width
             end == q.low + Count * Width
  <2>1. here \in Int /\ end \in Int /\ Max_(q) = end /\ cost[i] \in Int
    BY <1>3, <1>6 DEF Max_, Range_
  <2>2. ASSUME NEW j \in S, q.current <= cost[j] PROVE here <= cost[j]
    <3>1. CASE BucketOf(q, cost[j]) = 0
      <4>1. end <= cost[j]  BY <2>1, <3>1, PlaceIs
      <4>2. (b - 1) * Width <= Count * Width
        <5>1. b - 1 <= Count  BY <1>3 DEF Buckets
        <5> QED  BY <1>3, <5>1
      <4>3. here <= end
        <5>1. (b - 1) * Width \in Int /\ Count * Width \in Int  BY <1>3
        <5> QED  BY <1>3, <4>2, <5>1
      <4> HIDE DEF here, end
      <4> QED  BY <2>1, <4>1, <4>3
    <3>2. CASE BucketOf(q, cost[j]) # 0
      <4>1. b <= Slot(q, cost[j])  BY <1>4, <2>2, <3>2, PlaceIs
      <4>2. q \in Queue /\ b \in Int /\ cost[j] \in Int  BY <1>1, <1>3
      <4>3. b <= Slot(q, cost[j]) <=> here <= cost[j]  BY <4>2, SlotIs
      <4> QED  BY <4>1, <4>3
    <3> QED  BY <3>1, <3>2
  <2>3. ASSUME q.current <= cost[i] PROVE cost[i] < here + Width
    <3>1. Slot(q, cost[i]) = b  BY <1>3, <1>6, <2>3, PlaceIs
    <3>2. ~(b + 1 <= Slot(q, cost[i]))  BY <1>3, <3>1
    <3>3. ~(q.low + ((b + 1) - 1) * Width <= cost[i])  BY <1>1, <1>3, <2>1, <3>2, SlotIs
    <3>4. ((b + 1) - 1) * Width = (b - 1) * Width + Width  BY <1>3
    <3>5. (b - 1) * Width \in Int  BY <1>3
    <3> QED  BY <1>3, <2>1, <3>3, <3>4, <3>5
  <2>4. ASSUME NEW j \in S, cost[j] < q.current
        PROVE  b = q.at
    <3>1. BucketOf(q, cost[j]) = q.at  BY <2>4 DEF BucketOf
    <3> QED  BY <1>3, <1>4, <3>1
  <2>5. ASSUME b = q.at, q.current <= cost[i] PROVE here <= q.current
    <3>1. b <= Count  BY <1>3, <1>6, <2>5, PlaceIs
    <3>2. q.current = q.low + (q.at - 1) * Width  BY <1>3, <2>5, <3>1 DEF Ranged
    <3> QED  BY <1>3, <2>5, <3>2
  <2>6. b > q.at => r.current = here  BY <1>7, <1>8
  <2> HIDE DEF here, end
  <2>7. b = q.at => r.current = q.current  BY <1>7, <1>8
  <2>8. Rises(r, cost, S, low)
    <3>1. CASE b = q.at  BY <1>12, <2>7, <3>1 DEF Rises
    <3>2. CASE b # q.at
      <4>1. b > q.at  BY <1>3, <3>2
      <4>2. \A j \in S : q.current <= cost[j]  BY <1>3, <2>4, <3>2
      <4> QED  BY <2>2, <2>6, <4>1, <4>2 DEF Rises
    <3> QED  BY <3>1, <3>2
  <2>9. ASSUME NEW j \in S PROVE cost[i] < Width + (IF cost[j] < low THEN low ELSE cost[j])
    <3>3. cost[j] \in Int  OBVIOUS
    <3>1. CASE q.current <= cost[j]
      <4>1. CASE q.current <= cost[i]
        <5>1. cost[i] < here + Width /\ here <= cost[j]  BY <2>2, <2>3, <3>1, <4>1
        <5> QED  BY <1>3, <2>1, <3>3, <5>1
      <4>2. CASE cost[i] < q.current  BY <1>3, <2>1, <3>3, <3>1, <4>2
      <4> QED  BY <1>3, <2>1, <3>3, <4>1, <4>2
    <3>2. CASE cost[j] < q.current
      <4>1. q.current = low  BY <1>3, <1>12, <3>2 DEF Rises
      <4>2. CASE q.current <= cost[i]
        <5>1. cost[i] < here + Width /\ here <= low  BY <2>3, <2>4, <2>5, <3>2, <4>1, <4>2
        <5> QED  BY <1>3, <2>1, <3>3, <3>2, <4>1, <5>1
      <4>3. CASE cost[i] < q.current  BY <1>3, <2>1, <3>3, <3>2, <4>1, <4>3
      <4> QED  BY <1>3, <2>1, <3>3, <4>2, <4>3
    <3> QED  BY <1>3, <3>3, <3>1, <3>2
  <2> QED  BY <2>8, <2>9 DEF IsCheapest
<1> QED  BY <1>2, <1>6, <1>9, <1>11, <1>12 DEF r

(* When no bucket holds a label, all are in the overflow bucket.              *)
LEMMA AllOverflow ==
    ASSUME NEW q, Ranged(q), NEW cost, NEW S \in SUBSET Nat, \A i \in S : cost[i] \in Int,
           Holds(q, cost, S), Filled(q) = {}
    PROVE  /\ ToSet(q.overflow) = S /\ IsOnce(q.overflow) /\ q.overflow \in Seq(Nat)
           /\ \A i \in S : Max_(q) <= cost[i]
<1>1. q \in Queue /\ 0 \in Places /\ Contents(q, 0) = q.overflow
  BY HeldIs, BucketsAre DEF Contents
<1>2. ASSUME NEW i \in S PROVE BucketOf(q, cost[i]) = 0
  <2> DEFINE b == BucketOf(q, cost[i])
  <2>1. b \in Places /\ i \in ToSet(Contents(q, b)) /\ (b = 0 \/ q.at <= b)
    BY HeldIs, PlaceIs
  <2> HIDE DEF b
  <2>2. ASSUME b # 0 PROVE FALSE
    <3>1. b \in Buckets /\ q.at <= b /\ i \in ToSet(q.bucket[b])
      BY <1>1, <2>1, <2>2, BucketsAre DEF Contents
    <3>2. q.bucket[b] # <<>>  BY <3>1 DEF ToSet
    <3> QED  BY <3>1, <3>2 DEF Filled
  <2> QED  BY <2>2 DEF b
<1>3. ToSet(q.overflow) = {i \in S : BucketOf(q, cost[i]) = 0} /\ IsOnce(q.overflow)
  BY <1>1 DEF Holds
<1> QED  BY <1>1, <1>2, <1>3, BucketsAre, PlaceIs

LEMMA LeastOverflowIs ==
    ASSUME NEW q, NEW cost, NEW S, NEW m \in Int, S # {},
           ToSet(q.overflow) = S, \A i \in S : cost[i] \in Int /\ m <= cost[i]
    PROVE  /\ \E i \in S : LeastOverflow(q, cost) = cost[i]
           /\ \A i \in S : LeastOverflow(q, cost) <= cost[i]
           /\ LeastOverflow(q, cost) \in Int
<1> DEFINE C == {cost[i] : i \in S}
           D == {c - m : c \in C}
<1>1. D \in SUBSET Nat /\ D # {}  OBVIOUS
<1>2. \E x \in D : \A y \in D : x <= y  BY <1>1, LeastOfNat
<1>3. \E c \in C : \A d \in C : c <= d
  <2>1. PICK x \in D : \A y \in D : x <= y  BY <1>2
  <2>2. PICK c \in C : x = c - m  BY <2>1
  <2>3. \A d \in C : c - m <= d - m  BY <2>1, <2>2
  <2>4. \A d \in C : d \in Int  OBVIOUS
  <2> HIDE DEF C, D
  <2> QED  BY <2>2, <2>3, <2>4
<1>4. LeastOverflow(q, cost) = CHOOSE c \in C : \A d \in C : c <= d
  BY DEF LeastOverflow
<1> HIDE DEF C
<1>5. LeastOverflow(q, cost) \in C /\ \A d \in C : LeastOverflow(q, cost) <= d
  BY <1>3, <1>4
<1> QED  BY <1>5 DEF C

LEMMA RefillHolds ==
    ASSUME NEW q, Ranged(q), NEW cost, NEW S \in SUBSET Nat, \A i \in S : cost[i] \in Int,
           Holds(q, cost, S), Filled(q) = {}, S # {}
    PROVE  LET r == Refill(q, cost) IN
           /\ Ranged(r) /\ Holds(r, cost, S) /\ Filled(r) # {}
           /\ \A i \in S : r.current <= cost[i]
<1> DEFINE least == LeastOverflow(q, cost)
           low == q.low + ((least - q.low) \div Range_) * Range_
           Place(i) == IF cost[i] < low + Range_ THEN 1 + ((cost[i] - low) \div Width) ELSE 0
           To(b) == Kept(q.overflow, {i \in ToSet(q.overflow) : Place(i) = b})
           r == Refill(q, cost)
<1>1. /\ q \in Queue /\ q.low \in Int /\ Width \in Nat \ {0} /\ Count \in Nat \ {0}
      /\ Max_(q) \in Int /\ Range_ \in Nat \ {0}
  BY BucketAssumption DEF Ranged, Queue, Max_, Range_
<1>2. /\ ToSet(q.overflow) = S /\ IsOnce(q.overflow) /\ q.overflow \in Seq(Nat)
      /\ \A i \in S : Max_(q) <= cost[i]
  BY AllOverflow
<1>3. /\ \E i \in S : least = cost[i]
      /\ \A i \in S : least <= cost[i]
      /\ least \in Int
  BY <1>1, <1>2, LeastOverflowIs
<1>4. r = [low |-> low, current |-> low, at |-> 1,
           bucket |-> [b \in Buckets |-> To(b)], overflow |-> To(0)]
  BY DEF Refill
<1> HIDE DEF r, least
<1>5. low \in Int /\ low <= least /\ least < low + Range_
  <2> DEFINE x == least - q.low
             k == x \div Range_
  <2>1. x \in Int  BY <1>1, <1>3
  <2>2. k \in Int /\ Range_ * k <= x /\ x < Range_ * k + Range_
    <3> HIDE DEF x
    <3> QED  BY <1>1, <2>1, Division
  <2> HIDE DEF k
  <2>3. k * Range_ \in Int /\ k * Range_ = Range_ * k  BY <1>1, <2>2
  <2>4. low = q.low + k * Range_  BY DEF k
  <2> DEFINE y == k * Range_
  <2>5. y \in Int /\ y <= least - q.low /\ least - q.low < y + Range_ /\ low = q.low + y
    BY <2>2, <2>3, <2>4
  <2> HIDE DEF y, low
  <2> QED  BY <1>1, <1>3, <2>5
<1> HIDE DEF low
<1>6. /\ \A b : To(b) \in Seq(Nat) /\ IsOnce(To(b))
      /\ \A b : ToSet(To(b)) = {i \in S : Place(i) = b}
  <2> HIDE DEF Place
  <2> SUFFICES ASSUME NEW b
               PROVE  /\ To(b) \in Seq(Nat) /\ IsOnce(To(b))
                      /\ ToSet(To(b)) = {i \in S : Place(i) = b}
    OBVIOUS
  <2> DEFINE P == {i \in ToSet(q.overflow) : Place(i) = b}
  <2>1. To(b) = Kept(q.overflow, P)  OBVIOUS
  <2>2. P = {i \in S : Place(i) = b}  BY <1>2
  <2> HIDE DEF P
  <2>3. /\ Kept(q.overflow, P) \in Seq(Nat)
        /\ ToSet(Kept(q.overflow, P)) = ToSet(q.overflow) \cap P
        /\ IsOnce(q.overflow) => IsOnce(Kept(q.overflow, P))
    BY <1>2, KeptIs
  <2> QED  BY <1>2, <2>1, <2>2, <2>3
<1> HIDE DEF To, Place
<1>7. r \in Queue
  BY <1>1, <1>4, <1>5, <1>6 DEF Queue, Buckets
<1>8. Ranged(r)
  <2>1. low + (1 - 1) * Width = low  BY <1>1, <1>5
  <2>2. r.at = 1 /\ r.current = low /\ r.low = low  BY <1>4
  <2> QED  BY <1>7, <2>1, <2>2 DEF Ranged
<1>9. ASSUME NEW i \in S PROVE BucketOf(r, cost[i]) = Place(i) /\ Place(i) \in Places
  <2>1. r.low = low /\ r.current = low  BY <1>4
  <2>2. cost[i] \in Int /\ low <= cost[i]  BY <1>3, <1>5
  <2>3. ~(cost[i] < r.current)  BY <1>5, <2>1, <2>2
  <2>4. BucketOf(r, cost[i]) = Place(i)  BY <2>1, <2>3 DEF BucketOf, Place, Slot, Max_
  <2> QED  BY <1>8, <2>2, <2>4, PlaceIs
<1>10. \A b \in Places : Contents(r, b) = To(b)
  BY <1>4, <1>7, BucketsAre DEF Contents
<1>11. Holds(r, cost, S)
  BY <1>6, <1>9, <1>10 DEF Holds
<1>12. Filled(r) # {}
  <2>1. PICK i \in S : least = cost[i]  BY <1>3
  <2>2. Place(i) # 0
    <3> DEFINE x == cost[i] - low
    <3>1. x \in Int /\ 0 * Width <= x  BY <1>1, <1>3, <1>5, <2>1
    <3> HIDE DEF x
    <3>2. 0 <= x \div Width /\ x \div Width \in Int  BY <1>1, <3>1, Quotient, Division
    <3>3. Place(i) = 1 + (x \div Width)  BY <1>5, <2>1 DEF Place, x
    <3> QED  BY <3>2, <3>3
  <2>3. Place(i) \in Buckets /\ i \in ToSet(To(Place(i)))
    BY <1>6, <1>7, <1>9, <2>2, BucketsAre
  <2>4. r.bucket[Place(i)] = To(Place(i)) /\ To(Place(i)) # <<>>
    BY <1>4, <2>3 DEF ToSet
  <2>5. r.at = 1 /\ Place(i) >= 1  BY <1>4, <2>3 DEF Buckets
  <2> QED  BY <2>3, <2>4, <2>5 DEF Filled
<1>13. \A i \in S : r.current <= cost[i]
  <2>1. r.current = low  BY <1>4
  <2>2. TAKE i \in S
  <2>3. cost[i] \in Int /\ least <= cost[i]  BY <1>3
  <2> QED  BY <1>3, <1>5, <2>1, <2>3
<1> QED  BY <1>8, <1>11, <1>12, <1>13 DEF r

LEMMA PopHolds ==
    ASSUME NEW q, Ranged(q), NEW cost, NEW S \in SUBSET (Nat \ {0}), \A i \in S : cost[i] \in Int,
           Holds(q, cost, S)
    PROVE  LET p == Pop(q, cost) IN
           /\ p.label = NoLabel <=> S = {}
           /\ p.label # NoLabel => p.label \in S
           /\ Ranged(p.queue) /\ Holds(p.queue, cost, S \ {p.label})
           /\ \A low \in Int : Rises(q, cost, S, low) =>
                 /\ Rises(p.queue, cost, S, low)
                 /\ p.label # NoLabel => IsCheapest(p.label, cost, S, low)
<1> DEFINE p == Pop(q, cost)
<1>1. CASE Filled(q) # {}
  <2>1. p = Take(q)  BY <1>1 DEF Pop
  <2>2. p.label \in S /\ p.label # NoLabel /\ S # {}  BY <1>1, <2>1, TakeHolds DEF NoLabel
  <2> HIDE DEF p
  <2> QED  BY <1>1, <2>1, <2>2, TakeHolds DEF p
<1>2. CASE Filled(q) = {} /\ S # {}
  <2> DEFINE r == Refill(q, cost)
  <2>1. ToSet(q.overflow) = S  BY <1>2, AllOverflow
  <2>2. q.overflow # <<>>  BY <1>2, <2>1 DEF ToSet
  <2>3. p = Take(r)  BY <1>2, <2>2 DEF Pop
  <2> HIDE DEF p, r
  <2>4. /\ Ranged(r) /\ Holds(r, cost, S) /\ Filled(r) # {}
        /\ \A i \in S : r.current <= cost[i]
    BY <1>2, RefillHolds DEF r
  <2>5. \A low \in Int : Rises(r, cost, S, low)  BY <2>4 DEF Rises
  <2>6. p.label \in S /\ p.label # NoLabel  BY <2>3, <2>4, TakeHolds DEF NoLabel
  <2> QED  BY <1>2, <2>3, <2>4, <2>5, <2>6, TakeHolds DEF p
<1>3. CASE Filled(q) = {} /\ S = {}
  <2>1. ToSet(q.overflow) = {} /\ q.overflow \in Seq(Nat) /\ q \in Queue
    BY <1>3, AllOverflow, HeldIs
  <2>2. q.overflow = <<>>
    <3>1. ASSUME q.overflow # <<>> PROVE FALSE
      <4>1. 1 \in DOMAIN q.overflow  BY <2>1, <3>1
      <4>2. q.overflow[1] \in ToSet(q.overflow)  BY <4>1 DEF ToSet
      <4> QED  BY <2>1, <4>2
    <3> QED  BY <3>1
  <2> DEFINE r == [q EXCEPT !.at = Count + 1, !.current = @ + (Count + 2 - q.at) * Width]
  <2>3. p = [label |-> NoLabel, queue |-> r]  BY <1>3, <2>2 DEF Pop
  <2>4. /\ r.at = Count + 1 /\ r.low = q.low /\ r.bucket = q.bucket /\ r.overflow = q.overflow
        /\ r.current = q.current + (Count + 2 - q.at) * Width
        /\ q.low \in Int /\ q.current \in Int /\ q.at \in 1..Count + 1
        /\ Width \in Nat \ {0} /\ Count \in Nat \ {0}
    BY <2>1, BucketAssumption DEF Queue, Buckets
  <2>5. r \in Queue /\ r.current \in Int
    <3> DEFINE c == q.current + (Count + 2 - q.at) * Width
    <3>1. c \in Int /\ Count + 1 \in Buckets  BY <2>4 DEF Buckets
    <3>2. r = [q EXCEPT !.at = Count + 1, !.current = c]  OBVIOUS
    <3> HIDE DEF c, r
    <3> QED  BY <2>1, <3>1, <3>2 DEF Queue
  <2>6. r.current >= q.low + Count * Width
    <3>1. CASE q.current = q.low + (q.at - 1) * Width
      <4>1. (q.at - 1) * Width + (Count + 2 - q.at) * Width = Count * Width + Width
        BY <2>4
      <4>2. /\ (q.at - 1) * Width \in Int /\ (Count + 2 - q.at) * Width \in Int
            /\ Count * Width \in Int
        BY <2>4
      <4> HIDE DEF r
      <4> QED  BY <2>4, <3>1, <4>1, <4>2
    <3>2. CASE q.at = Count + 1 /\ q.current >= q.low + Count * Width
      <4>1. (Count + 2 - q.at) * Width = Width  BY <2>4, <3>2
      <4>2. Count * Width \in Int  BY <2>4
      <4> HIDE DEF r
      <4> QED  BY <2>4, <3>2, <4>1, <4>2
    <3> QED  BY <3>1, <3>2 DEF Ranged
  <2> HIDE DEF r
  <2>7. Ranged(r)  BY <2>4, <2>5, <2>6 DEF Ranged
  <2>8. \A b \in Places : Contents(r, b) = Contents(q, b)  BY <2>4 DEF Contents
  <2>9. Holds(r, cost, {})
    BY <1>3, <2>8 DEF Holds
  <2>10. \A low : Rises(r, cost, S, low)  BY <1>3 DEF Rises
  <2> QED  BY <1>3, <2>3, <2>7, <2>9, <2>10
<1> QED  BY <1>1, <1>2, <1>3

(* A label occurs once when it is held, and otherwise not.                    *)
LEMMA OccurrencesIs ==
    ASSUME NEW q, Ranged(q), NEW cost, NEW S \in SUBSET Nat, \A i \in S : cost[i] \in Int,
           Holds(q, cost, S), NEW i
    PROVE  Occurrences(q, i) = IF i \in S THEN 1 ELSE 0
<1> DEFINE At(b) == {<<b, k>> : k \in {j \in DOMAIN Contents(q, b) : Contents(q, b)[j] = i}}
           All == UNION {At(b) : b \in Places}
<1>1. Occurrences(q, i) = Cardinality(All)
  BY DEF Occurrences, Places
<1>2. CASE i \notin S
  <2>1. \A b \in Places : i \notin ToSet(Contents(q, b))  BY <1>2 DEF Holds
  <2>2. \A b \in Places : At(b) = {}  BY <2>1 DEF ToSet
  <2> HIDE DEF At
  <2>3. All = {}  BY <2>2
  <2> QED  BY <1>1, <1>2, <2>3, FS_EmptySet
<1>3. CASE i \in S
  <2> DEFINE b == BucketOf(q, cost[i])
  <2>1. b \in Places /\ i \in ToSet(Contents(q, b))  BY <1>3, HeldIs
  <2>2. IsOnce(Contents(q, b))  BY <2>1 DEF Holds
  <2>3. \A c \in Places : c # b => i \notin ToSet(Contents(q, c))  BY HeldIs
  <2> HIDE DEF b
  <2>4. PICK k \in DOMAIN Contents(q, b) : Contents(q, b)[k] = i  BY <2>1 DEF ToSet
  <2>5. {j \in DOMAIN Contents(q, b) : Contents(q, b)[j] = i} = {k}
    BY <2>2, <2>4 DEF IsOnce
  <2>6. At(b) = {<<b, k>>}  BY <2>5
  <2>7. \A c \in Places : c # b => At(c) = {}  BY <2>3 DEF ToSet
  <2> HIDE DEF At
  <2>8. All = {<<b, k>>}  BY <2>1, <2>6, <2>7
  <2> QED  BY <1>1, <1>3, <2>8, FS_Singleton
<1> QED  BY <1>2, <1>3

USE DEF Directions, Fwd, Rev, NoEdge, NoLabel, searchVars, pathVars

-----------------------------------------------------------------------------
(* The queues: each holds the labels still to be settled, where their costs   *)
(* belong, and no edge has a second label.                                    *)

Open(d) == {i \in DOMAIN labels[d] : ~IsSettled(d, labels[d][i].edge)}
IsLabelled(d) == \A i \in DOMAIN labels[d] : status[d][labels[d][i].edge].label = i
QueueIs(d) == Ranged(queue[d]) /\ Holds(queue[d], Sorts(d), Open(d)) /\ IsLabelled(d)
QueueInv == queue \in [Directions -> Queue] /\ \A d \in Directions : QueueIs(d)

LEMMA SortsAre ==
    ASSUME NEW d \in Directions, labels[d] \in Seq(LabelT)
    PROVE  /\ \A i \in DOMAIN labels[d] : Sorts(d)[i] = labels[d][i].sort /\ Sorts(d)[i] \in Int
           /\ Open(d) \in SUBSET (Nat \ {0})
<1>1. \A i \in DOMAIN labels[d] : i \in Nat \ {0} /\ labels[d][i] \in LabelT
  OBVIOUS
<1> QED  BY <1>1 DEF Sorts, Open, LabelT

(* a queue depends on the costs of what it holds only *)
LEMMA HoldsKept ==
    ASSUME NEW q, NEW cost, NEW cost_, NEW S, Holds(q, cost, S), \A i \in S : cost_[i] = cost[i]
    PROVE  Holds(q, cost_, S)
BY DEF Holds

LEMMA OpenIsHeld ==
    ASSUME SearchInv, QueueInv, NEW d \in Directions
    PROVE  /\ Ranged(queue[d]) /\ Holds(queue[d], Sorts(d), Open(d)) /\ IsLabelled(d)
           /\ Open(d) \in SUBSET (Nat \ {0}) /\ \A i \in Open(d) : Sorts(d)[i] \in Int
           /\ \A i \in DOMAIN labels[d] : Sorts(d)[i] = labels[d][i].sort
<1>1. labels[d] \in Seq(LabelT)  BY DEF SearchInv, Types
<1> QED  BY <1>1, SortsAre DEF QueueInv, QueueIs, Open

LEMMA QueueOfLabels ==
    ASSUME SearchInv, QueueInv PROVE QueueHoldsOpenLabels
<1> SUFFICES ASSUME NEW d \in Directions, NEW i \in DOMAIN labels[d]
             PROVE  Occurrences(queue[d], i)
                      = IF status[d][labels[d][i].edge].set = "permanent" THEN 0 ELSE 1
  BY DEF QueueHoldsOpenLabels
<1>1. /\ Ranged(queue[d]) /\ Holds(queue[d], Sorts(d), Open(d))
      /\ Open(d) \in SUBSET Nat /\ \A j \in Open(d) : Sorts(d)[j] \in Int
  BY OpenIsHeld
<1>2. Occurrences(queue[d], i) = IF i \in Open(d) THEN 1 ELSE 0
  BY <1>1, OccurrencesIs
<1> QED  BY <1>2 DEF Open, IsSettled

(* the candidates, once each *)
LEMMA RootQueueIs ==
    ASSUME request \in Requests, Searched, NEW d \in Directions
    PROVE  /\ Ranged(RootQueue(d)) /\ RootQueue(d).current = Least
           /\ Holds(RootQueue(d), [i \in DOMAIN RootLabels(d) |-> RootLabels(d)[i].sort],
                    DOMAIN RootLabels(d))
<1> DEFINE N == Len(Candidates(d))
           L == RootLabels(d)
           cost == [i \in DOMAIN L |-> L[i].sort]
           E == EmptyQueue(Abs(g.start - g.goal))
           S == {q \in Queue : Ranged(q)}
           G == [k \in 1..N |-> [q \in S |-> Add(q, k, L[k].sort)]]
           Step_(Q) == [k \in 0..N |-> IF k = 0 THEN E ELSE Add(Q[k - 1], k, L[k].sort)]
<1>1. L \in Seq(LabelT) /\ N \in Nat /\ DOMAIN L = 1..N
  <2>1. Candidates(d) \in Seq(Location)  BY CandidateFacts
  <2>2. DOMAIN L = DOMAIN Candidates(d)  BY DEF RootLabels
  <2> QED  BY <2>1, <2>2, Roots
<1> HIDE DEF N, L
<1>2. \A k \in 1..N : L[k].sort \in Int /\ k \in Nat
  <2>1. \A k \in 1..N : L[k] \in LabelT  BY <1>1
  <2> QED  BY <1>1, <2>1 DEF LabelT
<1>3. E \in S /\ Holds(E, cost, {}) /\ E.current = Least
  <2>1. Abs(g.start - g.goal) \in Int
    <3>1. g.start \in Nat /\ g.goal \in Nat  BY GraphFacts
    <3> HIDE DEF g
    <3> QED  BY <3>1 DEF Abs
  <2>2. Ranged(E) /\ Holds(E, cost, {})
    <3> HIDE DEF g, cost
    <3> QED  BY <2>1, EmptyHolds
  <2>3. E.current = Least  BY DEF Least, EmptyQueue
  <2> QED  BY <2>2, <2>3 DEF Ranged
<1> HIDE DEF E
<1>4. \A k \in 1..N : \A q \in S : Add(q, k, L[k].sort) \in S
  BY <1>2, AddRanged DEF Ranged
<1> HIDE DEF S
<1>5. PICK F \in [0..N -> S] : F[0] = E /\ \A k \in 1..N : F[k] = G[k][F[k - 1]]
  <2>1. G \in Steps(N, S)  BY <1>4 DEF Steps
  <2> HIDE DEF G
  <2>2. N \in Nat /\ E \in S  BY <1>1, <1>3
  <2>3. \E F : Iterates(F, N, S, E, G)  BY <2>1, <2>2, Recursion
  <2> QED  BY <2>3 DEF Iterates
<1>6. \A k \in 1..N : F[k] = Add(F[k - 1], k, L[k].sort)
  <2> SUFFICES ASSUME NEW k \in 1..N PROVE F[k] = Add(F[k - 1], k, L[k].sort)
    OBVIOUS
  <2>1. k - 1 \in 0..N /\ F[k - 1] \in S  BY <1>1, <1>5
  <2> QED  BY <1>5, <2>1
<1>7. \E Q : Q = Step_(Q)
  <2>1. ASSUME NEW k \in 0..N PROVE F[k] = Step_(F)[k]
    <3>1. CASE k = 0  BY <1>5, <3>1
    <3>2. CASE k # 0
      <4>1. k \in 1..N  BY <1>1, <3>2
      <4> QED  BY <1>6, <3>2, <4>1
    <3> QED  BY <3>1, <3>2
  <2>2. DOMAIN F = 0..N  BY <1>5
  <2>3. F = Step_(F)  BY <1>5, <2>1, <2>2
  <2> QED  BY <2>3
<1> DEFINE Q == CHOOSE V : V = Step_(V)
<1>8. Q = Step_(Q)  BY <1>7
<1>9. RootQueue(d) = Q[N]
  BY DEF RootQueue, N, L, E
<1> HIDE DEF Q
<1>10. Q[0] = E /\ \A k \in 1..N : Q[k] = Add(Q[k - 1], k, L[k].sort)
  <2>1. \A k \in 0..N : Q[k] = Step_(Q)[k]  BY <1>8
  <2> QED  BY <1>1, <2>1
<1> DEFINE A == {k \in 0..N : Ranged(Q[k]) /\ Holds(Q[k], cost, 1..k) /\ Q[k].current = Least}
<1>11. 0 \in A
  <2>1. 1..0 = {} /\ 0 \in 0..N  BY <1>1
  <2> QED  BY <1>3, <1>10, <2>1 DEF S
<1>12. ASSUME NEW k \in 1..N, k - 1 \in A PROVE k \in A
  <2> DEFINE q == Q[k - 1]
             P == 1..k - 1
             c == L[k].sort
  <2>1. /\ Ranged(q) /\ Holds(q, cost, P) /\ Q[k] = Add(q, k, c) /\ k \in Nat \ P
        /\ q.current = Least
        /\ c \in Int /\ cost[k] = c /\ P \in SUBSET Nat /\ P \cup {k} = 1..k /\ k \in 0..N
    BY <1>1, <1>2, <1>10, <1>12
  <2>2. \A i \in P : cost[i] \in Int
    BY <1>1, <1>2
  <2> HIDE DEF q, P, c, cost
  <2>3. /\ Ranged(Add(q, k, c)) /\ Holds(Add(q, k, c), cost, P \cup {k})
        /\ Add(q, k, c).current = q.current
    BY <2>1, <2>2, AddedHolds
  <2> QED  BY <2>1, <2>3
<1>13. N \in A
  <2> HIDE DEF A
  <2>1. \A k \in 0..N : k \in A  BY <1>1, <1>11, <1>12, UpTo
  <2> QED  BY <1>1, <2>1
<1> QED  BY <1>1, <1>9, <1>13 DEF L

(* an edge offered as a candidate is offered once *)
LEMMA RootsAreLabelled ==
    ASSUME request \in Requests, Searched, NEW d \in Directions
    PROVE  \A i \in DOMAIN RootLabels(d) : RootStatus(d)[RootLabels(d)[i].edge].label = i
<1> DEFINE C == Candidates(d)
           L == RootLabels(d)
<1>1. /\ DOMAIN L = DOMAIN C
      /\ \A i \in DOMAIN C : L[i].edge = IF d = Fwd THEN C[i].edge ELSE g.opp[C[i].edge]
  BY DEF RootLabels, RootLabel
<1>2. \A i \in DOMAIN C : C[i].edge \in g.edge  BY CandidateFacts
<1>3. \A i, j \in DOMAIN C : C[i].edge = C[j].edge => i = j
  <2>1. WellFormed(g)  BY RequestIsWellFormed DEF g
  <2>2. C \in {g.origin, g.dest}  BY DEF Candidates
  <2> HIDE DEF g, C
  <2> QED  BY <2>1, <2>2 DEF WellFormed
<1>4. \A i \in DOMAIN C : L[i].edge \in Edges  BY <1>1, <1>2, GraphFacts
<1>5. \A i, j \in DOMAIN C : L[i].edge = L[j].edge => i = j
  <2>1. \A x \in g.edge : g.opp[g.opp[x]] = x  BY GraphFacts
  <2> HIDE DEF L, C, g
  <2> QED  BY <1>1, <1>2, <1>3, <2>1
<1> SUFFICES ASSUME NEW i \in DOMAIN L PROVE RootStatus(d)[L[i].edge].label = i
  OBVIOUS
<1> DEFINE ks == {k \in DOMAIN L : L[k].edge = L[i].edge}
<1>6. ks = {i}
  <2> HIDE DEF L, C
  <2> QED  BY <1>1, <1>5
<1>7. RootStatus(d)[L[i].edge] = IF ks = {} THEN Unreached
                                 ELSE [set |-> "temporary", label |-> CHOOSE k \in ks : TRUE]
  <2>1. L[i].edge \in Edges  BY <1>1, <1>4
  <2> QED  BY <2>1 DEF RootStatus
<1> HIDE DEF ks, L
<1> QED  BY <1>6, <1>7

LEMMA BegunQueues ==
    ASSUME Begun, queue = [d \in Directions |-> RootQueue(d)] PROVE QueueInv
<1> SUFFICES ASSUME NEW d \in Directions
             PROVE  QueueIs(d) /\ queue[d] \in Queue
  <2> HIDE DEF Directions
  <2> QED  BY DEF QueueInv
<1>1. /\ request \in Requests /\ Searched /\ queue[d] = RootQueue(d)
      /\ labels[d] = RootLabels(d) /\ status[d] = RootStatus(d)
  BY DEF Begun
<1>2. IsLabelled(d)  BY <1>1, RootsAreLabelled DEF IsLabelled
<1>3. \A i \in DOMAIN labels[d] : ~IsSettled(d, labels[d][i].edge)
  BY <1>1, Roots DEF IsSettled
<1>4. Open(d) = DOMAIN RootLabels(d)  BY <1>1, <1>3 DEF Open
<1>5. Sorts(d) = [i \in DOMAIN RootLabels(d) |-> RootLabels(d)[i].sort]  BY <1>1 DEF Sorts
<1> QED  BY <1>1, <1>2, <1>4, <1>5, RootQueueIs DEF QueueIs, Ranged

LEMMA InitQueues == Init => QueueInv
BY BegunQueues DEF Init, Begun

LEMMA RetryQueues == SearchInv /\ Retry => QueueInv'
<1> SUFFICES ASSUME SearchInv, Retry PROVE QueueInv'
  OBVIOUS
<1>1. request' = request /\ g' = g /\ Searched'
  BY SearchedKept DEF Retry, SearchInv, g
<1>2. Begun' /\ (queue = [d \in Directions |-> RootQueue(d)])'
  <2>1. \A d \in Directions : RootLabels(d)' = RootLabels(d) /\ RootStatus(d)' = RootStatus(d)
                              /\ RootQueue(d)' = RootQueue(d)
    BY <1>1 DEF RootLabels, RootStatus, RootQueue, RootLabel, Candidates, Heuristic, Own, Far, g
  <2>2. /\ labels' = [d \in Directions |-> RootLabels(d)]
        /\ status' = [d \in Directions |-> RootStatus(d)]
        /\ queue' = [d \in Directions |-> RootQueue(d)] /\ request' \in Requests
    BY DEF Retry, SearchInv, Types
  <2> QED  BY <1>1, <2>1, <2>2 DEF Begun
<1> QED  BY <1>2, BegunQueues, PTL

LEMMA QueuesKept ==
    ASSUME QueueInv, UNCHANGED <<labels, status, queue>> PROVE QueueInv'
BY DEF QueueInv, QueueIs, Open, Sorts, IsLabelled, IsSettled

(* What a direction's own queue, labels and status do not touch, stays.       *)
LEMMA OtherQueueKept ==
    ASSUME QueueInv, NEW d \in Directions,
           queue'[d] = queue[d], labels'[d] = labels[d],
           \A i \in DOMAIN labels[d] : status'[d][labels[d][i].edge] = status[d][labels[d][i].edge]
    PROVE  QueueIs(d)'
<1>1. Sorts(d)' = Sorts(d) /\ Open(d)' = Open(d)
  BY DEF Sorts, Open, IsSettled
<1> QED  BY <1>1 DEF QueueInv, QueueIs, IsLabelled

(* a step on one queue *)
LEMMA OneQueue ==
    ASSUME QueueInv, NEW d \in Directions, NEW q \in Queue, queue' = [queue EXCEPT ![d] = q]
    PROVE  /\ queue' \in [Directions -> Queue] /\ queue'[d] = q
           /\ \A c \in Directions : c # d => queue'[c] = queue[c]
<1> HIDE DEF Directions
<1> QED  BY DEF QueueInv

LEMMA PoppedQueues ==
    ASSUME SearchInv, QueueInv, NEW d \in Directions
    PROVE  /\ Popped(d).queue \in Queue /\ Ranged(Popped(d).queue)
           /\ Holds(Popped(d).queue, Sorts(d), Open(d) \ {Popped(d).label})
           /\ Popped(d).label # NoLabel => Popped(d).label \in Open(d)
           /\ Popped(d).label = NoLabel => Open(d) = {}
<1> DEFINE q == queue[d]
           cost == Sorts(d)
           S == Open(d)
<1>1. /\ Ranged(q) /\ Holds(q, cost, S) /\ S \in SUBSET (Nat \ {0})
      /\ \A i \in S : cost[i] \in Int
  BY OpenIsHeld
<1>2. Popped(d) = Pop(q, cost)  BY DEF Popped
<1> HIDE DEF q, cost, S
<1>3. /\ Pop(q, cost).label = NoLabel <=> S = {}
      /\ Pop(q, cost).label # NoLabel => Pop(q, cost).label \in S
      /\ Ranged(Pop(q, cost).queue)
      /\ Holds(Pop(q, cost).queue, cost, S \ {Pop(q, cost).label})
  BY <1>1, PopHolds
<1> HIDE DEF Popped
<1> QED  BY <1>2, <1>3 DEF Ranged, S, cost

LEMMA ExhaustedQueues ==
    ASSUME SearchInv, QueueInv, NEW d \in Directions, Exhausted(d) PROVE QueueInv'
<1> DEFINE q == Popped(d).queue
<1>1. /\ Popped(d).label = NoLabel
      /\ queue' = [queue EXCEPT ![d] = q]
      /\ UNCHANGED <<labels, status>>
  BY DEF Exhausted
<1>2. /\ q \in Queue /\ Ranged(q) /\ Holds(q, Sorts(d), Open(d) \ {NoLabel})
      /\ Open(d) = {} /\ Open(d) \ {NoLabel} = Open(d)
  <2> HIDE DEF q
  <2> QED  BY <1>1, PoppedQueues DEF q
<1> HIDE DEF q
<1>3. /\ queue' \in [Directions -> Queue] /\ queue'[d] = q
      /\ \A c \in Directions : c # d => queue'[c] = queue[c]
  BY <1>1, <1>2, OneQueue
<1> SUFFICES ASSUME NEW c \in Directions PROVE QueueIs(c)'
  BY <1>3 DEF QueueInv
<1>4. CASE c # d
  BY <1>1, <1>3, <1>4, OtherQueueKept
<1>5. CASE c = d
  <2>1. Sorts(c)' = Sorts(c) /\ Open(c)' = Open(c)
    BY <1>1 DEF Sorts, Open, IsSettled
  <2>2. IsLabelled(c)'
    BY <1>1 DEF IsLabelled, QueueInv, QueueIs
  <2> QED  BY <1>2, <1>3, <1>5, <2>1, <2>2 DEF QueueIs
<1> QED  BY <1>4, <1>5

(* the label popped, and only it, is settled *)
LEMMA SettledQueues ==
    ASSUME SearchInv, QueueInv, NEW d \in Directions, NEW i, Settle(d, i) PROVE QueueInv'
<1> DEFINE x == labels[d][i].edge
           q == Popped(d).queue
<1>1. /\ i = Popped(d).label /\ i \in DOMAIN labels[d]
      /\ queue' = [queue EXCEPT ![d] = q]
      /\ status' = [status EXCEPT ![d][x].set = "permanent"]
      /\ UNCHANGED <<request, labels>>
  BY DEF Settle
<1>2. q \in Queue /\ Ranged(q) /\ Holds(q, Sorts(d), Open(d) \ {i})
  BY <1>1, PoppedQueues
<1> HIDE DEF q
<1>3. /\ status \in [Directions -> [Edges -> Status]] /\ request \in Requests
      /\ x \in g.edge /\ x \in Edges
      /\ \A c \in Directions : \A j \in DOMAIN labels[c] : labels[c][j].edge \in Edges
  BY <1>1, GraphFacts DEF SearchInv, Types, LabelsAreLegal, LegalLabel
<1> HIDE DEF x
<1>4. \A c \in Directions : \A f \in Edges :
            /\ status'[c][f].label = status[c][f].label
            /\ status'[c][f].set = IF c = d /\ f = x THEN "permanent" ELSE status[c][f].set
            /\ c # d => status'[c][f] = status[c][f]
  <2> DEFINE s == [status[d][x] EXCEPT !.set = "permanent"]
  <2>1. status[d][x] \in Status  BY <1>3
  <2>2. s.set = "permanent" /\ s.label = status[d][x].label  BY <2>1 DEF Status
  <2>3. status' = [status EXCEPT ![d] = [status[d] EXCEPT ![x] = s]]  BY <1>1
  <2> HIDE DEF s
  <2>4. \A c \in Directions : \A f \in Edges :
            status'[c][f] = IF c = d /\ f = x THEN s ELSE status[c][f]
    BY <1>3, <2>3
  <2> QED  BY <2>2, <2>4
<1>5. /\ queue' \in [Directions -> Queue] /\ queue'[d] = q
      /\ \A c \in Directions : c # d => queue'[c] = queue[c]
  BY <1>1, <1>2, OneQueue
<1> SUFFICES ASSUME NEW c \in Directions PROVE QueueIs(c)'
  BY <1>5 DEF QueueInv
<1>6. CASE c # d
  BY <1>1, <1>3, <1>4, <1>5, <1>6, OtherQueueKept
<1>7. CASE c = d
  <2>1. queue'[c] = q /\ labels'[c] = labels[c]  BY <1>1, <1>5, <1>7
  <2>2. Sorts(c)' = Sorts(c)  BY <2>1 DEF Sorts
  <2>3. IsLabelled(c)'  BY <1>3, <1>4, <2>1, OpenIsHeld DEF IsLabelled
  <2>4. \A j \in DOMAIN labels[c] : labels[c][j].edge = x => j = i
    BY <1>1, <1>7, OpenIsHeld DEF IsLabelled, x
  <2>5. Open(c)' = Open(c) \ {i}
    <3>1. labels[c][i].edge = x  BY <1>7 DEF x
    <3> QED  BY <1>3, <1>4, <1>7, <2>1, <2>4, <3>1 DEF Open, IsSettled
  <2> QED  BY <1>2, <1>7, <2>1, <2>2, <2>3, <2>5 DEF QueueIs
<1> QED  BY <1>6, <1>7

LEMMA SkipShortcutQueues ==
    ASSUME SearchInv, QueueInv, NEW e, NEW deadEnd \in BOOLEAN, SkipShortcut(e, deadEnd)
    PROVE  QueueInv'
<1> DEFINE d == work.dir
<1>1. /\ Evaluates(e, deadEnd) /\ IsShortcut(g, e) /\ ~TakesShortcut(d, e)
      /\ status' = [status EXCEPT ![d][e] = Skipped]
      /\ UNCHANGED <<labels, queue>>
  BY DEF SkipShortcut
<1>2. ~IsReached(d, e)  BY <1>1, SkippedIsNotReached
<1> HIDE DEF d
<1>3. ASSUME NEW c \in Directions, NEW i \in DOMAIN labels[c]
      PROVE  status'[c][labels[c][i].edge] = status[c][labels[c][i].edge]
  <2>1. IsReached(c, labels[c][i].edge)
    BY DEF SearchInv, LabelsAreLegal, LegalLabel
  <2>2. ~(c = d /\ labels[c][i].edge = e)  BY <1>2, <2>1
  <2> QED  BY <1>1, <2>2
<1>4. queue' \in [Directions -> Queue]  BY <1>1 DEF QueueInv
<1> SUFFICES ASSUME NEW c \in Directions PROVE QueueIs(c)'
  BY <1>4 DEF QueueInv
<1> QED  BY <1>1, <1>3, OtherQueueKept

-----------------------------------------------------------------------------
(* The steps that change labels. *)

LEMMA CostToIs ==
    ASSUME SearchInv, NEW e, NEW deadEnd \in BOOLEAN, Evaluates(e, deadEnd)
    PROVE  LET d == work.dir IN
           /\ g.cost[Driven(d, e)] \in Nat /\ TurnCost(d, Reached(d).edge, e) \in Nat
           /\ CostTo(d, e) = Reached(d).cost + g.cost[Driven(d, e)]
                             + TurnCost(d, Reached(d).edge, e)
<1> DEFINE d == work.dir
<1>1. d \in Directions /\ e \in g.edge /\ request \in Requests
  BY ExaminedFacts DEF SearchInv, Types
<1>2. Driven(d, e) \in Edges  BY <1>1, GraphFacts DEF Driven
<1>3. g.cost[Driven(d, e)] \in Nat
  BY <1>1, <1>2, RequestIsWellFormed DEF Graph, g
<1>4. TurnCost(d, Reached(d).edge, e) \in Nat
  BY DEF TurnCost, TransitionCost
<1> QED  BY <1>3, <1>4 DEF CostTo

LEMMA ImproveIs ==
    ASSUME SearchInv, NEW e, NEW deadEnd \in BOOLEAN, Improve(e, deadEnd)
    PROVE  LET d == work.dir
               i == status[d][e].label
               l == labels[d][i]
               m == labels'[d][i]
           IN /\ d \in Directions /\ at[d] \in DOMAIN labels[d] /\ e \in g.edge
              /\ i \in DOMAIN labels[d] /\ l.edge = e /\ status[d][e].set = "temporary"
              /\ m.edge = e /\ m.cost = CostTo(d, e) /\ m.sort = l.sort - (l.cost - CostTo(d, e))
              /\ m.turn = TurnCost(d, Reached(d).edge, e)
              /\ m.sort \in Int /\ l.sort \in Int /\ l.cost \in Int /\ CostTo(d, e) \in Int
              /\ \A c \in Directions :
                    /\ DOMAIN labels'[c] = DOMAIN labels[c]
                    /\ \A j \in DOMAIN labels[c] :
                          c # d \/ j # i => labels'[c][j] = labels[c][j]
              /\ queue' = [queue EXCEPT ![d] = Decrease(queue[d], i, l.sort, m.sort)]
<1> DEFINE d == work.dir
           i == status[d][e].label
           l == labels[d][i]
           cost == CostTo(d, e)
           sort == l.sort - (l.cost - cost)
           turn == TurnCost(d, Reached(d).edge, e)
           new == [l EXCEPT !.pred = at[d], !.cost = cost, !.sort = sort, !.turn = turn]
<1>1. /\ Evaluates(e, deadEnd) /\ Admits(e, deadEnd) /\ status[d][e].set = "temporary"
      /\ labels' = [labels EXCEPT ![d][i] = new]
      /\ queue' = [queue EXCEPT ![d] = Decrease(@, i, l.sort, sort)]
  BY DEF Improve, Tries
<1>2. /\ d \in Directions /\ at[d] \in DOMAIN labels[d] /\ e \in g.edge
  BY <1>1, ExaminedFacts
<1>3. labels \in [Directions -> Seq(LabelT)]  BY DEF SearchInv, Types
<1>4. i \in DOMAIN labels[d] /\ l.edge = e
  BY <1>1, <1>2 DEF SearchInv, StatusPointsAtLabel
<1>5. l \in LabelT  BY <1>2, <1>3, <1>4
<1>6. cost \in Int  BY <1>1, AdmittedFacts
<1>7. l.sort \in Int /\ l.cost \in Int  BY <1>5 DEF LabelT
<1>8. sort \in Int
  <2> HIDE DEF l, cost
  <2> QED  BY <1>6, <1>7
<1> HIDE DEF d, i, sort, turn, cost
<1>9. new.edge = e /\ new.cost = cost /\ new.sort = sort /\ new.turn = turn
  <2> HIDE DEF l
  <2> QED  BY <1>4, <1>5 DEF LabelT
<1> HIDE DEF new
<1>10. \A c \in Directions :
            /\ DOMAIN labels'[c] = DOMAIN labels[c]
            /\ \A j \in DOMAIN labels[c] :
                  labels'[c][j] = IF c = d /\ j = i THEN new ELSE labels[c][j]
  <2> DEFINE s == [labels[d] EXCEPT ![i] = new]
  <2>1. labels[d] \in Seq(LabelT)
    BY <1>2, <1>3
  <2>2. DOMAIN s = DOMAIN labels[d]
        /\ \A j \in DOMAIN s : s[j] = IF j = i THEN new ELSE labels[d][j]
    BY <1>4, <2>1
  <2>3. labels' = [labels EXCEPT ![d] = s]
    BY <1>1
  <2> HIDE DEF s
  <2> QED  BY <1>2, <1>3, <2>2, <2>3
<1>11. labels'[d][i] = new
  BY <1>2, <1>4, <1>10
<1>12. queue' = [queue EXCEPT ![d] = Decrease(queue[d], i, l.sort, labels'[d][i].sort)]
  BY <1>1, <1>9, <1>11
<1>13. \A c \in Directions :
            /\ DOMAIN labels'[c] = DOMAIN labels[c]
            /\ \A j \in DOMAIN labels[c] : c # d \/ j # i => labels'[c][j] = labels[c][j]
  BY <1>10
<1> HIDE DEF l
<1> QED
  BY <1>1, <1>2, <1>4, <1>6, <1>7, <1>8, <1>9, <1>11, <1>12, <1>13
     DEF d, i, l, cost, sort, turn

LEMMA ReachIs ==
    ASSUME SearchInv, NEW e, NEW deadEnd \in BOOLEAN, Reach(e, deadEnd)
    PROVE  LET d == work.dir
               i == Len(labels[d]) + 1
               m == labels'[d][i]
           IN /\ d \in Directions /\ at[d] \in DOMAIN labels[d] /\ e \in g.edge
              /\ i \in Nat \ {0} /\ i \notin DOMAIN labels[d] /\ ~IsReached(d, e)
              /\ m.edge = e /\ m.cost = CostTo(d, e)
              /\ m.sort = CostTo(d, e) + Heuristic(d, g.to[e])
              /\ m.turn = TurnCost(d, Reached(d).edge, e)
              /\ DOMAIN labels'[d] = DOMAIN labels[d] \cup {i}
              /\ \A j \in DOMAIN labels[d] : labels'[d][j] = labels[d][j]
              /\ \A c \in Directions : c # d => labels'[c] = labels[c]
              /\ \A c \in Directions : \A f \in Edges :
                    status'[c][f] = IF c = d /\ f = e THEN [set |-> "temporary", label |-> i]
                                    ELSE status[c][f]
              /\ queue' = [queue EXCEPT ![d] = Add(queue[d], i, m.sort)]
<1> DEFINE d == work.dir
           i == Len(labels[d]) + 1
           new == NewLabel(d, e)
           here == [set |-> "temporary", label |-> i]
<1>1. /\ Evaluates(e, deadEnd) /\ ~IsReached(d, e)
      /\ labels' = [labels EXCEPT ![d] = Append(@, new)]
      /\ status' = [status EXCEPT ![d][e] = here]
      /\ queue' = [queue EXCEPT ![d] = Add(@, i, new.sort)]
  BY DEF Reach, Tries, Admits, NewIndex, IsReached, SettledSets
<1>2. d \in Directions /\ at[d] \in DOMAIN labels[d] /\ e \in g.edge
  BY <1>1, ExaminedFacts
<1>3. /\ labels \in [Directions -> Seq(LabelT)] /\ e \in Edges
      /\ status \in [Directions -> [Edges -> Status]] /\ labels[d] \in Seq(LabelT)
  <2>1. /\ labels \in [Directions -> Seq(LabelT)] /\ request \in Requests
        /\ status \in [Directions -> [Edges -> Status]]
    BY DEF SearchInv, Types
  <2> QED  BY <1>2, <2>1, GraphFacts
<1> HIDE DEF d
<1>4. /\ new.edge = e /\ new.cost = CostTo(d, e)
      /\ new.sort = CostTo(d, e) + Heuristic(d, g.to[e])
      /\ new.turn = TurnCost(d, Reached(d).edge, e)
  BY DEF NewLabel
<1> HIDE DEF new
<1>5. /\ \A c \in Directions : c # d => labels'[c] = labels[c]
      /\ DOMAIN labels'[d] = DOMAIN labels[d] \cup {i} /\ i \in Nat \ {0}
      /\ i \notin DOMAIN labels[d] /\ labels'[d][i] = new
      /\ \A j \in DOMAIN labels[d] : labels'[d][j] = labels[d][j]
  <2> DEFINE s == Append(labels[d], new)
  <2>1. DOMAIN s = DOMAIN labels[d] \cup {i} /\ s[i] = new /\ i \notin DOMAIN labels[d]
        /\ i \in Nat \ {0} /\ \A j \in DOMAIN labels[d] : s[j] = labels[d][j]
    BY <1>3
  <2>2. labels' = [labels EXCEPT ![d] = s]
    BY <1>1
  <2> HIDE DEF s, i
  <2> QED  BY <1>2, <1>3, <2>1, <2>2
<1> HIDE DEF i
<1>6. \A c \in Directions : \A f \in Edges :
          status'[c][f] = IF c = d /\ f = e THEN here ELSE status[c][f]
  <2> HIDE DEF here
  <2> QED  BY <1>1, <1>2, <1>3
<1> QED  BY <1>1, <1>2, <1>4, <1>5, <1>6 DEF d, i

LEMMA ImproveQueues ==
    ASSUME SearchInv, QueueInv, NEW e, NEW deadEnd \in BOOLEAN, Improve(e, deadEnd)
    PROVE  QueueInv'
<1>0. PICK d \in Directions : d = work.dir
  BY ImproveIs
<1> DEFINE i == status[d][e].label
           l == labels[d][i]
           m == labels'[d][i]
           q == Decrease(queue[d], i, l.sort, m.sort)
<1>1. /\ d \in Directions /\ i \in DOMAIN labels[d] /\ l.edge = e /\ m.edge = e
      /\ status[d][e].set = "temporary" /\ m.sort \in Int
      /\ \A c \in Directions :
            /\ DOMAIN labels'[c] = DOMAIN labels[c]
            /\ \A j \in DOMAIN labels[c] : c # d \/ j # i => labels'[c][j] = labels[c][j]
      /\ queue' = [queue EXCEPT ![d] = q]
  BY <1>0, ImproveIs
<1>2. status' = status  BY DEF Improve
<1>3. \A c \in Directions : DOMAIN Sorts(c) = DOMAIN labels[c] /\ DOMAIN Sorts(c)' = DOMAIN labels[c]
  BY <1>1 DEF Sorts
<1>4. /\ Ranged(queue[d]) /\ Holds(queue[d], Sorts(d), Open(d)) /\ Open(d) \in SUBSET Nat
      /\ \A j \in Open(d) : Sorts(d)[j] \in Int
      /\ Sorts(d)[i] = l.sort
  BY <1>1, OpenIsHeld
<1>5. i \in Open(d)  BY <1>1 DEF Open, IsSettled
<1> HIDE DEF i
<1>6. /\ Sorts(d)'[i] = m.sort
      /\ \A j \in DOMAIN labels[d] : j # i => Sorts(d)'[j] = Sorts(d)[j]
  <2>1. \A j \in DOMAIN labels[d] : Sorts(d)'[j] = labels'[d][j].sort /\ Sorts(d)[j] = labels[d][j].sort
    BY <1>1 DEF Sorts
  <2> QED  BY <1>1, <2>1
<1> HIDE DEF l, m
<1>7. Ranged(q) /\ Holds(q, Sorts(d)', Open(d)) /\ q \in Queue
  <2> DEFINE cost == Sorts(d)
             cost_ == Sorts(d)'
             S == Open(d)
             c == m.sort
  <2>1. /\ i \in S /\ c \in Int /\ cost_[i] = c /\ \A j \in S : j # i => cost_[j] = cost[j]
        /\ q = Decrease(queue[d], i, cost[i], c)
    BY <1>1, <1>4, <1>5, <1>6 DEF Open
  <2>2. /\ Ranged(queue[d]) /\ Holds(queue[d], cost, S) /\ S \in SUBSET Nat
        /\ \A j \in S : cost[j] \in Int
    BY <1>4
  <2> HIDE DEF cost, cost_, S, c, q
  <2>3. /\ Ranged(Decrease(queue[d], i, cost[i], c))
        /\ Holds(Decrease(queue[d], i, cost[i], c), cost_, S)
    BY <2>1, <2>2, DecreasedHolds
  <2> QED  BY <2>1, <2>3 DEF Ranged, cost_, S
<1> HIDE DEF q
<1>8. /\ queue' \in [Directions -> Queue] /\ queue'[d] = q
      /\ \A c \in Directions : c # d => queue'[c] = queue[c]
  BY <1>1, <1>7, OneQueue
<1>9. \A c \in Directions : \A j \in DOMAIN labels[c] : labels'[c][j].edge = labels[c][j].edge
  BY <1>1 DEF l, m
<1> SUFFICES ASSUME NEW c \in Directions PROVE QueueIs(c)'
  BY <1>8 DEF QueueInv
<1>10. Open(c)' = Open(c) /\ IsLabelled(c)'
  <2>1. IsLabelled(c)  BY DEF QueueInv, QueueIs
  <2> QED  BY <1>1, <1>2, <1>9, <2>1 DEF Open, IsSettled, IsLabelled
<1>11. CASE c = d
  BY <1>7, <1>8, <1>10, <1>11 DEF QueueIs
<1>12. CASE c # d
  <2>1. \A j \in DOMAIN labels[c] : labels'[c][j] = labels[c][j]  BY <1>1, <1>12
  <2>2. Sorts(c)' = Sorts(c)  BY <1>1, <2>1 DEF Sorts
  <2> QED  BY <1>8, <1>10, <1>12, <2>2 DEF QueueInv, QueueIs
<1> QED  BY <1>11, <1>12

(* an edge that no label stood for gets one *)
LEMMA ReachQueues ==
    ASSUME SearchInv, QueueInv, NEW e, NEW deadEnd \in BOOLEAN, Reach(e, deadEnd)
    PROVE  QueueInv'
<1>0. PICK d \in Directions : d = work.dir
  BY ReachIs
<1> DEFINE i == Len(labels[d]) + 1
           m == labels'[d][i]
           q == Add(queue[d], i, m.sort)
           here == [set |-> "temporary", label |-> i]
<1>1. /\ d \in Directions /\ e \in g.edge /\ i \in Nat \ {0} /\ i \notin DOMAIN labels[d]
      /\ ~IsReached(d, e) /\ m.edge = e
      /\ DOMAIN labels'[d] = DOMAIN labels[d] \cup {i}
      /\ \A j \in DOMAIN labels[d] : labels'[d][j] = labels[d][j]
      /\ \A c \in Directions : c # d => labels'[c] = labels[c]
      /\ \A c \in Directions : \A f \in Edges :
            status'[c][f] = IF c = d /\ f = e THEN here ELSE status[c][f]
      /\ queue' = [queue EXCEPT ![d] = q]
  BY <1>0, ReachIs
<1>2. SearchInv'  BY ReachSearch
<1>3. m.sort \in Int
  <2>1. labels'[d] \in Seq(LabelT)  BY <1>1, <1>2 DEF SearchInv, Types
  <2>2. m \in LabelT  BY <1>1, <2>1
  <2> QED  BY <2>2 DEF LabelT
<1>4. \A c \in Directions : \A j \in DOMAIN labels[c] :
          labels[c][j].edge \in Edges /\ ~(c = d /\ labels[c][j].edge = e)
  <2>1. \A c \in Directions : \A j \in DOMAIN labels[c] : IsReached(c, labels[c][j].edge)
    BY DEF SearchInv, LabelsAreLegal, LegalLabel
  <2>2. \A c \in Directions : \A j \in DOMAIN labels[c] : labels[c][j].edge \in Edges
    BY LabelCosts
  <2> QED  BY <1>1, <2>1, <2>2
<1>5. e \in Edges  BY <1>1, GraphFacts DEF SearchInv, Types
<1>6. /\ Ranged(queue[d]) /\ Holds(queue[d], Sorts(d), Open(d)) /\ Open(d) \in SUBSET Nat
      /\ \A j \in Open(d) : Sorts(d)[j] \in Int
  BY <1>1, OpenIsHeld
<1> HIDE DEF i, m, here
<1>7. /\ here.set = "temporary" /\ here.label = i  BY DEF here
<1>8. Open(d)' = Open(d) \cup {i}
  <2>1. \A j \in DOMAIN labels[d] :
            status'[d][labels'[d][j].edge] = status[d][labels[d][j].edge]
    BY <1>1, <1>4
  <2>2. status'[d][labels'[d][i].edge].set # "permanent"
    BY <1>1, <1>5, <1>7 DEF m
  <2>3. Open(d)' = {j \in DOMAIN labels'[d] : status'[d][labels'[d][j].edge].set # "permanent"}
    BY DEF Open, IsSettled
  <2>4. Open(d) = {j \in DOMAIN labels[d] : status[d][labels[d][j].edge].set # "permanent"}
    BY DEF Open, IsSettled
  <2> QED  BY <1>1, <2>1, <2>2, <2>3, <2>4
<1>9. /\ Sorts(d)'[i] = m.sort
      /\ \A j \in Open(d) : Sorts(d)'[j] = Sorts(d)[j]
  <2>1. \A j \in DOMAIN labels[d] : Sorts(d)'[j] = labels'[d][j].sort /\ Sorts(d)[j] = labels[d][j].sort
    BY <1>1 DEF Sorts
  <2>2. Sorts(d)'[i] = labels'[d][i].sort  BY <1>1 DEF Sorts
  <2> QED  BY <1>1, <2>1, <2>2 DEF Open, m
<1>10. Ranged(q) /\ Holds(q, Sorts(d)', Open(d) \cup {i}) /\ q \in Queue
  <2> DEFINE cost == Sorts(d)
             cost_ == Sorts(d)'
             S == Open(d)
             c == m.sort
  <2>1. /\ i \in Nat \ S /\ c \in Int /\ cost_[i] = c /\ \A j \in S : cost_[j] = cost[j]
        /\ q = Add(queue[d], i, c)
    BY <1>1, <1>3, <1>9 DEF Open
  <2>2. /\ Ranged(queue[d]) /\ Holds(queue[d], cost, S) /\ S \in SUBSET Nat
        /\ \A j \in S : cost[j] \in Int
    BY <1>6
  <2> HIDE DEF cost, cost_, S, c, q
  <2>3. Ranged(Add(queue[d], i, c)) /\ Holds(Add(queue[d], i, c), cost_, S \cup {i})
    BY <2>1, <2>2, AddedHolds
  <2> QED  BY <2>1, <2>3 DEF Ranged, cost_, S
<1> HIDE DEF q
<1>11. /\ queue' \in [Directions -> Queue] /\ queue'[d] = q
       /\ \A c \in Directions : c # d => queue'[c] = queue[c]
  BY <1>1, <1>10, OneQueue
<1> SUFFICES ASSUME NEW c \in Directions PROVE QueueIs(c)'
  BY <1>11 DEF QueueInv
<1>12. CASE c # d
  BY <1>1, <1>4, <1>11, <1>12, OtherQueueKept
<1>13. CASE c = d
  <2>1. IsLabelled(d)  BY <1>1 DEF QueueInv, QueueIs
  <2>2. IsLabelled(d)'
    <3>1. \A j \in DOMAIN labels[d] : status'[d][labels'[d][j].edge].label = j
      BY <1>1, <1>4, <2>1 DEF IsLabelled
    <3>2. status'[d][labels'[d][i].edge].label = i
      BY <1>1, <1>5, <1>7 DEF m
    <3> QED  BY <1>1, <3>1, <3>2 DEF IsLabelled
  <2> QED  BY <1>8, <1>10, <1>11, <1>13, <2>2 DEF QueueIs
<1> QED  BY <1>12, <1>13

LEMMA NextQueues == SearchInv /\ QueueInv /\ [Next]_vars => QueueInv'
<1> SUFFICES ASSUME SearchInv, QueueInv, [Next]_vars PROVE QueueInv'
  OBVIOUS
<1>1. CASE IterationsExceeded
  BY <1>1, QueuesKept DEF IterationsExceeded
<1>2. ASSUME NEW d \in Directions, NotExpanded(d) \/ Prune(d) \/ BeginExpand(d)
      PROVE  QueueInv'
  BY <1>2, QueuesKept DEF NotExpanded, Prune, BeginExpand
<1>3. ASSUME NEW d \in Directions, Exhausted(d) PROVE QueueInv'
  BY <1>3, ExhaustedQueues
<1>4. ASSUME NEW d \in Directions, NEW i, StopAt(d, i) \/ Connect(d, i) \/ GoOn(d, i)
      PROVE  QueueInv'
  BY <1>4, SettledQueues DEF StopAt, Connect, GoOn
<1>5. CASE SetAside \/ Transition \/ EndExpand
  BY <1>5, QueuesKept DEF SetAside, Transition, EndExpand
<1>6. ASSUME NEW deadEnd \in BOOLEAN, NEW e,
             SkipSuperseded(e, deadEnd) \/ Refuse(e, deadEnd) \/ KeepLabel(e, deadEnd)
      PROVE  QueueInv'
  BY <1>6, QueuesKept DEF SkipSuperseded, Refuse, KeepLabel
<1>7. ASSUME NEW deadEnd \in BOOLEAN, NEW e,
             SkipShortcut(e, deadEnd) \/ Improve(e, deadEnd) \/ Reach(e, deadEnd)
      PROVE  QueueInv'
  BY <1>7, SkipShortcutQueues, ImproveQueues, ReachQueues
<1>8. CASE Retry
  BY <1>8, RetryQueues
<1>9. CASE \/ \E k \in DOMAIN best : FormPath(k)
           \/ WalkBack \/ TurnOver \/ WalkOn \/ \E keeps \in BOOLEAN : GivePath(keeps)
  BY <1>9, QueuesKept DEF FormPath, WalkBack, TurnOver, WalkOn, GivePath
<1>10. CASE UNCHANGED vars
  BY <1>10, QueuesKept DEF vars
<1>11. Next \/ UNCHANGED vars
  OBVIOUS
<1> QED
  BY <1>1, <1>2, <1>3, <1>4, <1>5, <1>6, <1>7, <1>8, <1>9, <1>10, <1>11 DEF Next, Step, Answered

-----------------------------------------------------------------------------
(* The costs: they and the sort costs are whole numbers, and a sort cost is   *)
(* the cost and the estimate from the edge's end.                             *)

SortIs(d, l) ==
    /\ l.cost \in Nat /\ l.turn \in Nat /\ l.sort = l.cost + Heuristic(d, g.to[l.edge])
SortsInv == \A d \in Directions : \A i \in DOMAIN labels[d] : SortIs(d, labels[d][i])

LEMMA BegunSorts == Begun => SortsInv
<1> SUFFICES ASSUME Begun, NEW d \in Directions, NEW i \in DOMAIN labels[d]
             PROVE  SortIs(d, labels[d][i])
  BY DEF SortsInv
<1>1. request \in Requests /\ Searched /\ labels[d] = RootLabels(d)
  BY DEF Begun
<1> DEFINE C == Candidates(d)
<1>2. /\ i \in DOMAIN C /\ C \in Seq(Location)
      /\ labels[d][i] = RootLabel(d, C[i])
  BY <1>1, CandidateFacts DEF RootLabels
<1> HIDE DEF C
<1>3. C[i] \in Location  BY <1>2
<1>4. C[i].cost \in Nat  BY <1>3 DEF Location
<1> QED  BY <1>2, <1>4 DEF SortIs, RootLabel

LEMMA InitSorts == Init => SortsInv
BY BegunSorts DEF Init, Begun

LEMMA RetrySorts == SearchInv /\ Retry => SortsInv'
<1> SUFFICES ASSUME SearchInv, Retry PROVE SortsInv'
  OBVIOUS
<1>1. request' = request /\ g' = g /\ Searched'
  BY SearchedKept DEF Retry, SearchInv, g
<1>2. Begun'
  <2>1. \A d \in Directions : RootLabels(d)' = RootLabels(d) /\ RootStatus(d)' = RootStatus(d)
    BY <1>1 DEF RootLabels, RootStatus, RootLabel, Candidates, Heuristic, Own, Far, g
  <2> QED  BY <1>1, <2>1 DEF Begun, Retry, SearchInv, Types
<1> QED  BY <1>2, BegunSorts, PTL

LEMMA SortsKept == ASSUME SortsInv, UNCHANGED <<request, labels>> PROVE SortsInv'
BY DEF SortsInv, SortIs, Heuristic, Far, Own, g

LEMMA CostToIsNat ==
    ASSUME SearchInv, SortsInv, NEW e, NEW deadEnd \in BOOLEAN, Evaluates(e, deadEnd)
    PROVE  CostTo(work.dir, e) \in Nat
<1>1. Reached(work.dir).cost \in Nat
  BY ExaminedFacts DEF SortsInv, SortIs, Reached
<1> QED  BY <1>1, CostToIs

LEMMA ImprovedSort ==
    ASSUME SearchInv, SortsInv, NEW e, NEW deadEnd \in BOOLEAN, Improve(e, deadEnd)
    PROVE  labels'[work.dir][status[work.dir][e].label].sort
               = CostTo(work.dir, e) + Heuristic(work.dir, g.to[e])
<1>0. PICK d \in Directions : d = work.dir
  BY ImproveIs
<1> DEFINE i == status[d][e].label
           l == labels[d][i]
           m == labels'[d][i]
           h == Heuristic(d, g.to[e])
<1>1. /\ i \in DOMAIN labels[d] /\ l.edge = e
      /\ m.sort = l.sort - (l.cost - CostTo(d, e))
  BY <1>0, ImproveIs
<1>2. Evaluates(e, deadEnd)  BY DEF Improve, Tries
<1>3. CostTo(d, e) \in Nat
  BY <1>0, <1>2, CostToIsNat
<1>4. SortIs(d, l)  BY <1>1 DEF SortsInv
<1>5. h \in Nat
  <2>1. /\ e \in g.edge /\ request \in Requests  BY <1>0, ImproveIs DEF SearchInv, Types
  <2>2. g.to[e] \in Nodes  BY <2>1, GraphFacts
  <2> QED  BY <2>1, <2>2, DistancesAreNat
<1>6. l.cost \in Nat /\ l.sort = l.cost + h  BY <1>1, <1>4 DEF SortIs
<1>7. m.sort = CostTo(d, e) + h
  <2> HIDE DEF l, m, h
  <2> QED  BY <1>1, <1>3, <1>5, <1>6
<1> QED  BY <1>0, <1>7

LEMMA ImproveSorts ==
    ASSUME SearchInv, SortsInv, NEW e, NEW deadEnd \in BOOLEAN, Improve(e, deadEnd)
    PROVE  SortsInv'
<1>0. PICK d \in Directions : d = work.dir
  BY ImproveIs
<1> DEFINE i == status[d][e].label
           l == labels[d][i]
           m == labels'[d][i]
           h == Heuristic(d, g.to[e])
<1>1. /\ i \in DOMAIN labels[d] /\ l.edge = e /\ m.edge = e /\ m.cost = CostTo(d, e)
      /\ m.sort = l.sort - (l.cost - CostTo(d, e)) /\ m.turn = TurnCost(d, Reached(d).edge, e)
      /\ \A c \in Directions :
            /\ DOMAIN labels'[c] = DOMAIN labels[c]
            /\ \A j \in DOMAIN labels[c] : c # d \/ j # i => labels'[c][j] = labels[c][j]
  BY <1>0, ImproveIs
<1>2. Evaluates(e, deadEnd) /\ request' = request  BY DEF Improve, Tries
<1>3. CostTo(d, e) \in Nat /\ TurnCost(d, Reached(d).edge, e) \in Nat
  BY <1>0, <1>2, CostToIsNat, CostToIs
<1>4. m.sort = CostTo(d, e) + h
  BY <1>0, ImprovedSort
<1>7. SortIs(d, m)  BY <1>1, <1>3, <1>4 DEF SortIs
<1> HIDE DEF i, l
<1>8. \A c \in Directions : \A j \in DOMAIN labels'[c] : SortIs(c, labels'[c][j])
  <2> SUFFICES ASSUME NEW c \in Directions, NEW j \in DOMAIN labels'[c]
               PROVE  SortIs(c, labels'[c][j])
    OBVIOUS
  <2>1. CASE c = d /\ j = i  BY <1>7, <2>1
  <2>2. CASE c # d \/ j # i  BY <1>1, <2>2 DEF SortsInv
  <2> QED  BY <2>1, <2>2
<1> QED  BY <1>2, <1>8 DEF SortsInv, SortIs, Heuristic, Far, Own, g

LEMMA ReachSorts ==
    ASSUME SearchInv, SortsInv, NEW e, NEW deadEnd \in BOOLEAN, Reach(e, deadEnd)
    PROVE  SortsInv'
<1>0. PICK d \in Directions : d = work.dir
  BY ReachIs
<1> DEFINE i == Len(labels[d]) + 1
           m == labels'[d][i]
<1>1. /\ m.edge = e /\ m.cost = CostTo(d, e) /\ m.sort = CostTo(d, e) + Heuristic(d, g.to[e])
      /\ m.turn = TurnCost(d, Reached(d).edge, e)
      /\ DOMAIN labels'[d] = DOMAIN labels[d] \cup {i}
      /\ \A j \in DOMAIN labels[d] : labels'[d][j] = labels[d][j]
      /\ \A c \in Directions : c # d => labels'[c] = labels[c]
  BY <1>0, ReachIs
<1>2. Evaluates(e, deadEnd) /\ request' = request  BY DEF Reach, Tries
<1>3. CostTo(d, e) \in Nat /\ TurnCost(d, Reached(d).edge, e) \in Nat
  BY <1>0, <1>2, CostToIsNat, CostToIs
<1>4. SortIs(d, m)  BY <1>1, <1>3 DEF SortIs
<1> HIDE DEF i
<1>5. \A c \in Directions : \A j \in DOMAIN labels'[c] : SortIs(c, labels'[c][j])
  <2> SUFFICES ASSUME NEW c \in Directions, NEW j \in DOMAIN labels'[c]
               PROVE  SortIs(c, labels'[c][j])
    OBVIOUS
  <2>1. CASE c = d /\ j = i  BY <1>4, <2>1
  <2>2. CASE c = d /\ j \in DOMAIN labels[d]  BY <1>1, <2>2 DEF SortsInv
  <2>3. CASE c # d  BY <1>1, <2>3 DEF SortsInv
  <2> QED  BY <1>1, <2>1, <2>2, <2>3
<1> QED  BY <1>2, <1>5 DEF SortsInv, SortIs, Heuristic, Far, Own, g

LEMMA NextSorts == SearchInv /\ SortsInv /\ [Next]_vars => SortsInv'
<1> SUFFICES ASSUME SearchInv, SortsInv, [Next]_vars PROVE SortsInv'
  OBVIOUS
<1>1. ASSUME NEW deadEnd \in BOOLEAN, NEW e, Improve(e, deadEnd) \/ Reach(e, deadEnd)
      PROVE  SortsInv'
  BY <1>1, ImproveSorts, ReachSorts
<1>2. CASE Retry
  BY <1>2, RetrySorts
<1>3. CASE IterationsExceeded \/ SetAside \/ Transition \/ EndExpand
  BY <1>3, SortsKept DEF IterationsExceeded, SetAside, Transition, EndExpand
<1>4. ASSUME NEW d \in Directions,
             NotExpanded(d) \/ Exhausted(d) \/ Prune(d) \/ BeginExpand(d)
      PROVE  SortsInv'
  BY <1>4, SortsKept DEF NotExpanded, Exhausted, Prune, BeginExpand
<1>5. ASSUME NEW d \in Directions, NEW i, StopAt(d, i) \/ Connect(d, i) \/ GoOn(d, i)
      PROVE  SortsInv'
  BY <1>5, SortsKept DEF StopAt, Connect, GoOn, Settle
<1>6. ASSUME NEW deadEnd \in BOOLEAN, NEW e,
             \/ SkipSuperseded(e, deadEnd) \/ SkipShortcut(e, deadEnd)
             \/ Refuse(e, deadEnd) \/ KeepLabel(e, deadEnd)
      PROVE  SortsInv'
  BY <1>6, SortsKept DEF SkipSuperseded, SkipShortcut, Refuse, KeepLabel
<1>7. CASE \/ \E k \in DOMAIN best : FormPath(k)
           \/ WalkBack \/ TurnOver \/ WalkOn \/ \E keeps \in BOOLEAN : GivePath(keeps)
  BY <1>7, SortsKept DEF FormPath, WalkBack, TurnOver, WalkOn, GivePath
<1>8. CASE UNCHANGED vars
  BY <1>8, SortsKept DEF vars
<1>9. Next \/ UNCHANGED vars
  OBVIOUS
<1> QED
  BY <1>1, <1>2, <1>3, <1>4, <1>5, <1>6, <1>7, <1>8, <1>9 DEF Next, Step, Answered

-----------------------------------------------------------------------------
(* What is popped: while a road costs no less than the estimate falls along   *)
(* it, no label added or improved costs less than the one expanded, and the    *)
(* current cost of a queue stays below all it holds once it has moved on.      *)

RisesIs(d) ==
    \/ queue[d].current = Least
    \/ \A i \in DOMAIN labels[d] :
          i \in Open(d) \/ i = at[d] => queue[d].current <= labels[d][i].sort
RisesInv == \A d \in Directions : RisesIs(d)

LEMMA LeastIs == request \in Requests => Least \in Int
<1> SUFFICES ASSUME request \in Requests PROVE Least \in Int
  OBVIOUS
<1>1. g.start \in Nat /\ g.goal \in Nat  BY GraphFacts
<1> HIDE DEF g
<1>2. Abs(g.start - g.goal) \in Int  BY <1>1 DEF Abs
<1> QED  BY <1>2, BucketAssumption DEF Least, EmptyQueue

LEMMA LabelSorts ==
    ASSUME SearchInv, NEW d \in Directions, NEW i \in DOMAIN labels[d]
    PROVE  labels[d][i].sort \in Int /\ Sorts(d)[i] = labels[d][i].sort
<1>1. labels[d] \in Seq(LabelT)  BY DEF SearchInv, Types
<1> QED  BY <1>1, SortsAre

LEMMA BegunRises ==
    ASSUME request \in Requests, Searched, queue = [d \in Directions |-> RootQueue(d)]
    PROVE  RisesInv
<1>1. \A d \in Directions : queue[d].current = Least  BY RootQueueIs
<1> QED  BY <1>1 DEF RisesInv, RisesIs

LEMMA InitRises == Init => RisesInv
BY BegunRises DEF Init

LEMMA RetryRises == SearchInv /\ Retry => RisesInv'
<1> SUFFICES ASSUME SearchInv, Retry PROVE RisesInv'
  OBVIOUS
<1>1. request' = request /\ g' = g /\ Searched'
  BY SearchedKept DEF Retry, SearchInv, g
<1>2. (request \in Requests /\ Searched /\ queue = [d \in Directions |-> RootQueue(d)])'
  <2>1. \A d \in Directions : RootQueue(d)' = RootQueue(d)
    BY <1>1 DEF RootQueue, RootLabels, RootLabel, Candidates, Heuristic, Own, Far, g
  <2>2. queue' = [d \in Directions |-> RootQueue(d)] /\ request' \in Requests
    BY DEF Retry, SearchInv, Types
  <2> QED  BY <1>1, <2>1, <2>2
<1> QED  BY <1>2, BegunRises, PTL

LEMMA RisesKept ==
    ASSUME RisesInv, UNCHANGED <<request, labels, queue, at>>,
           \A d \in Directions : Open(d)' = Open(d)
    PROVE  RisesInv'
BY DEF RisesInv, RisesIs, Least, g

LEMMA OpenKept ==
    ASSUME UNCHANGED <<labels, status>>
    PROVE  \A d \in Directions : Open(d)' = Open(d)
BY DEF Open, IsSettled

LEMMA PoppedRises ==
    ASSUME SearchInv, QueueInv, NEW d \in Directions, NEW low \in Int,
           Rises(queue[d], Sorts(d), Open(d), low)
    PROVE  /\ Rises(Popped(d).queue, Sorts(d), Open(d), low)
           /\ Popped(d).label # NoLabel => IsCheapest(Popped(d).label, Sorts(d), Open(d), low)
<1> DEFINE q == queue[d]
           cost == Sorts(d)
           S == Open(d)
<1>1. /\ Ranged(q) /\ Holds(q, cost, S) /\ S \in SUBSET (Nat \ {0})
      /\ \A i \in S : cost[i] \in Int
  BY OpenIsHeld
<1>2. Popped(d) = Pop(q, cost)  BY DEF Popped
<1> HIDE DEF q, cost, S, Popped
<1>3. Rises(q, cost, S, low) =>
          /\ Rises(Pop(q, cost).queue, cost, S, low)
          /\ Pop(q, cost).label # NoLabel => IsCheapest(Pop(q, cost).label, cost, S, low)
  BY <1>1, PopHolds
<1> QED  BY <1>2, <1>3 DEF q, S, cost

LEMMA FirstRises ==
    ASSUME SearchInv, RisesInv, NEW d \in Directions
    PROVE  Least \in Int /\ Rises(queue[d], Sorts(d), Open(d), Least)
<1>1. Rises(queue[d], Sorts(d), Open(d), Least)
  BY LabelSorts DEF RisesInv, RisesIs, Rises, Open
<1>2. Least \in Int  BY LeastIs DEF SearchInv, Types
<1> QED  BY <1>1, <1>2

(* a pop: what is left open, and the label popped, were open before *)
LEMMA PopRises ==
    ASSUME SearchInv, QueueInv, RisesInv, NEW d \in Directions,
           queue' = [queue EXCEPT ![d] = Popped(d).queue], at' = [at EXCEPT ![d] = Popped(d).label],
           UNCHANGED <<request, labels>>,
           \A c \in Directions : Open(c)' \subseteq Open(c)
    PROVE  RisesInv'
<1> DEFINE q == Popped(d).queue
           k == Popped(d).label
<1>1. /\ q \in Queue /\ Rises(q, Sorts(d), Open(d), Least)
      /\ k = NoLabel \/ k \in Open(d)
  BY PoppedQueues, FirstRises, PoppedRises
<1> HIDE DEF q
<1>2. queue'[d] = q /\ \A c \in Directions : c # d => queue'[c] = queue[c]
  <2>1. queue' = [queue EXCEPT ![d] = q]  BY DEF q
  <2> QED  BY <1>1, <2>1, OneQueue
<1>3. at'[d] = k /\ \A c \in Directions : c # d => at'[c] = at[c]
  <2> HIDE DEF k
  <2>1. at' = [at EXCEPT ![d] = k]  BY DEF k
  <2> QED  BY <2>1 DEF SearchInv, Types
<1> HIDE DEF k
<1>4. Least' = Least  BY DEF Least, g
<1> SUFFICES ASSUME NEW c \in Directions PROVE RisesIs(c)'
  BY DEF RisesInv
<1>5. CASE c = d
  <2>1. NoLabel \notin DOMAIN labels[d]
    <3>1. labels[d] \in Seq(LabelT)  BY DEF SearchInv, Types
    <3> QED  BY <3>1
  <2>2. \A i \in DOMAIN labels[d] : i \in Open(d)' \/ i = at'[d] => i \in Open(d)
    BY <1>1, <1>3, <2>1
  <2>3. \A i \in DOMAIN labels[d] : Sorts(d)[i] = labels[d][i].sort  BY LabelSorts
  <2> QED  BY <1>1, <1>2, <1>4, <1>5, <2>2, <2>3 DEF RisesIs, Rises
<1>6. CASE c # d
  <2>1. RisesIs(c)  BY DEF RisesInv
  <2> QED  BY <1>2, <1>3, <1>4, <1>6, <2>1 DEF RisesIs
<1> QED  BY <1>5, <1>6

LEMMA SettledOpen ==
    ASSUME SearchInv, NEW d \in Directions, NEW i, Settle(d, i)
    PROVE  \A c \in Directions : Open(c)' \subseteq Open(c)
<1> DEFINE x == labels[d][i].edge
<1>1. /\ status' = [status EXCEPT ![d][x].set = "permanent"]
      /\ labels' = labels /\ i \in DOMAIN labels[d]
  BY DEF Settle
<1>2. /\ status \in [Directions -> [Edges -> Status]] /\ x \in Edges
      /\ \A c \in Directions : \A j \in DOMAIN labels[c] : labels[c][j].edge \in Edges
  BY <1>1, LabelCosts DEF SearchInv, Types
<1> HIDE DEF x
<1>3. \A c \in Directions : \A f \in Edges :
          status[c][f].set = "permanent" => status'[c][f].set = "permanent"
  <2> DEFINE s == [status[d][x] EXCEPT !.set = "permanent"]
  <2>1. s.set = "permanent"
    <3>1. status[d][x] \in Status  BY <1>2
    <3> QED  BY <3>1 DEF Status
  <2>2. status' = [status EXCEPT ![d] = [status[d] EXCEPT ![x] = s]]  BY <1>1
  <2> HIDE DEF s
  <2>3. \A c \in Directions : \A f \in Edges :
            status'[c][f] = IF c = d /\ f = x THEN s ELSE status[c][f]
    BY <1>2, <2>2
  <2> QED  BY <2>1, <2>3
<1> QED  BY <1>1, <1>2, <1>3 DEF Open, IsSettled

LEMMA SkippedOpen ==
    ASSUME SearchInv, NEW e, NEW deadEnd \in BOOLEAN, SkipShortcut(e, deadEnd)
    PROVE  \A c \in Directions : Open(c)' = Open(c)
<1>1. ASSUME NEW c \in Directions, NEW i \in DOMAIN labels[c]
      PROVE  status'[c][labels[c][i].edge] = status[c][labels[c][i].edge]
  <2> DEFINE d == work.dir
  <2>1. ~IsReached(d, e) /\ status' = [status EXCEPT ![d][e] = Skipped]
    BY SkippedIsNotReached DEF SkipShortcut
  <2>2. IsReached(c, labels[c][i].edge)
    BY DEF SearchInv, LabelsAreLegal, LegalLabel
  <2> HIDE DEF d
  <2>3. ~(c = d /\ labels[c][i].edge = e)  BY <2>1, <2>2
  <2> QED  BY <2>1, <2>3
<1>2. labels' = labels  BY DEF SkipShortcut
<1> QED  BY <1>1, <1>2 DEF Open, IsSettled

(* the way on costs no less than the way so far *)
LEMMA CostsRise ==
    ASSUME SearchInv, SortsInv, HeuristicIsConsistent,
           NEW e, NEW deadEnd \in BOOLEAN, Evaluates(e, deadEnd)
    PROVE  LET d == work.dir IN
           labels[d][at[d]].sort <= CostTo(d, e) + Heuristic(d, g.to[e])
<1> DEFINE d == work.dir
           l == labels[d][at[d]]
           x == g.cost[Driven(d, e)]
           turn == TurnCost(d, Reached(d).edge, e)
<1>1. /\ d \in Directions /\ at[d] \in DOMAIN labels[d] /\ e \in g.edge
      /\ g.from[e] = EndNode \/ g.from[e] \in ToSet(g.trans[EndNode])
      /\ EndNode \in Nodes /\ EndNode = g.to[l.edge] /\ request \in Requests
  BY ExaminedFacts DEF SearchInv, Types, EndNode, Reached
<1>2. /\ x \in Nat /\ turn \in Nat /\ CostTo(d, e) = l.cost + x + turn
      /\ l.cost \in Nat /\ l.sort = l.cost + Heuristic(d, g.to[l.edge])
  BY <1>1, CostToIs DEF SortsInv, SortIs, Reached
<1> DEFINE a == g.pos[g.from[e]]
           b == g.pos[g.to[e]]
           c == Far(d)
<1>3. a \in Nat /\ b \in Nat /\ c \in Nat /\ g.pos[EndNode] = a
  <2>1. g.from[e] \in Nodes /\ g.to[e] \in Nodes /\ g.start \in Nat /\ g.goal \in Nat
    BY <1>1, GraphFacts
  <2>2. Far(d) \in {g.start, g.goal}  BY <1>1 DEF Far, Own, Other
  <2> HIDE DEF d, l
  <2>3. g.pos[EndNode] = g.pos[g.from[e]]  BY <1>1, GraphFacts
  <2> QED  BY <1>1, <2>1, <2>2, <2>3, GraphFacts
<1>4. Abs(b - a) <= x
  <2>1. CASE d = Fwd  BY <1>1, <2>1 DEF HeuristicIsConsistent, Driven
  <2>2. CASE d = Rev
    <3>1. /\ g.opp[e] \in g.edge /\ g.from[g.opp[e]] = g.to[e] /\ g.to[g.opp[e]] = g.from[e]
      BY <1>1, GraphFacts
    <3>2. Abs(a - b) <= x  BY <2>2, <3>1 DEF HeuristicIsConsistent, Driven
    <3> HIDE DEF a, b, x
    <3>3. Abs(a - b) = Abs(b - a)  BY <1>3 DEF Abs
    <3> QED  BY <3>2, <3>3
  <2> QED  BY <1>1, <2>1, <2>2
<1>5. /\ Heuristic(d, g.to[l.edge]) = Abs(a - c) /\ Heuristic(d, g.to[e]) = Abs(b - c)
  BY <1>1, <1>3 DEF Heuristic
<1> HIDE DEF a, b, c, x, turn, l, d
<1>6. Abs(a - c) <= Abs(b - c) + x  BY <1>2, <1>3, <1>4 DEF Abs
<1>7. Abs(a - c) \in Int /\ Abs(b - c) \in Int  BY <1>3 DEF Abs
<1>8. l.sort <= CostTo(d, e) + Heuristic(d, g.to[e])  BY <1>2, <1>5, <1>6, <1>7
<1> QED  BY <1>8 DEF l, d

LEMMA CurrentStays ==
    ASSUME NEW q \in Queue, NEW i, NEW a, NEW b
    PROVE  Add(q, i, b).current = q.current /\ Decrease(q, i, a, b).current = q.current
<1>1. \A r \in {q, PushTo(q, BucketOf(q, b), i)} : "current" \in DOMAIN r
  BY DEF PushTo, Queue
<1>2. PushTo(q, BucketOf(q, b), i).current = q.current
  BY DEF PushTo, Queue
<1>3. \A r : \A k : TakeFrom(r, k, i).current = r.current
  BY DEF TakeFrom
<1> QED  BY <1>2, <1>3 DEF Add, Decrease

LEMMA ImproveRises ==
    ASSUME SearchInv, QueueInv, SortsInv, RisesInv, HeuristicIsConsistent,
           NEW e, NEW deadEnd \in BOOLEAN, Improve(e, deadEnd)
    PROVE  RisesInv'
<1>0. PICK d \in Directions : d = work.dir
  BY ImproveIs
<1> DEFINE i == status[d][e].label
           l == labels[d][i]
           m == labels'[d][i]
           q == Decrease(queue[d], i, l.sort, m.sort)
<1>1. /\ at[d] \in DOMAIN labels[d] /\ i \in DOMAIN labels[d] /\ l.edge = e /\ m.edge = e
      /\ status[d][e].set = "temporary" /\ m.sort \in Int /\ m.cost = CostTo(d, e)
      /\ \A c \in Directions :
            /\ DOMAIN labels'[c] = DOMAIN labels[c]
            /\ \A j \in DOMAIN labels[c] : c # d \/ j # i => labels'[c][j] = labels[c][j]
      /\ queue' = [queue EXCEPT ![d] = q]
  BY <1>0, ImproveIs
<1>2. status' = status /\ at' = at /\ request' = request /\ Evaluates(e, deadEnd)
  BY DEF Improve, Tries
<1>3. \A c \in Directions : Open(c)' = Open(c)
  <2>1. \A c \in Directions : \A j \in DOMAIN labels[c] : labels'[c][j].edge = labels[c][j].edge
    BY <1>1
  <2> QED  BY <1>1, <1>2, <2>1 DEF Open, IsSettled
<1>4. \A c \in Directions : queue'[c].current = queue[c].current
  <2>1. queue[d] \in Queue  BY DEF QueueInv
  <2> HIDE DEF i, l, m
  <2>2. q.current = queue[d].current  BY <2>1, CurrentStays
  <2> HIDE DEF q
  <2> QED  BY <1>1, <2>2
<1>5. labels[d][at[d]].sort <= m.sort
  BY <1>0, <1>2, ImprovedSort, CostsRise
<1> HIDE DEF i, l, m, q
<1>7. Least' = Least  BY <1>2 DEF Least, g
<1> SUFFICES ASSUME NEW c \in Directions PROVE RisesIs(c)'
  BY DEF RisesInv
<1>8. RisesIs(c)  BY DEF RisesInv
<1>9. CASE queue[c].current = Least
  BY <1>4, <1>7, <1>9 DEF RisesIs
<1>10. CASE queue[c].current # Least
  <2> SUFFICES ASSUME NEW j \in DOMAIN labels[c], j \in Open(c) \/ j = at[c]
               PROVE  queue[c].current <= labels'[c][j].sort
    BY <1>1, <1>2, <1>3, <1>4 DEF RisesIs
  <2>1. queue[c].current <= labels[c][j].sort  BY <1>8, <1>10 DEF RisesIs
  <2>2. CASE c # d \/ j # i  BY <1>1, <2>1, <2>2
  <2>3. CASE c = d /\ j = i
    <3>1. queue[d].current <= labels[d][at[d]].sort  BY <1>1, <1>8, <1>10, <2>3 DEF RisesIs
    <3>2. queue[d].current \in Int  BY DEF QueueInv, Queue
    <3>3. labels[d][at[d]].sort \in Int  BY <1>1, LabelSorts
    <3> QED  BY <1>1, <1>5, <2>3, <3>1, <3>2, <3>3 DEF m
  <2> QED  BY <2>2, <2>3
<1> QED  BY <1>9, <1>10

LEMMA ReachRises ==
    ASSUME SearchInv, QueueInv, SortsInv, RisesInv, HeuristicIsConsistent,
           NEW e, NEW deadEnd \in BOOLEAN, Reach(e, deadEnd)
    PROVE  RisesInv'
<1>0. PICK d \in Directions : d = work.dir
  BY ReachIs
<1> DEFINE i == Len(labels[d]) + 1
           m == labels'[d][i]
           q == Add(queue[d], i, m.sort)
           here == [set |-> "temporary", label |-> i]
<1>1. /\ at[d] \in DOMAIN labels[d] /\ e \in g.edge /\ i \notin DOMAIN labels[d]
      /\ ~IsReached(d, e) /\ m.sort = CostTo(d, e) + Heuristic(d, g.to[e])
      /\ DOMAIN labels'[d] = DOMAIN labels[d] \cup {i}
      /\ \A j \in DOMAIN labels[d] : labels'[d][j] = labels[d][j]
      /\ \A c \in Directions : c # d => labels'[c] = labels[c]
      /\ \A c \in Directions : \A f \in Edges :
            status'[c][f] = IF c = d /\ f = e THEN here ELSE status[c][f]
      /\ queue' = [queue EXCEPT ![d] = q]
  BY <1>0, ReachIs
<1>2. at' = at /\ request' = request /\ Evaluates(e, deadEnd)
  BY DEF Reach, Tries
<1>3. \A c \in Directions : queue'[c].current = queue[c].current
  <2>1. queue[d] \in Queue  BY DEF QueueInv
  <2> HIDE DEF i, m
  <2>2. q.current = queue[d].current  BY <2>1, CurrentStays
  <2> HIDE DEF q, here
  <2> QED  BY <1>1, <2>2
<1>4. labels[d][at[d]].sort <= m.sort
  <2> HIDE DEF m
  <2> QED  BY <1>0, <1>1, <1>2, CostsRise
<1> HIDE DEF i, m, q, here
<1>5. \A c \in Directions : \A j \in DOMAIN labels[c] :
          status'[c][labels[c][j].edge] = status[c][labels[c][j].edge]
  <2>1. \A c \in Directions : \A j \in DOMAIN labels[c] : IsReached(c, labels[c][j].edge)
    BY DEF SearchInv, LabelsAreLegal, LegalLabel
  <2>2. \A c \in Directions : \A j \in DOMAIN labels[c] : labels[c][j].edge \in Edges
    BY LabelCosts
  <2> QED  BY <1>1, <2>1, <2>2
<1>6. \A c \in Directions : \A j \in DOMAIN labels[c] : labels'[c][j] = labels[c][j]
  BY <1>1
<1>7. \A c \in Directions : \A j \in DOMAIN labels[c] : j \in Open(c)' => j \in Open(c)
  BY <1>5, <1>6 DEF Open, IsSettled
<1>8. Least' = Least  BY <1>2 DEF Least, g
<1> SUFFICES ASSUME NEW c \in Directions PROVE RisesIs(c)'
  BY DEF RisesInv
<1>9. RisesIs(c)  BY DEF RisesInv
<1>10. CASE queue[c].current = Least
  BY <1>3, <1>8, <1>10 DEF RisesIs
<1>11. CASE queue[c].current # Least
  <2> SUFFICES ASSUME NEW j \in DOMAIN labels'[c], j \in Open(c)' \/ j = at[c]
               PROVE  queue[c].current <= labels'[c][j].sort
    BY <1>2, <1>3 DEF RisesIs
  <2>1. CASE j \in DOMAIN labels[c]
    BY <1>6, <1>7, <1>9, <1>11, <2>1 DEF RisesIs
  <2>2. CASE c = d /\ j = i
    <3>1. queue[d].current <= labels[d][at[d]].sort  BY <1>1, <1>9, <1>11, <2>2 DEF RisesIs
    <3>2. queue[d].current \in Int  BY DEF QueueInv, Queue
    <3>3. labels[d][at[d]].sort \in Int  BY <1>1, LabelSorts
    <3>4. m.sort \in Int
      <4>1. SearchInv'  BY ReachSearch
      <4>2. labels'[d] \in Seq(LabelT)  BY <4>1 DEF SearchInv, Types
      <4>3. m \in LabelT  BY <1>1, <4>2 DEF m
      <4> QED  BY <4>3 DEF LabelT
    <3> QED  BY <1>4, <2>2, <3>1, <3>2, <3>3, <3>4 DEF m
  <2> QED  BY <1>1, <2>1, <2>2
<1> QED  BY <1>10, <1>11

LEMMA NextRises ==
    SearchInv /\ QueueInv /\ SortsInv /\ RisesInv /\ HeuristicIsConsistent /\ [Next]_vars => RisesInv'
<1> SUFFICES ASSUME SearchInv, QueueInv, SortsInv, RisesInv, HeuristicIsConsistent, [Next]_vars
             PROVE  RisesInv'
  OBVIOUS
<1>1. ASSUME NEW deadEnd \in BOOLEAN, NEW e, Improve(e, deadEnd) \/ Reach(e, deadEnd)
      PROVE  RisesInv'
  BY <1>1, ImproveRises, ReachRises
<1>2. CASE Retry
  BY <1>2, RetryRises
<1>3. CASE IterationsExceeded \/ SetAside \/ Transition \/ EndExpand
  BY <1>3, RisesKept, OpenKept
     DEF IterationsExceeded, SetAside, Transition, EndExpand, searchVars
<1>4. ASSUME NEW d \in Directions, NotExpanded(d) \/ Prune(d) \/ BeginExpand(d)
      PROVE  RisesInv'
  BY <1>4, RisesKept, OpenKept DEF NotExpanded, Prune, BeginExpand, searchVars
<1>5. ASSUME NEW d \in Directions, Exhausted(d)
      PROVE  RisesInv'
  <2>1. /\ Popped(d).label = NoLabel /\ queue' = [queue EXCEPT ![d] = Popped(d).queue]
        /\ at' = [at EXCEPT ![d] = NoLabel] /\ UNCHANGED <<request, labels, status>>
    BY <1>5 DEF Exhausted
  <2>2. at' = [at EXCEPT ![d] = Popped(d).label]  BY <2>1
  <2> QED  BY <2>1, <2>2, PopRises, OpenKept
<1>6. ASSUME NEW d \in Directions, NEW i, StopAt(d, i) \/ Connect(d, i) \/ GoOn(d, i)
      PROVE  RisesInv'
  <2>1. Settle(d, i)  BY <1>6 DEF StopAt, Connect, GoOn
  <2>2. /\ queue' = [queue EXCEPT ![d] = Popped(d).queue] /\ at' = [at EXCEPT ![d] = Popped(d).label]
        /\ UNCHANGED <<request, labels>>
    BY <2>1 DEF Settle
  <2> QED  BY <2>1, <2>2, SettledOpen, PopRises
<1>7. ASSUME NEW deadEnd \in BOOLEAN, NEW e, SkipShortcut(e, deadEnd)
      PROVE  RisesInv'
  BY <1>7, SkippedOpen, RisesKept DEF SkipShortcut
<1>8. ASSUME NEW deadEnd \in BOOLEAN, NEW e,
             SkipSuperseded(e, deadEnd) \/ Refuse(e, deadEnd) \/ KeepLabel(e, deadEnd)
      PROVE  RisesInv'
  BY <1>8, RisesKept, OpenKept DEF SkipSuperseded, Refuse, KeepLabel, searchVars
<1>9. CASE \/ \E k \in DOMAIN best : FormPath(k)
           \/ WalkBack \/ TurnOver \/ WalkOn \/ \E keeps \in BOOLEAN : GivePath(keeps)
  BY <1>9, RisesKept, OpenKept DEF FormPath, WalkBack, TurnOver, WalkOn, GivePath, searchVars
<1>10. CASE UNCHANGED vars
  BY <1>10, RisesKept, OpenKept DEF vars, searchVars
<1>11. Next \/ UNCHANGED vars
  OBVIOUS
<1> QED
  BY <1>1, <1>2, <1>3, <1>4, <1>5, <1>6, <1>7, <1>8, <1>9, <1>10, <1>11 DEF Next, Step, Answered

(* what a queue holds: the members of the set it is ranged over *)
LEMMA LabelsHeld ==
    ASSUME NEW q, NEW cost, NEW S, Holds(q, cost, S)
    PROVE  Labels(q) \subseteq S
BY DEF Holds, Labels, Places

LEMMA RequestKept == [Next]_vars => request' = request
<1>1. ASSUME NEW deadEnd \in BOOLEAN, NEW e,
             \/ SkipSuperseded(e, deadEnd) \/ SkipShortcut(e, deadEnd) \/ Refuse(e, deadEnd)
             \/ KeepLabel(e, deadEnd) \/ Improve(e, deadEnd) \/ Reach(e, deadEnd)
      PROVE  request' = request
  BY <1>1 DEF SkipSuperseded, SkipShortcut, Refuse, KeepLabel, Improve, Reach
<1>2. ASSUME NEW d \in Directions, NotExpanded(d) \/ Exhausted(d) \/ Prune(d) \/ BeginExpand(d)
      PROVE  request' = request
  BY <1>2 DEF NotExpanded, Exhausted, Prune, BeginExpand
<1>3. ASSUME NEW d \in Directions, NEW i, StopAt(d, i) \/ Connect(d, i) \/ GoOn(d, i)
      PROVE  request' = request
  BY <1>3 DEF StopAt, Connect, GoOn, Settle
<1>4. CASE IterationsExceeded \/ SetAside \/ Transition \/ EndExpand \/ Retry
  BY <1>4 DEF IterationsExceeded, SetAside, Transition, EndExpand, Retry
<1>5. CASE \/ \E k \in DOMAIN best : FormPath(k)
           \/ WalkBack \/ TurnOver \/ WalkOn \/ \E keeps \in BOOLEAN : GivePath(keeps)
  BY <1>5 DEF FormPath, WalkBack, TurnOver, WalkOn, GivePath
<1>6. CASE Answered \/ UNCHANGED vars
  BY <1>6 DEF Answered, vars
<1> QED  BY <1>1, <1>2, <1>3, <1>4, <1>5, <1>6 DEF Next, Step

(* where the estimate is consistent the floor is the first bucket             *)
LEMMA FloorRises ==
    ASSUME SearchInv, QueueInv, HeuristicIsConsistent => RisesInv, NEW d \in Directions
    PROVE  Floor(d) \in Int /\ Rises(queue[d], Sorts(d), Open(d), Floor(d))
<1>1. CASE HeuristicIsConsistent
  <2>1. Floor(d) = Least  BY <1>1 DEF Floor
  <2> QED  BY <1>1, <2>1, FirstRises
<1>2. CASE ~HeuristicIsConsistent
  <2>1. Floor(d) = queue[d].current  BY <1>2 DEF Floor
  <2>2. queue[d].current \in Int  BY DEF QueueInv, Queue
  <2> QED  BY <2>1, <2>2 DEF Rises
<1> QED  BY <1>1, <1>2

(* the steps that change what was popped last *)
LEMMA PopStep ==
    ASSUME SearchInv, QueueInv, HeuristicIsConsistent => RisesInv, Next, NEW d \in Directions,
           at'[d] # at[d], at'[d] # NoLabel
    PROVE  \A j \in Labels(queue'[d]) :
               labels[d][at'[d]].sort < Width +
                   (IF labels[d][j].sort < Floor(d) THEN Floor(d) ELSE labels[d][j].sort)
<1>1. ASSUME NEW c \in Directions, NEW i, Settle(c, i)
      PROVE  \A j \in Labels(queue'[d]) :
                 labels[d][at'[d]].sort < Width +
                     (IF labels[d][j].sort < Floor(d) THEN Floor(d) ELSE labels[d][j].sort)
  <2>1. /\ queue' = [queue EXCEPT ![c] = Popped(c).queue] /\ at' = [at EXCEPT ![c] = i]
        /\ i = Popped(c).label /\ i \in DOMAIN labels[c]
    BY <1>1 DEF Settle
  <2>2. c = d /\ at'[d] = i
    BY <2>1 DEF SearchInv, Types
  <2> DEFINE q == Popped(d).queue
  <2>3. q \in Queue /\ Holds(q, Sorts(d), Open(d) \ {i}) /\ i # NoLabel
    BY <2>1, <2>2, PoppedQueues
  <2>4. queue'[d] = q  BY <2>1, <2>2 DEF QueueInv
  <2>5. Labels(q) \subseteq Open(d)
    <3> HIDE DEF q
    <3>1. Labels(q) \subseteq Open(d) \ {i}  BY <2>3, LabelsHeld
    <3> QED  BY <3>1
  <2>6. IsCheapest(i, Sorts(d), Open(d), Floor(d))
    BY <2>1, <2>2, <2>3, FloorRises, PoppedRises
  <2>7. \A j \in DOMAIN labels[d] : Sorts(d)[j] = labels[d][j].sort  BY LabelSorts
  <2>8. Open(d) \subseteq DOMAIN labels[d]  BY DEF Open
  <2> HIDE DEF q
  <2> QED  BY <2>1, <2>2, <2>4, <2>5, <2>6, <2>7, <2>8 DEF IsCheapest
<1>2. ASSUME NEW c \in Directions, Exhausted(c) PROVE FALSE
  <2>1. at' = [at EXCEPT ![c] = NoLabel]  BY <1>2 DEF Exhausted
  <2> QED  BY <2>1 DEF SearchInv, Types
<1>3. CASE Retry
  BY <1>3 DEF Retry
<1>4. CASE IterationsExceeded \/ SetAside \/ Transition \/ EndExpand
  BY <1>4 DEF IterationsExceeded, SetAside, Transition, EndExpand
<1>5. ASSUME NEW c \in Directions, NotExpanded(c) \/ Prune(c) \/ BeginExpand(c) PROVE FALSE
  BY <1>5 DEF NotExpanded, Prune, BeginExpand
<1>6. ASSUME NEW deadEnd \in BOOLEAN, NEW e,
             \/ SkipSuperseded(e, deadEnd) \/ SkipShortcut(e, deadEnd) \/ Refuse(e, deadEnd)
             \/ KeepLabel(e, deadEnd) \/ Improve(e, deadEnd) \/ Reach(e, deadEnd)
      PROVE  FALSE
  BY <1>6 DEF SkipSuperseded, SkipShortcut, Refuse, KeepLabel, Improve, Reach
<1>7. CASE \/ \E k \in DOMAIN best : FormPath(k)
           \/ WalkBack \/ TurnOver \/ WalkOn \/ \E keeps \in BOOLEAN : GivePath(keeps)
  BY <1>7 DEF FormPath, WalkBack, TurnOver, WalkOn, GivePath
<1>8. CASE Answered
  BY <1>8 DEF Answered, vars
<1>9. ASSUME NEW c \in Directions, NEW i, StopAt(c, i) \/ Connect(c, i) \/ GoOn(c, i)
      PROVE  Settle(c, i)
  BY <1>9 DEF StopAt, Connect, GoOn
<1> QED
  BY <1>1, <1>2, <1>3, <1>4, <1>5, <1>6, <1>7, <1>8, <1>9 DEF Next, Step

-----------------------------------------------------------------------------
(* Types: what a worker walks over is a label, and costs are not negative.    *)

Places_ == {Fwd, Rev, "choose", "expand", "again", "form", "back", "on", "done", "thrown"}
IsLabel(d, i) == i = NoLabel \/ i \in DOMAIN labels[d]
RestInv ==
    /\ pc \in Places_ /\ cap \in Nat
    /\ \A k \in DOMAIN best : best[k].cost \in Nat
    /\ walk \in [index : Nat, then : Nat]
    /\ route \in Seq(Edges) /\ routes \in Seq(Seq(Edges))
    /\ pc = "back" => IsLabel(Fwd, walk.index) /\ IsLabel(Rev, walk.then)
    /\ pc = "on" => IsLabel(Rev, walk.index)

LEMMA InitRest == Init => RestInv
BY DEF Init, NoWalk, RestInv, Places_

(* a step of the searches: it leaves the walk alone, and does not enter it *)
LEMMA SearchRest ==
    ASSUME RestInv, UNCHANGED pathVars, pc' \in Places_ \ {"back", "on"}, cap' \in Nat,
           \A k \in DOMAIN best' : best'[k].cost \in Nat
    PROVE  RestInv'
BY DEF RestInv, pathVars, IsLabel

LEMMA ConnectionCostIsNat ==
    ASSUME SearchInv, SortsInv, NEW d \in Directions, NEW i \in DOMAIN labels[d], MeetsOther(d, i)
    PROVE  ConnectionCost(d, i) \in Nat
<1> DEFINE p == labels[d][i]
           j == status[Other(d)][p.opp].label
           q == labels[Other(d)][j]
<1>1. Other(d) \in Directions /\ request \in Requests
  BY DEF Other, SearchInv, Types
<1>2. /\ p.edge \in g.edge /\ p.opp = g.opp[p.edge]
      /\ p.pred # NoLabel => p.pred \in DOMAIN labels[d]
  BY DEF SearchInv, LabelsAreLegal, LegalLabel, MeetsOther
<1>3. p.opp \in g.edge  BY <1>1, <1>2, GraphFacts
<1>4. IsReached(Other(d), p.opp)
  BY DEF MeetsOther, IsReached, SettledSets
<1>5. j \in DOMAIN labels[Other(d)]
  BY <1>1, <1>3, <1>4 DEF SearchInv, StatusPointsAtLabel, IsReached, SettledSets
<1>6. q.pred # NoLabel => q.pred \in DOMAIN labels[Other(d)]
  BY <1>1, <1>5 DEF SearchInv, LabelsAreLegal, LegalLabel
<1>7. p.cost \in Nat /\ p.turn \in Nat /\ q.cost \in Nat /\ q.turn \in Nat
  BY <1>1, <1>5 DEF SortsInv, SortIs
<1>8. /\ p.pred # NoLabel => labels[d][p.pred].cost \in Nat
      /\ q.pred # NoLabel => labels[Other(d)][q.pred].cost \in Nat
  BY <1>1, <1>2, <1>6 DEF SortsInv, SortIs
<1>9. ConnectionCost(d, i)
          = IF p.pred # NoLabel THEN labels[d][p.pred].cost + q.cost + p.turn
            ELSE p.cost + q.turn
                 + (IF q.pred = NoLabel THEN 0 ELSE labels[Other(d)][q.pred].cost)
  BY DEF ConnectionCost
<1> HIDE DEF p, q
<1> QED  BY <1>7, <1>8, <1>9

LEMMA SettledRest ==
    ASSUME SearchInv, SortsInv, RestInv, NEW d \in Directions, NEW i,
           StopAt(d, i) \/ Connect(d, i) \/ GoOn(d, i)
    PROVE  RestInv'
<1>1. Settle(d, i) /\ UNCHANGED pathVars /\ i \in DOMAIN labels[d]
  BY DEF StopAt, Connect, GoOn, Settle
<1>2. pc' \in Places_ \ {"back", "on"}
  BY DEF StopAt, Connect, GoOn, AfterPop, Places_
<1>3. CASE StopAt(d, i) \/ GoOn(d, i)
  <2>1. UNCHANGED <<best, cap>>  BY <1>3 DEF StopAt, GoOn
  <2> QED  BY <1>1, <1>2, <2>1, SearchRest DEF RestInv
<1>4. CASE Connect(d, i)
  <2>1. /\ MeetsOther(d, i) /\ best' = KeepBest(ConnectionOf(d, i))
        /\ cap' = cap \/ cap' = Len(labels[Fwd]) + Len(labels[Rev]) + IterationsDelta
    BY <1>4 DEF Connect
  <2>2. ConnectionOf(d, i) \in ConnectionT /\ best \in Seq(ConnectionT)
    BY <1>1, <2>1, ConnectionFacts DEF SearchInv, Types
  <2>3. ConnectionOf(d, i).cost \in Nat
    BY <1>1, <2>1, ConnectionCostIsNat DEF ConnectionOf
  <2>4. \A k \in DOMAIN best' : best'[k].cost \in Nat
    <3>1. PICK c \in ConnectionT : c = ConnectionOf(d, i)  BY <2>2
    <3>2. best' = KeepBest(c) /\ c.cost \in Nat  BY <2>1, <2>3, <3>1
    <3>3. \A k \in DOMAIN KeepBest(c) :
              KeepBest(c)[k] = c \/ \E j \in DOMAIN best : KeepBest(c)[k] = best[j]
      BY <2>2, KeepBestFacts
    <3> QED  BY <3>2, <3>3 DEF RestInv
  <2>5. cap' \in Nat
    <3>1. labels[Fwd] \in Seq(LabelT) /\ labels[Rev] \in Seq(LabelT)
      BY DEF SearchInv, Types
    <3>2. Len(labels[Fwd]) \in Nat /\ Len(labels[Rev]) \in Nat  BY <3>1
    <3>3. cap \in Nat  BY DEF RestInv
    <3>4. cap' = cap \/ cap' = Len(labels[Fwd]) + Len(labels[Rev]) + IterationsDelta
      BY <2>1
    <3>5. \A m, n, k : m \in Nat /\ n \in Nat /\ k \in Nat => m + n + k \in Nat
      OBVIOUS
    <3>6. Len(labels[Fwd]) + Len(labels[Rev]) + IterationsDelta \in Nat
      BY <3>2, <3>5, DeltaAssumption
    <3> QED  BY <3>3, <3>4, <3>6
  <2> QED  BY <1>1, <1>2, <2>4, <2>5, SearchRest
<1> QED  BY <1>3, <1>4

LEMMA FormRest ==
    ASSUME SearchInv, RestInv, NEW k \in DOMAIN best, FormPath(k) PROVE RestInv'
<1> DEFINE i == status[Fwd][best[k].edge].label
           j == status[Rev][best[k].opp].label
           n == labels[Rev][j].pred
<1>1. /\ pc' = "back" /\ route' = <<>> /\ walk' = [index |-> i, then |-> n]
      /\ best' = RemoveAt(best, k) /\ UNCHANGED <<labels, routes, cap>>
  BY DEF FormPath, searchVars
<1>2. /\ best[k].edge \in g.edge /\ best[k].opp = g.opp[best[k].edge] /\ request \in Requests
      /\ IsReached(Fwd, best[k].edge) /\ IsReached(Rev, best[k].opp)
  BY DEF SearchInv, Types, ConnectionsAreReached
<1>3. best[k].opp \in g.edge  BY <1>2, GraphFacts
<1>4. i \in DOMAIN labels[Fwd] /\ j \in DOMAIN labels[Rev]
  BY <1>2, <1>3 DEF SearchInv, StatusPointsAtLabel, IsReached, SettledSets
<1>5. n \in Nat /\ IsLabel(Rev, n)
  BY <1>4, LabelCosts DEF SearchInv, LabelsAreLegal, LegalLabel, IsLabel
<1>6. i \in Nat
  <2>1. labels[Fwd] \in Seq(LabelT)  BY DEF SearchInv, Types
  <2> QED  BY <1>4, <2>1
<1> HIDE DEF i, j, n
<1>7. walk' \in [index : Nat, then : Nat] /\ walk'.index = i /\ walk'.then = n
  BY <1>1, <1>5, <1>6
<1>8. \A m \in DOMAIN best' : best'[m].cost \in Nat
  <2>1. best \in Seq(ConnectionT)  BY DEF SearchInv, Types
  <2> QED  BY <1>1, <2>1, RemovedConnections DEF RestInv
<1> QED  BY <1>1, <1>4, <1>5, <1>7, <1>8 DEF RestInv, Places_, IsLabel

LEMMA PartsAreEdges ==
    ASSUME SearchInv, NEW d \in Directions, NEW i \in DOMAIN labels[d]
    PROVE  /\ g.parts[Driven(d, labels[d][i].edge)] \in Seq(Edges)
           /\ labels[d][i].pred \in Nat /\ IsLabel(d, labels[d][i].pred)
<1>1. request \in Requests /\ labels[d][i].edge \in g.edge
  BY DEF SearchInv, Types, LabelsAreLegal, LegalLabel
<1>2. Driven(d, labels[d][i].edge) \in Edges  BY <1>1, GraphFacts DEF Driven
<1>3. g \in Graph  BY <1>1, RequestAssumption DEF Request, g
<1>4. g.parts \in [Edges -> Seq(Edges)]  BY <1>3 DEF Graph
<1> HIDE DEF g
<1>5. IsLabel(d, labels[d][i].pred)
  BY DEF SearchInv, LabelsAreLegal, LegalLabel, IsLabel
<1> QED  BY <1>2, <1>4, <1>5, LabelCosts

LEMMA WalkRest ==
    ASSUME SearchInv, RestInv, WalkBack \/ TurnOver \/ WalkOn PROVE RestInv'
<1> DEFINE i == walk.index
<1>1. UNCHANGED <<labels, best, cap, routes>> /\ walk \in [index : Nat, then : Nat]
  BY DEF WalkBack, TurnOver, WalkOn, searchVars, RestInv
<1>2. CASE WalkBack
  <2> DEFINE p == labels[Fwd][i].pred
             path == g.parts[labels[Fwd][i].edge]
  <2>1. /\ pc = "back" /\ pc' = pc /\ i # NoLabel
        /\ route' = path \o route /\ walk' = [walk EXCEPT !.index = p]
    BY <1>2 DEF WalkBack
  <2>2. i \in DOMAIN labels[Fwd] /\ IsLabel(Rev, walk.then)
    BY <2>1 DEF RestInv, IsLabel
  <2>3. path \in Seq(Edges) /\ p \in Nat /\ IsLabel(Fwd, p)
    BY <2>2, PartsAreEdges DEF Driven
  <2> HIDE DEF p, path, i
  <2>4. walk' \in [index : Nat, then : Nat] /\ walk'.index = p /\ walk'.then = walk.then
    BY <1>1, <2>1, <2>3
  <2>5. route' \in Seq(Edges)  BY <2>1, <2>3 DEF RestInv
  <2> QED  BY <1>1, <2>1, <2>2, <2>3, <2>4, <2>5 DEF RestInv, IsLabel
<1>3. CASE WalkOn
  <2> DEFINE p == labels[Rev][i].pred
             path == g.parts[g.opp[labels[Rev][i].edge]]
  <2>1. /\ pc = "on" /\ pc' = pc /\ i # NoLabel
        /\ route' = route \o path /\ walk' = [walk EXCEPT !.index = p]
    BY <1>3 DEF WalkOn
  <2>2. i \in DOMAIN labels[Rev]
    BY <2>1 DEF RestInv, IsLabel
  <2>3. path \in Seq(Edges) /\ p \in Nat /\ IsLabel(Rev, p)
    BY <2>2, PartsAreEdges DEF Driven
  <2> HIDE DEF p, path, i
  <2>4. walk' \in [index : Nat, then : Nat] /\ walk'.index = p
    BY <1>1, <2>1, <2>3
  <2>5. route' \in Seq(Edges)  BY <2>1, <2>3 DEF RestInv
  <2> QED  BY <1>1, <2>1, <2>2, <2>3, <2>4, <2>5 DEF RestInv, IsLabel
<1>4. CASE TurnOver
  <2>1. /\ pc = "back" /\ pc' = "on" /\ route' = route
        /\ walk' = [walk EXCEPT !.index = walk.then]
    BY <1>4 DEF TurnOver
  <2>2. walk' \in [index : Nat, then : Nat] /\ walk'.index = walk.then
    BY <1>1, <2>1
  <2> QED  BY <1>1, <2>1, <2>2 DEF RestInv, IsLabel, Places_
<1> QED  BY <1>2, <1>3, <1>4

LEMMA NextRest == SearchInv /\ SortsInv /\ RestInv /\ [Next]_vars => RestInv'
<1> SUFFICES ASSUME SearchInv, SortsInv, RestInv, [Next]_vars PROVE RestInv'
  OBVIOUS
<1>1. CASE IterationsExceeded \/ SetAside \/ Transition \/ EndExpand \/ Retry
  <2>1. UNCHANGED <<pathVars, best, cap>> /\ pc' \in Places_ \ {"back", "on"}
    BY <1>1 DEF IterationsExceeded, SetAside, Transition, EndExpand, Retry, Places_
  <2> QED  BY <2>1, SearchRest DEF RestInv
<1>2. ASSUME NEW d \in Directions,
             NotExpanded(d) \/ Exhausted(d) \/ Prune(d) \/ BeginExpand(d)
      PROVE  RestInv'
  <2>1. UNCHANGED <<pathVars, best, cap>>
    BY <1>2 DEF NotExpanded, Exhausted, Prune, BeginExpand
  <2>2. pc' \in Places_ \ {"back", "on"}
    BY <1>2 DEF NotExpanded, Exhausted, Prune, BeginExpand, AfterPop, AfterFailure, Places_
  <2> QED  BY <2>1, <2>2, SearchRest DEF RestInv
<1>3. ASSUME NEW d \in Directions, NEW i, StopAt(d, i) \/ Connect(d, i) \/ GoOn(d, i)
      PROVE  RestInv'
  BY <1>3, SettledRest
<1>4. ASSUME NEW deadEnd \in BOOLEAN, NEW e,
             \/ SkipSuperseded(e, deadEnd) \/ SkipShortcut(e, deadEnd) \/ Refuse(e, deadEnd)
             \/ KeepLabel(e, deadEnd) \/ Improve(e, deadEnd) \/ Reach(e, deadEnd)
      PROVE  RestInv'
  <2>1. Evaluates(e, deadEnd) /\ UNCHANGED <<pathVars, best, cap>>
    BY <1>4 DEF SkipSuperseded, SkipShortcut, Refuse, KeepLabel, Improve, Reach, Tries
  <2>2. pc' = Fwd \/ pc' = pc
    BY <1>4 DEF SkipSuperseded, SkipShortcut, Refuse, KeepLabel, Improve, Reach, Evaluated
  <2>3. pc' \in Places_ \ {"back", "on"}
    BY <2>1, <2>2 DEF Evaluates, Places_
  <2> QED  BY <2>1, <2>3, SearchRest DEF RestInv
<1>5. ASSUME NEW k \in DOMAIN best, FormPath(k) PROVE RestInv'
  BY <1>5, FormRest
<1>6. CASE WalkBack \/ TurnOver \/ WalkOn
  BY <1>6, WalkRest
<1>7. ASSUME NEW keeps \in BOOLEAN, GivePath(keeps) PROVE RestInv'
  <2>1. UNCHANGED <<labels, best, cap, walk, route>> /\ pc' \in Places_ \ {"back", "on"}
    BY <1>7 DEF GivePath, AfterPath, searchVars, Places_
  <2>2. routes' = routes \/ routes' = Append(routes, route)
    BY <1>7 DEF GivePath
  <2>3. routes' \in Seq(Seq(Edges))  BY <2>2 DEF RestInv
  <2> QED  BY <2>1, <2>3 DEF RestInv
<1>8. CASE UNCHANGED vars
  BY <1>8 DEF vars, pathVars, searchVars, RestInv, IsLabel
<1>9. Next \/ UNCHANGED vars
  OBVIOUS
<1> QED
  BY <1>1, <1>2, <1>3, <1>4, <1>5, <1>6, <1>7, <1>8, <1>9 DEF Next, Step, Answered

LEMMA MembersSeq ==
    ASSUME NEW T, NEW S, NEW s \in Seq(T), \A i \in DOMAIN s : s[i] \in S
    PROVE  s \in Seq(S)
OBVIOUS

LEMMA TypesHold == SearchInv /\ QueueInv /\ SortsInv /\ RestInv => TypeOK
<1> SUFFICES ASSUME SearchInv, QueueInv, SortsInv, RestInv PROVE TypeOK
  OBVIOUS
<1>1. labels \in [Directions -> Seq(Label)]
  <2>1. ASSUME NEW d \in Directions, NEW i \in DOMAIN labels[d] PROVE labels[d][i] \in Label
    <3> DEFINE l == labels[d][i]
    <3>1. labels[d] \in Seq(LabelT) /\ request \in Requests  BY DEF SearchInv, Types
    <3>2. l \in LabelT  BY <3>1
    <3>3. /\ l.edge \in g.edge /\ l.dist = Abs(g.pos[g.to[l.edge]] - Own(d))
          /\ l.cost \in Nat /\ l.turn \in Nat /\ l.sort = l.cost + Heuristic(d, g.to[l.edge])
      BY DEF SearchInv, LabelsAreLegal, LegalLabel, SortsInv, SortIs
    <3>4. g.to[l.edge] \in Nodes  BY <3>1, <3>3, GraphFacts
    <3>5. Heuristic(d, g.to[l.edge]) \in Nat /\ l.dist \in Nat
      <4> DEFINE n == g.to[l.edge]
      <4>1. n \in Nodes /\ l.dist = Abs(g.pos[n] - Own(d))  BY <3>3, <3>4
      <4> HIDE DEF n, l
      <4>2. Heuristic(d, n) \in Nat /\ l.dist \in Nat  BY <3>1, <4>1, DistancesAreNat
      <4> QED  BY <4>2 DEF n
    <3> HIDE DEF l, Heuristic
    <3>6. l.sort \in Nat  BY <3>3, <3>5
    <3>7. l \in Label  BY <3>2, <3>3, <3>5, <3>6 DEF LabelT, Label
    <3> QED  BY <3>7 DEF l
  <2>2. labels \in [Directions -> Seq(LabelT)]  BY DEF SearchInv, Types
  <2>3. \A d \in Directions : labels[d] \in Seq(Label)  BY <2>1, <2>2, MembersSeq
  <2> QED  BY <2>2, <2>3
<1>2. best \in Seq(Connection)
  <2>1. best \in Seq(ConnectionT)  BY DEF SearchInv, Types
  <2>2. \A k \in DOMAIN best : best[k] \in ConnectionT /\ best[k].cost \in Nat
    BY <2>1 DEF RestInv
  <2>3. \A k \in DOMAIN best : best[k] \in Connection  BY <2>2 DEF ConnectionT, Connection
  <2> QED  BY <2>1, <2>3, MembersSeq
<1>3. /\ request \in Requests /\ pass \in {1, 2}
      /\ status \in [Directions -> [Edges -> Status]]
      /\ up \in [Directions -> [0..7 -> Nat]]
      /\ at \in [Directions -> Nat] /\ exp \in [Directions -> BOOLEAN] /\ work \in Work
  BY DEF SearchInv, Types
<1>4. /\ queue \in [Directions -> Queue] /\ pc \in Places_ /\ cap \in Nat
      /\ walk \in [index : Nat, then : Nat]
      /\ route \in Seq(Edges) /\ routes \in Seq(Seq(Edges))
  BY DEF QueueInv, RestInv
<1>5. {1, 2} = 1..2  OBVIOUS
<1> QED  BY <1>1, <1>2, <1>3, <1>4, <1>5 DEF TypeOK, Places_

-----------------------------------------------------------------------------
(* Finding a route.  While the second pass has met nothing, what may follow a  *)
(* settled edge is reached, save for the edge that is being expanded: when a   *)
(* search has nothing left to pop, its settled edges are closed under what may *)
(* follow, and the other end is not among them.                               *)

(* From the settled edge e the search in direction d can go on to f: over f    *)
(* and e, driven in their order, a way may lead.                              *)
Leads(d, e, f) ==
    /\ ~IsShortcut(g, f) /\ Permitted(g, Driven(d, f)) /\ GoesOn(d, e, f)
    /\ f = g.opp[e] => DeadEnd(g, e)
Complete(d, e) == \A f \in g.edge : Leads(d, e, f) => IsReached(d, f)

(* The label popped last is still to be expanded.                              *)
Waits(d) == ~exp[d] \/ pc \in {"choose", "expand"} \/ (pc = Rev /\ d = Fwd)
Completes ==
    \A d \in Directions : \A e \in g.edge :
        IsSettled(d, e) => (Waits(d) /\ e = Reached(d).edge) \/ Complete(d, e)

(* No shortcut is reached, nothing is pruned, and the label of a candidate is   *)
(* of its edge, improved or not.                                                *)
AreRegular == \A d \in Directions : \A e \in g.edge : IsReached(d, e) => ~IsShortcut(g, e)
AreOpen ==
    \A d \in Directions : \A i \in DOMAIN labels[d] :
        /\ ~(labels[d][i].notThru /\ labels[d][i].prune)
        /\ labels[d][i].opp = NoEdge => d = Fwd /\ i \in DOMAIN g.origin
RootsStand ==
    \A d \in Directions : \A k \in DOMAIN Candidates(d) :
        k \in DOMAIN labels[d] /\ labels[d][k].edge = Driven(d, Candidates(d)[k].edge)

(* The searches have not met: where one has settled the way back of a label's   *)
(* edge, the label is not a root, and when its edge is settled as well it is an  *)
(* origin's, which meets nothing.                                                *)
RootsApart ==
    \A d \in Directions : \A i \in DOMAIN labels[d] :
        IsSettled(Other(d), g.opp[labels[d][i].edge]) => labels[d][i].pred # NoLabel
NoneMet ==
    \A i \in DOMAIN labels[Fwd] :
        IsSettled(Fwd, labels[Fwd][i].edge) /\ IsSettled(Rev, g.opp[labels[Fwd][i].edge])
            => labels[Fwd][i].opp = NoEdge

(* Labels follow settled ones, and no label follows itself over others.         *)
PredsSettled ==
    \A d \in Directions :
        /\ \A i \in DOMAIN labels[d] :
              labels[d][i].pred # NoLabel => IsSettled(d, labels[d][labels[d][i].pred].edge)
        /\ HasLabel(d) => IsSettled(d, Reached(d).edge)
ChainsEnd ==
    \A Y \in SUBSET DOMAIN labels[Fwd] :
        Y # {} => \E i \in Y : labels[Fwd][i].pred \notin Y

(* What the expansion in progress has looked at.                               *)
NodeAt(t) == IF t = 0 THEN EndNode ELSE g.trans[EndNode][t]
Past(t, j) == t < work.trans \/ (t = work.trans /\ j < work.next)
LooksAhead ==
    LET d == work.dir
        e == Reached(d).edge
    IN \A t \in 0..Len(g.trans[EndNode]) : \A j \in DOMAIN g.out[NodeAt(t)] :
          Past(t, j) /\ g.out[NodeAt(t)][j] # g.opp[e] /\ Leads(d, e, g.out[NodeAt(t)][j])
              => IsReached(d, g.out[NodeAt(t)][j])
PutsAside ==
    LET back == g.opp[Reached(work.dir).edge]
    IN \A j \in DOMAIN g.out[EndNode] :
          Past(0, j) /\ g.out[EndNode][j] = back => work.uturn = back
Progress ==
    LET d == work.dir
        e == Reached(d).edge
    IN /\ work.used = {} /\ \A c \in Directions : exp[c] <=> c = d
       /\ work.trans \in 0..Len(g.trans[EndNode]) /\ work.node = NodeAt(work.trans)
       /\ LooksAhead /\ PutsAside
       /\ DeadEnd(g, e) /\ work.approved => IsReached(d, g.opp[e])

(* The second pass has found nothing yet and no limit is used up.              *)
Second ==
    /\ pass = 2 /\ best = <<>> /\ LimitsUnused
    /\ pc \in {Fwd, Rev, "choose", "expand"}
Basics ==
    /\ AreRegular /\ AreOpen /\ RootsStand /\ RootsApart /\ NoneMet
    /\ PredsSettled /\ ChainsEnd
Found == Basics /\ Completes /\ (pc = "expand" => Progress)
FindInv ==
    /\ pc = "done" /\ routes = <<>> /\ LimitsUnused /\ ~TurnedRound => LeastCost(g) = NoWay
    /\ Second => Found

-----------------------------------------------------------------------------
(* The graph: where no way leads. *)

LEMMA RegularIs ==
    ASSUME NEW G, NEW e, ~IsShortcut(G, e)
    PROVE  FirstPart(G, e) = e /\ LastPart(G, e) = e
<1>1. G.parts[e] = <<e>>  BY DEF IsShortcut
<1>2. Head(<<e>>) = e /\ Last(<<e>>) = e  BY DEF Last
<1> QED  BY <1>1, <1>2 DEF FirstPart, LastPart

(* no way leaves a set of edges that holds what may follow its members        *)
LEMMA ExtendedStays ==
    ASSUME NEW r \in Requests, NEW Good \in SUBSET r.graph.edge, NEW W \in SUBSET (Good \X Nat),
           \A x \in Good : \A y \in r.graph.edge : MayFollow(r.graph, x, y) => y \in Good
    PROVE  Cheapest(Extended(r.graph, W)) \in SUBSET (Good \X Nat)
<1> DEFINE G == r.graph
           More(w) == {<<e, w[2] + TransitionCost(G, w[1], e) + G.cost[e]>> :
                          e \in {f \in G.edge : MayFollow(G, w[1], f)}}
<1>1. G \in Graph  BY RequestIsWellFormed
<1>2. \A e \in G.edge : G.cost[e] \in Nat  BY <1>1 DEF Graph
<1>3. ASSUME NEW w \in W, NEW v \in More(w) PROVE v \in Good \X Nat
  <2>1. w[1] \in Good /\ w[2] \in Nat  OBVIOUS
  <2>2. PICK e \in G.edge : /\ MayFollow(G, w[1], e)
                            /\ v = <<e, w[2] + TransitionCost(G, w[1], e) + G.cost[e]>>
    OBVIOUS
  <2>3. e \in Good  BY <2>1, <2>2
  <2>4. TransitionCost(G, w[1], e) \in Nat  BY DEF TransitionCost
  <2>5. w[2] + TransitionCost(G, w[1], e) + G.cost[e] \in Nat
    <3>1. G.cost[e] \in Nat  BY <1>2, <2>2
    <3> QED  BY <2>1, <2>4, <3>1
  <2> QED  BY <2>2, <2>3, <2>5
<1>4. Extended(G, W) = W \cup UNION {More(w) : w \in W}  BY DEF Extended
<1> HIDE DEF More
<1>5. Extended(G, W) \in SUBSET (Good \X Nat)  BY <1>3, <1>4
<1> QED  BY <1>5 DEF Cheapest

LEMMA WaysStay ==
    ASSUME NEW r \in Requests, NEW Good \in SUBSET r.graph.edge,
           \A k \in DOMAIN r.graph.origin : r.graph.origin[k].edge \in Good,
           \A x \in Good : \A y \in r.graph.edge : MayFollow(r.graph, x, y) => y \in Good
    PROVE  Ways(r.graph) \in SUBSET (Good \X Nat)
<1> DEFINE R == r.graph
           N == Cardinality(R.edge)
           S == SUBSET (Good \X Nat)
           Then(W) == Cheapest(Extended(R, W))
           G == [k \in 1..N |-> [W \in S |-> Then(W)]]
           Step_(W) == [n \in 0..N |-> IF n = 0 THEN Departures(R) ELSE Then(W[n - 1])]
<1>1. R \in Graph /\ WellFormed(R)  BY RequestIsWellFormed
<1>2. N \in Nat  BY <1>1, FS_CardinalityType DEF WellFormed
<1>3. Departures(R) \in S
  <2>1. R.origin \in Seq(Location)  BY <1>1 DEF Graph
  <2>2. \A k \in DOMAIN R.origin : R.origin[k] \in Location  BY <2>1
  <2>3. \A k \in DOMAIN R.origin : R.origin[k].cost \in Nat  BY <2>2 DEF Location
  <2> QED  BY <2>3 DEF Departures
<1>4. \A W \in S : Then(W) \in S  BY ExtendedStays
<1> HIDE DEF N, S, Then
<1>5. PICK F \in [0..N -> S] : F[0] = Departures(R) /\ \A k \in 1..N : F[k] = G[k][F[k - 1]]
  <2>1. G \in Steps(N, S)  BY <1>4 DEF Steps
  <2> HIDE DEF G
  <2>2. \E F : Iterates(F, N, S, Departures(R), G)  BY <1>2, <1>3, <2>1, Recursion
  <2> QED  BY <2>2 DEF Iterates
<1>6. \A k \in 1..N : F[k] = Then(F[k - 1])
  <2> SUFFICES ASSUME NEW k \in 1..N PROVE F[k] = Then(F[k - 1])
    OBVIOUS
  <2>1. k - 1 \in 0..N /\ F[k - 1] \in S  BY <1>2, <1>5
  <2> QED  BY <1>5, <2>1
<1>7. \E W : W = Step_(W)
  <2>1. ASSUME NEW k \in 0..N PROVE F[k] = Step_(F)[k]
    <3>1. CASE k = 0  BY <1>5, <3>1
    <3>2. CASE k # 0
      <4>1. k \in 1..N  BY <1>2, <3>2
      <4> QED  BY <1>6, <3>2, <4>1
    <3> QED  BY <3>1, <3>2
  <2>2. DOMAIN F = 0..N  BY <1>5
  <2>3. F = Step_(F)  BY <1>5, <2>1, <2>2
  <2> QED  BY <2>3
<1> DEFINE W == CHOOSE V : V = Step_(V)
<1>8. W = Step_(W)  BY <1>7
<1>9. Ways(R) = W[N]
  BY DEF Ways, N, Then
<1> HIDE DEF W
<1>10. W[0] = Departures(R) /\ \A k \in 1..N : W[k] = Then(W[k - 1])
  <2>1. \A k \in 0..N : W[k] = Step_(W)[k]  BY <1>8
  <2> QED  BY <1>2, <2>1
<1> DEFINE A == {k \in 0..N : W[k] \in S}
<1>11. 0 \in A  BY <1>2, <1>3, <1>10
<1>12. ASSUME NEW k \in 1..N, k - 1 \in A PROVE k \in A
  BY <1>2, <1>4, <1>10, <1>12
<1>13. N \in A
  <2> HIDE DEF A
  <2>1. \A k \in 0..N : k \in A  BY <1>2, <1>11, <1>12, UpTo
  <2> QED  BY <1>2, <2>1
<1> QED  BY <1>9, <1>13 DEF S

(* There is no route where the edges a way can reach do not meet the          *)
(* destination's.                                                            *)
LEMMA NoWayOut ==
    ASSUME NEW r \in Requests, NEW Good \in SUBSET r.graph.edge,
           \A k \in DOMAIN r.graph.origin : r.graph.origin[k].edge \in Good,
           \A x \in Good : \A y \in r.graph.edge : MayFollow(r.graph, x, y) => y \in Good,
           \A k \in DOMAIN r.graph.dest : r.graph.dest[k].edge \notin Good
    PROVE  LeastCost(r.graph) = NoWay
<1> DEFINE R == r.graph
           Last_(k) == {v \in Ways(R) : MayFollow(R, v[1], R.dest[k].edge)}
           Costs(k) == {w[2] + TransitionCost(R, w[1], R.dest[k].edge) + R.dest[k].cost :
                           w \in Last_(k)}
<1>1. R \in Graph /\ WellFormed(R)  BY RequestIsWellFormed
<1>2. \A k \in DOMAIN R.dest : R.dest[k].edge \in R.edge  BY <1>1 DEF WellFormed
<1>3. Ways(R) \in SUBSET (Good \X Nat)  BY WaysStay
<1>4. ASSUME NEW k \in DOMAIN R.dest PROVE Last_(k) = {}
  <2>1. \A v \in Ways(R) : v[1] \in Good  BY <1>3
  <2> QED  BY <1>2, <2>1
<1>5. \A k \in DOMAIN R.dest : Costs(k) = {}
  <2> HIDE DEF Last_
  <2> QED  BY <1>4
<1>6. LeastCost(R) = LeastOf({NoWay} \cup UNION {Costs(k) : k \in DOMAIN R.dest})
  BY DEF LeastCost
<1> HIDE DEF Costs
<1>7. {NoWay} \cup UNION {Costs(k) : k \in DOMAIN R.dest} = {NoWay}  BY <1>5
<1>8. LeastOf({NoWay}) = NoWay
  <2>1. NoWay \in Nat  BY DEF NoWay
  <2> HIDE DEF NoWay
  <2> QED  BY <2>1 DEF LeastOf
<1> QED  BY <1>6, <1>7, <1>8

-----------------------------------------------------------------------------
(* What the second pass begins with, and what a step keeps.                    *)

LEMMA OppIs ==
    ASSUME request \in Requests, NEW e \in g.edge
    PROVE  g.opp[e] \in g.edge /\ g.opp[e] # NoEdge /\ e # NoEdge
BY GraphFacts, EdgesAssumption

NothingSettled == \A d \in Directions : \A e \in g.edge : ~IsSettled(d, e)

LEMMA BegunFinds == Begun /\ at = [d \in Directions |-> NoLabel] => Basics /\ NothingSettled
<1> SUFFICES ASSUME Begun, at = [d \in Directions |-> NoLabel] PROVE Basics /\ NothingSettled
  OBVIOUS
<1>1. /\ request \in Requests /\ Searched
      /\ \A d \in Directions : labels[d] = RootLabels(d) /\ status[d] = RootStatus(d)
  BY DEF Begun
<1>2. \A d \in Directions : \A k \in DOMAIN Candidates(d) :
          LET l == RootLabels(d)[k]
              x == Candidates(d)[k].edge
          IN /\ k \in DOMAIN RootLabels(d) /\ x \in g.edge
             /\ l.edge = Driven(d, x) /\ l.edge \in g.edge /\ g.opp[l.edge] \in g.edge
             /\ l.pred = NoLabel /\ l.notThru = FALSE /\ l.opp = IF d = Fwd THEN NoEdge ELSE x
  <2> SUFFICES ASSUME NEW d \in Directions, NEW k \in DOMAIN Candidates(d)
               PROVE  LET l == RootLabels(d)[k]
                          x == Candidates(d)[k].edge
                      IN /\ k \in DOMAIN RootLabels(d) /\ x \in g.edge
                         /\ l.edge = Driven(d, x) /\ l.edge \in g.edge /\ g.opp[l.edge] \in g.edge
                         /\ l.pred = NoLabel /\ l.notThru = FALSE
                         /\ l.opp = IF d = Fwd THEN NoEdge ELSE x
    OBVIOUS
  <2>1. Candidates(d)[k].edge \in g.edge  BY <1>1, CandidateFacts
  <2>2. Driven(d, Candidates(d)[k].edge) \in g.edge  BY <1>1, <2>1, GraphFacts DEF Driven
  <2>3. g.opp[Driven(d, Candidates(d)[k].edge)] \in g.edge  BY <1>1, <2>2, GraphFacts
  <2> QED  BY <2>1, <2>2, <2>3 DEF RootLabels, RootLabel, Driven
<1>3. \A d \in Directions : DOMAIN RootLabels(d) = DOMAIN Candidates(d)  BY DEF RootLabels
<1>4. NothingSettled
  <2> SUFFICES ASSUME NEW d \in Directions, NEW e \in g.edge PROVE RootStatus(d)[e].set # "permanent"
    BY <1>1 DEF NothingSettled, IsSettled
  <2>1. e \in Edges  BY <1>1, GraphFacts
  <2>2. RootStatus(d)[e] = Unreached \/ RootStatus(d)[e].set = "temporary"
    BY <2>1 DEF RootStatus
  <2> QED  BY <2>2 DEF Unreached
<1>5. AreRegular
  BY <1>1, Roots DEF AreRegular, IsReached
<1>6. AreOpen
  <2> SUFFICES ASSUME NEW d \in Directions, NEW i \in DOMAIN Candidates(d)
               PROVE  /\ ~(RootLabels(d)[i].notThru /\ RootLabels(d)[i].prune)
                      /\ RootLabels(d)[i].opp = NoEdge => d = Fwd /\ i \in DOMAIN g.origin
    BY <1>1, <1>3 DEF AreOpen
  <2>1. Candidates(d)[i].edge # NoEdge  BY <1>1, <1>2, OppIs
  <2> QED  BY <1>2, <2>1 DEF Candidates
<1>7. RootsStand  BY <1>1, <1>2 DEF RootsStand
<1>8. RootsApart /\ NoneMet
  <2>1. \A d \in Directions : \A i \in DOMAIN labels[d] :
            ~IsSettled(Other(d), g.opp[labels[d][i].edge])
    <3>1. \A d \in Directions : Other(d) \in Directions  BY DEF Other
    <3> QED  BY <1>1, <1>2, <1>3, <1>4, <3>1 DEF NothingSettled
  <2> QED  BY <2>1 DEF RootsApart, NoneMet, Other
<1>9. PredsSettled /\ ChainsEnd
  <2>1. \A d \in Directions : \A i \in DOMAIN labels[d] : labels[d][i].pred = NoLabel
    BY <1>1, <1>2, <1>3
  <2>2. \A d \in Directions : NoLabel \notin DOMAIN labels[d]
    <3>1. \A d \in Directions : RootLabels(d) \in Seq(LabelT)  BY <1>1, Roots
    <3> QED  BY <1>1, <3>1
  <2>3. \A d \in Directions : at[d] = NoLabel  OBVIOUS
  <2>4. PredsSettled  BY <2>1, <2>2, <2>3 DEF PredsSettled, HasLabel
  <2>5. ASSUME NEW Y \in SUBSET DOMAIN labels[Fwd], Y # {}
        PROVE  \E i \in Y : labels[Fwd][i].pred \notin Y
    <3>1. PICK i \in Y : TRUE  BY <2>5
    <3>2. labels[Fwd][i].pred = NoLabel /\ NoLabel \notin Y  BY <2>1, <2>2, <2>5, <3>1
    <3> QED  BY <3>1, <3>2
  <2> QED  BY <2>4, <2>5 DEF ChainsEnd
<1> QED  BY <1>4, <1>5, <1>6, <1>7, <1>8, <1>9 DEF Basics

(* the edges reached stay so, and the ones settled are the same               *)
Advances ==
    \A d \in Directions : \A e \in g.edge :
        /\ IsReached(d, e) => IsReached(d, e)'
        /\ IsSettled(d, e)' => IsSettled(d, e)

LEMMA LeadsKept ==
    ASSUME UNCHANGED request, NEW d, NEW e, NEW f
    PROVE  /\ Leads(d, e, f)' <=> Leads(d, e, f)
           /\ DeadEnd(g, e)' <=> DeadEnd(g, e)
<1>1. g' = g  BY DEF g
<1> HIDE DEF g
<1>2. DeadEnd(g, e)' <=> DeadEnd(g, e)  BY <1>1
<1>3. GoesOn(d, e, f)' <=> GoesOn(d, e, f)  BY <1>1 DEF GoesOn
<1>4. Driven(d, f)' = Driven(d, f)  BY <1>1 DEF Driven
<1> QED  BY <1>1, <1>2, <1>3, <1>4 DEF Leads

LEMMA BasicsKept ==
    ASSUME Basics, UNCHANGED <<request, labels, status, at>> PROVE Basics'
<1>1. g' = g  BY DEF g
<1>2. \A d \in Directions : Candidates(d)' = Candidates(d)  BY <1>1 DEF Candidates
<1> HIDE DEF g
<1>3. AreRegular' /\ AreOpen' /\ RootsApart' /\ NoneMet'
  BY <1>1 DEF Basics, AreRegular, AreOpen, RootsApart, NoneMet, IsReached, IsSettled
<1>4. RootsStand'
  BY <1>1, <1>2 DEF Basics, RootsStand, Driven
<1>5. PredsSettled' /\ ChainsEnd'
  BY DEF Basics, PredsSettled, ChainsEnd, IsSettled, HasLabel, Reached
<1> QED  BY <1>3, <1>4, <1>5 DEF Basics

(* An edge waits longer, or the ways from it are complete.                     *)
LEMMA CompletesKept ==
    ASSUME SearchInv, Completes, UNCHANGED request, Advances,
           \A d \in Directions : Waits(d) /\ HasLabel(d) =>
               \/ Waits(d)' /\ Reached(d).edge' = Reached(d).edge
               \/ \A f \in g.edge : Leads(d, Reached(d).edge, f) => IsReached(d, f)',
           \A d \in Directions : Waits(d) => HasLabel(d)
    PROVE  Completes'
<1>1. g' = g  BY DEF g
<1> SUFFICES ASSUME NEW d \in Directions, NEW e \in g.edge, IsSettled(d, e)',
                    ~(Waits(d)' /\ e = Reached(d).edge'),
                    NEW f \in g.edge, Leads(d, e, f)'
             PROVE  IsReached(d, f)'
  BY <1>1 DEF Completes, Complete
<1>2. IsSettled(d, e) /\ Leads(d, e, f)  BY LeadsKept DEF Advances
<1>3. CASE Waits(d) /\ e = Reached(d).edge
  BY <1>2, <1>3
<1>4. CASE Complete(d, e)
  BY <1>2, <1>4 DEF Complete, Advances
<1> QED  BY <1>2, <1>3, <1>4 DEF Completes

LEMMA SecondBefore ==
    ASSUME Second', UNCHANGED <<request, pass, up, best>>, pc \in {Fwd, Rev, "choose", "expand"}
    PROVE  Second
BY DEF Second, LimitsUnused, Relaxed

LEMMA NoStop ==
    ASSUME SearchInv, LimitsUnused, NEW d \in Directions, NEW level \in 0..7, NEW dist
    PROVE  ~Stop(d, level, dist)
<1> SUFFICES ASSUME level > 0 PROVE ~(up[d][level] > Relaxed(request.maxUp, 8))
  BY DEF Stop
<1>1. up[d][level] <= Relaxed(request.maxUp, 8)  BY DEF LimitsUnused
<1>2. up[d][level] \in Nat  BY DEF SearchInv, Types
<1>3. Relaxed(request.maxUp, 8) \in Nat
  <2>1. request.maxUp \in Nat  BY RequestAssumption DEF SearchInv, Types, Request
  <2> QED  BY <2>1 DEF Relaxed
<1> QED  BY <1>1, <1>2, <1>3

LEMMA LevelIs ==
    ASSUME request \in Requests, NEW n \in Nodes PROVE g.level[n] \in 0..2
BY RequestIsWellFormed DEF Graph, g

LEMMA NothingPruned ==
    ASSUME SearchInv, Second, Found, NEW d \in Directions, HasLabel(d) PROVE ~Pruned(d)
<1>1. ~(Reached(d).notThru /\ Reached(d).prune)
  BY DEF Found, Basics, AreOpen, HasLabel, Reached
<1>2. \A cost : ~Beyond(cost)  BY DEF Beyond, Second
<1>3. g.to[Reached(d).edge] \in Nodes
  <2>1. Reached(d).edge \in g.edge
    BY DEF HasLabel, Reached, SearchInv, LabelsAreLegal, LegalLabel
  <2> QED  BY <2>1, GraphFacts DEF SearchInv, Types
<1>4. ~Stop(d, g.level[g.to[Reached(d).edge]], Reached(d).dist)
  <2>1. \A n \in Nodes : g.level[n] \in 0..7
    <3>1. \A n \in Nodes : g.level[n] \in 0..2  BY LevelIs DEF SearchInv, Types
    <3> QED  BY <3>1
  <2> QED  BY <1>3, <2>1, NoStop DEF Second
<1> QED  BY <1>1, <1>2, <1>4 DEF Pruned

LEMMA NoShortcutTaken ==
    ASSUME SearchInv, Second, Found, NEW e, NEW deadEnd \in BOOLEAN, Evaluates(e, deadEnd),
           IsShortcut(g, e)
    PROVE  ~TakesShortcut(work.dir, e)
<1>0. PICK d \in Directions : d = work.dir  BY ExaminedFacts
<1>1. e \in g.edge /\ request \in Requests  BY ExaminedFacts DEF SearchInv, Types
<1>2. ~Stop(d, LevelOf(e) + 1, Reached(d).dist)
  <2>1. LevelOf(e) \in 0..2  BY <1>1, LevelIs, GraphFacts DEF LevelOf
  <2>2. LevelOf(e) + 1 \in 0..7  BY <2>1
  <2> QED  BY <2>2, NoStop DEF Second
<1>3. ~IsReached(Other(d), g.opp[e])
  <2>1. g.opp[e] \in g.edge /\ IsShortcut(g, g.opp[e])  BY <1>1, GraphFacts
  <2>2. Other(d) \in Directions  BY DEF Other
  <2> QED  BY <2>1, <2>2 DEF Found, Basics, AreRegular
<1> QED  BY <1>0, <1>2, <1>3 DEF TakesShortcut, IsReached, SettledSets

-----------------------------------------------------------------------------
(* The loop: it pops, or there is nothing left to pop.                         *)

LEMMA WaitingIsLabelled ==
    ASSUME SearchInv, Second, NEW d \in Directions, Waits(d) PROVE HasLabel(d)
BY DEF SearchInv, Control, Second, Waits

LEMMA NotExpandedFinds ==
    ASSUME SearchInv, FindInv, Second', NEW d \in Directions, NotExpanded(d) PROVE Found'
<1>1. /\ pc = d /\ ~exp[d] /\ pc' = AfterPop(d)
      /\ UNCHANGED <<request, pass, labels, status, up, at, exp, best>>
  BY DEF NotExpanded, Turns
<1>2. Second /\ Found  BY <1>1, SecondBefore DEF FindInv
<1>3. Basics'  BY <1>1, <1>2, BasicsKept DEF Found
<1>4. Advances  BY <1>1 DEF Advances, IsReached, IsSettled
<1>5. \A c \in Directions : Waits(c) => Waits(c)' /\ Reached(c).edge' = Reached(c).edge
  BY <1>1 DEF Waits, Reached, AfterPop
<1>6. Completes'
  BY <1>1, <1>2, <1>4, <1>5, CompletesKept, WaitingIsLabelled DEF Found
<1> QED  BY <1>1, <1>3, <1>6 DEF Found, AfterPop

LEMMA SettledIs ==
    ASSUME SearchInv, NEW d \in Directions, NEW i, Settle(d, i)
    PROVE  /\ i \in DOMAIN labels[d] /\ labels[d][i].edge \in g.edge
           /\ \A c \in Directions : \A f \in g.edge :
                 /\ status'[c][f].label = status[c][f].label
                 /\ status'[c][f].set = IF c = d /\ f = labels[d][i].edge THEN "permanent"
                                        ELSE status[c][f].set
<1> DEFINE x == labels[d][i].edge
<1>1. /\ i \in DOMAIN labels[d]
      /\ status' = [status EXCEPT ![d][x].set = "permanent"]
  BY DEF Settle
<1>2. /\ status \in [Directions -> [Edges -> Status]] /\ g.edge \subseteq Edges /\ x \in g.edge
  BY <1>1, GraphFacts DEF SearchInv, Types, LabelsAreLegal, LegalLabel
<1> HIDE DEF x
<1> DEFINE s == [status[d][x] EXCEPT !.set = "permanent"]
<1>3. status[d][x] \in Status  BY <1>2
<1>4. s.set = "permanent" /\ s.label = status[d][x].label  BY <1>3 DEF Status
<1>5. status' = [status EXCEPT ![d] = [status[d] EXCEPT ![x] = s]]  BY <1>1
<1> HIDE DEF s
<1>6. \A c \in Directions : \A f \in Edges :
          status'[c][f] = IF c = d /\ f = x THEN s ELSE status[c][f]
  BY <1>2, <1>5
<1> QED  BY <1>1, <1>2, <1>4, <1>6 DEF x

(* a label that meets nothing leaves the searches apart                        *)
LEMMA GoOnBasics ==
    ASSUME SearchInv, QueueInv, Basics, NEW d \in Directions, NEW i, Settle(d, i), ~MeetsOther(d, i)
    PROVE  Basics'
<1>0. PICK x : x = labels[d][i].edge  OBVIOUS
<1>1. /\ UNCHANGED <<request, labels>> /\ request \in Requests
  BY DEF Settle, SearchInv, Types
<1>2. /\ i \in DOMAIN labels[d] /\ x \in g.edge
      /\ \A c \in Directions : \A f \in g.edge :
            status'[c][f].set = IF c = d /\ f = x THEN "permanent" ELSE status[c][f].set
  BY <1>0, SettledIs
<1>3. LegalLabel(d, i)  BY <1>2 DEF SearchInv, LabelsAreLegal
<1>4. g' = g  BY <1>1 DEF g
<1>5. \A c \in Directions : \A f \in g.edge :
          /\ IsReached(c, f)' <=> IsReached(c, f)
          /\ IsSettled(c, f)' <=> IsSettled(c, f) \/ (c = d /\ f = x)
  BY <1>0, <1>2, <1>3 DEF IsReached, IsSettled, SettledSets, LegalLabel
<1>6. \A c \in Directions : Candidates(c)' = Candidates(c)
  BY <1>4 DEF Candidates
<1>7. AreRegular' /\ AreOpen'
  BY <1>1, <1>4, <1>5 DEF Basics, AreRegular, AreOpen
<1>8. RootsStand'
  <2>1. \A c \in Directions : \A k \in DOMAIN Candidates(c) :
            Driven(c, Candidates(c)[k].edge)' = Driven(c, Candidates(c)[k].edge)
    BY <1>4, <1>6 DEF Driven
  <2> HIDE DEF g
  <2> QED  BY <1>1, <1>6, <2>1 DEF Basics, RootsStand
<1>9. \A c \in Directions : \A j \in DOMAIN labels[c] :
          /\ LegalLabel(c, j) /\ labels[c][j].edge \in g.edge
          /\ g.opp[labels[c][j].edge] \in g.edge /\ g.opp[g.opp[labels[c][j].edge]] = labels[c][j].edge
  <2>1. \A c \in Directions : \A j \in DOMAIN labels[c] :
            LegalLabel(c, j) /\ labels[c][j].edge \in g.edge
    BY DEF SearchInv, LabelsAreLegal, LegalLabel
  <2> QED  BY <1>1, <2>1, GraphFacts
(* the other search's label of the edge driven the other way                   *)
<1>10. ASSUME NEW j \in DOMAIN labels[Other(d)], g.opp[labels[Other(d)][j].edge] = x
       PROVE  /\ labels[Other(d)][j].pred # NoLabel
              /\ IsSettled(Other(d), labels[Other(d)][j].edge) => labels[d][i].opp = NoEdge
  <2>1. PICK c \in Directions : c = Other(d) /\ c # d  BY DEF Other
  <2>2. labels[c][j].edge = g.opp[x] /\ LegalLabel(c, j)  BY <1>9, <1>10, <2>1
  <2>3. CASE labels[d][i].opp # NoEdge
    <3>1. labels[d][i].opp = g.opp[x]  BY <1>0, <1>3, <2>3 DEF LegalLabel
    <3>2. status[c][g.opp[x]].label = j
      <4>1. IsLabelled(c)  BY DEF QueueInv, QueueIs
      <4> QED  BY <1>10, <2>1, <2>2, <4>1 DEF IsLabelled
    <3>3. status[c][g.opp[x]].set \in SettledSets  BY <2>2 DEF LegalLabel, IsReached
    <3>4. status[c][g.opp[x]].set # "permanent" /\ labels[c][j].pred # NoLabel
      BY <2>1, <2>3, <3>1, <3>2, <3>3 DEF MeetsOther, SettledSets
    <3> QED  BY <2>1, <2>2, <3>4 DEF IsSettled
  <2>4. CASE labels[d][i].opp = NoEdge
    <3>1. d = Fwd /\ c = Rev /\ i \in DOMAIN g.origin
      BY <1>2, <2>1, <2>4 DEF Basics, AreOpen, Other
    <3>2. g.origin[i].edge = x
      BY <1>0, <3>1 DEF Basics, RootsStand, Candidates, Driven
    <3> SUFFICES ASSUME labels[c][j].pred = NoLabel PROVE FALSE
      BY <2>1, <2>4
    <3>3. Offers(Rev, g.opp[labels[c][j].edge])
      BY <2>2, <3>1 DEF LegalLabel, Driven
    <3>4. PICK k \in DOMAIN g.dest : g.dest[k].edge = x
      BY <1>10, <2>1, <3>3 DEF Offers, Candidates
    <3>5. ~Connected(x, x)  BY <3>1, <3>2, <3>4 DEF SearchInv, Searched
    <3> QED  BY <3>5 DEF Connected, Ends
  <2> QED  BY <2>3, <2>4
<1>11. RootsApart'
  <2> SUFFICES ASSUME NEW c \in Directions, NEW j \in DOMAIN labels[c],
                      IsSettled(Other(c), g.opp[labels[c][j].edge])'
               PROVE  labels[c][j].pred # NoLabel
    BY <1>1, <1>4 DEF RootsApart, IsSettled
  <2>1. Other(c) \in Directions /\ (Other(c) = d => c = Other(d))  BY DEF Other
  <2>2. CASE IsSettled(Other(c), g.opp[labels[c][j].edge])
    BY <2>2 DEF Basics, RootsApart
  <2>3. CASE Other(c) = d /\ g.opp[labels[c][j].edge] = x
    BY <1>10, <2>1, <2>3
  <2>4. IsSettled(Other(c), g.opp[labels[c][j].edge])'
            <=> \/ IsSettled(Other(c), g.opp[labels[c][j].edge])
                \/ Other(c) = d /\ g.opp[labels[c][j].edge] = x
    <3>1. PICK f \in g.edge : f = g.opp[labels[c][j].edge]  BY <1>9
    <3>2. g.opp[labels[c][j].edge]' = f  BY <1>1, <1>4, <3>1
    <3> HIDE DEF g
    <3> QED  BY <1>5, <2>1, <3>1, <3>2 DEF IsSettled
  <2> QED  BY <2>2, <2>3, <2>4
<1>12. NoneMet'
  <2> SUFFICES ASSUME NEW j \in DOMAIN labels[Fwd], NEW y, NEW z, y = labels[Fwd][j].edge, z = g.opp[y],
                      IsSettled(Fwd, y)', IsSettled(Rev, z)'
               PROVE  labels[Fwd][j].opp = NoEdge
    BY <1>1, <1>4 DEF NoneMet, IsSettled
  <2>1. y \in g.edge /\ z \in g.edge /\ g.opp[z] = y  BY <1>9
  <2>2. /\ IsSettled(Fwd, y) \/ (d = Fwd /\ y = x)
        /\ IsSettled(Rev, z) \/ (d = Rev /\ z = x)
    BY <1>5, <2>1
  <2>3. CASE IsSettled(Fwd, y) /\ IsSettled(Rev, z)
    BY <2>3 DEF Basics, NoneMet
  <2>4. CASE d = Fwd /\ y = x
    <3>1. IsSettled(Rev, z)  BY <2>2, <2>4
    <3>2. i = j
      <4>1. IsLabelled(Fwd)  BY DEF QueueInv, QueueIs
      <4> QED  BY <1>0, <1>2, <2>4, <4>1 DEF IsLabelled
    <3>3. PICK k \in DOMAIN labels[Rev] : labels[Rev][k].edge = z
      BY <2>1, <3>1 DEF SearchInv, StatusPointsAtLabel, IsSettled
    <3> QED  BY <1>10, <2>1, <2>4, <3>1, <3>2, <3>3 DEF Other
  <2>5. CASE d = Rev /\ z = x /\ IsSettled(Fwd, y)
    <3>1. labels[d][i].opp = NoEdge  BY <1>10, <2>5 DEF Other
    <3> QED  BY <1>2, <2>5, <3>1 DEF Basics, AreOpen
  <2> QED  BY <2>2, <2>3, <2>4, <2>5
<1>13. PredsSettled'
  <2>1. at'[d] = i /\ \A c \in Directions : c # d => at'[c] = at[c]  BY SettleKeeps
  <2>2. \A c \in Directions : \A j \in DOMAIN labels[c] :
            labels[c][j].pred # NoLabel => IsSettled(c, labels[c][labels[c][j].pred].edge)'
    <3> SUFFICES ASSUME NEW c \in Directions, NEW j \in DOMAIN labels[c],
                        labels[c][j].pred # NoLabel
                 PROVE  IsSettled(c, labels[c][labels[c][j].pred].edge)'
      OBVIOUS
    <3>1. PICK p \in DOMAIN labels[c] : p = labels[c][j].pred  BY <1>9 DEF LegalLabel
    <3>2. PICK f \in g.edge : f = labels[c][p].edge  BY <1>9
    <3>3. IsSettled(c, f)  BY <3>1, <3>2 DEF Basics, PredsSettled
    <3>4. labels'[c][labels'[c][j].pred].edge = f  BY <1>1, <3>1, <3>2
    <3> QED  BY <1>1, <1>5, <3>1, <3>2, <3>3, <3>4 DEF IsSettled
  <2>3. ASSUME NEW c \in Directions, HasLabel(c)' PROVE IsSettled(c, Reached(c).edge)'
    <3>1. CASE c = d
      <4>1. labels'[c][at'[c]].edge = x  BY <1>0, <1>1, <2>1, <3>1
      <4> QED  BY <1>2, <1>5, <3>1, <4>1 DEF Reached, IsSettled
    <3>2. CASE c # d
      <4>1. HasLabel(c) /\ Reached(c)' = Reached(c)  BY <1>1, <2>1, <2>3, <3>2 DEF HasLabel, Reached
      <4>2. PICK f \in g.edge : f = Reached(c).edge  BY <1>9, <4>1 DEF HasLabel, Reached
      <4>3. IsSettled(c, f)  BY <4>1, <4>2 DEF Basics, PredsSettled
      <4> QED  BY <1>5, <4>1, <4>2, <4>3 DEF IsSettled
    <3> QED  BY <3>1, <3>2
  <2> QED  BY <1>1, <2>2, <2>3 DEF PredsSettled, IsSettled
<1>14. ChainsEnd'  BY <1>1 DEF Basics, ChainsEnd
<1> QED  BY <1>7, <1>8, <1>11, <1>12, <1>13, <1>14 DEF Basics

LEMMA GoOnFinds ==
    ASSUME SearchInv, QueueInv, FindInv, Second', NEW d \in Directions, NEW i, GoOn(d, i)
    PROVE  Found'
<1>1. /\ Settle(d, i) /\ ~MeetsOther(d, i) /\ pc' = AfterPop(d) /\ pc = d /\ exp[d]
      /\ UNCHANGED <<request, pass, labels, up, exp, best>>
  BY DEF GoOn, Settle, Turns
<1>2. Second /\ Found  BY <1>1, SecondBefore DEF FindInv
<1>3. Basics'  BY <1>1, <1>2, GoOnBasics DEF Found
<1>4. at'[d] = i /\ \A c \in Directions : c # d => at'[c] = at[c]  BY <1>1, SettleKeeps
<1>5. ~Waits(d) /\ Waits(d)'  BY <1>1 DEF Waits, AfterPop
<1>6. \A c \in Directions : c # d /\ Waits(c) => Waits(c)' /\ Reached(c)' = Reached(c)
  BY <1>1, <1>4 DEF Waits, Reached, AfterPop
<1>7. Completes'
  <2> SUFFICES ASSUME NEW c \in Directions, NEW e \in g.edge, IsSettled(c, e)',
                      ~(Waits(c)' /\ e = Reached(c)'.edge),
                      NEW f \in g.edge, Leads(c, e, f)'
               PROVE  IsReached(c, f)'
    BY <1>1 DEF Completes, Complete, g
  <2>1. /\ \A h \in g.edge : status'[d][h].set = IF h = labels[d][i].edge THEN "permanent"
                                                 ELSE status[d][h].set
        /\ \A h \in g.edge : c # d => status'[c][h].set = status[c][h].set
    BY <1>1, SettledIs
  <2>2. c = d => e # labels[d][i].edge  BY <1>1, <1>4, <1>5 DEF Reached
  <2>3. IsSettled(c, e)  BY <2>1, <2>2 DEF IsSettled
  <2>4. ~(Waits(c) /\ e = Reached(c).edge)  BY <1>5, <1>6
  <2>5. Complete(c, e)  BY <1>2, <2>3, <2>4 DEF Found, Completes
  <2>6. IsReached(c, f)  BY <1>1, <2>5, LeadsKept DEF Complete
  <2> QED  BY <2>1, <2>6 DEF IsReached, SettledSets
<1> QED  BY <1>1, <1>3, <1>7 DEF Found, AfterPop

LEMMA BeginExpandFinds ==
    ASSUME SearchInv, FindInv, Second', NEW d \in Directions, BeginExpand(d) PROVE Found'
<1>1. /\ pc = "choose" /\ pc' = "expand" /\ exp' = [c \in Directions |-> c = d]
      /\ work' = [NoWork EXCEPT !.dir = d, !.node = g.to[Reached(d).edge]]
      /\ UNCHANGED <<request, pass, labels, status, up, at, best>>
  BY DEF BeginExpand
<1>2. Second /\ Found  BY <1>1, SecondBefore DEF FindInv
<1>3. Basics'  BY <1>1, <1>2, BasicsKept DEF Found
<1>4. Advances  BY <1>1 DEF Advances, IsReached, IsSettled
<1>5. \A c \in Directions : Waits(c)' /\ Reached(c).edge' = Reached(c).edge
  BY <1>1 DEF Waits, Reached
<1>6. Completes'
  BY <1>1, <1>2, <1>4, <1>5, CompletesKept, WaitingIsLabelled DEF Found
<1>7. /\ work'.dir = d /\ work'.node = g.to[Reached(d).edge] /\ work'.trans = 0
      /\ work'.next = 1 /\ work'.used = {} /\ work'.approved = FALSE
  BY <1>1 DEF NoWork
<1>8. EndNode' = g.to[Reached(d).edge]  BY <1>1, <1>7 DEF EndNode, Reached, g
<1>9. Progress'
  <2>1. EndNode' \in Nodes
    <3>1. Reached(d).edge \in g.edge
      BY <1>1 DEF SearchInv, Control, HasLabel, Reached, LabelsAreLegal, LegalLabel
    <3> QED  BY <1>8, <3>1, GraphFacts DEF SearchInv, Types
  <2>2. g' = g /\ Len(g.trans[EndNode']) \in Nat
    <3>1. g' = g  BY <1>1 DEF g
    <3>2. g.trans[EndNode'] \in Seq(Nodes)  BY <2>1, GraphFacts DEF SearchInv, Types
    <3> QED  BY <3>1, <3>2
  <2>3. \A t \in Nat : \A j \in Nat \ {0} : ~(Past(t, j)')  BY <1>7 DEF Past
  <2>4. (work.node = NodeAt(work.trans))'  BY <1>7, <1>8 DEF NodeAt
  <2>5. \A c \in Directions : exp'[c] <=> c = d  BY <1>1
  <2>6. \A t \in 0..Len(g.trans[EndNode']) : g.out[NodeAt(t)'] \in Seq(Edges)
    <3>1. \A t \in 0..Len(g.trans[EndNode']) : NodeAt(t)' \in Nodes
      <4>1. g.trans[EndNode'] \in Seq(Nodes)  BY <2>1, GraphFacts DEF SearchInv, Types
      <4>2. \A t \in 1..Len(g.trans[EndNode']) : g.trans[EndNode'][t] \in Nodes  BY <4>1
      <4> QED  BY <2>1, <2>2, <4>2 DEF NodeAt
    <3> QED  BY <3>1, GraphFacts DEF SearchInv, Types
  <2>7. \A t \in 0..Len(g.trans[EndNode']) : \A j \in DOMAIN g.out[NodeAt(t)'] : ~(Past(t, j)')
    BY <2>2, <2>3, <2>6
  <2>8. g.out[EndNode'] \in Seq(Edges)  BY <2>1, GraphFacts DEF SearchInv, Types
  <2>9. \A j \in DOMAIN g.out[EndNode'] : ~(Past(0, j)')  BY <2>3, <2>8
  <2>10. LooksAhead' /\ PutsAside'
    <3> HIDE DEF g
    <3> QED  BY <2>2, <2>7, <2>9 DEF LooksAhead, PutsAside
  <2> HIDE DEF g
  <2> QED  BY <1>7, <2>2, <2>4, <2>5, <2>10 DEF Progress
<1> QED  BY <1>3, <1>6, <1>9 DEF Found

(* Nothing left to pop: the edges settled, or the others before them, are all  *)
(* a way can come to.                                                          *)
LEMMA AllSettled ==
    ASSUME SearchInv, QueueInv, Second, Found, NEW d \in Directions,
           pc = d, exp[d], Popped(d).label = NoLabel
    PROVE  \A e \in g.edge :
              /\ IsReached(d, e) => IsSettled(d, e)
              /\ IsSettled(d, e) => Complete(d, e) /\ ~IsShortcut(g, e) /\ Permitted(g, Driven(d, e))
<1>1. Open(d) = {}  BY PoppedQueues
<1> SUFFICES ASSUME NEW e \in g.edge, IsReached(d, e)
             PROVE  /\ IsSettled(d, e) /\ Complete(d, e) /\ ~IsShortcut(g, e)
                    /\ Permitted(g, Driven(d, e))
  BY DEF IsReached, IsSettled, SettledSets
<1>2. PICK i \in DOMAIN labels[d] : labels[d][i].edge = e
  BY DEF SearchInv, StatusPointsAtLabel, IsReached, SettledSets
<1>3. IsSettled(d, e)  BY <1>1, <1>2 DEF Open
<1>4. ~Waits(d)  BY DEF Waits
<1>5. Permitted(g, Driven(d, e))  BY <1>2 DEF SearchInv, LabelsAreLegal, LegalLabel
<1> QED  BY <1>3, <1>4, <1>5 DEF Found, Completes, Basics, AreRegular

LEMMA MayFollowIs ==
    ASSUME NEW G, NEW x, NEW y, ~IsShortcut(G, x)
    PROVE  MayFollow(G, x, y) <=>
              /\ ~IsShortcut(G, y) /\ Permitted(G, y) /\ Follows(G, x, y)
              /\ y = G.opp[x] => DeadEnd(G, x)
<1>1. ASSUME ~IsShortcut(G, y) PROVE Turn(G, x, y) = <<x, y>>
  <2>1. LastPart(G, x) = x /\ FirstPart(G, y) = y  BY <1>1, RegularIs
  <2> QED  BY <2>1 DEF Turn
<1> QED  BY <1>1 DEF MayFollow, Follows

(* a road of the origin does not follow one of the destination                *)
LEMMA NotFollowed ==
    ASSUME SearchInv, NEW k \in DOMAIN g.origin, NEW j \in DOMAIN g.dest
    PROVE  ~Follows(g, g.dest[j].edge, g.origin[k].edge)
<1> DEFINE o == g.origin[k].edge
           x == g.dest[j].edge
<1> SUFFICES ASSUME Follows(g, x, o) PROVE FALSE
  OBVIOUS
<1>1. request \in Requests /\ ~Connected(o, x)  BY DEF SearchInv, Types, Searched
<1>2. x \in g.edge /\ o \in g.edge
  <2>1. k \in DOMAIN Candidates(Fwd) /\ j \in DOMAIN Candidates(Rev)  BY DEF Candidates
  <2> QED  BY <1>1, <2>1, CandidateFacts DEF Candidates
<1> HIDE DEF o, x
<1>3. g.from[o] \in Nodes /\ g.to[x] \in Nodes  BY <1>1, <1>2, GraphFacts
<1>4. g.from[o] = g.to[x] \/ g.from[o] \in ToSet(g.trans[g.to[x]])  BY DEF Follows, Meets
<1>5. g.from[o] = g.to[x] \/ g.to[x] \in ToSet(g.trans[g.from[o]])
  BY <1>1, <1>3, <1>4, GraphFacts
<1> QED  BY <1>1, <1>5 DEF Connected, Ends

LEMMA NoWayForward ==
    ASSUME SearchInv, QueueInv, Second, Found, ~TurnedRound,
           pc = Fwd, exp[Fwd], Popped(Fwd).label = NoLabel
    PROVE  LeastCost(g) = NoWay
<1> DEFINE Good == {e \in g.edge : IsSettled(Fwd, e)}
<1>1. request \in Requests  BY DEF SearchInv, Types
<1>2. \A e \in g.edge :
          /\ IsReached(Fwd, e) => IsSettled(Fwd, e)
          /\ IsSettled(Fwd, e) => Complete(Fwd, e) /\ ~IsShortcut(g, e)
  BY AllSettled
<1>3. \A k \in DOMAIN g.origin : g.origin[k].edge \in Good
  <2>1. \A k \in DOMAIN Candidates(Fwd) :
            IsReached(Fwd, Candidates(Fwd)[k].edge) /\ Candidates(Fwd)[k].edge \in g.edge
    BY <1>1, CandidateFacts
       DEF Found, Basics, RootsStand, Driven, SearchInv, LabelsAreLegal, LegalLabel
  <2> QED  BY <1>2, <2>1 DEF Candidates
<1>4. \A x \in Good : \A y \in g.edge : MayFollow(g, x, y) => y \in Good
  <2> SUFFICES ASSUME NEW x \in Good, NEW y \in g.edge, MayFollow(g, x, y) PROVE IsReached(Fwd, y)
    BY <1>2
  <2>1. Complete(Fwd, x) /\ ~IsShortcut(g, x)  BY <1>2
  <2>2. Leads(Fwd, x, y)  BY <2>1, MayFollowIs DEF Leads, GoesOn, Driven
  <2> QED  BY <2>1, <2>2 DEF Complete
<1>5. \A k \in DOMAIN g.dest : g.dest[k].edge \notin Good
  <2> SUFFICES ASSUME NEW k \in DOMAIN g.dest, g.dest[k].edge \in Good PROVE FALSE
    OBVIOUS
  <2>1. PICK x \in g.edge : x = g.dest[k].edge /\ IsSettled(Fwd, x)  OBVIOUS
  <2>2. k \in DOMAIN labels[Rev] /\ labels[Rev][k].edge = g.opp[x]
    BY <2>1 DEF Found, Basics, RootsStand, Candidates, Driven
  <2>3. g.opp[x] \in g.edge /\ g.opp[g.opp[x]] = x  BY <1>1, <2>1, GraphFacts
  <2>4. labels[Rev][k].pred # NoLabel
    BY <2>1, <2>2, <2>3 DEF Found, Basics, RootsApart, Other
  <2>5. PICK p \in DOMAIN labels[Rev] :
            p = labels[Rev][k].pred /\ GoesOn(Rev, labels[Rev][p].edge, g.opp[x])
    BY <2>2, <2>4 DEF SearchInv, LabelsAreLegal, LegalLabel
  <2>6. PICK q \in g.edge : /\ q = labels[Rev][p].edge /\ IsReached(Rev, q)
                            /\ Permitted(g, g.opp[q])
    BY DEF SearchInv, LabelsAreLegal, LegalLabel, Driven
  <2>7. /\ IsSettled(Rev, q) /\ ~IsShortcut(g, g.opp[q])
        /\ g.opp[q] \in g.edge /\ g.opp[g.opp[q]] = q
    <3>1. IsSettled(Rev, q)  BY <2>2, <2>4, <2>5, <2>6 DEF Found, Basics, PredsSettled
    <3>2. ~IsShortcut(g, q)  BY <2>6 DEF Found, Basics, AreRegular
    <3> QED  BY <1>1, <3>1, <3>2, GraphFacts
  <2>8. Follows(g, x, g.opp[q])  BY <2>3, <2>5, <2>6 DEF GoesOn
  <2>9. g.opp[q] = g.opp[x] => DeadEnd(g, x)
    <3> SUFFICES ASSUME g.opp[q] = g.opp[x] PROVE DeadEnd(g, x)
      OBVIOUS
    <3>1. q = x  BY <2>3, <2>7
    <3>2. k \in DOMAIN Candidates(Rev)  BY DEF Candidates
    <3> QED  BY <2>2, <2>3, <2>4, <2>5, <2>6, <3>1, <3>2 DEF TurnedRound
  <2>10. Leads(Fwd, x, g.opp[q])
    BY <2>6, <2>7, <2>8, <2>9 DEF Leads, GoesOn, Driven
  <2>11. IsSettled(Fwd, g.opp[q])
    BY <1>2, <2>1, <2>7, <2>10 DEF Complete
  <2>12. PICK i \in DOMAIN labels[Fwd] : labels[Fwd][i].edge = g.opp[q]
    BY <2>7, <2>11 DEF SearchInv, StatusPointsAtLabel, IsSettled
  <2>13. labels[Fwd][i].opp = NoEdge
    BY <2>7, <2>11, <2>12 DEF Found, Basics, NoneMet
  <2>14. i \in DOMAIN g.origin /\ g.origin[i].edge = g.opp[q]
    BY <2>12, <2>13 DEF Found, Basics, AreOpen, RootsStand, Candidates, Driven
  <2> QED  BY <1>1, <2>1, <2>7, <2>8, <2>14, NotFollowed
<1> QED  BY <1>1, <1>3, <1>4, <1>5, NoWayOut DEF g

LEMMA NoWayBack ==
    ASSUME SearchInv, QueueInv, Second, Found, ~TurnedRound,
           pc = Rev, exp[Rev], Popped(Rev).label = NoLabel
    PROVE  LeastCost(g) = NoWay
<1> DEFINE Good == {e \in g.edge : ~IsShortcut(g, e) /\ Permitted(g, e) /\ ~IsSettled(Rev, g.opp[e])}
<1>1. request \in Requests  BY DEF SearchInv, Types
<1>2. \A e \in g.edge :
          /\ IsReached(Rev, e) => IsSettled(Rev, e)
          /\ IsSettled(Rev, e) => Complete(Rev, e) /\ ~IsShortcut(g, e)
  BY AllSettled
(* an origin's road the search comes to has a label that follows another such  *)
(* road, and that cannot go on for ever                                         *)
<1> DEFINE Y == {k \in DOMAIN g.origin : IsSettled(Rev, g.opp[g.origin[k].edge])}
<1>3. Y = {}
  <2> SUFFICES ASSUME Y # {} PROVE FALSE
    OBVIOUS
  <2>1. \A k \in DOMAIN g.origin : k \in DOMAIN labels[Fwd] /\ labels[Fwd][k].edge = g.origin[k].edge
    BY DEF Found, Basics, RootsStand, Candidates, Driven
  <2>2. Y \in SUBSET DOMAIN labels[Fwd]  BY <2>1
  <2>3. PICK k \in Y : labels[Fwd][k].pred \notin Y
    <3> HIDE DEF Y
    <3> QED  BY <2>2 DEF Found, Basics, ChainsEnd
  <2>4. PICK o \in g.edge : /\ o = labels[Fwd][k].edge /\ o = g.origin[k].edge
                            /\ IsSettled(Rev, g.opp[o])
    BY <2>1 DEF SearchInv, LabelsAreLegal, LegalLabel
  <2>5. labels[Fwd][k].pred # NoLabel
    BY <2>2, <2>4 DEF Found, Basics, RootsApart, Other
  <2>6. PICK p \in DOMAIN labels[Fwd] :
            p = labels[Fwd][k].pred /\ GoesOn(Fwd, labels[Fwd][p].edge, o)
    BY <2>2, <2>4, <2>5 DEF SearchInv, LabelsAreLegal, LegalLabel
  <2>7. PICK y \in g.edge : /\ y = labels[Fwd][p].edge /\ IsReached(Fwd, y) /\ Permitted(g, y)
    BY DEF SearchInv, LabelsAreLegal, LegalLabel, Driven
  <2>8. /\ IsSettled(Fwd, y) /\ ~IsShortcut(g, g.opp[y])
        /\ g.opp[y] \in g.edge /\ g.opp[g.opp[y]] = y
        /\ g.opp[o] \in g.edge /\ g.opp[g.opp[o]] = o
    <3>1. IsSettled(Fwd, y)  BY <2>2, <2>5, <2>6, <2>7 DEF Found, Basics, PredsSettled
    <3>2. ~IsShortcut(g, y)  BY <2>7 DEF Found, Basics, AreRegular
    <3> QED  BY <1>1, <3>1, <3>2, GraphFacts
  <2>9. GoesOn(Rev, g.opp[o], g.opp[y])  BY <2>6, <2>7, <2>8 DEF GoesOn
  <2>10. g.opp[y] = g.opp[g.opp[o]] => DeadEnd(g, g.opp[o])
    <3> SUFFICES ASSUME g.opp[y] = g.opp[g.opp[o]] PROVE DeadEnd(g, g.opp[o])
      OBVIOUS
    <3>1. y = g.opp[o]  BY <2>8
    <3>2. k \in DOMAIN Candidates(Fwd)  BY DEF Candidates
    <3> QED  BY <2>4, <2>5, <2>6, <2>7, <3>1, <3>2 DEF TurnedRound
  <2>11. Leads(Rev, g.opp[o], g.opp[y])
    BY <2>7, <2>8, <2>9, <2>10 DEF Leads, Driven
  <2>12. IsSettled(Rev, g.opp[y])
    BY <1>2, <2>4, <2>8, <2>11 DEF Complete
  <2>13. labels[Fwd][p].opp = NoEdge
    BY <2>7, <2>8, <2>12 DEF Found, Basics, NoneMet
  <2>14. p \in DOMAIN g.origin /\ g.origin[p].edge = y
    BY <2>1, <2>7, <2>13 DEF Found, Basics, AreOpen
  <2> QED  BY <2>3, <2>6, <2>12, <2>14
<1>4. \A k \in DOMAIN g.origin : g.origin[k].edge \in Good
  <2>1. \A k \in DOMAIN Candidates(Fwd) :
            LET x == Candidates(Fwd)[k].edge
            IN x \in g.edge /\ ~IsShortcut(g, x) /\ Permitted(g, x)
    BY <1>1, CandidateFacts DEF SearchInv, Searched
  <2> QED  BY <1>3, <2>1 DEF Candidates
<1>5. \A x \in Good : \A y \in g.edge : MayFollow(g, x, y) => y \in Good
  <2> SUFFICES ASSUME NEW x \in Good, NEW y \in g.edge, MayFollow(g, x, y), IsSettled(Rev, g.opp[y])
               PROVE  FALSE
    BY MayFollowIs
  <2>1. /\ g.opp[x] \in g.edge /\ g.opp[y] \in g.edge /\ g.opp[g.opp[x]] = x /\ g.opp[g.opp[y]] = y
        /\ ~IsShortcut(g, g.opp[x]) /\ x \in g.edge
    BY <1>1, GraphFacts
  <2>2. /\ Follows(g, x, y)
        /\ y = g.opp[x] => DeadEnd(g, x)
    BY MayFollowIs
  <2>3. Leads(Rev, g.opp[y], g.opp[x])
    BY <2>1, <2>2 DEF Leads, GoesOn, Driven
  <2>4. IsReached(Rev, g.opp[x])  BY <1>2, <2>1, <2>3 DEF Complete
  <2> QED  BY <1>2, <2>1, <2>4
<1>6. \A k \in DOMAIN g.dest : g.dest[k].edge \notin Good
  <2>1. \A k \in DOMAIN g.dest : /\ g.opp[g.dest[k].edge] \in g.edge
                                 /\ IsReached(Rev, g.opp[g.dest[k].edge])
    BY DEF Found, Basics, RootsStand, Candidates, Driven, SearchInv, LabelsAreLegal, LegalLabel
  <2> QED  BY <1>2, <2>1
<1> HIDE DEF Y
<1> QED  BY <1>1, <1>4, <1>5, <1>6, NoWayOut DEF g

-----------------------------------------------------------------------------
(* The expansion. *)

LEMMA ExpandsFrom ==
    ASSUME SearchInv, pc = "expand", NEW d \in Directions, d = work.dir
    PROVE  LET e == Reached(d).edge IN
           /\ HasLabel(d) /\ e \in g.edge /\ EndNode = g.to[e] /\ EndNode \in Nodes
           /\ g.opp[e] \in g.edge /\ g.from[g.opp[e]] = EndNode
           /\ g.trans[EndNode] \in Seq(Nodes) /\ Len(g.trans[EndNode]) \in Nat
           /\ work.trans \in Nat /\ work.next \in Nat \ {0}
           /\ \A t \in 0..Len(g.trans[EndNode]) :
                 NodeAt(t) \in Nodes /\ g.out[NodeAt(t)] \in Seq(Edges)
           /\ g.out[EndNode] \in Seq(Edges)
<1> DEFINE e == Reached(d).edge
<1>1. request \in Requests /\ work \in Work  BY DEF SearchInv, Types
<1>2. HasLabel(d) /\ e \in g.edge
  BY DEF SearchInv, Control, HasLabel, Reached, LabelsAreLegal, LegalLabel
<1>3. EndNode = g.to[e]  BY DEF EndNode
<1>4. EndNode \in Nodes /\ g.opp[e] \in g.edge /\ g.from[g.opp[e]] = EndNode
  BY <1>1, <1>2, <1>3, GraphFacts
<1> HIDE DEF e
<1>5. g.trans[EndNode] \in Seq(Nodes) /\ g.out[EndNode] \in Seq(Edges)  BY <1>1, <1>4, GraphFacts
<1>6. ASSUME NEW t \in 0..Len(g.trans[EndNode])
      PROVE  NodeAt(t) \in Nodes /\ g.out[NodeAt(t)] \in Seq(Edges)
  <2>1. NodeAt(t) \in Nodes
    <3>1. t # 0 => g.trans[EndNode][t] \in Nodes  BY <1>5
    <3> QED  BY <1>4, <3>1 DEF NodeAt
  <2> QED  BY <1>1, <2>1, GraphFacts
<1>7. work.trans \in Nat /\ work.next \in Nat \ {0}  BY <1>1 DEF Work
<1> QED  BY <1>2, <1>3, <1>4, <1>5, <1>6, <1>7 DEF e

(* where an edge the search leads on to is found *)
LEMMA LedIsListed ==
    ASSUME SearchInv, pc = "expand", NEW d \in Directions, d = work.dir,
           NEW f \in g.edge, GoesOn(d, Reached(d).edge, f)
    PROVE  /\ Meets(g, Reached(d).edge, f)
           /\ \E t \in 0..Len(g.trans[EndNode]) : \E j \in DOMAIN g.out[NodeAt(t)] :
                 g.out[NodeAt(t)][j] = f
<1> DEFINE e == Reached(d).edge
           n == g.from[f]
<1>1. /\ e \in g.edge /\ EndNode = g.to[e] /\ EndNode \in Nodes
      /\ g.trans[EndNode] \in Seq(Nodes) /\ request \in Requests
  BY ExpandsFrom DEF SearchInv, Types
<1>2. n \in Nodes  BY <1>1, GraphFacts
<1>3. n = EndNode \/ n \in ToSet(g.trans[EndNode])
  <2>1. CASE d = Fwd  BY <1>1, <2>1 DEF GoesOn, Follows, Meets
  <2>2. CASE d = Rev
    <3>1. g.from[g.opp[e]] = EndNode /\ g.to[g.opp[f]] = n  BY <1>1, GraphFacts
    <3>2. EndNode = n \/ EndNode \in ToSet(g.trans[n])
      BY <2>2, <3>1 DEF GoesOn, Follows, Meets
    <3> QED  BY <1>1, <1>2, <3>2, GraphFacts
  <2> QED  BY <2>1, <2>2
<1>4. PICK t \in 0..Len(g.trans[EndNode]) : NodeAt(t) = n
  <2>1. CASE n = EndNode
    <3>1. 0 \in 0..Len(g.trans[EndNode])  BY <1>1
    <3> QED  BY <2>1, <3>1 DEF NodeAt
  <2>2. CASE n \in ToSet(g.trans[EndNode])
    <3>1. PICK t \in DOMAIN g.trans[EndNode] : g.trans[EndNode][t] = n  BY <2>2 DEF ToSet
    <3>2. t \in 0..Len(g.trans[EndNode]) /\ t # 0  BY <1>1, <3>1
    <3> QED  BY <3>1, <3>2 DEF NodeAt
  <2> QED  BY <1>3, <2>1, <2>2
<1>5. f \in ToSet(g.out[n])
  BY <1>1, RequestIsWellFormed DEF WellFormed, g
<1>6. PICK j \in DOMAIN g.out[n] : g.out[n][j] = f  BY <1>5 DEF ToSet
<1>7. Meets(g, e, f)  BY <1>1, <1>3 DEF Meets
<1> HIDE DEF n, e
<1> QED  BY <1>4, <1>6, <1>7 DEF e

LEMMA AllLooked ==
    ASSUME SearchInv, Second, Found, pc = "expand", NEW d \in Directions, d = work.dir, AllDone
    PROVE  /\ \A f \in g.edge :
                 Leads(d, Reached(d).edge, f) /\ f # g.opp[Reached(d).edge] => IsReached(d, f)
           /\ work.uturn = g.opp[Reached(d).edge]
<1> DEFINE e == Reached(d).edge
           L == Len(g.trans[EndNode])
<1>1. /\ L \in Nat /\ g.out[EndNode] \in Seq(Edges) /\ g.opp[e] \in g.edge
      /\ g.from[g.opp[e]] = EndNode /\ EndNode \in Nodes /\ work.next \in Nat \ {0}
      /\ \A t \in 0..L : g.out[NodeAt(t)] \in Seq(Edges)
      /\ request \in Requests
  BY ExpandsFrom DEF SearchInv, Types
<1>2. Progress /\ work.trans = L /\ work.next > Len(g.out[NodeAt(L)])
  BY DEF Found, AllDone, NodeDone, Progress
<1>3. \A t \in 0..L : \A j \in DOMAIN g.out[NodeAt(t)] : Past(t, j)
  <2> SUFFICES ASSUME NEW t \in 0..L, NEW j \in DOMAIN g.out[NodeAt(t)] PROVE Past(t, j)
    OBVIOUS
  <2>1. CASE t < L  BY <1>2, <2>1 DEF Past
  <2>2. CASE t = L
    <3>1. j \in 1..Len(g.out[NodeAt(L)])  BY <1>1, <2>2
    <3> QED  BY <1>1, <1>2, <2>2, <3>1 DEF Past
  <2> QED  BY <1>1, <2>1, <2>2
<1>4. \A t \in 0..L : \A j \in DOMAIN g.out[NodeAt(t)] :
          LET f == g.out[NodeAt(t)][j]
          IN f # g.opp[e] /\ Leads(d, e, f) => IsReached(d, f)
  BY <1>2, <1>3 DEF Progress, LooksAhead
<1>5. \A f \in g.edge : Leads(d, e, f) /\ f # g.opp[e] => IsReached(d, f)
  <2> SUFFICES ASSUME NEW f \in g.edge, Leads(d, e, f), f # g.opp[e] PROVE IsReached(d, f)
    OBVIOUS
  <2>1. PICK t \in 0..L : \E j \in DOMAIN g.out[NodeAt(t)] : g.out[NodeAt(t)][j] = f
    BY LedIsListed DEF Leads
  <2> QED  BY <1>4, <2>1
<1>6. work.uturn = g.opp[e]
  <2>1. g.opp[e] \in ToSet(g.out[EndNode])
    BY <1>1, RequestIsWellFormed DEF WellFormed, g
  <2>2. PICK j \in DOMAIN g.out[EndNode] : g.out[EndNode][j] = g.opp[e]  BY <2>1 DEF ToSet
  <2>3. Past(0, j)
    <3>1. 0 \in 0..L /\ NodeAt(0) = EndNode  BY <1>1 DEF NodeAt
    <3> QED  BY <1>3, <2>2, <3>1
  <2> QED  BY <1>2, <2>2, <2>3 DEF Progress, PutsAside
<1> HIDE DEF e
<1> QED  BY <1>5, <1>6 DEF e

(* the expansion ends: every edge it leads on to is reached *)
LEMMA EndExpandFinds ==
    ASSUME SearchInv, FindInv, Second', EndExpand PROVE Found'
<1>1. /\ pc = "expand" /\ AllDone /\ ~TurnsRound /\ pc' = Fwd
      /\ UNCHANGED <<request, pass, labels, status, up, at, exp, best>>
  BY DEF EndExpand
<1>2. Second /\ Found  BY <1>1, SecondBefore DEF FindInv
<1>3. PICK d \in Directions : d = work.dir  BY DEF SearchInv, Types, Work
<1> DEFINE e == Reached(d).edge
<1>4. Basics'  BY <1>1, <1>2, BasicsKept DEF Found
<1>5. Advances  BY <1>1 DEF Advances, IsReached, IsSettled
<1>6. /\ \A f \in g.edge : Leads(d, e, f) /\ f # g.opp[e] => IsReached(d, f)
      /\ work.uturn = g.opp[e]
  BY <1>1, <1>2, <1>3, AllLooked
<1>7. \A f \in g.edge : Leads(d, e, f) => IsReached(d, f)
  <2>1. g.opp[e] # NoEdge
    <3>1. e \in g.edge /\ request \in Requests  BY <1>1, <1>3, ExpandsFrom DEF SearchInv, Types
    <3> QED  BY <3>1, OppIs
  <2>2. work.approved  BY <1>1, <1>6, <2>1 DEF TurnsRound
  <2>3. DeadEnd(g, e) => IsReached(d, g.opp[e])
    BY <1>1, <1>2, <1>3, <2>2 DEF Found, Progress
  <2> QED  BY <1>6, <2>3 DEF Leads
<1>8. \A c \in Directions : exp[c] <=> c = d  BY <1>1, <1>2, <1>3 DEF Found, Progress
<1>9. \A c \in Directions : c # d => Waits(c)' /\ Reached(c).edge' = Reached(c).edge
  BY <1>1, <1>8 DEF Waits, Reached
<1>10. \A f \in g.edge : Leads(d, e, f) => IsReached(d, f)'
  BY <1>5, <1>7 DEF Advances
<1> HIDE DEF e
<1>11. \A c \in Directions :
           \/ Waits(c)' /\ Reached(c).edge' = Reached(c).edge
           \/ \A f \in g.edge : Leads(c, Reached(c).edge, f) => IsReached(c, f)'
  BY <1>9, <1>10 DEF e
<1>12. Completes'
  BY <1>1, <1>2, <1>5, <1>11, CompletesKept, WaitingIsLabelled DEF Found
<1> QED  BY <1>1, <1>4, <1>12 DEF Found

(* Progress is about the same label and the same node's places.                *)
LEMMA ProgressPlaces ==
    ASSUME pc = "expand", UNCHANGED <<request, at, exp>>, work'.dir = work.dir,
           Reached(work.dir).edge' = Reached(work.dir).edge
    PROVE  EndNode' = EndNode /\ g' = g /\ \A t : NodeAt(t)' = NodeAt(t)
<1>1. g' = g  BY DEF g
<1>2. EndNode' = EndNode  BY <1>1 DEF EndNode
<1> QED  BY <1>1, <1>2 DEF NodeAt

LEMMA ProgressNext ==
    ASSUME SearchInv, pc = "expand", Progress, NEW d \in Directions, NEW e, NEW b,
           d = work.dir, e = Reached(d).edge, b = g.opp[e],
           UNCHANGED <<request, at, exp>>, work'.dir = d, work'.used = {}, Reached(d).edge' = e,
           work'.trans \in 0..Len(g.trans[EndNode]), (work.node = NodeAt(work.trans))',
           \A t \in 0..Len(g.trans[EndNode]) : \A j \in DOMAIN g.out[NodeAt(t)] : \A f \in g.edge :
               f = g.out[NodeAt(t)][j] /\ Past(t, j)' /\ f # b /\ Leads(d, e, f)
                   => IsReached(d, f)',
           \A j \in DOMAIN g.out[EndNode] :
               Past(0, j)' /\ g.out[EndNode][j] = b => work'.uturn = b,
           DeadEnd(g, e) /\ work'.approved => IsReached(d, b)'
    PROVE  Progress'
<1>1. EndNode' = EndNode /\ g' = g /\ \A t : NodeAt(t)' = NodeAt(t)
  BY ProgressPlaces
<1>2. /\ Reached(work.dir)'.edge = e
      /\ \A f : Leads(d, e, f)' <=> Leads(d, e, f)
      /\ DeadEnd(g, e)' <=> DeadEnd(g, e)
  BY LeadsKept
<1>3. \A t \in 0..Len(g.trans[EndNode]) : \A j \in DOMAIN g.out[NodeAt(t)] :
          g.out[NodeAt(t)][j] \in g.edge
  <2>1. /\ \A t \in 0..Len(g.trans[EndNode]) :
               NodeAt(t) \in Nodes /\ g.out[NodeAt(t)] \in Seq(Edges)
        /\ request \in Requests
    BY ExpandsFrom DEF SearchInv, Types
  <2>2. \A n \in Nodes : \A x \in ToSet(g.out[n]) : x \in g.edge  BY <2>1, GraphFacts
  <2> QED  BY <2>1, <2>2 DEF ToSet
<1> HIDE DEF g
<1>4. LooksAhead'
  BY <1>1, <1>2, <1>3 DEF LooksAhead, Leads, GoesOn, Driven, IsReached
<1>5. PutsAside'
  BY <1>1, <1>2 DEF PutsAside
<1>6. \A c \in Directions : exp[c] <=> c = d  BY DEF Progress
<1>7. (DeadEnd(g, Reached(d).edge) /\ work.approved => IsReached(d, g.opp[Reached(d).edge]))'
  BY <1>1, <1>2 DEF IsReached
<1> QED  BY <1>1, <1>2, <1>4, <1>5, <1>6, <1>7 DEF Progress

LEMMA SetAsideFinds ==
    ASSUME SearchInv, FindInv, Second', SetAside PROVE Found'
<1>1. /\ pc = "expand" /\ pc' = "expand" /\ ~NodeDone /\ SetsAside(NextEdge)
      /\ work' = [work EXCEPT !.uturn = NextEdge, !.next = @ + 1]
      /\ UNCHANGED <<request, pass, labels, status, up, at, exp, best>>
  BY DEF SetAside
<1>2. Second /\ Found  BY <1>1, SecondBefore DEF FindInv
<1>3. PICK d \in Directions : d = work.dir  BY DEF SearchInv, Types, Work
<1> DEFINE L == Len(g.trans[EndNode])
<1>0. PICK e : e = Reached(d).edge  OBVIOUS
<1>4. Basics'  BY <1>1, <1>2, BasicsKept DEF Found
<1>5. Advances  BY <1>1 DEF Advances, IsReached, IsSettled
<1>6. \A c \in Directions : Waits(c)' /\ Reached(c).edge' = Reached(c).edge
  BY <1>1 DEF Waits, Reached
<1>7. Completes'
  BY <1>1, <1>2, <1>5, <1>6, CompletesKept, WaitingIsLabelled DEF Found
<1>8. /\ work \in Work /\ work'.dir = d /\ work'.uturn = NextEdge /\ work'.next = work.next + 1
      /\ work'.trans = work.trans /\ work'.node = work.node /\ work'.used = work.used
      /\ work'.approved = work.approved
  BY <1>1, <1>3 DEF SearchInv, Types, Work
<1>9. EndNode' = EndNode /\ g' = g /\ \A t : NodeAt(t)' = NodeAt(t)
  BY <1>1, <1>3, <1>6, <1>8, ProgressPlaces
<1>10. /\ e \in g.edge /\ L \in Nat /\ work.next \in Nat \ {0} /\ work.trans \in Nat
       /\ g.out[EndNode] \in Seq(Edges) /\ EndNode \in Nodes /\ g.opp[e] \in g.edge
       /\ \A t \in 0..L : g.out[NodeAt(t)] \in Seq(Edges)
       /\ HasLabel(d) /\ request \in Requests
  BY <1>0, <1>1, <1>3, ExpandsFrom DEF SearchInv, Types
<1>11. work.trans = 0 /\ FirstPart(g, NextEdge) = g.opp[LastPart(g, e)]
  BY <1>0, <1>1, <1>3 DEF SetsAside, IsUturn
<1>12. ~IsShortcut(g, e)
  <2>1. IsReached(d, e)  BY <1>0, <1>10 DEF HasLabel, Reached, SearchInv, LabelsAreLegal, LegalLabel
  <2> QED  BY <1>2, <1>10, <2>1 DEF Found, Basics, AreRegular
<1>13. FirstPart(g, NextEdge) = g.opp[e]  BY <1>11, <1>12, RegularIs
<1>14. ~IsShortcut(g, NextEdge) => NextEdge = g.opp[e]  BY <1>13, RegularIs
<1>15. work.node = EndNode /\ NextEdge = g.out[EndNode][work.next]
  BY <1>1, <1>2, <1>11 DEF Found, Progress, NodeAt, NextEdge
<1>16. \A t \in 0..L : \A j \in DOMAIN g.out[NodeAt(t)] :
           Past(t, j)' => Past(t, j) \/ (t = 0 /\ j = work.next)
  <2>1. \A t \in 0..L : \A j \in DOMAIN g.out[NodeAt(t)] : j \in Nat  BY <1>10
  <2> QED  BY <1>8, <1>10, <1>11, <2>1 DEF Past
<1>17. Progress  BY <1>1, <1>2 DEF Found
<1> HIDE DEF L
<1>18. \A t \in 0..L : \A j \in DOMAIN g.out[NodeAt(t)] : \A f \in g.edge :
           f = g.out[NodeAt(t)][j] /\ Past(t, j)' /\ f # g.opp[e] /\ Leads(d, e, f)
               => IsReached(d, f)
  <2> SUFFICES ASSUME NEW t \in 0..L, NEW j \in DOMAIN g.out[NodeAt(t)], NEW f \in g.edge,
                      f = g.out[NodeAt(t)][j], Past(t, j)', f # g.opp[e], Leads(d, e, f)
               PROVE  IsReached(d, f)
    OBVIOUS
  <2>1. CASE Past(t, j)  BY <1>0, <1>3, <1>17, <2>1 DEF Progress, LooksAhead, L
  <2>2. CASE t = 0 /\ j = work.next
    <3>1. f = NextEdge  BY <1>15, <2>2 DEF NodeAt
    <3>2. ~IsShortcut(g, NextEdge)  BY <3>1 DEF Leads
    <3> QED  BY <1>14, <3>1, <3>2
  <2> QED  BY <1>16, <2>1, <2>2
(* shortcuts come first: once the way back is put aside, it stays              *)
<1>19. \A j \in DOMAIN g.out[EndNode] :
           Past(0, j)' /\ g.out[EndNode][j] = g.opp[e] => NextEdge = g.opp[e]
  <2> SUFFICES ASSUME NEW j \in DOMAIN g.out[EndNode], Past(0, j)', g.out[EndNode][j] = g.opp[e],
                      IsShortcut(g, NextEdge)
               PROVE  FALSE
    BY <1>14
  <2>1. 0 \in 0..L /\ NodeAt(0) = EndNode  BY <1>10 DEF NodeAt
  <2>2. j \in Nat \ {0} /\ (Past(0, j) \/ j = work.next)  BY <1>10, <1>16, <2>1
  <2>3. j \in 1..work.next  BY <1>10, <1>11, <2>2 DEF Past
  <2>4. work.next \in DOMAIN g.out[EndNode]
    <3>1. ~(work.next > Len(g.out[EndNode]))  BY <1>1, <1>15 DEF NodeDone
    <3> QED  BY <1>10, <3>1
  <2>5. IsShortcut(g, g.out[EndNode][j])
    <3>1. WellFormed(g)  BY <1>10, RequestIsWellFormed DEF g
    <3> HIDE DEF g
    <3> QED  BY <1>10, <1>15, <2>3, <2>4, <3>1 DEF WellFormed
  <2>6. IsShortcut(g, g.opp[e])  BY <2>5
  <2> QED  BY <1>10, <1>12, <2>6, GraphFacts
<1>20. /\ \A f : IsReached(d, f)' <=> IsReached(d, f)
       /\ DeadEnd(g, e) /\ work.approved => IsReached(d, g.opp[e])
  BY <1>0, <1>1, <1>3, <1>17 DEF Progress, IsReached
<1>21. work.used = {} /\ work.trans \in 0..L /\ work.node = NodeAt(work.trans)
  BY <1>17 DEF Progress, L
<1>22. (work.node = NodeAt(work.trans))'  BY <1>8, <1>9, <1>21 DEF NodeAt
<1>23. PICK b : b = g.opp[e]  OBVIOUS
<1>24. /\ work'.dir = d /\ work'.used = {} /\ Reached(d).edge' = e /\ work'.trans \in 0..L
       /\ \A t \in 0..L : \A j \in DOMAIN g.out[NodeAt(t)] : \A f \in g.edge :
             f = g.out[NodeAt(t)][j] /\ Past(t, j)' /\ f # b /\ Leads(d, e, f)
                 => IsReached(d, f)'
       /\ \A j \in DOMAIN g.out[EndNode] :
             Past(0, j)' /\ g.out[EndNode][j] = b => work'.uturn = b
       /\ DeadEnd(g, e) /\ work'.approved => IsReached(d, b)'
  BY <1>0, <1>6, <1>8, <1>18, <1>19, <1>20, <1>21, <1>23
<1>25. Progress'
  BY <1>0, <1>1, <1>3, <1>17, <1>22, <1>23, <1>24, ProgressNext DEF L
<1> QED  BY <1>4, <1>7, <1>25 DEF Found

LEMMA TransitionFinds ==
    ASSUME SearchInv, FindInv, Second', Transition PROVE Found'
<1> DEFINE n == g.trans[EndNode][work.trans + 1]
           L == Len(g.trans[EndNode])
           rises == g.level[n] < g.level[EndNode]
<1>1. /\ pc = "expand" /\ pc' = "expand" /\ NodeDone /\ work.trans < L /\ Across(n)
      /\ UNCHANGED <<request, pass, labels, status, at, exp, best>>
  BY DEF Transition
<1>2. PICK d \in Directions : d = work.dir  BY DEF SearchInv, Types, Work
<1>3. PICK e : e = Reached(d).edge  OBVIOUS
<1>4. /\ e \in g.edge /\ L \in Nat /\ work.next \in Nat \ {0} /\ work.trans \in Nat
      /\ EndNode \in Nodes /\ g.trans[EndNode] \in Seq(Nodes) /\ HasLabel(d)
      /\ request \in Requests /\ \A t \in 0..L : g.out[NodeAt(t)] \in Seq(Edges)
  BY <1>1, <1>2, <1>3, ExpandsFrom DEF SearchInv, Types
<1>5. n \in Nodes  BY <1>1, <1>4
<1>6. up' = IF rises THEN [up EXCEPT ![d][g.level[EndNode]] = @ + 1] ELSE up
  BY <1>1, <1>2 DEF Across
<1>7. Second /\ Found
  <2>1. \A c \in Directions : \A l \in 1..7 : up[c][l] \in Nat /\ up'[c][l] \in Nat /\ up[c][l] <= up'[c][l]
    <3> DEFINE v == g.level[EndNode]
    <3>1. up \in [Directions -> [0..7 -> Nat]] /\ v \in 0..2
      BY <1>4, LevelIs DEF SearchInv, Types
    <3> HIDE DEF v, rises
    <3>2. up' = IF rises THEN [up EXCEPT ![d][v] = @ + 1] ELSE up  BY <1>6 DEF v
    <3>3. v \in 0..7  BY <3>1
    <3>4. \A c \in Directions : \A l \in 1..7 :
              up'[c][l] = IF rises /\ c = d /\ l = v THEN up[c][l] + 1 ELSE up[c][l]
      BY <3>1, <3>2, <3>3
    <3>5. \A c \in Directions : \A l \in 1..7 : up[c][l] \in Nat  BY <3>1
    <3> HIDE DEF Directions
    <3> QED  BY <3>4, <3>5
  <2>2. Relaxed(request.maxUp, 8) \in Nat
    <3>1. request.maxUp \in Nat  BY <1>4, RequestAssumption DEF Request
    <3> QED  BY <3>1 DEF Relaxed
  <2>3. LimitsUnused
    <3> SUFFICES ASSUME NEW c \in Directions, NEW l \in 1..7
                 PROVE  up[c][l] <= Relaxed(request.maxUp, 8)
      BY DEF LimitsUnused
    <3>1. up'[c][l] <= Relaxed(request.maxUp, 8)
      BY <1>1 DEF Second, LimitsUnused, Relaxed
    <3> HIDE DEF Directions
    <3> QED  BY <2>1, <2>2, <3>1
  <2> QED  BY <1>1, <2>3 DEF Second, FindInv
<1>8. work' = [work EXCEPT !.trans = @ + 1, !.node = n, !.next = 1]
  <2>1. ~Stop(d, g.level[n], Reached(d).dist)
    <3>1. g.level[n] \in 0..2  BY <1>4, <1>5, LevelIs
    <3>2. g.level[n] \in 0..7  BY <3>1
    <3> QED  BY <1>7, <3>2, NoStop DEF Second
  <2> QED  BY <1>1, <1>2, <2>1 DEF Across
<1>9. Basics'  BY <1>1, <1>7, BasicsKept DEF Found
<1>10. Advances  BY <1>1 DEF Advances, IsReached, IsSettled
<1>11. \A c \in Directions : Waits(c)' /\ Reached(c).edge' = Reached(c).edge
  BY <1>1 DEF Waits, Reached
<1>12. Completes'
  BY <1>1, <1>7, <1>10, <1>11, CompletesKept, WaitingIsLabelled DEF Found
<1> HIDE DEF n, rises
<1>13. /\ work'.dir = d /\ work'.uturn = work.uturn /\ work'.next = 1
       /\ work'.trans = work.trans + 1 /\ work'.node = n /\ work'.used = work.used
       /\ work'.approved = work.approved
  BY <1>2, <1>8 DEF SearchInv, Types, Work
<1>14. Progress  BY <1>1, <1>7 DEF Found
<1>15. work.used = {} /\ work.node = NodeAt(work.trans)
  BY <1>14 DEF Progress
<1>16. EndNode' = EndNode /\ g' = g /\ \A t : NodeAt(t)' = NodeAt(t)
  BY <1>1, <1>2, <1>3, <1>11, <1>13, ProgressPlaces
<1>17. (work.node = NodeAt(work.trans))'
  <2>1. work.trans + 1 # 0  BY <1>4
  <2> QED  BY <1>13, <1>16, <2>1 DEF NodeAt, n
<1>18. \A t \in 0..L : \A j \in DOMAIN g.out[NodeAt(t)] : Past(t, j)' => Past(t, j)
  <2> SUFFICES ASSUME NEW t \in 0..L, NEW j \in DOMAIN g.out[NodeAt(t)], Past(t, j)', t = work.trans
               PROVE  j < work.next
    BY <1>4, <1>13 DEF Past
  <2>1. j \in 1..Len(g.out[work.node])  BY <1>4, <1>15
  <2>2. work.next > Len(g.out[work.node]) /\ Len(g.out[work.node]) \in Nat
    BY <1>1, <1>4, <1>15 DEF NodeDone
  <2> QED  BY <1>4, <2>1, <2>2
<1>19. PICK b : b = g.opp[e]  OBVIOUS
<1>20. 0 \in 0..L /\ NodeAt(0) = EndNode  BY <1>4 DEF NodeAt
<1>21. \A f : IsReached(d, f)' <=> IsReached(d, f)  BY <1>1 DEF IsReached
<1>22. /\ \A t \in 0..L : \A j \in DOMAIN g.out[NodeAt(t)] : \A f \in g.edge :
             f = g.out[NodeAt(t)][j] /\ Past(t, j)' /\ f # b /\ Leads(d, e, f) => IsReached(d, f)'
       /\ \A j \in DOMAIN g.out[EndNode] :
             Past(0, j)' /\ g.out[EndNode][j] = b => work'.uturn = b
       /\ DeadEnd(g, e) /\ work'.approved => IsReached(d, b)'
  <2>1. \A t \in 0..L : \A j \in DOMAIN g.out[NodeAt(t)] : \A f \in g.edge :
             f = g.out[NodeAt(t)][j] /\ Past(t, j) /\ f # b /\ Leads(d, e, f) => IsReached(d, f)
    BY <1>2, <1>3, <1>14, <1>19 DEF Progress, LooksAhead
  <2>2. \A j \in DOMAIN g.out[EndNode] :
             Past(0, j) /\ g.out[EndNode][j] = b => work.uturn = b
    BY <1>2, <1>3, <1>14, <1>19 DEF Progress, PutsAside
  <2>3. DeadEnd(g, e) /\ work.approved => IsReached(d, b)
    BY <1>2, <1>3, <1>14, <1>19 DEF Progress
  <2> QED  BY <1>13, <1>18, <1>20, <1>21, <2>1, <2>2, <2>3
<1>23. work'.trans \in 0..L  BY <1>1, <1>4, <1>13
<1>24. Reached(d).edge' = e  BY <1>3, <1>11
<1>25. Progress'
  BY <1>1, <1>2, <1>3, <1>13, <1>14, <1>15, <1>17, <1>19, <1>22, <1>23, <1>24, ProgressNext DEF L
<1> QED  BY <1>1, <1>9, <1>12, <1>25 DEF Found

-----------------------------------------------------------------------------
(* The edge looked at: shortcuts are passed over, and one the search leads on   *)
(* to is reached.                                                              *)

LooksAt(e, deadEnd) ==
    \/ SkipSuperseded(e, deadEnd) \/ SkipShortcut(e, deadEnd) \/ Refuse(e, deadEnd)
    \/ KeepLabel(e, deadEnd) \/ Improve(e, deadEnd) \/ Reach(e, deadEnd)

LEMMA NotSuperseded ==
    ASSUME SearchInv, Second, Found, pc = "expand", NEW e \in g.edge PROVE ~Superseded(e)
BY DEF Found, Progress, Superseded

(* the edge is approved only when it was settled before, or when it is admitted *)
LEMMA LooksAtControl ==
    ASSUME SearchInv, Second, Found, NEW e, NEW deadEnd \in BOOLEAN, LooksAt(e, deadEnd)
    PROVE  /\ Evaluates(e, deadEnd) /\ UNCHANGED <<request, pass, up, at, exp, best>>
           /\ \/ /\ IsShortcut(g, e) /\ SkipShortcut(e, deadEnd)
                 /\ Evaluated(deadEnd, FALSE, {})
              \/ /\ ~IsShortcut(g, e)
                 /\ Refuse(e, deadEnd) \/ KeepLabel(e, deadEnd)
                    \/ Improve(e, deadEnd) \/ Reach(e, deadEnd)
                 /\ \E a \in BOOLEAN : /\ Evaluated(deadEnd, a, {})
                                       /\ a => IsSettled(work.dir, e) \/ Admits(e, deadEnd)
<1>1. Evaluates(e, deadEnd) /\ UNCHANGED <<request, pass, up, at, exp, best>>
  BY DEF LooksAt, SkipSuperseded, SkipShortcut, Refuse, KeepLabel, Improve, Reach, Tries
<1>2. e \in g.edge /\ pc = "expand"  BY <1>1, ExaminedFacts DEF Evaluates
<1>3. ~SkipSuperseded(e, deadEnd)  BY <1>2, NotSuperseded DEF SkipSuperseded
<1>4. work.used = {}  BY <1>2 DEF Found, Progress
<1>5. CASE IsShortcut(g, e)
  <2>1. ~Tries(e, deadEnd)  BY <1>1, <1>5, NoShortcutTaken DEF Tries
  <2>2. SkipShortcut(e, deadEnd)
    BY <1>3, <2>1 DEF LooksAt, Refuse, KeepLabel, Improve, Reach
  <2> QED  BY <1>1, <1>4, <1>5, <2>2 DEF SkipShortcut
<1>6. CASE ~IsShortcut(g, e)
  <2>1. UsedBy(e) = {}  BY <1>4, <1>6 DEF UsedBy
  <2>2. Refuse(e, deadEnd) \/ KeepLabel(e, deadEnd) \/ Improve(e, deadEnd) \/ Reach(e, deadEnd)
    BY <1>3, <1>6 DEF LooksAt, SkipShortcut
  <2>3. CASE Refuse(e, deadEnd)
    <3>1. Evaluated(deadEnd, status[work.dir][e].set = "permanent", {})
      BY <2>1, <2>3 DEF Refuse
    <3> DEFINE a == status[work.dir][e].set = "permanent"
    <3>2. a \in BOOLEAN /\ (a => IsSettled(work.dir, e))  BY DEF IsSettled
    <3> QED  BY <1>1, <1>6, <2>2, <3>1, <3>2
  <2>4. CASE KeepLabel(e, deadEnd) \/ Improve(e, deadEnd)
    <3>1. Evaluated(deadEnd, TRUE, {}) /\ Admits(e, deadEnd)
      BY <2>1, <2>4 DEF KeepLabel, Improve
    <3> QED  BY <1>1, <1>6, <2>2, <3>1
  <2>5. CASE Reach(e, deadEnd)
    <3> DEFINE a == ~(Reached(work.dir).prune /\ g.notThru[e])
    <3>1. Evaluated(deadEnd, a, {}) /\ Admits(e, deadEnd)
      BY <2>1, <2>5 DEF Reach
    <3>2. a \in BOOLEAN  OBVIOUS
    <3> HIDE DEF a
    <3> QED  BY <1>1, <1>6, <2>2, <3>1, <3>2
  <2> QED  BY <2>2, <2>3, <2>4, <2>5
<1> QED  BY <1>5, <1>6

(* the label improved stays where it is and is still of its edge *)
LEMMA ImprovesOne ==
    ASSUME SearchInv, NEW e, NEW deadEnd \in BOOLEAN, Improve(e, deadEnd)
    PROVE  \E d \in Directions : \E i \in DOMAIN labels[d] :
              /\ d = work.dir /\ i = status[d][e].label /\ labels[d][i].edge = e
              /\ status[d][e].set = "temporary" /\ labels'[d][i].pred = at[d]
              /\ \A c \in Directions :
                    /\ DOMAIN labels'[c] = DOMAIN labels[c]
                    /\ \A j \in DOMAIN labels[c] :
                          /\ c # d \/ j # i => labels'[c][j] = labels[c][j]
                          /\ labels'[c][j].edge = labels[c][j].edge
                          /\ labels'[c][j].opp = labels[c][j].opp
                          /\ labels'[c][j].notThru = labels[c][j].notThru
                          /\ labels'[c][j].prune = labels[c][j].prune
<1>1. PICK d \in Directions : d = work.dir  BY ImproveIs
<1>2. PICK i : i = status[d][e].label  OBVIOUS
<1> DEFINE l == labels[d][i]
           cost == CostTo(d, e)
           new == [l EXCEPT !.pred = at[d], !.cost = cost, !.sort = l.sort - (l.cost - cost),
                            !.turn = TurnCost(d, Reached(d).edge, e)]
<1>3. /\ i \in DOMAIN labels[d] /\ l.edge = e /\ status[d][e].set = "temporary"
      /\ \A c \in Directions :
            /\ DOMAIN labels'[c] = DOMAIN labels[c]
            /\ \A j \in DOMAIN labels[c] : c # d \/ j # i => labels'[c][j] = labels[c][j]
  BY <1>1, <1>2, ImproveIs
<1>4. labels' = [labels EXCEPT ![d][i] = new]
  BY <1>1, <1>2 DEF Improve
<1>5. labels \in [Directions -> Seq(LabelT)] /\ labels[d] \in Seq(LabelT) /\ l \in LabelT
  <2>1. labels \in [Directions -> Seq(LabelT)] /\ labels[d] \in Seq(LabelT)
    BY DEF SearchInv, Types
  <2> QED  BY <1>3, <2>1
<1> HIDE DEF l, cost
<1>6. /\ new.edge = l.edge /\ new.opp = l.opp /\ new.notThru = l.notThru /\ new.prune = l.prune
      /\ new.pred = at[d]
  BY <1>5 DEF LabelT
<1> HIDE DEF new
<1>7. labels'[d][i] = new
  <2> DEFINE s == [labels[d] EXCEPT ![i] = new]
  <2>1. labels' = [labels EXCEPT ![d] = s]  BY <1>4
  <2>2. s[i] = new  BY <1>3, <1>5
  <2> HIDE DEF s
  <2> QED  BY <1>5, <2>1, <2>2
<1>8. \A c \in Directions : \A j \in DOMAIN labels[c] :
          /\ labels'[c][j].edge = labels[c][j].edge
          /\ labels'[c][j].opp = labels[c][j].opp
          /\ labels'[c][j].notThru = labels[c][j].notThru
          /\ labels'[c][j].prune = labels[c][j].prune
  <2> SUFFICES ASSUME NEW c \in Directions, NEW j \in DOMAIN labels[c]
               PROVE  /\ labels'[c][j].edge = labels[c][j].edge
                      /\ labels'[c][j].opp = labels[c][j].opp
                      /\ labels'[c][j].notThru = labels[c][j].notThru
                      /\ labels'[c][j].prune = labels[c][j].prune
    OBVIOUS
  <2>1. CASE c # d \/ j # i  BY <1>3, <2>1
  <2>2. CASE c = d /\ j = i  BY <1>6, <1>7, <2>2 DEF l
  <2> QED  BY <2>1, <2>2
<1>9. labels'[d][i].pred = at[d] /\ labels[d][i].edge = e  BY <1>3, <1>6, <1>7 DEF l
<1>10. i \in DOMAIN labels[d]  BY <1>3
<1> WITNESS d \in Directions, i \in DOMAIN labels[d]
<1> QED  BY <1>1, <1>2, <1>3, <1>8, <1>9

LEMMA ReachesOne ==
    ASSUME SearchInv, NEW e, NEW deadEnd \in BOOLEAN, Reach(e, deadEnd),
           NEW d \in Directions, d = work.dir, NEW i, i = NewIndex(d)
    PROVE  /\ i \notin DOMAIN labels[d]
           /\ DOMAIN labels'[d] = DOMAIN labels[d] \cup {i} /\ labels'[d][i] = NewLabel(d, e)
           /\ \A j \in DOMAIN labels[d] : labels'[d][j] = labels[d][j]
           /\ \A c \in Directions : c # d => labels'[c] = labels[c]
           /\ \A c \in Directions : \A f \in Edges :
                 status'[c][f] = IF c = d /\ f = e THEN [set |-> "temporary", label |-> i]
                                 ELSE status[c][f]
<1>3. /\ i \notin DOMAIN labels[d]
      /\ DOMAIN labels'[d] = DOMAIN labels[d] \cup {i}
      /\ \A j \in DOMAIN labels[d] : labels'[d][j] = labels[d][j]
      /\ \A c \in Directions : c # d => labels'[c] = labels[c]
      /\ \A c \in Directions : \A f \in Edges :
            status'[c][f] = IF c = d /\ f = e THEN [set |-> "temporary", label |-> i]
                            ELSE status[c][f]
  BY ReachIs DEF NewIndex
<1>4. labels'[d][i] = NewLabel(d, e)
  <2>1. labels' = [labels EXCEPT ![d] = Append(labels[d], NewLabel(d, e))]
    BY DEF Reach
  <2>2. labels \in [Directions -> Seq(LabelT)] /\ labels[d] \in Seq(LabelT)
    BY DEF SearchInv, Types
  <2> DEFINE new == NewLabel(d, e)
  <2> HIDE DEF new
  <2>3. labels'[d] = Append(labels[d], new)  BY <2>1, <2>2 DEF new
  <2>4. Append(labels[d], new)[i] = new  BY <2>2 DEF NewIndex
  <2> QED  BY <2>3, <2>4 DEF new
<1> QED  BY <1>3, <1>4

(* what it does to the labels and statuses *)
LEMMA LooksAtKeeps ==
    ASSUME SearchInv, Second, Found, NEW e, NEW deadEnd \in BOOLEAN, LooksAt(e, deadEnd)
    PROVE  /\ Advances
           /\ \A c \in Directions : \A i \in DOMAIN labels[c] :
                 i \in DOMAIN labels'[c] /\ labels'[c][i].edge = labels[c][i].edge
           /\ \A d \in Directions :
                 d = work.dir /\ ~IsShortcut(g, e) /\ Admits(e, deadEnd) => IsReached(d, e)'
<1>1. /\ Evaluates(e, deadEnd) /\ UNCHANGED <<request, pass, up, at, exp, best>>
      /\ \/ IsShortcut(g, e) /\ SkipShortcut(e, deadEnd)
         \/ /\ ~IsShortcut(g, e)
            /\ \/ Refuse(e, deadEnd) \/ KeepLabel(e, deadEnd)
               \/ Improve(e, deadEnd) \/ Reach(e, deadEnd)
  BY LooksAtControl
<1>2. PICK d \in Directions : d = work.dir  BY <1>1, ExaminedFacts
<1>3. e \in g.edge /\ g.edge \subseteq Edges /\ status \in [Directions -> [Edges -> Status]]
  <2>1. request \in Requests /\ status \in [Directions -> [Edges -> Status]]
    BY DEF SearchInv, Types
  <2> QED  BY <1>1, <2>1, ExaminedFacts, GraphFacts
<1>0. g' = g  BY <1>1 DEF g
<1>4. CASE IsShortcut(g, e) /\ SkipShortcut(e, deadEnd)
  <2>1. UNCHANGED labels /\ status' = [status EXCEPT ![d][e] = Skipped] /\ ~TakesShortcut(d, e)
    BY <1>2, <1>4 DEF SkipShortcut
  <2>2. ~IsReached(d, e)  BY <1>1, <1>2, <1>4, <2>1, SkippedIsNotReached
  <2>3. \A c \in Directions : \A f \in Edges :
            status'[c][f] = IF c = d /\ f = e THEN Skipped ELSE status[c][f]
    <3> HIDE DEF Skipped
    <3> QED  BY <1>3, <2>1
  <2>4. Advances
    BY <1>0, <1>3, <2>2, <2>3 DEF Advances, IsReached, IsSettled, SettledSets, Skipped
  <2> QED  BY <1>4, <2>1, <2>4
<1>5. CASE ~IsShortcut(g, e) /\ (Refuse(e, deadEnd) \/ KeepLabel(e, deadEnd))
  <2>1. UNCHANGED <<labels, status>>
    BY <1>5 DEF Refuse, KeepLabel
  <2>2. Advances  BY <2>1 DEF Advances, IsReached, IsSettled
  <2>3. Admits(e, deadEnd) => status[d][e].set = "temporary"
    BY <1>2, <1>5 DEF Refuse, KeepLabel
  <2> QED  BY <1>2, <2>1, <2>2, <2>3 DEF IsReached, SettledSets
<1>6. CASE Improve(e, deadEnd)
  <2>1. UNCHANGED status /\ status[d][e].set = "temporary"  BY <1>2, <1>6 DEF Improve
  <2>2. Advances  BY <2>1 DEF Advances, IsReached, IsSettled
  <2>3. \A c \in Directions : \A i \in DOMAIN labels[c] :
            i \in DOMAIN labels'[c] /\ labels'[c][i].edge = labels[c][i].edge
    BY <1>6, ImprovesOne
  <2> QED  BY <1>2, <2>1, <2>2, <2>3 DEF IsReached, SettledSets
<1>7. CASE Reach(e, deadEnd)
  <2>0. PICK k : k = NewIndex(d)  OBVIOUS
  <2>1. /\ ~IsReached(d, e)
        /\ \A c \in Directions : \A i \in DOMAIN labels[c] :
              i \in DOMAIN labels'[c] /\ labels'[c][i].edge = labels[c][i].edge
        /\ \A c \in Directions : \A f \in Edges :
              status'[c][f].set = IF c = d /\ f = e THEN "temporary" ELSE status[c][f].set
    <3>1. /\ DOMAIN labels'[d] = DOMAIN labels[d] \cup {k}
          /\ \A j \in DOMAIN labels[d] : labels'[d][j] = labels[d][j]
          /\ \A c \in Directions : c # d => labels'[c] = labels[c]
      BY <1>2, <1>7, <2>0, ReachesOne
    <3>0. ~IsReached(d, e)
      BY <1>2, <1>7 DEF Reach, Tries, Admits, IsReached, SettledSets
    <3>2. \A c \in Directions : \A f \in Edges :
              status'[c][f] = IF c = d /\ f = e THEN [set |-> "temporary", label |-> k]
                              ELSE status[c][f]
      BY <1>2, <1>7, <2>0, ReachesOne
    <3>3. \A c \in Directions : \A j \in DOMAIN labels[c] :
              j \in DOMAIN labels'[c] /\ labels'[c][j].edge = labels[c][j].edge
      BY <3>1
    <3> QED  BY <3>0, <3>1, <3>2, <3>3
  <2>2. Advances
    BY <1>0, <1>3, <2>1 DEF Advances, IsReached, IsSettled, SettledSets
  <2>3. IsReached(d, e)'  BY <1>3, <2>1 DEF IsReached, SettledSets
  <2> QED  BY <1>2, <2>1, <2>2, <2>3
<1> QED  BY <1>1, <1>4, <1>5, <1>6, <1>7

(* A step that looks at an edge settles nothing, and improves or adds at most   *)
(* one label, which follows the label popped last.                              *)
OneLabel(d, i, e) ==
    /\ HasLabel(d) /\ i # NoLabel /\ ~IsSettled(d, e)
    /\ \A c \in Directions : c # d => labels'[c] = labels[c]
    /\ DOMAIN labels'[d] = DOMAIN labels[d] \cup {i}
    /\ \A j \in DOMAIN labels[d] \ {i} : labels'[d][j] = labels[d][j]
    /\ labels'[d][i].edge = e /\ labels'[d][i].pred = at[d]
    /\ i \in DOMAIN labels[d] => /\ labels[d][i].edge = e
                                 /\ labels'[d][i].opp = labels[d][i].opp
                                 /\ labels'[d][i].notThru = labels[d][i].notThru
                                 /\ labels'[d][i].prune = labels[d][i].prune
    /\ i \notin DOMAIN labels[d] => labels'[d][i].opp # NoEdge /\ ~labels'[d][i].prune

LEMMA LooksAtLabels ==
    ASSUME SearchInv, Second, Found, NEW e, NEW deadEnd \in BOOLEAN, LooksAt(e, deadEnd)
    PROVE  /\ \A c \in Directions : \A f \in g.edge : IsSettled(c, f)' <=> IsSettled(c, f)
           /\ UNCHANGED labels \/ \E d \in Directions : \E i : OneLabel(d, i, e)
<1>1. /\ Evaluates(e, deadEnd) /\ UNCHANGED <<request, pass, up, at, exp, best>>
      /\ \/ IsShortcut(g, e) /\ SkipShortcut(e, deadEnd)
         \/ Refuse(e, deadEnd) \/ KeepLabel(e, deadEnd) \/ Improve(e, deadEnd) \/ Reach(e, deadEnd)
  BY LooksAtControl
<1>2. PICK d \in Directions : d = work.dir /\ HasLabel(d)  BY <1>1, ExaminedFacts DEF HasLabel
<1>3. /\ e \in g.edge /\ g.edge \subseteq Edges /\ status \in [Directions -> [Edges -> Status]]
      /\ request \in Requests /\ \A c \in Directions : NoLabel \notin DOMAIN labels[c]
  <2>1. /\ request \in Requests /\ status \in [Directions -> [Edges -> Status]]
        /\ labels \in [Directions -> Seq(LabelT)]
    BY DEF SearchInv, Types
  <2>2. \A c \in Directions : NoLabel \notin DOMAIN labels[c]
    <3> SUFFICES ASSUME NEW c \in Directions PROVE NoLabel \notin DOMAIN labels[c]
      OBVIOUS
    <3>1. labels[c] \in Seq(LabelT)  BY <2>1
    <3> QED  BY <3>1
  <2> QED  BY <1>1, <2>1, <2>2, ExaminedFacts, GraphFacts
<1>4. CASE IsShortcut(g, e) /\ SkipShortcut(e, deadEnd)
  <2>1. UNCHANGED labels /\ status' = [status EXCEPT ![d][e] = Skipped] /\ ~TakesShortcut(d, e)
    BY <1>2, <1>4 DEF SkipShortcut
  <2>2. ~IsReached(d, e)  BY <1>1, <1>2, <1>4, <2>1, SkippedIsNotReached
  <2>3. \A c \in Directions : \A f \in Edges :
            status'[c][f] = IF c = d /\ f = e THEN Skipped ELSE status[c][f]
    <3> HIDE DEF Skipped
    <3> QED  BY <1>3, <2>1
  <2> QED  BY <1>3, <2>1, <2>2, <2>3 DEF IsReached, IsSettled, SettledSets, Skipped
<1>5. CASE Refuse(e, deadEnd) \/ KeepLabel(e, deadEnd)
  BY <1>5 DEF Refuse, KeepLabel, IsSettled
<1>6. CASE Improve(e, deadEnd)
  <2>1. PICK h \in Directions : \E i \in DOMAIN labels[h] :
            /\ h = work.dir /\ i = status[h][e].label /\ labels[h][i].edge = e
            /\ status[h][e].set = "temporary" /\ labels'[h][i].pred = at[h]
            /\ \A c \in Directions :
                  /\ DOMAIN labels'[c] = DOMAIN labels[c]
                  /\ \A j \in DOMAIN labels[c] :
                        /\ c # h \/ j # i => labels'[c][j] = labels[c][j]
                        /\ labels'[c][j].edge = labels[c][j].edge
                        /\ labels'[c][j].opp = labels[c][j].opp
                        /\ labels'[c][j].notThru = labels[c][j].notThru
                        /\ labels'[c][j].prune = labels[c][j].prune
    BY <1>6, ImprovesOne
  <2>2. PICK i \in DOMAIN labels[d] :
            /\ labels[d][i].edge = e /\ status[d][e].set = "temporary" /\ labels'[d][i].pred = at[d]
            /\ \A c \in Directions :
                  /\ DOMAIN labels'[c] = DOMAIN labels[c]
                  /\ \A j \in DOMAIN labels[c] :
                        /\ c # d \/ j # i => labels'[c][j] = labels[c][j]
                        /\ labels'[c][j].edge = labels[c][j].edge
                        /\ labels'[c][j].opp = labels[c][j].opp
                        /\ labels'[c][j].notThru = labels[c][j].notThru
                        /\ labels'[c][j].prune = labels[c][j].prune
    BY <1>2, <2>1
  <2>3. UNCHANGED status  BY <1>6 DEF Improve
  <2>4. \A c \in Directions : c # d => labels'[c] = labels[c]
    <3>1. labels' = [labels EXCEPT ![d] = labels'[d]]
      <4>1. \E x : labels' = [labels EXCEPT ![d] = x]  BY <1>2, <1>6 DEF Improve
      <4>2. labels \in [Directions -> Seq(LabelT)]  BY DEF SearchInv, Types
      <4> QED  BY <4>1, <4>2
    <3>2. labels \in [Directions -> Seq(LabelT)]  BY DEF SearchInv, Types
    <3> HIDE DEF Directions
    <3> QED  BY <3>1, <3>2
  <2>5. i # NoLabel /\ DOMAIN labels'[d] = DOMAIN labels[d] \cup {i}  BY <1>3, <2>2
  <2>6. OneLabel(d, i, e)
    BY <1>2, <2>2, <2>4, <2>5 DEF OneLabel, IsSettled
  <2> QED  BY <2>3, <2>6 DEF IsSettled
<1>7. CASE Reach(e, deadEnd)
  <2>0. PICK i : i = NewIndex(d)  OBVIOUS
  <2>1. /\ i \notin DOMAIN labels[d] /\ DOMAIN labels'[d] = DOMAIN labels[d] \cup {i}
        /\ labels'[d][i] = NewLabel(d, e)
        /\ \A j \in DOMAIN labels[d] : labels'[d][j] = labels[d][j]
        /\ \A c \in Directions : c # d => labels'[c] = labels[c]
        /\ \A c \in Directions : \A f \in Edges :
              status'[c][f] = IF c = d /\ f = e THEN [set |-> "temporary", label |-> i]
                              ELSE status[c][f]
    BY <1>2, <1>7, <2>0, ReachesOne
  <2>2. ~IsSettled(d, e)
    BY <1>2, <1>7 DEF Reach, Tries, Admits, IsSettled
  <2>3. \A c \in Directions : \A f \in g.edge : IsSettled(c, f)' <=> IsSettled(c, f)
    BY <1>3, <2>1, <2>2 DEF IsSettled
  <2>4. i # NoLabel
    <3>1. labels[d] \in Seq(LabelT)  BY DEF SearchInv, Types
    <3> QED  BY <2>0, <3>1 DEF NewIndex
  <2>5. /\ NewLabel(d, e).edge = e /\ NewLabel(d, e).pred = at[d] /\ NewLabel(d, e).opp # NoEdge
        /\ ~NewLabel(d, e).prune
    <3>1. g.opp[e] # NoEdge  BY <1>3, OppIs
    <3>2. pass # 1  BY DEF Second
    <3> QED  BY <3>1, <3>2 DEF NewLabel
  <2>6. OneLabel(d, i, e)
    <3> HIDE DEF Directions
    <3> QED  BY <1>2, <2>1, <2>2, <2>4, <2>5 DEF OneLabel
  <2> QED  BY <2>3, <2>6
<1> QED  BY <1>1, <1>4, <1>5, <1>6, <1>7

(* chains still end, for the label is of an edge not settled and no label       *)
(* follows it                                                                    *)
LEMMA ChainsEndStill ==
    ASSUME SearchInv, Basics, NEW d \in Directions, NEW i, NEW e, OneLabel(d, i, e)
    PROVE  ChainsEnd'
<1> SUFFICES ASSUME NEW Y \in SUBSET DOMAIN labels'[Fwd], Y # {}
             PROVE  \E j \in Y : labels'[Fwd][j].pred \notin Y
  BY DEF ChainsEnd
<1>1. CASE d # Fwd
  <2>1. labels'[Fwd] = labels[Fwd]  BY <1>1 DEF OneLabel
  <2> QED  BY <2>1 DEF Basics, ChainsEnd
<1>2. CASE d = Fwd
  <2>1. \A j \in DOMAIN labels[Fwd] : labels[Fwd][j].pred # i
    <3> SUFFICES ASSUME NEW j \in DOMAIN labels[Fwd], labels[Fwd][j].pred = i PROVE FALSE
      OBVIOUS
    <3>1. i # NoLabel /\ ~IsSettled(Fwd, e)  BY <1>2 DEF OneLabel
    <3>2. i \in DOMAIN labels[Fwd]  BY <3>1 DEF SearchInv, LabelsAreLegal, LegalLabel
    <3>3. labels[Fwd][i].edge = e  BY <1>2, <3>2 DEF OneLabel
    <3> QED  BY <3>1, <3>3 DEF Basics, PredsSettled
  <2>2. labels'[Fwd][i].pred # i
    <3> SUFFICES ASSUME at[Fwd] = i PROVE FALSE
      BY <1>2 DEF OneLabel
    <3>1. HasLabel(Fwd) /\ ~IsSettled(Fwd, e)  BY <1>2 DEF OneLabel
    <3>2. labels[Fwd][i].edge = e  BY <1>2, <3>1 DEF OneLabel, HasLabel
    <3> QED  BY <3>1, <3>2 DEF Basics, PredsSettled, Reached
  <2>3. CASE Y = {i}  BY <2>2, <2>3
  <2>4. CASE Y # {i}
    <3>1. Y \ {i} \in SUBSET DOMAIN labels[Fwd] /\ Y \ {i} # {}
      BY <1>2, <2>4 DEF OneLabel
    <3>2. PICK j \in Y \ {i} : labels[Fwd][j].pred \notin Y \ {i}
      BY <3>1 DEF Basics, ChainsEnd
    <3>3. labels'[Fwd][j] = labels[Fwd][j]  BY <1>2, <3>1, <3>2 DEF OneLabel
    <3> QED  BY <2>1, <3>1, <3>2, <3>3
  <2> QED  BY <2>3, <2>4
<1> QED  BY <1>1, <1>2

(* what is new is open and is no root *)
LEMMA OneLabelBasics ==
    ASSUME SearchInv, Basics, UNCHANGED <<request, at>>, AreRegular',
           \A c \in Directions : \A f \in g.edge : IsSettled(c, f)' <=> IsSettled(c, f),
           NEW d \in Directions, NEW i, NEW e \in g.edge, OneLabel(d, i, e)
    PROVE  Basics'
<1>1. /\ g' = g /\ request \in Requests /\ at' = at
      /\ \A c \in Directions : Other(c) \in Directions
      /\ \A c \in Directions : Candidates(c)' = Candidates(c)
  BY DEF g, SearchInv, Types, Candidates, Other
<1>2. \A c \in Directions : \A j \in DOMAIN labels[c] :
          /\ LegalLabel(c, j) /\ labels[c][j].edge \in g.edge /\ g.opp[labels[c][j].edge] \in g.edge
  <2>1. \A c \in Directions : \A j \in DOMAIN labels[c] :
            LegalLabel(c, j) /\ labels[c][j].edge \in g.edge
    BY DEF SearchInv, LabelsAreLegal, LegalLabel
  <2> QED  BY <1>1, <2>1, GraphFacts
(* every label is the one or as it was *)
<1>3. /\ \A c \in Directions : \A j \in DOMAIN labels'[c] :
            (c = d /\ j = i) \/ (j \in DOMAIN labels[c] /\ labels'[c][j] = labels[c][j])
      /\ \A c \in Directions : \A j \in DOMAIN labels[c] :
            j \in DOMAIN labels'[c] /\ labels'[c][j].edge = labels[c][j].edge
  BY DEF OneLabel
<1>4. /\ labels'[d][i].edge = e /\ labels'[d][i].pred = at[d] /\ ~IsSettled(d, e)
      /\ at[d] \in DOMAIN labels[d] /\ at[d] # NoLabel
  <2>1. labels[d] \in Seq(LabelT)  BY DEF SearchInv, Types
  <2> QED  BY <2>1 DEF OneLabel, HasLabel
<1> HIDE DEF g
<1>5. AreOpen'
  <2> SUFFICES ASSUME NEW c \in Directions, NEW j \in DOMAIN labels'[c]
               PROVE  /\ ~(labels'[c][j].notThru /\ labels'[c][j].prune)
                      /\ labels'[c][j].opp = NoEdge => c = Fwd /\ j \in DOMAIN g.origin
    BY <1>1 DEF AreOpen
  <2>1. CASE j \in DOMAIN labels[c]
    <3>1. /\ ~(labels[c][j].notThru /\ labels[c][j].prune)
          /\ labels[c][j].opp = NoEdge => c = Fwd /\ j \in DOMAIN g.origin
      BY <2>1 DEF Basics, AreOpen
    <3>2. CASE c = d /\ j = i  BY <2>1, <3>1, <3>2 DEF OneLabel
    <3>3. CASE labels'[c][j] = labels[c][j]  BY <3>1, <3>3
    <3> QED  BY <1>3, <3>2, <3>3
  <2>2. CASE j \notin DOMAIN labels[c]
    <3>1. c = d /\ j = i  BY <1>3, <2>2
    <3> QED  BY <2>2, <3>1 DEF OneLabel
  <2> QED  BY <2>1, <2>2
<1>6. RootsStand'
  <2>1. \A c \in Directions : \A k \in DOMAIN Candidates(c) :
            Driven(c, Candidates(c)[k].edge)' = Driven(c, Candidates(c)[k].edge)
    BY <1>1 DEF Driven
  <2> QED  BY <1>1, <1>3, <2>1 DEF Basics, RootsStand
<1>7. RootsApart'
  <2> SUFFICES ASSUME NEW c \in Directions, NEW j \in DOMAIN labels'[c],
                      IsSettled(Other(c), g.opp[labels[c][j].edge])'
               PROVE  labels'[c][j].pred # NoLabel
    BY <1>1 DEF RootsApart
  <2>1. CASE c = d /\ j = i  BY <1>4, <2>1
  <2>2. CASE j \in DOMAIN labels[c] /\ labels'[c][j] = labels[c][j]
    <3>1. PICK f \in g.edge : f = g.opp[labels[c][j].edge]  BY <1>2, <2>2
    <3>2. IsSettled(Other(c), f)'  BY <1>1, <2>2, <3>1 DEF IsSettled
    <3>3. IsSettled(Other(c), f)  BY <1>1, <3>2
    <3> QED  BY <2>2, <3>1, <3>3 DEF Basics, RootsApart
  <2> QED  BY <1>3, <2>1, <2>2
<1>8. NoneMet'
  <2> SUFFICES ASSUME NEW j \in DOMAIN labels'[Fwd], IsSettled(Fwd, labels[Fwd][j].edge)',
                      IsSettled(Rev, g.opp[labels[Fwd][j].edge])'
               PROVE  labels'[Fwd][j].opp = NoEdge
    BY <1>1 DEF NoneMet
  <2>1. CASE Fwd = d /\ j = i
    <3>1. ~IsSettled(Fwd, e)'  BY <1>4, <2>1
    <3> QED  BY <1>4, <2>1, <3>1 DEF IsSettled
  <2>2. CASE j \in DOMAIN labels[Fwd] /\ labels'[Fwd][j] = labels[Fwd][j]
    <3>1. PICK f \in g.edge, h \in g.edge : f = labels[Fwd][j].edge /\ h = g.opp[f]  BY <1>2, <2>2
    <3>2. IsSettled(Fwd, f)' /\ IsSettled(Rev, h)'  BY <1>1, <2>2, <3>1 DEF IsSettled
    <3>3. IsSettled(Fwd, f) /\ IsSettled(Rev, h)  BY <3>2
    <3> QED  BY <2>2, <3>1, <3>3 DEF Basics, NoneMet
  <2> QED  BY <1>3, <2>1, <2>2
<1>9. \A c \in Directions : HasLabel(c)' => HasLabel(c) /\ Reached(c)'.edge = Reached(c).edge
  <2> SUFFICES ASSUME NEW c \in Directions, HasLabel(c)'
               PROVE  HasLabel(c) /\ Reached(c)'.edge = Reached(c).edge
    OBVIOUS
  <2>1. HasLabel(c)  BY <1>1, <1>3, <1>4 DEF HasLabel
  <2> QED  BY <1>1, <1>3, <2>1 DEF HasLabel, Reached
<1>10. PredsSettled'
  <2>1. ASSUME NEW c \in Directions, HasLabel(c)' PROVE IsSettled(c, Reached(c).edge)'
    <3>1. HasLabel(c) /\ Reached(c)'.edge = Reached(c).edge  BY <1>9, <2>1
    <3>2. PICK f \in g.edge : f = Reached(c).edge  BY <1>2, <3>1 DEF HasLabel, Reached
    <3>3. IsSettled(c, f)'  BY <3>1, <3>2 DEF Basics, PredsSettled
    <3> QED  BY <3>1, <3>2, <3>3 DEF IsSettled
  <2>2. ASSUME NEW c \in Directions, NEW j \in DOMAIN labels'[c], labels'[c][j].pred # NoLabel
        PROVE  IsSettled(c, labels[c][labels[c][j].pred].edge)'
    <3>1. PICK p : p = labels'[c][j].pred  OBVIOUS
    <3>2. p \in DOMAIN labels[c] /\ IsSettled(c, labels[c][p].edge)
      <4>1. CASE c = d /\ j = i
        BY <1>4, <3>1, <4>1 DEF Basics, PredsSettled, HasLabel, Reached
      <4>2. CASE j \in DOMAIN labels[c] /\ labels'[c][j] = labels[c][j]
        BY <1>2, <2>2, <3>1, <4>2 DEF Basics, PredsSettled, LegalLabel
      <4> QED  BY <1>3, <4>1, <4>2
    <3>3. PICK f \in g.edge : f = labels[c][p].edge  BY <1>2, <3>2
    <3>4. IsSettled(c, f)' /\ labels'[c][p].edge = f  BY <1>3, <3>2, <3>3
    <3> QED  BY <3>1, <3>4 DEF IsSettled
  <2> QED  BY <2>1, <2>2 DEF PredsSettled
<1>11. ChainsEnd'  BY ChainsEndStill
<1> QED  BY <1>5, <1>6, <1>7, <1>8, <1>10, <1>11 DEF Basics

(* nothing is settled and no label changes *)
LEMMA SettledBasics ==
    ASSUME SearchInv, Basics, UNCHANGED <<request, at, labels>>, AreRegular',
           \A c \in Directions : \A f \in g.edge : IsSettled(c, f)' <=> IsSettled(c, f)
    PROVE  Basics'
<1>1. /\ g' = g /\ request \in Requests
      /\ \A c \in Directions : Other(c) \in Directions
      /\ \A c \in Directions : Candidates(c)' = Candidates(c)
  BY DEF g, SearchInv, Types, Candidates, Other
<1>2. \A c \in Directions : \A j \in DOMAIN labels[c] :
          /\ LegalLabel(c, j) /\ labels[c][j].edge \in g.edge /\ g.opp[labels[c][j].edge] \in g.edge
  <2>1. \A c \in Directions : \A j \in DOMAIN labels[c] :
            LegalLabel(c, j) /\ labels[c][j].edge \in g.edge
    BY DEF SearchInv, LabelsAreLegal, LegalLabel
  <2> QED  BY <1>1, <2>1, GraphFacts
<1> HIDE DEF g
<1>3. AreOpen' /\ RootsStand' /\ ChainsEnd'
  <2>1. \A c \in Directions : \A k \in DOMAIN Candidates(c) :
            Driven(c, Candidates(c)[k].edge)' = Driven(c, Candidates(c)[k].edge)
    BY <1>1 DEF Driven
  <2> QED  BY <1>1, <2>1 DEF Basics, AreOpen, RootsStand, ChainsEnd
<1>4. \A c, h \in Directions : \A j \in DOMAIN labels[c] :
          /\ IsSettled(h, labels[c][j].edge)' <=> IsSettled(h, labels[c][j].edge)
          /\ IsSettled(h, g.opp[labels[c][j].edge])' <=> IsSettled(h, g.opp[labels[c][j].edge])
  <2> SUFFICES ASSUME NEW c \in Directions, NEW h \in Directions, NEW j \in DOMAIN labels[c]
               PROVE  /\ IsSettled(h, labels[c][j].edge)' <=> IsSettled(h, labels[c][j].edge)
                      /\ IsSettled(h, g.opp[labels[c][j].edge])'
                            <=> IsSettled(h, g.opp[labels[c][j].edge])
    OBVIOUS
  <2>1. PICK f \in g.edge, b \in g.edge : f = labels[c][j].edge /\ b = g.opp[f]  BY <1>2
  <2>2. labels'[c][j].edge = f /\ g.opp[labels[c][j].edge]' = b  BY <1>1, <2>1
  <2> QED  BY <2>1, <2>2 DEF IsSettled
<1>5. RootsApart' /\ NoneMet'
  BY <1>1, <1>4 DEF Basics, RootsApart, NoneMet
<1>6. PredsSettled'
  <2>1. \A c \in Directions : \A j \in DOMAIN labels[c] :
            labels[c][j].pred # NoLabel => labels[c][j].pred \in DOMAIN labels[c]
    BY <1>2 DEF LegalLabel
  <2>2. \A c \in Directions : HasLabel(c)' <=> HasLabel(c)  BY DEF HasLabel
  <2> QED  BY <1>4, <2>1, <2>2 DEF Basics, PredsSettled, HasLabel, Reached
<1> QED  BY <1>3, <1>5, <1>6 DEF Basics

LEMMA LooksAtBasics ==
    ASSUME SearchInv, Second, Found, NEW e, NEW deadEnd \in BOOLEAN, LooksAt(e, deadEnd)
    PROVE  Basics'
<1>1. /\ Evaluates(e, deadEnd) /\ UNCHANGED <<request, pass, up, at, exp, best>>
      /\ \/ IsShortcut(g, e) /\ SkipShortcut(e, deadEnd)
         \/ /\ ~IsShortcut(g, e)
            /\ \/ Refuse(e, deadEnd) \/ KeepLabel(e, deadEnd)
               \/ Improve(e, deadEnd) \/ Reach(e, deadEnd)
  BY LooksAtControl
<1>2. PICK d \in Directions : d = work.dir  BY <1>1, ExaminedFacts
<1>3. /\ e \in g.edge /\ g.edge \subseteq Edges /\ status \in [Directions -> [Edges -> Status]]
  <2>1. request \in Requests /\ status \in [Directions -> [Edges -> Status]]
    BY DEF SearchInv, Types
  <2> QED  BY <1>1, <2>1, ExaminedFacts, GraphFacts
<1>4. g' = g /\ Basics  BY <1>1 DEF g, Found
<1>5. \A c \in Directions : \A f \in g.edge :
          IsReached(c, f)' => IsReached(c, f) \/ (c = d /\ f = e /\ ~IsShortcut(g, e))
  <2>1. CASE IsShortcut(g, e) /\ SkipShortcut(e, deadEnd)
    <3>1. status' = [status EXCEPT ![d][e] = Skipped]
      BY <1>2, <2>1 DEF SkipShortcut
    <3>2. \A c \in Directions : \A f \in Edges :
              status'[c][f] = IF c = d /\ f = e THEN Skipped ELSE status[c][f]
      <4> HIDE DEF Skipped
      <4> QED  BY <1>2, <1>3, <3>1
    <3> QED  BY <1>3, <3>2 DEF IsReached, SettledSets, Skipped
  <2>2. CASE Refuse(e, deadEnd) \/ KeepLabel(e, deadEnd) \/ Improve(e, deadEnd)
    <3>1. UNCHANGED status  BY <2>2 DEF Refuse, KeepLabel, Improve
    <3> QED  BY <3>1 DEF IsReached
  <2>3. CASE ~IsShortcut(g, e) /\ Reach(e, deadEnd)
    <3>1. \A c \in Directions : \A f \in Edges :
              c # d \/ f # e => status'[c][f] = status[c][f]
      BY <1>2, <2>3, ReachIs
    <3> QED  BY <1>3, <2>3, <3>1 DEF IsReached
  <2> QED  BY <1>1, <2>1, <2>2, <2>3
<1>6. AreRegular'  BY <1>4, <1>5 DEF Basics, AreRegular
<1>7. /\ \A c \in Directions : \A f \in g.edge : IsSettled(c, f)' <=> IsSettled(c, f)
      /\ UNCHANGED labels \/ \E h \in Directions : \E i : OneLabel(h, i, e)
  BY LooksAtLabels
<1>8. CASE UNCHANGED labels
  BY <1>1, <1>4, <1>6, <1>7, <1>8, SettledBasics
<1>9. CASE \E h \in Directions : \E i : OneLabel(h, i, e)
  BY <1>1, <1>3, <1>4, <1>6, <1>7, <1>9, OneLabelBasics
<1> QED  BY <1>7, <1>8, <1>9

LEMMA LedIsAllowed ==
    ASSUME NEW d \in Directions, NEW p, NEW f, NEW deadEnd, ~IsShortcut(g, p),
           Leads(d, p, f), deadEnd \/ f # g.opp[p]
    PROVE  Allowed(d, p, f, deadEnd)
<1>1. ~IsShortcut(g, f) /\ Permitted(g, Driven(d, f)) /\ GoesOn(d, p, f)  BY DEF Leads
<1>2. IsUturn(g, p, f) <=> f = g.opp[p]
  <2>1. LastPart(g, p) = p /\ FirstPart(g, f) = f  BY <1>1, RegularIs
  <2> QED  BY <2>1 DEF IsUturn
<1>3. TurnOnto(d, p, f) \notin g.banned
  BY <1>1 DEF GoesOn, Follows, TurnOnto
<1> QED  BY <1>1, <1>2, <1>3 DEF Allowed, Permitted

LEMMA ExpandsRegular ==
    ASSUME SearchInv, Found, pc = "expand", NEW d \in Directions, d = work.dir
    PROVE  ~IsShortcut(g, Reached(d).edge)
<1>1. HasLabel(d) /\ Reached(d).edge \in g.edge  BY ExpandsFrom
<1>2. IsReached(d, Reached(d).edge)
  BY <1>1 DEF HasLabel, Reached, SearchInv, LabelsAreLegal, LegalLabel
<1> QED  BY <1>1, <1>2 DEF Found, Basics, AreRegular

(* the edge looked at, when the search leads on to it                          *)
LEMMA LookedIsReached ==
    ASSUME SearchInv, Second, Found, NEW e, NEW deadEnd \in BOOLEAN, LooksAt(e, deadEnd),
           NEW d \in Directions, d = work.dir, NEW x, x = Reached(d).edge,
           Leads(d, x, e), deadEnd \/ e # g.opp[x]
    PROVE  IsReached(d, e)'
<1>1. Evaluates(e, deadEnd)  BY LooksAtControl
<1>2. pc = "expand" /\ e \in g.edge  BY <1>1, ExaminedFacts DEF Evaluates
<1>3. ~IsShortcut(g, x)  BY <1>2, ExpandsRegular
<1>4. Allowed(d, x, e, deadEnd)  BY <1>3, LedIsAllowed
<1>5. ~IsShortcut(g, e)  BY DEF Leads
<1>6. CASE Admits(e, deadEnd)  BY <1>5, <1>6, LooksAtKeeps
<1>7. CASE ~Admits(e, deadEnd)
  <2>1. status[d][e].set = "permanent"  BY <1>4, <1>7 DEF Admits
  <2>2. IsReached(d, e)  BY <2>1 DEF IsReached, SettledSets
  <2> QED  BY <1>2, <2>2, LooksAtKeeps DEF Advances
<1> QED  BY <1>6, <1>7

(* at a cul-de-sac nothing but the way back is approved                        *)
LEMMA ApprovedAtDeadEnd ==
    ASSUME SearchInv, Second, Found, NEW e, NEW deadEnd \in BOOLEAN, LooksAt(e, deadEnd),
           NEW d \in Directions, d = work.dir, NEW x, x = Reached(d).edge, DeadEnd(g, x),
           ~IsShortcut(g, e), IsSettled(d, e) \/ Admits(e, deadEnd)
    PROVE  e = g.opp[x] /\ IsReached(d, e)'
<1>1. Evaluates(e, deadEnd)  BY LooksAtControl
<1>2. IsReached(d, e)'
  <2>1. IsSettled(d, e) => IsReached(d, e)  BY DEF IsSettled, IsReached, SettledSets
  <2>2. e \in g.edge  BY <1>1, ExaminedFacts
  <2> QED  BY <2>1, <2>2, LooksAtKeeps DEF Advances
<1>3. Permitted(g, Driven(d, e))
  <2>1. CASE Admits(e, deadEnd)  BY <1>1, <2>1, AdmittedFacts
  <2>2. CASE IsSettled(d, e)
    <3>1. e \in g.edge  BY <1>1, ExaminedFacts
    <3>2. status[d][e].label \in DOMAIN labels[d] /\ labels[d][status[d][e].label].edge = e
      BY <2>2, <3>1 DEF SearchInv, StatusPointsAtLabel, IsSettled
    <3> QED  BY <3>2 DEF SearchInv, LabelsAreLegal, LegalLabel
  <2> QED  BY <2>1, <2>2
<1>4. e = g.opp[x]
  <2>1. e \in g.edge /\ Meets(g, x, e)  BY <1>1, ExaminedFacts DEF EndNode, Meets
  <2> QED  BY <1>3, <2>1 DEF DeadEnd, Driven
<1> QED  BY <1>2, <1>4

LEMMA LooksFinds ==
    ASSUME SearchInv, FindInv, Second', NEW e, LooksAt(e, FALSE) PROVE Found'
<1>1. /\ pc = "expand" /\ Evaluates(e, FALSE) /\ UNCHANGED <<request, pass, up, at, exp, best>>
  BY DEF LooksAt, SkipSuperseded, SkipShortcut, Refuse, KeepLabel, Improve, Reach, Tries, Evaluates
<1>2. Second /\ Found  BY <1>1, SecondBefore DEF FindInv
<1>3. PICK d \in Directions : d = work.dir  BY <1>1, ExaminedFacts
<1>4. PICK x : x = Reached(d).edge  OBVIOUS
<1>5. PICK b : b = g.opp[x]  OBVIOUS
<1> DEFINE L == Len(g.trans[EndNode])
<1>6. /\ HasLabel(d) /\ x \in g.edge /\ EndNode = g.to[x] /\ EndNode \in Nodes
      /\ L \in Nat /\ work.next \in Nat \ {0} /\ work.trans \in Nat
      /\ g.out[EndNode] \in Seq(Edges) /\ request \in Requests
      /\ \A t \in 0..L : g.out[NodeAt(t)] \in Seq(Edges)
  BY <1>1, <1>3, <1>4, ExpandsFrom DEF SearchInv, Types
<1>7. /\ e \in g.edge /\ ~NodeDone /\ e = NextEdge /\ ~SetsAside(e)
  BY <1>1, ExaminedFacts DEF Evaluates
<1>8. Basics'  BY <1>2, LooksAtBasics
<1>9. /\ \A c \in Directions : \A f \in g.edge : IsReached(c, f) => IsReached(c, f)'
      /\ \A c \in Directions : \A i \in DOMAIN labels[c] : labels'[c][i].edge = labels[c][i].edge
      /\ Advances
  BY <1>2, LooksAtKeeps DEF Advances
<1>10. PICK a \in BOOLEAN :
           /\ Evaluated(FALSE, a, {})
           /\ a => ~IsShortcut(g, e) /\ (IsSettled(d, e) \/ Admits(e, FALSE))
  BY <1>2, <1>3, LooksAtControl
<1>11. /\ pc' = pc /\ work'.dir = d /\ work'.next = work.next + 1 /\ work'.trans = work.trans
       /\ work'.node = work.node /\ work'.used = {} /\ work'.uturn = work.uturn
       /\ work'.approved <=> work.approved \/ a
  <2>1. /\ pc' = pc
        /\ work' = [work EXCEPT !.next = @ + 1, !.approved = @ \/ a, !.used = {}]
    BY <1>10 DEF Evaluated
  <2>2. work \in Work  BY DEF SearchInv, Types
  <2> QED  BY <1>3, <2>1, <2>2 DEF Work
<1>12. \A c \in Directions : HasLabel(c) => Reached(c)'.edge = Reached(c).edge
  BY <1>1, <1>9 DEF HasLabel, Reached
<1>13. Completes'
  <2>1. \A c \in Directions : Waits(c)'  BY <1>1, <1>11 DEF Waits
  <2> QED  BY <1>1, <1>2, <1>9, <1>12, <2>1, CompletesKept, WaitingIsLabelled DEF Found
<1>14. Progress /\ work.used = {} /\ work.trans \in 0..L /\ work.node = NodeAt(work.trans)
  BY <1>1, <1>2 DEF Found, Progress
<1>15. Reached(d).edge' = x  BY <1>4, <1>6, <1>12
<1>16. EndNode' = EndNode /\ g' = g /\ \A t : NodeAt(t)' = NodeAt(t)
  BY <1>1, <1>3, <1>4, <1>11, <1>15, ProgressPlaces
<1>17. (work.node = NodeAt(work.trans))'  BY <1>11, <1>14, <1>16 DEF NodeAt
<1>18. \A t \in 0..L : \A j \in DOMAIN g.out[NodeAt(t)] :
           Past(t, j)' => Past(t, j) \/ (t = work.trans /\ j = work.next)
  <2>1. \A t \in 0..L : \A j \in DOMAIN g.out[NodeAt(t)] : j \in Nat  BY <1>6
  <2> QED  BY <1>6, <1>11, <2>1 DEF Past
<1>19. e = g.out[NodeAt(work.trans)][work.next]  BY <1>7, <1>14 DEF NextEdge
<1>20. ASSUME NEW t \in 0..L, NEW j \in DOMAIN g.out[NodeAt(t)], NEW f \in g.edge,
              f = g.out[NodeAt(t)][j], Past(t, j)', f # b, Leads(d, x, f)
       PROVE  IsReached(d, f)'
  <2>1. CASE Past(t, j)
    <3>1. IsReached(d, f)
      BY <1>3, <1>4, <1>5, <1>14, <1>20, <2>1 DEF Progress, LooksAhead, L
    <3> QED  BY <1>9, <3>1
  <2>2. CASE t = work.trans /\ j = work.next
    <3>1. f = e  BY <1>19, <1>20, <2>2
    <3> QED  BY <1>2, <1>3, <1>4, <1>5, <1>20, <3>1, LookedIsReached
  <2> QED  BY <1>18, <1>20, <2>1, <2>2
<1>21. ASSUME NEW j \in DOMAIN g.out[EndNode], Past(0, j)', g.out[EndNode][j] = b
       PROVE  work'.uturn = b
  <2>1. 0 \in 0..L /\ NodeAt(0) = EndNode  BY <1>6 DEF NodeAt
  <2>2. CASE Past(0, j)
    BY <1>3, <1>4, <1>5, <1>11, <1>14, <1>21, <2>2 DEF Progress, PutsAside
  <2>3. CASE 0 = work.trans /\ j = work.next
    <3>1. e = b  BY <1>19, <1>21, <2>1, <2>3
    <3>2. ~IsShortcut(g, x)  BY <1>1, <1>2, <1>3, <1>4, ExpandsRegular
    <3>3. ~IsShortcut(g, b)  BY <1>5, <1>6, <3>2, GraphFacts
    <3>4. IsUturn(g, x, e)
      <4>1. FirstPart(g, e) = e /\ LastPart(g, x) = x  BY <3>1, <3>2, <3>3, RegularIs
      <4> QED  BY <1>5, <3>1, <4>1 DEF IsUturn
    <3> QED  BY <1>3, <1>4, <1>7, <2>3, <3>4 DEF SetsAside
  <2> QED  BY <1>18, <1>21, <2>1, <2>2, <2>3
<1>22. DeadEnd(g, x) /\ work'.approved => IsReached(d, b)'
  <2> SUFFICES ASSUME DeadEnd(g, x), work'.approved PROVE IsReached(d, b)'
    OBVIOUS
  <2>1. CASE work.approved
    <3>1. IsReached(d, b)  BY <1>3, <1>4, <1>5, <1>14, <2>1 DEF Progress
    <3>2. b \in g.edge  BY <1>5, <1>6, GraphFacts
    <3> QED  BY <1>9, <3>1, <3>2
  <2>2. CASE a
    <3>1. e = b /\ IsReached(d, e)'
      BY <1>2, <1>3, <1>4, <1>5, <1>10, <2>2, ApprovedAtDeadEnd
    <3> QED  BY <3>1
  <2> QED  BY <1>11, <2>1, <2>2
<1>23. /\ \A t \in 0..L : \A j \in DOMAIN g.out[NodeAt(t)] : \A f \in g.edge :
             f = g.out[NodeAt(t)][j] /\ Past(t, j)' /\ f # b /\ Leads(d, x, f) => IsReached(d, f)'
       /\ \A j \in DOMAIN g.out[EndNode] :
             Past(0, j)' /\ g.out[EndNode][j] = b => work'.uturn = b
  BY <1>20, <1>21
<1>24. work'.trans \in 0..L  BY <1>11, <1>14
<1>25. Progress'
  BY <1>1, <1>3, <1>4, <1>5, <1>11, <1>14, <1>15, <1>17, <1>22, <1>23, <1>24, ProgressNext DEF L
<1> QED  BY <1>8, <1>13, <1>25 DEF Found

LEMMA LooksDone ==
    ASSUME SearchInv, FindInv, Second', NEW e, LooksAt(e, TRUE) PROVE Found'
<1>1. /\ pc = "expand" /\ Evaluates(e, TRUE) /\ UNCHANGED <<request, pass, up, at, exp, best>>
  BY DEF LooksAt, SkipSuperseded, SkipShortcut, Refuse, KeepLabel, Improve, Reach, Tries, Evaluates
<1>2. Second /\ Found  BY <1>1, SecondBefore DEF FindInv
<1>3. PICK d \in Directions : d = work.dir  BY <1>1, ExaminedFacts
<1>4. PICK x : x = Reached(d).edge  OBVIOUS
<1>5. AllDone /\ e = work.uturn  BY <1>1 DEF Evaluates, TurnsRound
<1>6. Basics'  BY <1>2, LooksAtBasics
<1>7. /\ \A c \in Directions : \A f \in g.edge : IsReached(c, f) => IsReached(c, f)'
      /\ \A c \in Directions : \A i \in DOMAIN labels[c] : labels'[c][i].edge = labels[c][i].edge
      /\ Advances
  BY <1>2, LooksAtKeeps DEF Advances
<1>8. pc' = Fwd
  <2>1. \E a \in BOOLEAN : Evaluated(TRUE, a, {})  BY <1>2, LooksAtControl
  <2> QED  BY <2>1 DEF Evaluated
<1>9. /\ \A f \in g.edge : Leads(d, x, f) /\ f # g.opp[x] => IsReached(d, f)
      /\ e = g.opp[x]
  BY <1>1, <1>2, <1>3, <1>4, <1>5, AllLooked
<1>10. \A f \in g.edge : Leads(d, x, f) => IsReached(d, f)'
  <2>1. Leads(d, x, e) => IsReached(d, e)'
    BY <1>2, <1>3, <1>4, LookedIsReached
  <2> QED  BY <1>7, <1>9, <2>1
<1>11. \A c \in Directions : exp[c] <=> c = d  BY <1>1, <1>2, <1>3 DEF Found, Progress
<1>12. \A c \in Directions : HasLabel(c) => Reached(c)'.edge = Reached(c).edge
  BY <1>1, <1>7 DEF HasLabel, Reached
<1>13. \A c \in Directions : Waits(c) /\ HasLabel(c) =>
           \/ Waits(c)' /\ Reached(c).edge' = Reached(c).edge
           \/ \A f \in g.edge : Leads(c, Reached(c).edge, f) => IsReached(c, f)'
  <2> SUFFICES ASSUME NEW c \in Directions, HasLabel(c)
               PROVE  \/ Waits(c)' /\ Reached(c).edge' = Reached(c).edge
                      \/ \A f \in g.edge : Leads(c, Reached(c).edge, f) => IsReached(c, f)'
    OBVIOUS
  <2>1. CASE c = d  BY <1>4, <1>10, <2>1
  <2>2. CASE c # d  BY <1>1, <1>8, <1>11, <1>12, <2>2 DEF Waits
  <2> QED  BY <2>1, <2>2
<1>14. Completes'
  BY <1>1, <1>2, <1>7, <1>13, CompletesKept, WaitingIsLabelled DEF Found
<1> QED  BY <1>6, <1>8, <1>14 DEF Found

-----------------------------------------------------------------------------
(* The other steps. *)

(* the second pass begins with nothing settled *)
LEMMA RetryFinds ==
    ASSUME SearchInv, Retry PROVE Found'
<1>1. request' = request /\ g' = g /\ Searched' /\ pc' = Fwd
  BY SearchedKept DEF Retry, SearchInv, g
<1>2. Begun'
  <2>1. \A d \in Directions : RootLabels(d)' = RootLabels(d) /\ RootStatus(d)' = RootStatus(d)
    BY <1>1 DEF RootLabels, RootStatus, RootLabel, Candidates, Heuristic, Own, Far, g
  <2> QED  BY <1>1, <2>1 DEF Begun, Retry, SearchInv, Types
<1>3. (at = [d \in Directions |-> NoLabel])'  BY DEF Retry
<1>4. Basics' /\ NothingSettled'  BY <1>2, <1>3, BegunFinds, PTL
<1>5. Completes'  BY <1>4 DEF Completes, NothingSettled
<1> QED  BY <1>1, <1>4, <1>5 DEF Found

(* a search with nothing left to pop: there is no way, or something ends the pass *)
LEMMA ExhaustedFinds ==
    ASSUME SearchInv, QueueInv, FindInv, NEW d \in Directions, Exhausted(d) PROVE FindInv'
<1>1. /\ pc = d /\ exp[d] /\ Popped(d).label = NoLabel
      /\ pc' = IF best = <<>> THEN AfterFailure ELSE "form"
      /\ UNCHANGED <<request, pass, labels, up, best, routes>>
  BY DEF Exhausted, Turns
<1>2. ~Second'  BY <1>1 DEF Second, AfterFailure
<1>3. ASSUME pc' = "done", LimitsUnused', ~TurnedRound' PROVE (LeastCost(g) = NoWay)'
  <2>1. pass = 2 /\ best = <<>>
    BY <1>1, <1>3 DEF AfterFailure, SearchInv, Types
  <2>2. Second  BY <1>1, <1>3, <2>1 DEF Second, LimitsUnused, Relaxed
  <2>3. Found  BY <2>2 DEF FindInv
  <2>4. ~TurnedRound  BY <1>1, <1>3 DEF TurnedRound, Candidates, g
  <2>5. LeastCost(g) = NoWay  BY <1>1, <2>2, <2>3, <2>4, NoWayForward, NoWayBack
  <2> QED  BY <1>1, <2>5 DEF g
<1> QED  BY <1>2, <1>3 DEF FindInv

LEMMA KeptIsSome ==
    ASSUME SearchInv, NEW c PROVE KeepBest(c) # <<>>
<1>1. best \in Seq(ConnectionT)  BY DEF SearchInv, Types
<1> DEFINE S == ConnectionT \cup {c}
<1>2. best \in Seq(S) /\ c \in S  BY <1>1
<1> HIDE DEF S
<1>3. CASE best # <<>> /\ c.cost < best[1].cost
  <2> DEFINE b == [best EXCEPT ![1] = c]
  <2>1. b \in Seq(S) /\ best[1] \in S  BY <1>2, <1>3
  <2> HIDE DEF b
  <2>2. KeepBest(c) = Append(b, best[1])  BY <1>3 DEF KeepBest, b
  <2> QED  BY <2>1, <2>2
<1>4. CASE ~(best # <<>> /\ c.cost < best[1].cost)
  <2>1. KeepBest(c) = Append(best, c)  BY <1>4 DEF KeepBest
  <2> QED  BY <1>2, <2>1
<1> QED  BY <1>3, <1>4

LEMMA PruneFinds ==
    ASSUME SearchInv, FindInv, NEW d \in Directions, Prune(d) PROVE ~Second'
<1> SUFFICES ASSUME Second' PROVE FALSE
  OBVIOUS
<1>1. pc = "choose" /\ Pruned(d) /\ UNCHANGED <<request, pass, up, best>>  BY DEF Prune
<1>2. Second /\ Found  BY <1>1, SecondBefore DEF FindInv
<1>3. HasLabel(d)  BY <1>1 DEF SearchInv, Control
<1> QED  BY <1>1, <1>2, <1>3, NothingPruned

LEMMA GivePathFinds ==
    ASSUME RestInv, NEW keeps \in BOOLEAN, GivePath(keeps) PROVE FindInv'
<1>1. ~Second'  BY DEF GivePath, Second, AfterPath
<1>2. ASSUME pc' = "done" PROVE routes' # <<>>
  <2>1. routes \in Seq(Seq(Edges)) /\ route \in Seq(Edges)  BY DEF RestInv
  <2>2. Joins(g, route)  BY <1>2 DEF GivePath
  <2>3. CASE keeps
    <3>1. routes' = Append(routes, route)  BY <2>2, <2>3 DEF GivePath
    <3> QED  BY <2>1, <3>1
  <2>4. CASE ~keeps  BY <2>4 DEF GivePath
  <2> QED  BY <2>3, <2>4
<1> QED  BY <1>1, <1>2 DEF FindInv

LEMMA FindsKept == ASSUME FindInv, UNCHANGED vars PROVE FindInv'
<1>1. g' = g /\ UNCHANGED <<request, pass, pc, labels, status, up, at, exp, best, work, routes>>
  BY DEF vars, g
<1>2. LimitsUnused' => LimitsUnused  BY <1>1 DEF LimitsUnused, Relaxed
<1>3. /\ (LeastCost(g) = NoWay)' <=> LeastCost(g) = NoWay
      /\ TurnedRound' <=> TurnedRound
  BY <1>1 DEF TurnedRound, Candidates
<1>4. Second' => Second  BY <1>1 DEF Second, LimitsUnused, Relaxed
<1>5. Found => Found'
  <2> SUFFICES ASSUME Found PROVE Found'
    OBVIOUS
  <2>1. Basics'  BY <1>1, BasicsKept DEF Found
  <2>2. /\ \A d \in Directions : \A e \in g.edge :
              /\ Waits(d)' <=> Waits(d)
              /\ Reached(d)' = Reached(d)
              /\ \A f \in g.edge :
                    /\ Leads(d, e, f)' <=> Leads(d, e, f)
                    /\ IsReached(d, f)' <=> IsReached(d, f)
                    /\ IsSettled(d, f)' <=> IsSettled(d, f)
    BY <1>1, LeadsKept DEF Waits, Reached, IsReached, IsSettled
  <2>3. Completes'
    <3> HIDE DEF g
    <3> QED  BY <1>1, <2>2 DEF Found, Completes, Complete
  <2>4. Progress' <=> Progress
    <3>1. EndNode' = EndNode /\ \A t : NodeAt(t)' = NodeAt(t)
      BY <1>1 DEF EndNode, NodeAt, Reached
    <3>2. \A d, e, f : /\ Leads(d, e, f)' <=> Leads(d, e, f)
                       /\ IsReached(d, f)' <=> IsReached(d, f)
                       /\ Reached(d)' = Reached(d)
      BY <1>1, LeadsKept DEF IsReached, Reached
    <3>3. \A e : DeadEnd(g, e)' <=> DeadEnd(g, e)  BY <1>1
    <3>4. \A t, j : Past(t, j)' <=> Past(t, j)  BY <1>1 DEF Past
    <3> HIDE DEF g
    <3>5. LooksAhead' <=> LooksAhead  BY <1>1, <3>1, <3>2, <3>4 DEF LooksAhead
    <3>6. PutsAside' <=> PutsAside  BY <1>1, <3>1, <3>2, <3>4 DEF PutsAside
    <3> QED  BY <1>1, <3>1, <3>2, <3>3, <3>5, <3>6 DEF Progress
  <2> QED  BY <1>1, <2>1, <2>3, <2>4 DEF Found
<1> QED  BY <1>1, <1>2, <1>3, <1>4, <1>5 DEF FindInv

LEMMA LooksAtFinds ==
    ASSUME SearchInv, FindInv, NEW e, NEW deadEnd \in BOOLEAN, LooksAt(e, deadEnd) PROVE FindInv'
<1>1. pc' # "done"
  <2>1. pc = "expand" /\ \E a, used : Evaluated(deadEnd, a, used)
    BY DEF LooksAt, SkipSuperseded, SkipShortcut, Refuse, KeepLabel, Improve, Reach, Tries, Evaluates
  <2> QED  BY <2>1 DEF Evaluated
<1>2. deadEnd = TRUE \/ deadEnd = FALSE  OBVIOUS
<1>3. Second' => Found'  BY <1>2, LooksFinds, LooksDone
<1> QED  BY <1>1, <1>3 DEF FindInv

LEMMA NextFinds ==
    SearchInv /\ QueueInv /\ RestInv /\ FindInv /\ [Next]_vars => FindInv'
<1> SUFFICES ASSUME SearchInv, QueueInv, RestInv, FindInv, [Next]_vars PROVE FindInv'
  OBVIOUS
<1>1. CASE IterationsExceeded \/ (\E k \in DOMAIN best : FormPath(k))
           \/ WalkBack \/ TurnOver \/ WalkOn
  <2>1. pc' \in {"form", "back", "on"}
    BY <1>1 DEF IterationsExceeded, FormPath, WalkBack, TurnOver, WalkOn
  <2> QED  BY <2>1 DEF FindInv, Second
<1>2. ASSUME NEW d \in Directions,
             NotExpanded(d) \/ Exhausted(d) \/ Prune(d) \/ BeginExpand(d)
      PROVE  FindInv'
  <2>1. CASE Exhausted(d)  BY <2>1, ExhaustedFinds
  <2>2. CASE Prune(d)
    <3>1. pc' = Fwd  BY <2>2 DEF Prune
    <3> QED  BY <2>2, <3>1, PruneFinds DEF FindInv
  <2>3. CASE NotExpanded(d) \/ BeginExpand(d)
    <3>1. pc' # "done"  BY <2>3 DEF NotExpanded, BeginExpand, AfterPop
    <3>2. Second' => Found'  BY <2>3, NotExpandedFinds, BeginExpandFinds
    <3> QED  BY <3>1, <3>2 DEF FindInv
  <2> QED  BY <1>2, <2>1, <2>2, <2>3
<1>3. ASSUME NEW d \in Directions, NEW i, StopAt(d, i) \/ Connect(d, i) \/ GoOn(d, i)
      PROVE  FindInv'
  <2>1. CASE StopAt(d, i)
    <3>1. pc' = "form"  BY <2>1 DEF StopAt
    <3> QED  BY <3>1 DEF FindInv, Second
  <2>2. CASE Connect(d, i)
    <3>1. pc' = Fwd /\ best' # <<>>  BY <2>2, KeptIsSome DEF Connect
    <3> QED  BY <3>1 DEF FindInv, Second
  <2>3. CASE GoOn(d, i)
    <3>1. pc' # "done"  BY <2>3 DEF GoOn, AfterPop
    <3> QED  BY <2>3, <3>1, GoOnFinds DEF FindInv
  <2> QED  BY <1>3, <2>1, <2>2, <2>3
<1>4. CASE SetAside \/ Transition \/ EndExpand
  <2>1. pc' # "done"  BY <1>4 DEF SetAside, Transition, EndExpand
  <2>2. Second' => Found'  BY <1>4, SetAsideFinds, TransitionFinds, EndExpandFinds
  <2> QED  BY <2>1, <2>2 DEF FindInv
<1>5. ASSUME NEW deadEnd \in BOOLEAN, NEW e, LooksAt(e, deadEnd) PROVE FindInv'
  BY <1>5, LooksAtFinds
<1>6. CASE Retry
  <2>1. pc' = Fwd  BY <1>6 DEF Retry
  <2> QED  BY <1>6, <2>1, RetryFinds DEF FindInv
<1>7. ASSUME NEW keeps \in BOOLEAN, GivePath(keeps) PROVE FindInv'
  BY <1>7, GivePathFinds
<1>8. CASE UNCHANGED vars
  BY <1>8, FindsKept
<1>9. Next \/ UNCHANGED vars
  OBVIOUS
<1> QED
  BY <1>1, <1>2, <1>3, <1>4, <1>5, <1>6, <1>7, <1>8, <1>9 DEF Next, Step, Answered, LooksAt

LEMMA InitFinds == Init => FindInv
BY DEF Init, FindInv, Second

LEMMA NoWayIsNone == FindInv => FindsRoute
<1>1. NoWay \in Nat  BY DEF NoWay
<1> HIDE DEF NoWay
<1> QED  BY <1>1 DEF FindInv, FindsRoute

-----------------------------------------------------------------------------
(* The results. *)

(* In every search, whatever costs, buckets and ranges are, a queue holds     *)
(* each label still to be settled once, and no settled one.                   *)
THEOREM QueueTheorem == Spec => []QueueHoldsOpenLabels
<1>1. Init => SearchInv /\ QueueInv
  BY InitSearch, InitQueues
<1>2. SearchInv /\ QueueInv /\ [Next]_vars => SearchInv' /\ QueueInv'
  BY NextSearch, NextQueues
<1>3. SearchInv /\ QueueInv => QueueHoldsOpenLabels
  BY QueueOfLabels
<1> QED  BY <1>1, <1>2, <1>3, PTL DEF Spec

(* A label that is popped costs less than one bucket more than any other still *)
(* in the queue, or than the floor where that is more: the queue's first bucket *)
(* as long as no road costs less than the estimate falls along it, and the       *)
(* bucket the queue has come to on a graph with such roads.                      *)
THEOREM PopTheorem == Spec => PopIsLeast
<1> DEFINE Inv == SearchInv /\ QueueInv /\ SortsInv /\ (HeuristicIsConsistent => RisesInv)
           Cheap == \A d \in Directions :
                       at'[d] # at[d] /\ at'[d] # NoLabel =>
                           \A i \in Labels(queue'[d]) :
                               labels[d][at'[d]].sort < Width +
                                   (IF labels[d][i].sort < Floor(d) THEN Floor(d)
                                    ELSE labels[d][i].sort)
<1>1. Init => Inv
  BY InitSearch, InitQueues, InitSorts, InitRises
<1>2. Inv /\ [Next]_vars => Inv'
  <2> SUFFICES ASSUME Inv, [Next]_vars PROVE Inv'
    OBVIOUS
  <2>1. SearchInv' /\ QueueInv' /\ SortsInv'
    BY NextSearch, NextQueues, NextSorts
  <2>2. HeuristicIsConsistent' => HeuristicIsConsistent
    BY RequestKept DEF HeuristicIsConsistent, g
  <2>3. HeuristicIsConsistent => RisesInv'
    BY NextRises
  <2> QED  BY <2>1, <2>2, <2>3
<1>3. Inv /\ [Next]_vars => [Cheap]_vars
  BY PopStep
<1> HIDE DEF Inv, Cheap
<1>4. Spec => [][Cheap]_vars
  BY <1>1, <1>2, <1>3, PTL DEF Spec
<1> QED  BY <1>4 DEF PopIsLeast, Cheap

(* Every variable of every search keeps its type: costs are whole numbers,    *)
(* labels follow labels, and FormPath walks over labels there are.            *)
THEOREM TypeTheorem == Spec => []TypeOK
<1> DEFINE Inv == SearchInv /\ QueueInv /\ SortsInv /\ RestInv
<1>1. Init => Inv
  BY InitSearch, InitQueues, InitSorts, InitRest
<1>2. Inv /\ [Next]_vars => Inv'
  BY NextSearch, NextQueues, NextSorts, NextRest
<1>3. Inv => TypeOK
  BY TypesHold
<1> HIDE DEF Inv
<1> QED  BY <1>1, <1>2, <1>3, PTL DEF Spec

(* When there is a way the request ends with a path, unless a hierarchy limit *)
(* was used up or a search turned round onto the road of its own candidate, a   *)
(* candidate that counted with more than the way over the road before it.        *)
(* Whatever candidates count with, roads cost and edges are tried first, the two *)
(* searches do not miss each other otherwise.                                     *)
THEOREM FindsTheorem == Spec => []FindsRoute
<1> DEFINE Inv == SearchInv /\ QueueInv /\ SortsInv /\ RestInv /\ FindInv
<1>1. Init => Inv
  BY InitSearch, InitQueues, InitSorts, InitRest, InitFinds
<1>2. Inv /\ [Next]_vars => Inv'
  BY NextSearch, NextQueues, NextSorts, NextRest, NextFinds
<1>3. Inv => FindsRoute
  BY NoWayIsNone
<1> HIDE DEF Inv
<1> QED  BY <1>1, <1>2, <1>3, PTL DEF Spec
==============================================================================
