----------------------------- MODULE BucketQueue -----------------------------
(***************************************************************************)
(* DoubleBucketQueue: labels sorted into Count buckets of Width costs each,  *)
(* and an overflow bucket for what lies beyond.  Costs are whole numbers.    *)
(* A queue knows labels by index; the costs it reads are handed to it.       *)
(***************************************************************************)
EXTENDS Integers, SequencesExt

CONSTANTS
    Width,      \* bucketsize
    Count       \* low-level buckets in the range

ASSUME BucketAssumption == Width \in Nat \ {0} /\ Count \in Nat \ {0}

Range_ == Width * Count
Buckets == 1..(Count + 1)       \* resize(range / bucketsize + 1)

(* low: mincost_; current: currentcost_; at: currentbucket_ *)
Queue == [low : Int, current : Int, at : Buckets,
          bucket : [Buckets -> Seq(Nat)], overflow : Seq(Nat)]

(* reuse() on an emptied queue *)
EmptyQueue(mincost) ==
    LET c == mincost - (mincost % Width)
    IN [low |-> c, current |-> c, at |-> 1,
        bucket |-> [b \in Buckets |-> <<>>], overflow |-> <<>>]

Max_(q) == q.low + Range_
Slot(q, cost) == 1 + ((cost - q.low) \div Width)

(* get_bucket: 0 stands for the overflow bucket *)
BucketOf(q, cost) ==
    IF cost < q.current THEN q.at
    ELSE IF cost < Max_(q) THEN Slot(q, cost) ELSE 0

(* the members of S in s, in their order: SelectSeq, as a function the       *)
(* provers can unfold                                                        *)
Kept(s, S) ==
    LET Upto[k \in 0..Len(s)] ==
            IF k = 0 THEN <<>>
            ELSE IF s[k] \in S THEN Append(Upto[k - 1], s[k]) ELSE Upto[k - 1]
    IN Upto[Len(s)]
Without(s, label) == Kept(s, ToSet(s) \ {label})

PushTo(q, b, label) ==
    IF b = 0 THEN [q EXCEPT !.overflow = Append(@, label)]
    ELSE [q EXCEPT !.bucket[b] = Append(@, label)]
TakeFrom(q, b, label) ==
    IF b = 0 THEN [q EXCEPT !.overflow = Without(@, label)]
    ELSE [q EXCEPT !.bucket[b] = Without(@, label)]

Add(q, label, cost) == PushTo(q, BucketOf(q, cost), label)

(* decrease: the label's own sort cost is updated afterwards *)
DecreaseInPlace(q, label, cost, newcost) == q                               \* variant
DecreaseWithoutRemoval(q, label, cost, newcost) ==                          \* variant
    PushTo(q, BucketOf(q, newcost), label)
Decrease(q, label, cost, newcost) ==
    IF BucketOf(q, cost) = BucketOf(q, newcost) THEN q
    ELSE TakeFrom(PushTo(q, BucketOf(q, newcost), label), BucketOf(q, cost), label)

-----------------------------------------------------------------------------
(* empty(): the first bucket from the current one on that holds a label *)
Filled(q) == {b \in Buckets : b >= q.at /\ q.bucket[b] # <<>>}
FirstFilled(q) == CHOOSE b \in Filled(q) : \A c \in Filled(q) : b <= c
AdvanceTo(q, b) == [q EXCEPT !.at = b, !.current = @ + (b - q.at) * Width]

(* empty_overflow(): the range moves up to the least label of the overflow   *)
(* bucket, and what lies in it moves down.                                    *)
LeastOverflow(q, cost) ==
    LET costs == {cost[label] : label \in ToSet(q.overflow)}
    IN CHOOSE c \in costs : \A d \in costs : c <= d
Refill(q, cost) ==
    LET low == q.low + ((LeastOverflow(q, cost) - q.low) \div Range_) * Range_
        Place(label) ==
            IF cost[label] < low + Range_ THEN 1 + ((cost[label] - low) \div Width) ELSE 0
        To(b) == Kept(q.overflow, {label \in ToSet(q.overflow) : Place(label) = b})
    IN [low |-> low, current |-> low, at |-> 1,
        bucket |-> [b \in Buckets |-> To(b)], overflow |-> To(0)]

NoLabel == 0
Take(q) ==
    LET b == FirstFilled(q)
    IN [label |-> Last(q.bucket[b]),
        queue |-> [AdvanceTo(q, b) EXCEPT !.bucket[b] = Front(@)]]

(* pop(): the label found last in the lowest bucket.  When there is none the  *)
(* current bucket ends up as the last one, the current cost beyond it.        *)
Pop(q, cost) ==
    IF Filled(q) # {} THEN Take(q)
    ELSE IF q.overflow # <<>> THEN Take(Refill(q, cost))
    ELSE [label |-> NoLabel,
          queue |-> [q EXCEPT !.at = Count + 1,
                              !.current = @ + (Count + 2 - q.at) * Width]]

Contents(q, b) == IF b = 0 THEN q.overflow ELSE q.bucket[b]
Labels(q) == UNION {ToSet(Contents(q, b)) : b \in 0..Count + 1}
Occurrences(q, label) ==
    Cardinality(UNION {{<<b, k>> : k \in {j \in DOMAIN Contents(q, b) : Contents(q, b)[j] = label}}
                       : b \in 0..Count + 1})
=============================================================================
