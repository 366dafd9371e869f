--------------------------- MODULE DirectionsProofs ---------------------------
(* Proofs about Directions and Navigation, for any networks, alternates, list *)
(* lengths and numbers of edits and reroutes, with guarded tiles or without:  *)
(* the routes the page shows are legal as asked, the active one is one of     *)
(* them, and driving is never stuck and implements the page.                  *)
EXTENDS Navigation, TLAPS, WellFoundedInduction, FiniteSetTheorems, SequenceTheorems

(* A response that shows at least one route has a first one.                  *)
LEMMA FirstIsOne ==
    ASSUME NEW S \in SUBSET Nat, S # {}
    PROVE  First(S) \in S
<1> DEFINE Less == OpToRel(<, Nat)
<1>1. IsWellFoundedOn(Less, Nat)  BY NatLessThanWellFounded
<1>2. \E p \in S : \A q \in S : ~(<<q, p>> \in Less)
  <2> HIDE DEF Less
  <2> QED  BY <1>1, WFMin
<1>3. \A p \in S, q \in S : q < p => <<q, p>> \in Less
  BY DEF OpToRel
<1>4. \E p \in S : \A q \in S : p <= q
  <2> HIDE DEF Less
  <2>1. PICK p \in S : \A q \in S : ~(<<q, p>> \in Less)  BY <1>2
  <2>2. \A q \in S : ~(q < p)  BY <1>3, <2>1
  <2> QED  BY <2>2
<1> QED  BY <1>4 DEF First

(* Clearing leaves no route to check.                                         *)
LEMMA NothingShown ==
    DOMAIN NoResults.routes = {}
BY DEF NoResults

(* The positions of a response are natural numbers.                           *)
LEMMA LegalPositions ==
    ASSUME NEW asked, NEW r \in Responses(asked)
    PROVE  LegalPart(r, asked) \in SUBSET Nat
<1>1. MaxAlternates \in Nat  BY DirectionsAssumption
<1>2. PICK n \in 0..MaxAlternates : r \in [0..n -> SUBSET Networks]
  BY DEF Responses
<1> QED  BY <1>1, <1>2 DEF LegalPart

(* What the two kinds of answer show.                                         *)
LEMMA AnswerShows ==
    ASSUME NEW q \in inFlight, NEW r \in Responses(q.asked), Answer(q, r)
    PROVE  LegalAsAsked' /\ ActiveRouteExists'
<1> DEFINE kept == LegalPart(r, q.asked)
<1>1. results' = [asked |-> q.asked, optimized |-> FALSE, routes |-> [p \in kept |-> r[p]]]
  BY DEF Answer, receiveRouteResults
<1>2. kept \in SUBSET Nat /\ kept # {}  BY LegalPositions DEF Answer
<1>3. Shown' = kept  BY <1>1 DEF Shown
<1>4. LegalAsAsked'
  <2>1. \A p \in kept : Legal(r[p], q.asked)  BY DEF LegalPart
  <2> QED  BY <1>1, <1>3, <2>1 DEF LegalAsAsked, Legal
<1>5. active' \in Shown'
  BY <1>2, <1>3, FirstIsOne DEF Answer, receiveRouteResults
<1> QED  BY <1>4, <1>5 DEF ActiveRouteExists

LEMMA OptimizedShows ==
    ASSUME NEW order, NEW crossed, Optimized(order, crossed)
    PROVE  LegalAsAsked' /\ ActiveRouteExists'
<1> DEFINE ws == [i \in DOMAIN order |-> optimizing.captured[order[i]]]
           asked == Asked(ws, optimizing.networks)
<1>1. results' = [asked |-> asked, optimized |-> TRUE, routes |-> [p \in {0} |-> crossed]]
  BY DEF Optimized, receiveRouteResults
<1>2. Shown' = {0}  BY <1>1 DEF Shown
<1>3. Guarded => Legal(crossed, asked)  BY DEF Optimized
<1>4. LegalAsAsked'  BY <1>1, <1>2, <1>3 DEF LegalAsAsked, Legal
<1>5. active' = First({0})  BY DEF Optimized, receiveRouteResults
<1>6. First({0}) \in {0}  BY FirstIsOne
<1> QED  BY <1>2, <1>4, <1>5, <1>6 DEF ActiveRouteExists

(* Two formulas over results and active only: a step that keeps both, or      *)
(* clears the routes, keeps them.                                             *)
LEMMA KeptOrCleared ==
    ASSUME LegalAsAsked, ActiveRouteExists,
           \/ results' = results /\ active' = active
           \/ results' = NoResults
    PROVE  LegalAsAsked' /\ ActiveRouteExists'
<1>1. CASE results' = results /\ active' = active
  BY <1>1 DEF LegalAsAsked, ActiveRouteExists, HasRoutes, Shown, Legal
<1>2. CASE results' = NoResults
  <2>1. Shown' = {}  BY <1>2, NothingShown DEF Shown
  <2> QED  BY <2>1 DEF LegalAsAsked, ActiveRouteExists, HasRoutes
<1> QED  BY <1>1, <1>2

(* No step of the page shows a route that is illegal for what it was asked    *)
(* with, or makes a route active that is not there.                           *)
LEMMA StepKeeps ==
    ASSUME LegalAsAsked, ActiveRouteExists, [DirectionsNext]_dvars
    PROVE  LegalAsAsked' /\ ActiveRouteExists'
<1>1. CASE UNCHANGED dvars
  BY <1>1, KeptOrCleared DEF dvars, store
<1>2. CASE Panel
  <2>1. CASE addEmptyWaypointToEnd  BY <2>1, KeptOrCleared DEF addEmptyWaypointToEnd
  <2>2. CASE clearWaypoints  BY <2>2, KeptOrCleared DEF clearWaypoints, clearRoutes
  <2>3. CASE optimizeRoute
    BY <2>3, KeptOrCleared DEF optimizeRoute, OptimizeUnchanged, store
  <2>4. ASSUME NEW i \in DOMAIN waypoints, doRemoveWaypoint(i)
        PROVE  LegalAsAsked' /\ ActiveRouteExists'
    BY <2>4, KeptOrCleared DEF doRemoveWaypoint
  <2>5. ASSUME NEW i \in DOMAIN waypoints, NEW j \in DOMAIN waypoints, Move(i, j)
        PROVE  LegalAsAsked' /\ ActiveRouteExists'
    BY <2>5, KeptOrCleared DEF Move
  <2>6. ASSUME NEW p \in Shown, setActiveRouteIndex(p)
        PROVE  LegalAsAsked' /\ ActiveRouteExists'
    BY <2>6 DEF setActiveRouteIndex, LegalAsAsked, ActiveRouteExists, Shown, Legal
  <2> QED  BY <1>2, <2>1, <2>2, <2>3, <2>4, <2>5, <2>6 DEF Panel
<1>3. CASE Elsewhere
  <2>1. CASE AddVia  BY <2>1, KeptOrCleared DEF AddVia, SetStop
  <2>2. ASSUME NEW i \in 1..MaxWaypoints, ChooseStop(i)
        PROVE  LegalAsAsked' /\ ActiveRouteExists'
    BY <2>2, KeptOrCleared DEF ChooseStop, SetStop
  <2>3. ASSUME NEW i \in 1..MaxWaypoints, Search(i)
        PROVE  LegalAsAsked' /\ ActiveRouteExists'
    BY <2>3, KeptOrCleared DEF Search
  <2>4. ASSUME NEW ns \in SUBSET Networks, SelectNetworks(ns)
        PROVE  LegalAsAsked' /\ ActiveRouteExists'
    BY <2>4, KeptOrCleared DEF SelectNetworks
  <2>5. ASSUME NEW q \in inFlight, NEW r \in Responses(q.asked), Answer(q, r)
        PROVE  LegalAsAsked' /\ ActiveRouteExists'
    BY <2>5, AnswerShows
  <2>6. ASSUME NEW q \in inFlight, Fails(q)
        PROVE  LegalAsAsked' /\ ActiveRouteExists'
    BY <2>6, KeptOrCleared DEF Fails, clearRoutes
  <2>7. CASE OptimizeFails
    BY <2>7, KeptOrCleared DEF OptimizeFails, OptimizeUnchanged, store
  <2>8. CASE OptimizeAgain
    BY <2>8, KeptOrCleared DEF OptimizeAgain, OptimizeUnchanged, store
  <2>9. ASSUME NEW order, NEW crossed, Optimized(order, crossed)
        PROVE  LegalAsAsked' /\ ActiveRouteExists'
    BY <2>9, OptimizedShows
  <2> QED
    BY <1>3, <2>1, <2>2, <2>3, <2>4, <2>5, <2>6, <2>7, <2>8, <2>9 DEF Elsewhere
<1> QED  BY <1>1, <1>2, <1>3 DEF DirectionsNext

LEMMA OpenedEmpty ==
    ASSUME Init PROVE LegalAsAsked /\ ActiveRouteExists
<1>1. Shown = {}  BY NothingShown DEF Init, Shown
<1> QED  BY <1>1 DEF LegalAsAsked, ActiveRouteExists, HasRoutes

(* Whatever the user does and however the answers are delayed, no route of    *)
(* the directions query is ever shown that crosses a network it was asked to  *)
(* respect (use-directions-queries.ts:146-183).                               *)
THEOREM ShownRoutesAreLegalAsAsked == DirectionsSpec => []LegalAsAsked
<1>1. Init => LegalAsAsked /\ ActiveRouteExists  BY OpenedEmpty
<1>2. LegalAsAsked /\ ActiveRouteExists /\ [DirectionsNext]_dvars
        => (LegalAsAsked /\ ActiveRouteExists)'
  BY StepKeeps
<1> QED  BY <1>1, <1>2, PTL DEF DirectionsSpec

(* The active route is always one that is shown (directions-store.ts).        *)
THEOREM ActiveRouteIsShown == DirectionsSpec => []ActiveRouteExists
<1>1. Init => LegalAsAsked /\ ActiveRouteExists  BY OpenedEmpty
<1>2. LegalAsAsked /\ ActiveRouteExists /\ [DirectionsNext]_dvars
        => (LegalAsAsked /\ ActiveRouteExists)'
  BY StepKeeps
<1> QED  BY <1>1, <1>2, PTL DEF DirectionsSpec

-------------------------------------------------------------------------------
(* The places of a list that carry a selected address, counted.               *)

(* A finite set of numbers has an element at every rank: to count the numbers *)
(* up to each is to number them, without a gap.                               *)
LEMMA NthExists ==
    ASSUME NEW S \in SUBSET Nat, IsFiniteSet(S), NEW k \in 1..Cardinality(S)
    PROVE  \E i \in S : Cardinality({j \in S : j <= i}) = k
<1> DEFINE n == Cardinality(S)
           upTo(i) == {j \in S : j <= i}
           rank == [i \in S |-> Cardinality(upTo(i))]
<1>1. n \in Nat  BY FS_CardinalityType
<1>2. ASSUME NEW i \in S
      PROVE  IsFiniteSet(upTo(i)) /\ Cardinality(upTo(i)) \in 1..n
  <2>1. upTo(i) \in SUBSET S  OBVIOUS
  <2> HIDE DEF upTo
  <2>2. IsFiniteSet(upTo(i)) /\ Cardinality(upTo(i)) <= n
    BY <2>1, FS_Subset
  <2>3. i \in upTo(i)  BY DEF upTo
  <2>4. Cardinality(upTo(i)) \in Nat /\ Cardinality(upTo(i)) # 0
    BY <2>2, <2>3, FS_CardinalityType, FS_EmptySet
  <2> QED  BY <1>1, <2>2, <2>4
<1>3. ASSUME NEW i \in S, NEW j \in S, i < j
      PROVE  Cardinality(upTo(i)) # Cardinality(upTo(j))
  <2>0. \A x \in S : x \in Nat  OBVIOUS
  <2>1. upTo(i) \in SUBSET upTo(j)
    <3>1. \A x \in S : x <= i => x <= j  BY <1>3, <2>0
    <3> QED  BY <3>1
  <2>2. j \in upTo(j) /\ j \notin upTo(i)  BY <1>3, <2>0
  <2>3. IsFiniteSet(upTo(j))  BY <1>2
  <2> HIDE DEF upTo
  <2> QED  BY <2>1, <2>2, <2>3, FS_Subset
<1>4. rank \in Injection(S, 1..n)
  <2> HIDE DEF upTo, n
  <2>1. rank \in [S -> 1..n]  BY <1>2
  <2>2. \A i, j \in S : rank[i] = rank[j] => i = j  BY <1>3
  <2> QED  BY <2>1, <2>2 DEF Injection, IsInjective
<1>5. IsFiniteSet(1..n) /\ Cardinality(1..n) = n
  <2> HIDE DEF n
  <2> QED  BY <1>1, FS_Interval
<1>6. rank \in Surjection(S, 1..n)
  <2> HIDE DEF rank
  <2> QED  BY <1>4, <1>5, FS_Injection
<1>7. PICK i \in S : rank[i] = k
  <2> HIDE DEF upTo
  <2> QED  BY <1>6 DEF Surjection
<1> QED  BY <1>7

LEMMA NthIs ==
    ASSUME NEW S \in SUBSET Nat, IsFiniteSet(S), NEW k \in 1..Cardinality(S)
    PROVE  Nth(S, k) \in S
BY NthExists DEF Nth

LEMMA PlacesAreFinite ==
    ASSUME NEW ws \in Seq(Waypoint)
    PROVE  /\ Places(ws) \in SUBSET Nat /\ IsFiniteSet(Places(ws))
           /\ Cardinality(Places(ws)) \in Nat
           /\ \A i : i \in Places(ws) <=> i \in 1..Len(ws) /\ ws[i].stop # 0
<1>1. \A i : i \in Places(ws) <=> i \in 1..Len(ws) /\ ws[i].stop # 0
  BY DEF Places, Selected
<1>2. Places(ws) \in SUBSET (1..Len(ws))  BY <1>1
<1>3. IsFiniteSet(1..Len(ws))  BY FS_Interval
<1>4. IsFiniteSet(Places(ws))  BY <1>2, <1>3, FS_Subset
<1> QED  BY <1>1, <1>2, <1>4, FS_CardinalityType

(* The selected waypoints are a list of waypoints, selected all of them.      *)
LEMMA RelevantIs ==
    ASSUME NEW ws \in Seq(Waypoint)
    PROVE  /\ relevantWaypoints(ws) \in Seq(Waypoint)
           /\ Len(relevantWaypoints(ws)) = Cardinality(Places(ws))
           /\ \A k \in DOMAIN relevantWaypoints(ws) : Selected(relevantWaypoints(ws)[k])
           /\ getActiveWaypoints(ws) \in Seq(Nat)
<1> DEFINE r == relevantWaypoints(ws)
           n == Cardinality(Places(ws))
<1>1. n \in Nat  BY PlacesAreFinite
<1>2. \A k \in 1..n : Nth(Places(ws), k) \in Places(ws)
  BY PlacesAreFinite, NthIs
<1>3. \A i \in Places(ws) : ws[i] \in Waypoint /\ Selected(ws[i])
  BY PlacesAreFinite DEF Selected
<1>4. r = [k \in 1..n |-> ws[Nth(Places(ws), k)]]  BY DEF relevantWaypoints
<1> HIDE DEF r, n
<1>5. r \in Seq(Waypoint) /\ Len(r) = n /\ DOMAIN r = 1..n
  BY <1>1, <1>2, <1>3, <1>4
<1>6. \A k \in DOMAIN r : Selected(r[k]) /\ r[k].stop \in Nat
  BY <1>2, <1>3, <1>4 DEF Waypoint
<1>7. getActiveWaypoints(ws) = [k \in DOMAIN r |-> r[k].stop]
  BY DEF getActiveWaypoints, r
<1>8. getActiveWaypoints(ws) \in Seq(Nat)
  BY <1>1, <1>5, <1>6, <1>7
<1> QED  BY <1>5, <1>6, <1>8 DEF r, n

(* There is a route to ask for when two places are selected.                  *)
LEMMA TwoStops ==
    ASSUME NEW ws \in Seq(Waypoint)
    PROVE  hasActiveRoute(ws) <=> \E i, j \in Places(ws) : i # j
<1> DEFINE S == Places(ws)
<1>1. IsFiniteSet(S) /\ Cardinality(S) \in Nat  BY PlacesAreFinite
<1>2. hasActiveRoute(ws) <=> Cardinality(S) >= 2  BY RelevantIs DEF hasActiveRoute
<1> HIDE DEF S
<1>3. Cardinality(S) = 0 <=> S = {}  BY <1>1, FS_EmptySet
<1>4. Cardinality(S) = 1 <=> \E x : S = {x}  BY <1>1, FS_Singleton
<1>5. CASE \E i, j \in S : i # j  BY <1>1, <1>2, <1>3, <1>4, <1>5 DEF S
<1>6. CASE ~\E i, j \in S : i # j
  <2>1. S = {} \/ \E x : S = {x}  BY <1>6
  <2>2. Cardinality(S) \in {0, 1}  BY <1>3, <1>4, <2>1
  <2> QED  BY <1>2, <1>6, <2>2 DEF S
<1> QED  BY <1>5, <1>6

-------------------------------------------------------------------------------
(* What the edits do to the list.                                             *)

LEMMA Inserted ==
    ASSUME NEW ws \in Seq(Waypoint), NEW n \in 1..(Len(ws) + 1), NEW e \in Waypoint
    PROVE  /\ InsertAt(ws, n, e) \in Seq(Waypoint)
           /\ Len(InsertAt(ws, n, e)) = Len(ws) + 1
           /\ \A k \in 1..(Len(ws) + 1) :
                 InsertAt(ws, n, e)[k] =
                     IF k < n THEN ws[k] ELSE IF k = n THEN e ELSE ws[k - 1]
<1> DEFINE p == SubSeq(ws, 1, n - 1)
           q == SubSeq(ws, n, Len(ws))
<1>1. /\ p \in Seq(Waypoint) /\ Len(p) = n - 1
      /\ \A k \in 1..(n - 1) : p[k] = ws[k]
  <2>1. \A k \in 1..(n - 1) : ws[k] \in Waypoint  OBVIOUS
  <2> QED  BY <2>1, SubSeqProperties
<1>2. /\ q \in Seq(Waypoint) /\ Len(q) = Len(ws) - n + 1
      /\ \A k \in 1..(Len(ws) - n + 1) : q[k] = ws[n + k - 1]
  <2>1. \A k \in n..Len(ws) : ws[k] \in Waypoint  OBVIOUS
  <2> QED  BY <2>1, SubSeqProperties
<1>3. InsertAt(ws, n, e) = p \o <<e>> \o q  BY DEF InsertAt
<1> HIDE DEF p, q
<1>4. /\ p \o <<e>> \in Seq(Waypoint) /\ Len(p \o <<e>>) = n
      /\ \A k \in 1..n : (p \o <<e>>)[k] = IF k < n THEN ws[k] ELSE e
  <2>1. <<e>> \in Seq(Waypoint) /\ Len(<<e>>) = 1 /\ <<e>>[1] = e  OBVIOUS
  <2>2. /\ p \o <<e>> \in Seq(Waypoint)
        /\ Len(p \o <<e>>) = Len(p) + 1
        /\ \A i \in 1..(Len(p) + 1) : (p \o <<e>>)[i] =
              IF i <= Len(p) THEN p[i] ELSE <<e>>[i - Len(p)]
    BY <1>1, <2>1, ConcatProperties
  <2> QED  BY <1>1, <2>1, <2>2
<1> DEFINE pe == p \o <<e>>
<1> HIDE DEF pe
<1>5. /\ pe \o q \in Seq(Waypoint)
      /\ Len(pe \o q) = n + Len(q)
      /\ \A i \in 1..(n + Len(q)) : (pe \o q)[i] =
            IF i <= n THEN pe[i] ELSE q[i - n]
  BY <1>2, <1>4, ConcatProperties DEF pe
<1>6. Len(ws) \in Nat  OBVIOUS
<1> QED  BY <1>2, <1>3, <1>4, <1>5, <1>6 DEF pe

LEMMA Removed ==
    ASSUME NEW ws \in Seq(Waypoint), NEW n \in 1..Len(ws)
    PROVE  /\ RemoveAt(ws, n) \in Seq(Waypoint)
           /\ Len(RemoveAt(ws, n)) = Len(ws) - 1
           /\ \A k \in 1..(Len(ws) - 1) :
                 RemoveAt(ws, n)[k] = IF k < n THEN ws[k] ELSE ws[k + 1]
<1> DEFINE p == SubSeq(ws, 1, n - 1)
           q == SubSeq(ws, n + 1, Len(ws))
<1>1. /\ p \in Seq(Waypoint) /\ Len(p) = n - 1
      /\ \A k \in 1..(n - 1) : p[k] = ws[k]
  <2>1. \A k \in 1..(n - 1) : ws[k] \in Waypoint  OBVIOUS
  <2> QED  BY <2>1, SubSeqProperties
<1>2. /\ q \in Seq(Waypoint) /\ Len(q) = Len(ws) - n
      /\ \A k \in 1..(Len(ws) - n) : q[k] = ws[n + k]
  <2>1. \A k \in (n + 1)..Len(ws) : ws[k] \in Waypoint  OBVIOUS
  <2>2. /\ q \in Seq(Waypoint)
        /\ Len(q) = IF n + 1 <= Len(ws) THEN Len(ws) - (n + 1) + 1 ELSE 0
        /\ \A i \in 1..(Len(ws) - (n + 1) + 1) : q[i] = ws[n + 1 + i - 1]
    BY <2>1, SubSeqProperties
  <2> HIDE DEF q
  <2> QED  BY <2>2
<1>3. RemoveAt(ws, n) = p \o q  BY DEF RemoveAt
<1> HIDE DEF p, q
<1>4. /\ p \o q \in Seq(Waypoint)
      /\ Len(p \o q) = Len(p) + Len(q)
      /\ \A i \in 1..(Len(p) + Len(q)) : (p \o q)[i] =
            IF i <= Len(p) THEN p[i] ELSE q[i - Len(p)]
  BY <1>1, <1>2, ConcatProperties
<1>5. Len(ws) \in Nat  OBVIOUS
<1> QED  BY <1>1, <1>2, <1>3, <1>4, <1>5

(* A new number for a waypoint                                                *)
LEMMA NextId ==
    ASSUME NEW ws \in Seq(Waypoint), Len(ws) > 0
    PROVE  getNextWaypointId(ws) \in Nat
<1> DEFINE T == {ws[i].id : i \in DOMAIN ws}
           f == [i \in 1..Len(ws) |-> ws[i].id]
<1>1. DOMAIN ws = 1..Len(ws) /\ \A i \in 1..Len(ws) : ws[i].id \in Nat
  <2>1. \A i \in 1..Len(ws) : ws[i] \in Waypoint  OBVIOUS
  <2>2. \A w \in Waypoint : w.id \in Nat  BY DEF Waypoint
  <2> QED  BY <2>1, <2>2
<1>2. T \in SUBSET Nat  BY <1>1
<1>3. f \in Surjection(1..Len(ws), T)  BY <1>1 DEF Surjection
<1>4. IsFiniteSet(1..Len(ws))  BY FS_Interval
<1> HIDE DEF f
<1>5. IsFiniteSet(T)
  <2> HIDE DEF T
  <2> QED  BY <1>3, <1>4, FS_Surjection
<1>6. ws[1].id \in T  BY <1>1
<1>7. getNextWaypointId(ws) = 1 + CHOOSE m \in T : \A i \in DOMAIN ws : ws[i].id <= m
  BY DEF getNextWaypointId
<1>8. \E m \in T : Cardinality({j \in T : j <= m}) = Cardinality(T)
  <2> HIDE DEF T
  <2>1. Cardinality(T) \in Nat /\ Cardinality(T) # 0
    BY <1>5, <1>6, FS_CardinalityType, FS_EmptySet
  <2> QED  BY <1>2, <1>5, <2>1, NthExists
<1>9. PICK m \in T : Cardinality({j \in T : j <= m}) = Cardinality(T)  BY <1>8
<1>10. {j \in T : j <= m} = T
  <2> HIDE DEF T
  <2>1. {j \in T : j <= m} \in SUBSET T  OBVIOUS
  <2> QED  BY <1>5, <1>9, <2>1, FS_Subset
<1>11. \A j \in T : j <= m
  <2> HIDE DEF T
  <2> QED  BY <1>10
<1>12. \A i \in DOMAIN ws : ws[i].id <= m  BY <1>11
<1>13. (CHOOSE x \in T : \A i \in DOMAIN ws : ws[i].id <= x) \in T
  <2> HIDE DEF T
  <2> QED  BY <1>12
<1> DEFINE c == CHOOSE x \in T : \A i \in DOMAIN ws : ws[i].id <= x
<1>14. c \in Nat  BY <1>2, <1>13
<1>15. getNextWaypointId(ws) = 1 + c  BY <1>7
<1> HIDE DEF c
<1> QED  BY <1>14, <1>15

-------------------------------------------------------------------------------
(* Every variable keeps its type, two waypoints remain, and what is optimized *)
(* are four stops or more.                                                    *)

ListOK == waypoints \in Seq(Waypoint) /\ Len(waypoints) >= 2

ResultsOK ==
    /\ Question(results.asked) /\ results.optimized \in BOOLEAN
    /\ Shown \subseteq 0..MaxAlternates
    /\ \A p \in Shown : results.routes[p] \subseteq Networks
    /\ active \in 0..MaxAlternates

RequestsOK ==
    /\ \A q \in inFlight : q.n \in 1..edits /\ Question(q.asked)
    /\ held \in 0..edits
    /\ fetched \in BOOLEAN /\ disturbed \in BOOLEAN
    /\ edits \in 1..MaxEdits

OptimizingOK ==
    /\ optimizing.phase \in {"idle", "asked", "waiting", "again"}
    /\ optimizing.captured \in Seq(Waypoint) /\ optimizing.networks \subseteq Networks
    /\ Optimizing =>
          /\ Len(optimizing.captured) >= 4
          /\ \A k \in DOMAIN optimizing.captured : Selected(optimizing.captured[k])

Typed ==
    /\ ListOK /\ ResultsOK /\ RequestsOK /\ OptimizingOK
    /\ networks \subseteq Networks /\ isOptimized \in BOOLEAN

LEMMA TypedIs ==
    Typed <=> /\ TypeOK /\ Len(waypoints) >= 2
              /\ Optimizing =>
                    /\ Len(optimizing.captured) >= 4
                    /\ \A k \in DOMAIN optimizing.captured : Selected(optimizing.captured[k])
BY DEF Typed, ListOK, ResultsOK, RequestsOK, OptimizingOK, TypeOK

LEMMA AskedIs ==
    ASSUME NEW ws \in Seq(Waypoint), NEW ns \in SUBSET Networks
    PROVE  Question(Asked(ws, ns))
BY RelevantIs DEF Question, Asked

LEMMA RefetchTyped ==
    ASSUME RequestsOK, CanEdit, NEW ws \in Seq(Waypoint), NEW ns \in SUBSET Networks,
           Refetch(ws, ns)
    PROVE  RequestsOK'
<1>1. edits' = edits + 1 /\ edits' \in 1..MaxEdits
  BY DirectionsAssumption DEF Refetch, CanEdit, RequestsOK
<1>2. inFlight' = inFlight
      \/ inFlight' = inFlight \cup {[n |-> edits', asked |-> Asked(ws, ns)]}
  BY DEF Refetch, cache
<1>3. \A q \in inFlight' : q.n \in 1..edits' /\ Question(q.asked)
  <2>1. \A q \in inFlight : q.n \in 1..edits' /\ Question(q.asked)
    BY <1>1 DEF RequestsOK
  <2> QED  BY <1>1, <1>2, <2>1, AskedIs
<1>4. held' \in 0..edits'  BY <1>1 DEF Refetch, cache, RequestsOK
<1>5. fetched' \in BOOLEAN /\ disturbed' \in BOOLEAN
  BY DEF Refetch, cache, RequestsOK, Busy
<1> QED  BY <1>1, <1>3, <1>4, <1>5 DEF RequestsOK

LEMMA ClearedTyped ==
    ASSUME results' = NoResults, active' = 0 \/ active' = active, ResultsOK
    PROVE  ResultsOK'
<1>1. Question(NoResults.asked) /\ NoResults.optimized = FALSE
  <2>1. NoResults.asked.stops = <<>> /\ NoResults.asked.networks = {}
        /\ NoResults.optimized = FALSE
    BY DEF NoResults
  <2>2. <<>> \in Seq(Nat)  OBVIOUS
  <2> QED  BY <2>1, <2>2 DEF Question
<1>2. Shown' = {}  BY NothingShown DEF Shown
<1>3. active' \in 0..MaxAlternates  BY DirectionsAssumption DEF ResultsOK
<1> QED  BY <1>1, <1>2, <1>3 DEF ResultsOK

(* A waypoint that gets a stop                                                *)
LEMMA PlacedIs ==
    ASSUME NEW ws \in Seq(Waypoint), NEW i, NEW stop \in Nat
    PROVE  /\ Placed(ws, i, stop) \in Seq(Waypoint)
           /\ Len(Placed(ws, i, stop)) = Len(ws)
           /\ \A k \in 1..Len(ws) :
                 Placed(ws, i, stop)[k].stop = IF k = i THEN stop ELSE ws[k].stop
<1>1. CASE i \notin DOMAIN ws  BY <1>1 DEF Placed
<1>2. CASE i \in DOMAIN ws
  <2> DEFINE e == [id |-> ws[i].id, stop |-> stop, typed |-> TRUE]
  <2>1. i \in 1..Len(ws) /\ ws[i] \in Waypoint  BY <1>2
  <2>2. ws[i] = [id |-> ws[i].id, stop |-> ws[i].stop, typed |-> ws[i].typed]
        /\ e \in Waypoint
    BY <2>1 DEF Waypoint
  <2>3. Placed(ws, i, stop) = [ws EXCEPT ![i] = e]
    BY <1>2 DEF Placed
  <2> HIDE DEF e
  <2>4. /\ [ws EXCEPT ![i] = e] \in Seq(Waypoint)
        /\ Len([ws EXCEPT ![i] = e]) = Len(ws)
        /\ \A k \in 1..Len(ws) : [ws EXCEPT ![i] = e][k] = IF k = i THEN e ELSE ws[k]
    BY <2>1, <2>2, ExceptSeq
  <2> QED  BY <2>3, <2>4 DEF e
<1> QED  BY <1>1, <1>2

LEMMA AddViaList ==
    ASSUME ListOK
    PROVE  LET ws == InsertAt(waypoints, Len(waypoints), Empty(getNextWaypointId(waypoints)))
           IN  /\ ws \in Seq(Waypoint) /\ Len(ws) = Len(waypoints) + 1
               /\ \A k \in 1..(Len(waypoints) - 1) : ws[k] = waypoints[k]
               /\ ws[Len(waypoints) + 1] = waypoints[Len(waypoints)]
<1> DEFINE e == Empty(getNextWaypointId(waypoints))
           n == Len(waypoints)
<1>1. waypoints \in Seq(Waypoint) /\ n \in Nat /\ n >= 2  BY DEF ListOK
<1>2. e \in Waypoint
  <2>1. getNextWaypointId(waypoints) \in Nat  BY <1>1, NextId
  <2> QED  BY <2>1 DEF Empty, Waypoint
<1> HIDE DEF e
<1>3. n \in 1..(n + 1)  BY <1>1
<1>4. /\ InsertAt(waypoints, n, e) \in Seq(Waypoint)
      /\ Len(InsertAt(waypoints, n, e)) = n + 1
      /\ \A k \in 1..(n + 1) : InsertAt(waypoints, n, e)[k] =
             IF k < n THEN waypoints[k] ELSE IF k = n THEN e ELSE waypoints[k - 1]
  BY <1>1, <1>2, <1>3, Inserted
<1>5. n + 1 \in 1..(n + 1) /\ ~(n + 1 < n) /\ n + 1 # n /\ (n + 1) - 1 = n  BY <1>1
<1> HIDE DEF n
<1>6. InsertAt(waypoints, n, e)[n + 1] = waypoints[n]  BY <1>4, <1>5
<1>7. \A k \in 1..(n - 1) : k \in 1..(n + 1) /\ k < n  BY <1>1
<1> QED  BY <1>4, <1>6, <1>7 DEF e, n

(* Where a waypoint is found by its number                                    *)
LEMMA IndexIs ==
    ASSUME ListOK, NEW i \in DOMAIN waypoints
    PROVE  IndexOfId(waypoints[i].id) \in 1..Len(waypoints)
<1> DEFINE S == {k \in DOMAIN waypoints : waypoints[k].id = waypoints[i].id}
<1>1. S \in SUBSET (1..Len(waypoints)) /\ i \in S  BY DEF ListOK
<1>2. S \in SUBSET Nat  BY <1>1
<1>3. First(S) \in S
  <2> HIDE DEF S
  <2> QED  BY <1>1, <1>2, FirstIsOne
<1> QED  BY <1>1, <1>3 DEF IndexOfId

LEMMA MovedIs ==
    ASSUME NEW ws \in Seq(Waypoint), NEW from \in 1..Len(ws), NEW to \in 1..Len(ws)
    PROVE  /\ arrayMove(ws, from, to) \in Seq(Waypoint)
           /\ Len(arrayMove(ws, from, to)) = Len(ws)
           /\ hasActiveRoute(ws) => hasActiveRoute(arrayMove(ws, from, to))
<1> DEFINE rest == RemoveAt(ws, from)
           moved == InsertAt(rest, to, ws[from])
           n == Len(ws)
<1>1. n \in Nat /\ ws[from] \in Waypoint  OBVIOUS
<1>2. /\ rest \in Seq(Waypoint) /\ Len(rest) = n - 1
      /\ \A k \in 1..(n - 1) : rest[k] = IF k < from THEN ws[k] ELSE ws[k + 1]
  BY Removed
<1>3. arrayMove(ws, from, to) = moved  BY DEF arrayMove
<1> HIDE DEF rest
<1> DEFINE e == ws[from]
<1>4. to \in 1..(Len(rest) + 1)  BY <1>1, <1>2
<1>5. /\ moved \in Seq(Waypoint) /\ Len(moved) = Len(rest) + 1
      /\ \A k \in 1..(Len(rest) + 1) :
            moved[k] = IF k < to THEN rest[k] ELSE IF k = to THEN ws[from] ELSE rest[k - 1]
  <2>1. e \in Waypoint  BY <1>1
  <2>2. rest \in Seq(Waypoint)  BY <1>2
  <2> HIDE DEF e
  <2>3. /\ InsertAt(rest, to, e) \in Seq(Waypoint)
        /\ Len(InsertAt(rest, to, e)) = Len(rest) + 1
        /\ \A k \in 1..(Len(rest) + 1) :
              InsertAt(rest, to, e)[k] =
                  IF k < to THEN rest[k] ELSE IF k = to THEN e ELSE rest[k - 1]
    BY <1>4, <2>1, <2>2, Inserted
  <2> QED  BY <2>3 DEF e
<1> HIDE DEF moved
<1>6. Len(moved) = n  BY <1>1, <1>2, <1>5
<1>7. hasActiveRoute(ws) => hasActiveRoute(moved)
  <2> SUFFICES ASSUME hasActiveRoute(ws) PROVE hasActiveRoute(moved)
    OBVIOUS
  <2> DEFINE gone(k)  == IF k < from THEN k ELSE k - 1
             place(k) == IF k = from THEN to ELSE IF gone(k) < to THEN gone(k) ELSE gone(k) + 1
  <2>1. PICK a \in Places(ws), b \in Places(ws) : a # b  BY TwoStops
  <2>2. a \in 1..n /\ b \in 1..n /\ ws[a].stop # 0 /\ ws[b].stop # 0
    BY PlacesAreFinite
  <2>3. \A k \in 1..n : place(k) \in 1..n /\ moved[place(k)] = ws[k]
    <3> SUFFICES ASSUME NEW k \in 1..n PROVE place(k) \in 1..n /\ moved[place(k)] = ws[k]
      OBVIOUS
    <3>1. CASE k = from  BY <1>1, <1>2, <1>5, <3>1
    <3>2. CASE k # from
      <4>1. gone(k) \in 1..(n - 1) /\ rest[gone(k)] = ws[k]  BY <1>1, <1>2, <3>2
      <4> HIDE DEF gone
      <4>2. CASE gone(k) < to  BY <1>1, <1>2, <1>5, <3>2, <4>1, <4>2
      <4>3. CASE ~(gone(k) < to)  BY <1>1, <1>2, <1>5, <3>2, <4>1, <4>3
      <4> QED  BY <4>2, <4>3
    <3> QED  BY <3>1, <3>2
  <2>4. place(a) # place(b)  BY <1>1, <2>1, <2>2
  <2>5. place(a) \in Places(moved) /\ place(b) \in Places(moved)
    <3>1. \A k : k \in Places(moved) <=> k \in 1..Len(moved) /\ moved[k].stop # 0
      BY <1>5, PlacesAreFinite
    <3> HIDE DEF place
    <3> QED  BY <1>6, <2>2, <2>3, <3>1
  <2> HIDE DEF place
  <2> QED  BY <1>5, <2>4, <2>5, TwoStops
<1> QED  BY <1>3, <1>5, <1>6, <1>7

LEMMA AnswerTyped ==
    ASSUME Typed, NEW q \in inFlight, NEW r \in Responses(q.asked), Answer(q, r)
    PROVE  Typed'
<1> DEFINE kept == LegalPart(r, q.asked)
<1>1. /\ results' = [asked |-> q.asked, optimized |-> FALSE, routes |-> [p \in kept |-> r[p]]]
      /\ active' = First(DOMAIN [p \in kept |-> r[p]])
  BY DEF Answer, receiveRouteResults
<1>2. PICK n \in 0..MaxAlternates : r \in [0..n -> SUBSET Networks]
  BY DEF Responses
<1>3. kept \subseteq 0..MaxAlternates /\ \A p \in kept : r[p] \subseteq Networks
  BY <1>2, DirectionsAssumption DEF LegalPart
<1>4. kept \in SUBSET Nat /\ kept # {}  BY LegalPositions DEF Answer
<1> HIDE DEF kept
<1>5. active' \in kept  BY <1>1, <1>4, FirstIsOne
<1>6. ResultsOK'  BY <1>1, <1>3, <1>5 DEF ResultsOK, Shown, Typed, RequestsOK
<1>7. RequestsOK'
  <2>1. inFlight' \subseteq inFlight /\ held' \in {0, held} /\ edits' = edits
        /\ disturbed' = disturbed /\ fetched' \in BOOLEAN
    BY DEF Answer, Ends
  <2> QED  BY <2>1, DirectionsAssumption DEF Typed, RequestsOK
<1> QED
  BY <1>6, <1>7 DEF Answer, Ends, Typed, ListOK, OptimizingOK, Optimizing

LEMMA FailTyped ==
    ASSUME Typed, NEW q \in inFlight, Fails(q)
    PROVE  Typed'
<1>1. ResultsOK'  BY ClearedTyped DEF Fails, clearRoutes, Typed
<1>2. inFlight' \subseteq inFlight /\ held' \in {0, held} /\ edits' = edits
      /\ disturbed' = disturbed /\ fetched' \in BOOLEAN
  BY DEF Fails, Ends
<1>3. RequestsOK'  BY <1>2, DirectionsAssumption DEF Typed, RequestsOK
<1> QED
  BY <1>1, <1>3 DEF Fails, Ends, Typed, ListOK, OptimizingOK, Optimizing

(* The optimized list: the captured waypoints in another order                *)
LEMMA OptimizedList ==
    ASSUME Typed, NEW order \in Orders(Len(optimizing.captured)), NEW crossed,
           Optimized(order, crossed)
    PROVE  /\ waypoints' \in Seq(Waypoint) /\ Len(waypoints') >= 4
           /\ hasActiveRoute(waypoints')
<1> DEFINE c == optimizing.captured
           n == Len(c)
<1>1. Optimizing  BY DEF Optimized, Optimizing
<1>2. /\ c \in Seq(Waypoint) /\ n \in Nat /\ n >= 4
      /\ \A k \in 1..n : c[k] \in Waypoint /\ c[k].stop # 0
  BY <1>1 DEF Typed, OptimizingOK, Selected
<1>3. order \in [1..n -> 1..n]  BY DEF Orders
<1>4. waypoints' = [k \in DOMAIN order |-> c[order[k]]]  BY DEF Optimized
<1> HIDE DEF c, n
<1>5. /\ waypoints' \in Seq(Waypoint) /\ Len(waypoints') = n
      /\ \A k \in 1..n : waypoints'[k].stop # 0
  <2>1. waypoints' = [k \in 1..n |-> c[order[k]]]  BY <1>3, <1>4
  <2>2. \A k \in 1..n : order[k] \in 1..n  BY <1>3
  <2>3. \A k \in 1..n : waypoints'[k] = c[order[k]]  BY <2>1
  <2>4. waypoints' \in [1..n -> Waypoint]  BY <1>2, <2>1, <2>2
  <2>5. waypoints' \in Seq(Waypoint) /\ Len(waypoints') = n  BY <1>2, <2>4
  <2> QED  BY <1>2, <2>2, <2>3, <2>5
<1>6. PICK ws : ws = waypoints'  OBVIOUS
<1>7. ws \in Seq(Waypoint)  BY <1>5, <1>6
<1>8. 1 \in Places(ws) /\ 2 \in Places(ws)
  <2>1. 1 \in 1..n /\ 2 \in 1..n  BY <1>2
  <2> QED  BY <1>5, <1>6, <1>7, <2>1, PlacesAreFinite
<1>9. hasActiveRoute(ws)  BY <1>7, <1>8, TwoStops
<1>10. hasActiveRoute(waypoints')  BY <1>6, <1>9
<1> QED  BY <1>2, <1>5, <1>10

LEMMA OptimizedTyped ==
    ASSUME Typed, NEW order \in Orders(Len(optimizing.captured)),
           NEW crossed \in SUBSET Networks, Optimized(order, crossed)
    PROVE  Typed'
<1> DEFINE ws == [i \in DOMAIN order |-> optimizing.captured[order[i]]]
           asked == Asked(ws, optimizing.networks)
<1>1. /\ results' = [asked |-> asked, optimized |-> TRUE, routes |-> [p \in {0} |-> crossed]]
      /\ active' = First(DOMAIN [p \in {0} |-> crossed])
      /\ waypoints' = ws /\ isOptimized' = TRUE /\ optimizing' = Idle
      /\ UNCHANGED <<networks, cache, edits, disturbed>>
  BY DEF Optimized, receiveRouteResults
<1>2. ws \in Seq(Waypoint) /\ ListOK'
  <2>1. waypoints' \in Seq(Waypoint) /\ Len(waypoints') >= 4  BY OptimizedList
  <2>2. Len(waypoints') \in Nat  BY <2>1
  <2> QED  BY <1>1, <2>1, <2>2 DEF ListOK
<1> HIDE DEF ws
<1>3. Question(asked)  BY <1>2, AskedIs DEF Typed, OptimizingOK
<1> HIDE DEF asked
<1>4. active' = 0  BY <1>1, FirstIsOne
<1>5. ResultsOK'  BY <1>1, <1>3, <1>4, DirectionsAssumption DEF ResultsOK, Shown
<1>6. OptimizingOK'
  <2>1. <<>> \in Seq(Waypoint)  OBVIOUS
  <2> QED  BY <1>1, <2>1 DEF OptimizingOK, Optimizing, Idle
<1> QED  BY <1>1, <1>2, <1>5, <1>6 DEF Typed, RequestsOK, cache

LEMMA CapturedTyped ==
    ASSUME Typed, NEW phase \in {"asked", "again"}, optimizing' = Captured(phase),
           Len(relevantWaypoints(waypoints)) >= 4
    PROVE  OptimizingOK'
<1>1. /\ relevantWaypoints(waypoints) \in Seq(Waypoint)
      /\ \A k \in DOMAIN relevantWaypoints(waypoints) : Selected(relevantWaypoints(waypoints)[k])
  BY RelevantIs DEF Typed, ListOK
<1>2. /\ optimizing'.phase = phase /\ optimizing'.networks = networks
      /\ optimizing'.captured = relevantWaypoints(waypoints)
  BY DEF Captured
<1> QED  BY <1>1, <1>2 DEF OptimizingOK, Optimizing, Typed

LEMMA OpenedIs ==
    ASSUME NEW k \in Nat
    PROVE  /\ Opened(k) \in Seq(Waypoint) /\ Len(Opened(k)) >= 2
           /\ k >= 2 => hasActiveRoute(Opened(k))
<1> DEFINE f == FromUrl(k)
           d == SubSeq(defaultWaypoints, k + 1, 2)
<1>1. /\ f \in Seq(Waypoint) /\ Len(f) = k
      /\ \A n \in 1..k : f[n].stop = n
  <2>1. \A n \in 1..k : [id |-> IF n <= 2 THEN n - 1 ELSE n, stop |-> n, typed |-> TRUE] \in Waypoint
    BY DEF Waypoint
  <2>2. f = [n \in 1..k |-> [id |-> IF n <= 2 THEN n - 1 ELSE n, stop |-> n, typed |-> TRUE]]
    BY DEF FromUrl
  <2> HIDE DEF f
  <2>3. \A n \in 1..k : f[n].stop = n  BY <2>2
  <2>4. f \in [1..k -> Waypoint]  BY <2>1, <2>2
  <2> QED  BY <2>3, <2>4
<1>2. /\ d \in Seq(Waypoint)
      /\ Len(d) = IF k + 1 <= 2 THEN 2 - (k + 1) + 1 ELSE 0
  <2>1. defaultWaypoints[1] \in Waypoint /\ defaultWaypoints[2] \in Waypoint
    BY DEF defaultWaypoints, Empty, Waypoint
  <2>2. \A n \in (k + 1)..2 : defaultWaypoints[n] \in Waypoint
    <3>1. \A n \in (k + 1)..2 : n = 1 \/ n = 2  OBVIOUS
    <3> QED  BY <2>1, <3>1
  <2> QED  BY <2>2, SubSeqProperties
<1>3. Opened(k) = f \o d  BY DEF Opened
<1> HIDE DEF f, d
<1>4. /\ f \o d \in Seq(Waypoint)
      /\ Len(f \o d) = Len(f) + Len(d)
      /\ \A n \in 1..(Len(f) + Len(d)) : (f \o d)[n] =
            IF n <= Len(f) THEN f[n] ELSE d[n - Len(f)]
  BY <1>1, <1>2, ConcatProperties
<1>5. ASSUME NEW ws, ws = f \o d, k >= 2
      PROVE  hasActiveRoute(ws)
  <2>1. ws \in Seq(Waypoint)  BY <1>4, <1>5
  <2>2. ws[1].stop = 1 /\ ws[2].stop = 2 /\ 1 \in 1..Len(ws) /\ 2 \in 1..Len(ws)
    BY <1>1, <1>2, <1>4, <1>5
  <2>3. 1 \in Places(ws) /\ 2 \in Places(ws)  BY <2>1, <2>2, PlacesAreFinite
  <2> QED  BY <2>1, <2>3, TwoStops
<1>6. Len(f \o d) >= 2  BY <1>1, <1>2, <1>4
<1>7. k >= 2 => hasActiveRoute(f \o d)  BY <1>5
<1> QED  BY <1>3, <1>4, <1>6, <1>7

LEMMA InitHolds == Init => DirectionsInv
<1> SUFFICES ASSUME Init PROVE DirectionsInv
  OBVIOUS
<1>1. PICK k \in Permalinks :
         /\ waypoints = Opened(k)
         /\ inFlight = IF k < 2 THEN {}
                       ELSE {[n |-> 1, asked |-> Asked(Opened(k), {})]}
         /\ held = IF k < 2 THEN 0 ELSE 1
         /\ fetched = (k = 1)
  BY DEF Init
<1>2. k \in Nat  BY DirectionsAssumption
<1>3. ListOK /\ (k >= 2 => hasActiveRoute(waypoints))
  BY <1>1, <1>2, OpenedIs DEF ListOK
<1>4. networks = {} /\ results = NoResults /\ active = 0 /\ isOptimized = FALSE
      /\ optimizing = Idle /\ edits = 1 /\ disturbed = FALSE
  BY DEF Init
<1>5. Question(Asked(waypoints, networks))  BY <1>3, <1>4, AskedIs DEF ListOK
<1>6. RequestsOK
  <2>1. \A q \in inFlight : q.n = 1 /\ Question(q.asked)
    BY <1>1, <1>4, <1>5
  <2>2. edits = 1 /\ edits \in 1..MaxEdits  BY <1>4, DirectionsAssumption
  <2>3. held \in {0, 1} /\ 0 \in 0..edits /\ 1 \in 0..edits  BY <1>1, <2>2
  <2>4. fetched \in BOOLEAN /\ disturbed \in BOOLEAN  BY <1>1, <1>4
  <2> QED  BY <2>1, <2>2, <2>3, <2>4 DEF RequestsOK
<1>7. Shown = {}  BY <1>4, NothingShown DEF Shown
<1>8. ResultsOK
  <2>1. NoResults.asked.stops = <<>> /\ NoResults.asked.networks = {}
        /\ NoResults.optimized = FALSE
    BY DEF NoResults
  <2>2. <<>> \in Seq(Nat)  OBVIOUS
  <2>3. Question(NoResults.asked)  BY <2>1, <2>2 DEF Question
  <2>4. active \in 0..MaxAlternates  BY <1>4, DirectionsAssumption
  <2> QED  BY <1>4, <1>7, <2>1, <2>3, <2>4 DEF ResultsOK
<1>9. OptimizingOK
  <2>1. <<>> \in Seq(Waypoint)  OBVIOUS
  <2> QED  BY <1>4, <2>1 DEF OptimizingOK, Optimizing, Idle
<1>10. Typed  BY <1>3, <1>4, <1>6, <1>8, <1>9 DEF Typed
<1>11. CASE k < 2
  BY <1>1, <1>4, <1>7, <1>10, <1>11, TypedIs
     DEF DirectionsInv, ShownIsCurrent, HasRoutes, Optimizing, Idle
<1>12. CASE ~(k < 2)
  <2>1. inFlight = {[n |-> 1, asked |-> Asked(waypoints, networks)]}
    BY <1>1, <1>4, <1>12
  <2>2. hasActiveRoute(waypoints)  BY <1>2, <1>3, <1>12
  <2>3. optimizing.phase = "idle"  BY <1>4 DEF Idle
  <2> QED  BY <1>10, <2>1, <2>2, <2>3, TypedIs DEF DirectionsInv
<1> QED  BY <1>11, <1>12

-------------------------------------------------------------------------------
(* The routes shown answer the present question, or the one request out asks  *)
(* it.                                                                        *)

Answered ==
    /\ inFlight = {} /\ ShownIsCurrent
    /\ Optimizing => optimizing.networks = networks

Asking ==
    /\ optimizing.phase = "idle" /\ hasActiveRoute(waypoints)
    /\ \E q \in inFlight : inFlight = {q} /\ q.asked = Asked(waypoints, networks)

Current == ~disturbed => Answered \/ Asking

LEMMA InvIs == DirectionsInv <=> Typed /\ Current
BY TypedIs DEF DirectionsInv, Current, Answered, Asking

LEMMA ClearedShowsNothing ==
    ASSUME results' = NoResults PROVE ~HasRoutes'
BY NothingShown DEF HasRoutes, Shown

(* An edit that asks again, and leaves two stops or clears the routes: when   *)
(* it did not wait for the previous answer, that is recorded.                 *)
LEMMA RefetchCurrent ==
    ASSUME Current, NEW ws, waypoints' = ws, NEW ns, networks' = ns, Refetch(ws, ns),
           optimizing' = optimizing,
           \/ results' = NoResults
           \/ results' = results /\ (hasActiveRoute(waypoints) => hasActiveRoute(ws))
    PROVE  Current'
<1> SUFFICES ASSUME ~disturbed' PROVE Answered' \/ Asking'
  BY DEF Current
<1>1. ~Joins  BY DEF Refetch
<1>2. CASE hasActiveRoute(ws)
  <2>1. ~Busy /\ inFlight' = inFlight \cup {[n |-> edits', asked |-> Asked(ws, ns)]}
    BY <1>1, <1>2 DEF Refetch
  <2>2. inFlight = {} /\ optimizing.phase = "idle"  BY <2>1 DEF Busy
  <2>3. inFlight' = {[n |-> edits', asked |-> Asked(ws, ns)]}  BY <2>1, <2>2
  <2>4. Asking'  BY <1>2, <2>2, <2>3 DEF Asking
  <2> QED  BY <2>4
<1>3. CASE ~hasActiveRoute(ws)
  <2>1. ~disturbed /\ ~Busy /\ inFlight' = inFlight  BY <1>1, <1>3 DEF Refetch
  <2>2. inFlight = {} /\ optimizing.phase = "idle"  BY <2>1 DEF Busy
  <2>3. Answered  BY <2>1, <2>2 DEF Current, Asking
  <2>4. ~HasRoutes'
    <3>1. CASE results' = NoResults  BY <3>1, ClearedShowsNothing
    <3>2. CASE results' = results /\ (hasActiveRoute(waypoints) => hasActiveRoute(ws))
      BY <1>3, <2>3, <3>2 DEF Answered, ShownIsCurrent, HasRoutes, Shown
    <3> QED  BY <3>1, <3>2
  <2>5. Answered'
    BY <2>1, <2>2, <2>4 DEF Answered, ShownIsCurrent, Optimizing
  <2> QED  BY <2>5
<1> QED  BY <1>2, <1>3

(* An edit of the list that asks again                                        *)
LEMMA ListEdit ==
    ASSUME Typed, Current, CanEdit, NEW ws \in Seq(Waypoint), Len(ws) >= 2,
           waypoints' = ws, Refetch(ws, networks), isOptimized' \in BOOLEAN,
           \/ results' = NoResults
           \/ results' = results /\ (hasActiveRoute(waypoints) => hasActiveRoute(ws)),
           UNCHANGED <<networks, active, optimizing>>
    PROVE  Typed' /\ Current'
<1>1. Current'  BY RefetchCurrent
<1>2. RequestsOK'  BY RefetchTyped DEF Typed
<1>3. ResultsOK'
  <2>1. CASE results' = results  BY <2>1 DEF Typed, ResultsOK, Shown
  <2>2. CASE results' = NoResults  BY <2>2, ClearedTyped DEF Typed
  <2> QED  BY <2>1, <2>2
<1>4. OptimizingOK'  BY DEF Typed, OptimizingOK, Optimizing
<1> QED  BY <1>1, <1>2, <1>3, <1>4 DEF Typed, ListOK

(* Two stops that are selected stay so when a waypoint gets a stop.           *)
LEMMA PlacedKeepsRoute ==
    ASSUME NEW ws \in Seq(Waypoint), NEW i, NEW stop \in Nat, stop # 0, hasActiveRoute(ws)
    PROVE  hasActiveRoute(Placed(ws, i, stop))
<1>1. PICK a \in Places(ws), b \in Places(ws) : a # b  BY TwoStops
<1>2. PICK pl : pl = Placed(ws, i, stop)  OBVIOUS
<1>3. /\ pl \in Seq(Waypoint) /\ Len(pl) = Len(ws)
      /\ \A k \in 1..Len(ws) : pl[k].stop = IF k = i THEN stop ELSE ws[k].stop
  BY <1>2, PlacedIs
<1>4. a \in Places(pl) /\ b \in Places(pl)  BY <1>3, PlacesAreFinite
<1> QED  BY <1>1, <1>2, <1>3, <1>4, TwoStops

LEMMA SetStopKeeps ==
    ASSUME Typed, Current, CanEdit, NEW ws \in Seq(Waypoint), Len(ws) >= 2,
           hasActiveRoute(waypoints) => hasActiveRoute(ws), NEW i, SetStop(ws, i)
    PROVE  Typed' /\ Current'
<1> DEFINE stop == MaxWaypoints + edits
<1>1. stop \in Nat /\ stop # 0  BY DirectionsAssumption DEF Typed, RequestsOK
<1>2. waypoints' = Placed(ws, i, stop)  BY DEF SetStop
<1> HIDE DEF stop
<1>3. PICK pl : pl = Placed(ws, i, stop)  OBVIOUS
<1>4. pl \in Seq(Waypoint) /\ Len(pl) >= 2  BY <1>1, <1>3, PlacedIs
<1>5. hasActiveRoute(waypoints) => hasActiveRoute(pl)  BY <1>1, <1>3, PlacedKeepsRoute
<1>6. Refetch(pl, networks)  BY <1>2, <1>3 DEF SetStop
<1>7. isOptimized' \in BOOLEAN /\ results' = results
      /\ UNCHANGED <<networks, active, optimizing>>
  BY DEF SetStop
<1> QED  BY <1>2, <1>3, <1>4, <1>5, <1>6, <1>7, ListEdit

LEMMA AddViaKeeps ==
    ASSUME Typed, Current, AddVia
    PROVE  Typed' /\ Current'
<1> DEFINE n == Len(waypoints)
<1>1. PICK ws : ws = InsertAt(waypoints, n, Empty(getNextWaypointId(waypoints)))
  OBVIOUS
<1>2. /\ ws \in Seq(Waypoint) /\ Len(ws) = n + 1
      /\ \A k \in 1..(n - 1) : ws[k] = waypoints[k]
      /\ ws[n + 1] = waypoints[n]
  BY <1>1, AddViaList DEF Typed
<1>3. waypoints \in Seq(Waypoint) /\ n \in Nat /\ n >= 2  BY DEF Typed, ListOK
<1> HIDE DEF n
<1>4. ASSUME hasActiveRoute(waypoints) PROVE hasActiveRoute(ws)
  <2> DEFINE place(k) == IF k = n THEN n + 1 ELSE k
  <2>1. PICK a \in Places(waypoints), b \in Places(waypoints) : a # b
    BY <1>3, <1>4, TwoStops
  <2>2. a \in 1..n /\ b \in 1..n /\ waypoints[a].stop # 0 /\ waypoints[b].stop # 0
    BY <1>3, PlacesAreFinite DEF n
  <2>3. \A k \in 1..n : place(k) \in 1..(n + 1) /\ ws[place(k)] = waypoints[k]
    BY <1>2, <1>3
  <2>4. place(a) # place(b)  BY <2>1, <2>2, <1>3
  <2> HIDE DEF place
  <2>5. place(a) \in Places(ws) /\ place(b) \in Places(ws)
    BY <1>2, <2>2, <2>3, PlacesAreFinite
  <2> QED  BY <1>2, <2>4, <2>5, TwoStops
<1>5. CanEdit /\ SetStop(ws, n)  BY <1>1 DEF AddVia, n
<1>6. Len(ws) >= 2  BY <1>2, <1>3
<1> QED  BY <1>2, <1>4, <1>5, <1>6, SetStopKeeps

LEMMA RemoveKeeps ==
    ASSUME Typed, Current, NEW i \in DOMAIN waypoints, doRemoveWaypoint(i)
    PROVE  Typed' /\ Current'
<1>1. waypoints \in Seq(Waypoint) /\ Len(waypoints) \in Nat /\ Len(waypoints) >= 2
      /\ i \in 1..Len(waypoints)
  BY DEF Typed, ListOK
<1>2. waypoints' \in Seq(Waypoint) /\ Len(waypoints') >= 2
  <2>1. CASE Len(waypoints) > 2
    <3>1. waypoints' = RemoveAt(waypoints, i)  BY <2>1 DEF doRemoveWaypoint
    <3> QED  BY <1>1, <2>1, <3>1, Removed
  <2>2. CASE ~(Len(waypoints) > 2)
    <3> DEFINE e == Empty(waypoints[i].id)
    <3>1. waypoints' = [waypoints EXCEPT ![i] = e]  BY <2>2 DEF doRemoveWaypoint
    <3>2. e \in Waypoint
      <4>1. waypoints[i] \in Waypoint  BY <1>1
      <4>2. waypoints[i].id \in Nat  BY <4>1 DEF Waypoint
      <4> QED  BY <4>2 DEF Empty, Waypoint
    <3> HIDE DEF e
    <3> QED  BY <1>1, <3>1, <3>2, ExceptSeq
  <2> QED  BY <2>1, <2>2
<1>3. PICK ws : ws = waypoints'  OBVIOUS
<1>4. /\ CanEdit /\ Refetch(ws, networks) /\ isOptimized' = FALSE
      /\ results' = IF hasActiveRoute(ws) THEN results ELSE NoResults
      /\ UNCHANGED <<networks, active, optimizing>>
  BY <1>3 DEF doRemoveWaypoint
<1> QED  BY <1>2, <1>3, <1>4, ListEdit

LEMMA MoveKeeps ==
    ASSUME Typed, Current, NEW i \in DOMAIN waypoints, NEW j \in DOMAIN waypoints, Move(i, j)
    PROVE  Typed' /\ Current'
<1> DEFINE from == IndexOfId(waypoints[i].id)
           to == IndexOfId(waypoints[j].id)
<1>1. waypoints \in Seq(Waypoint) /\ Len(waypoints) >= 2 /\ isOptimized \in BOOLEAN
  BY DEF Typed, ListOK
<1>2. from \in 1..Len(waypoints) /\ to \in 1..Len(waypoints)  BY IndexIs DEF Typed
<1>3. waypoints' = arrayMove(waypoints, from, to)  BY DEF Move
<1> HIDE DEF from, to
<1>4. PICK ws : ws = arrayMove(waypoints, from, to)  OBVIOUS
<1>5. ws \in Seq(Waypoint) /\ Len(ws) = Len(waypoints)
      /\ (hasActiveRoute(waypoints) => hasActiveRoute(ws))
  BY <1>1, <1>2, <1>4, MovedIs
<1>6. /\ CanEdit /\ Refetch(ws, networks)
      /\ UNCHANGED <<networks, results, active, isOptimized, optimizing>>
  BY <1>3, <1>4 DEF Move
<1> QED  BY <1>1, <1>3, <1>4, <1>5, <1>6, ListEdit

LEMMA SelectNetworksKeeps ==
    ASSUME Typed, Current, NEW ns \in SUBSET Networks, SelectNetworks(ns)
    PROVE  Typed' /\ Current'
<1>1. PICK ws : ws = waypoints  OBVIOUS
<1>2. ws \in Seq(Waypoint)  BY <1>1 DEF Typed, ListOK
<1>3. CanEdit /\ networks' = ns /\ Refetch(ws, ns)
      /\ UNCHANGED <<waypoints, results, active, isOptimized, optimizing>>
  BY <1>1 DEF SelectNetworks
<1>4. Current'  BY <1>1, <1>3, RefetchCurrent
<1>5. RequestsOK'  BY <1>2, <1>3, RefetchTyped DEF Typed
<1>6. ListOK' /\ ResultsOK' /\ OptimizingOK'
  BY <1>3 DEF Typed, ListOK, ResultsOK, Shown, OptimizingOK, Optimizing
<1> QED  BY <1>3, <1>4, <1>5, <1>6 DEF Typed

(* A waypoint without an address is no stop.                                  *)
LEMMA AppendedIs ==
    ASSUME NEW ws \in Seq(Waypoint), NEW e \in Waypoint, e.stop = 0
    PROVE  /\ Append(ws, e) \in Seq(Waypoint) /\ Len(Append(ws, e)) = Len(ws) + 1
           /\ relevantWaypoints(Append(ws, e)) = relevantWaypoints(ws)
<1>1. PICK longer : longer = Append(ws, e)  OBVIOUS
<1>2. /\ longer \in Seq(Waypoint) /\ Len(longer) = Len(ws) + 1
      /\ \A k \in 1..Len(ws) : longer[k] = ws[k]
      /\ longer[Len(ws) + 1] = e
  BY <1>1
<1>3. Places(longer) = Places(ws)
  <2>1. \A k \in 1..(Len(ws) + 1) : k \in 1..Len(ws) \/ k = Len(ws) + 1  OBVIOUS
  <2>2. \A k : k \in Places(longer) <=> k \in Places(ws)
    BY <1>2, <2>1, PlacesAreFinite
  <2> QED  BY <2>2
<1> DEFINE S == Places(ws)
<1>4. \A k \in 1..Cardinality(S) : Nth(S, k) \in 1..Len(ws)
  <2>1. \A k \in 1..Cardinality(S) : Nth(S, k) \in S
    BY PlacesAreFinite, NthIs
  <2> QED  BY <2>1, PlacesAreFinite
<1>5. /\ relevantWaypoints(longer) = [k \in 1..Cardinality(S) |-> longer[Nth(S, k)]]
      /\ relevantWaypoints(ws) = [k \in 1..Cardinality(S) |-> ws[Nth(S, k)]]
  BY <1>3 DEF relevantWaypoints
<1> HIDE DEF S
<1>6. relevantWaypoints(longer) = relevantWaypoints(ws)  BY <1>2, <1>4, <1>5
<1> QED  BY <1>1, <1>2, <1>6

LEMMA AddEmptyKeeps ==
    ASSUME Typed, Current, addEmptyWaypointToEnd
    PROVE  Typed' /\ Current'
<1> DEFINE e == Empty(Len(waypoints) + 1)
<1>1. waypoints \in Seq(Waypoint) /\ Len(waypoints) \in Nat /\ Len(waypoints) >= 2
  BY DEF Typed, ListOK
<1>2. e \in Waypoint /\ e.stop = 0  BY <1>1 DEF Empty, Waypoint
<1>3. PICK ws : ws = Append(waypoints, e)  OBVIOUS
<1>4. waypoints' = ws  BY <1>3 DEF addEmptyWaypointToEnd
<1> HIDE DEF e
<1>5. /\ ws \in Seq(Waypoint) /\ Len(ws) = Len(waypoints) + 1
      /\ relevantWaypoints(ws) = relevantWaypoints(waypoints)
  BY <1>1, <1>2, <1>3, AppendedIs
<1>6. /\ CanEdit /\ isOptimized' = FALSE /\ edits' = edits + 1
      /\ UNCHANGED <<networks, results, active, cache, optimizing, disturbed>>
  BY DEF addEmptyWaypointToEnd
<1>7. RequestsOK'
  BY <1>6, DirectionsAssumption DEF Typed, RequestsOK, CanEdit, cache
<1>8. Typed'
  <2>1. ListOK'  BY <1>1, <1>4, <1>5 DEF ListOK
  <2>2. ResultsOK' /\ OptimizingOK'
    BY <1>6 DEF Typed, ResultsOK, Shown, OptimizingOK, Optimizing
  <2> QED  BY <1>6, <1>7, <2>1, <2>2 DEF Typed
<1>9. hasActiveRoute(ws) = hasActiveRoute(waypoints)
      /\ \A ns : Asked(ws, ns) = Asked(waypoints, ns)
  BY <1>5 DEF hasActiveRoute, Asked, getActiveWaypoints
<1>10. Current'
  BY <1>4, <1>6, <1>9
     DEF Current, Answered, Asking, ShownIsCurrent, HasRoutes, Shown, Optimizing, cache
<1> QED  BY <1>8, <1>10

LEMMA ClearKeeps ==
    ASSUME Typed, Current, clearWaypoints
    PROVE  Typed' /\ Current'
<1>1. /\ CanEdit /\ waypoints' = defaultWaypoints /\ isOptimized' = FALSE
      /\ results' = NoResults /\ active' = 0 /\ edits' = edits + 1 /\ disturbed' = Busy
      /\ UNCHANGED <<networks, cache, optimizing>>
  BY DEF clearWaypoints, clearRoutes
<1>2. defaultWaypoints \in Seq(Waypoint) /\ Len(defaultWaypoints) = 2
  <2>1. Empty(0) \in Waypoint /\ Empty(1) \in Waypoint  BY DEF Empty, Waypoint
  <2> QED  BY <2>1 DEF defaultWaypoints
<1>3. RequestsOK'
  <2>1. disturbed' \in BOOLEAN  BY <1>1 DEF Busy
  <2> QED
    BY <1>1, <2>1, DirectionsAssumption DEF Typed, RequestsOK, CanEdit, cache
<1>4. ResultsOK'  BY <1>1, ClearedTyped DEF Typed
<1>5. Typed'
  <2>1. ListOK'  BY <1>1, <1>2 DEF ListOK
  <2>2. OptimizingOK'  BY <1>1 DEF Typed, OptimizingOK, Optimizing
  <2> QED  BY <1>1, <1>3, <1>4, <2>1, <2>2 DEF Typed
<1>6. ~disturbed' => Answered'
  BY <1>1, ClearedShowsNothing
     DEF Busy, Answered, ShownIsCurrent, Optimizing, cache
<1> QED  BY <1>5, <1>6 DEF Current

LEMMA SearchKeeps ==
    ASSUME Typed, NEW i, Search(i)
    PROVE  Typed' /\ Current'
<1> DEFINE e == [id |-> waypoints[i].id, stop |-> 0, typed |-> waypoints[i].typed]
<1>1. waypoints \in Seq(Waypoint) /\ Len(waypoints) >= 2 /\ i \in 1..Len(waypoints)
  BY DEF Typed, ListOK, Search
<1>2. e \in Waypoint
  <2>1. waypoints[i] \in Waypoint  BY <1>1
  <2> QED  BY <2>1 DEF Waypoint
<1>3. waypoints' = [waypoints EXCEPT ![i] = e]  BY DEF Search
<1> HIDE DEF e
<1>4. waypoints' \in Seq(Waypoint) /\ Len(waypoints') >= 2
  BY <1>1, <1>2, <1>3, ExceptSeq
<1>5. /\ CanEdit /\ isOptimized' = FALSE /\ edits' = edits + 1 /\ disturbed' = TRUE
      /\ UNCHANGED <<networks, results, active, cache, optimizing>>
  BY DEF Search
<1>6. RequestsOK'
  BY <1>5, DirectionsAssumption DEF Typed, RequestsOK, CanEdit, cache
<1>7. Typed'
  BY <1>4, <1>5, <1>6 DEF Typed, ListOK, ResultsOK, Shown, OptimizingOK, Optimizing
<1> QED  BY <1>5, <1>7 DEF Current

LEMMA ActivateKeeps ==
    ASSUME Typed, Current, NEW p, setActiveRouteIndex(p)
    PROVE  Typed' /\ Current'
<1>1. p \in Shown /\ active' = p
      /\ UNCHANGED <<waypoints, networks, results, isOptimized, cache, optimizing,
                     edits, disturbed>>
  BY DEF setActiveRouteIndex
<1>2. Typed'
  BY <1>1 DEF Typed, ListOK, ResultsOK, Shown, RequestsOK, OptimizingOK, Optimizing, cache
<1>3. Current'
  BY <1>1 DEF Current, Answered, Asking, ShownIsCurrent, HasRoutes, Shown, Optimizing, cache
<1> QED  BY <1>2, <1>3

LEMMA AnswerCurrent ==
    ASSUME Current, NEW q \in inFlight, NEW r, Answer(q, r)
    PROVE  Current'
<1> SUFFICES ASSUME ~disturbed PROVE Answered'
  BY DEF Current, Answer, Ends
<1>1. Asking  BY DEF Current, Answered
<1>2. inFlight = {q} /\ q.asked = Asked(waypoints, networks)  BY <1>1 DEF Asking
<1>3. inFlight' = {} /\ results'.asked = q.asked
      /\ UNCHANGED <<waypoints, networks, optimizing>>
  BY <1>2 DEF Answer, Ends, receiveRouteResults
<1> QED
  BY <1>1, <1>2, <1>3 DEF Answered, Asking, ShownIsCurrent, Optimizing

LEMMA FailCurrent ==
    ASSUME Current, NEW q \in inFlight, Fails(q)
    PROVE  Current'
<1> SUFFICES ASSUME ~disturbed PROVE Answered'
  BY DEF Current, Fails, Ends
<1>1. Asking  BY DEF Current, Answered
<1>2. inFlight' = {} /\ optimizing' = optimizing /\ results' = NoResults
  BY <1>1 DEF Asking, Fails, Ends, clearRoutes
<1> QED
  BY <1>1, <1>2, ClearedShowsNothing DEF Answered, Asking, ShownIsCurrent, Optimizing

LEMMA OptimizedCurrent ==
    ASSUME Typed, Current, NEW order \in Orders(Len(optimizing.captured)), NEW crossed,
           Optimized(order, crossed)
    PROVE  Current'
<1> SUFFICES ASSUME ~disturbed PROVE Answered'
  BY DEF Current, Optimized
<1>1. Optimizing  BY DEF Optimized, Optimizing
<1>2. Answered  BY <1>1 DEF Current, Asking, Optimizing
<1>3. /\ results'.asked = Asked(waypoints', networks)
      /\ optimizing'.phase = "idle" /\ inFlight' = inFlight /\ networks' = networks
  BY <1>1, <1>2 DEF Answered, Optimized, receiveRouteResults, Idle, cache
<1>4. hasActiveRoute(waypoints)'  BY OptimizedList
<1> QED
  BY <1>2, <1>3, <1>4 DEF Answered, ShownIsCurrent, Optimizing

LEMMA OptimizeKeeps ==
    ASSUME Typed, Current, optimizeRoute \/ OptimizeFails \/ OptimizeAgain
    PROVE  Typed' /\ Current'
<1>1. UNCHANGED <<waypoints, networks, results, active, isOptimized, inFlight, held,
                  fetched, edits>>
  BY DEF optimizeRoute, OptimizeFails, OptimizeAgain, OptimizeUnchanged, store, cache
<1>2. disturbed' \in BOOLEAN /\ (~disturbed' => ~disturbed /\ Answered)
  <2>1. CASE optimizeRoute
    <3>1. disturbed' = (disturbed \/ Busy)  BY <2>1 DEF optimizeRoute
    <3>2. ~Busy => ~Asking  BY DEF Busy, Asking
    <3> QED  BY <3>1, <3>2 DEF Current, Busy
  <2>2. CASE OptimizeFails \/ OptimizeAgain
    <3>1. disturbed' = disturbed /\ optimizing.phase # "idle"
      BY <2>2 DEF OptimizeFails, OptimizeAgain
    <3> QED  BY <3>1 DEF Current, Asking, Typed, RequestsOK
  <2> QED  BY <2>1, <2>2
<1>3. \/ optimizing' = Idle \/ optimizing' = Waiting
      \/ /\ Len(relevantWaypoints(waypoints)) >= 4
         /\ \E phase \in {"asked", "again"} : optimizing' = Captured(phase)
  BY DEF optimizeRoute, OptimizeFails, OptimizeAgain
<1>4. OptimizingOK' /\ (Optimizing' => optimizing'.networks = networks)
  <2>1. CASE optimizing' = Idle \/ optimizing' = Waiting
    <3>1. <<>> \in Seq(Waypoint)  OBVIOUS
    <3>2. /\ optimizing'.phase \in {"idle", "waiting"}
          /\ optimizing'.captured = <<>> /\ optimizing'.networks = {}
      BY <2>1 DEF Idle, Waiting
    <3> QED  BY <3>1, <3>2 DEF OptimizingOK, Optimizing
  <2>2. CASE /\ Len(relevantWaypoints(waypoints)) >= 4
             /\ \E phase \in {"asked", "again"} : optimizing' = Captured(phase)
    <3>1. OptimizingOK'  BY <2>2, CapturedTyped
    <3>2. optimizing'.networks = networks  BY <2>2 DEF Captured
    <3> QED  BY <3>1, <3>2
  <2> QED  BY <1>3, <2>1, <2>2
<1>5. Typed'
  BY <1>1, <1>2, <1>4 DEF Typed, ListOK, ResultsOK, Shown, RequestsOK
<1>6. ~disturbed' => Answered'
  BY <1>1, <1>2, <1>4 DEF Answered, ShownIsCurrent, HasRoutes, Shown
<1> QED  BY <1>5, <1>6 DEF Current

(* Every step keeps the types and either is recorded as an edit that did not  *)
(* wait, or leaves routes for the present question or that question out.      *)
LEMMA StepKeepsCurrent ==
    ASSUME Typed, Current, [DirectionsNext]_dvars
    PROVE  Typed' /\ Current'
<1>1. CASE UNCHANGED dvars
  <2>1. Typed'
    BY <1>1 DEF dvars, store, cache, Typed, ListOK, ResultsOK, Shown, RequestsOK,
                OptimizingOK, Optimizing
  <2>2. Current'
    BY <1>1 DEF dvars, store, cache, Current, Answered, Asking, ShownIsCurrent,
                HasRoutes, Shown, Optimizing
  <2> QED  BY <2>1, <2>2
<1>2. CASE Panel
  <2>1. CASE addEmptyWaypointToEnd  BY <2>1, AddEmptyKeeps
  <2>2. CASE clearWaypoints  BY <2>2, ClearKeeps
  <2>3. CASE optimizeRoute  BY <2>3, OptimizeKeeps
  <2>4. ASSUME NEW i \in DOMAIN waypoints, doRemoveWaypoint(i)
        PROVE  Typed' /\ Current'
    BY <2>4, RemoveKeeps
  <2>5. ASSUME NEW i \in DOMAIN waypoints, NEW j \in DOMAIN waypoints, Move(i, j)
        PROVE  Typed' /\ Current'
    BY <2>5, MoveKeeps
  <2>6. ASSUME NEW p \in Shown, setActiveRouteIndex(p)
        PROVE  Typed' /\ Current'
    BY <2>6, ActivateKeeps
  <2> QED  BY <1>2, <2>1, <2>2, <2>3, <2>4, <2>5, <2>6 DEF Panel
<1>3. CASE Elsewhere
  <2>1. CASE AddVia  BY <2>1, AddViaKeeps
  <2>2. ASSUME NEW i \in 1..MaxWaypoints, ChooseStop(i)
        PROVE  Typed' /\ Current'
    <3>1. waypoints \in Seq(Waypoint) /\ Len(waypoints) >= 2  BY DEF Typed, ListOK
    <3> QED  BY <2>2, <3>1, SetStopKeeps DEF ChooseStop
  <2>3. ASSUME NEW i \in 1..MaxWaypoints, Search(i)
        PROVE  Typed' /\ Current'
    BY <2>3, SearchKeeps
  <2>4. ASSUME NEW ns \in SUBSET Networks, SelectNetworks(ns)
        PROVE  Typed' /\ Current'
    BY <2>4, SelectNetworksKeeps
  <2>5. ASSUME NEW q \in inFlight, NEW r \in Responses(q.asked), Answer(q, r)
        PROVE  Typed' /\ Current'
    BY <2>5, AnswerTyped, AnswerCurrent
  <2>6. ASSUME NEW q \in inFlight, Fails(q)
        PROVE  Typed' /\ Current'
    BY <2>6, FailTyped, FailCurrent
  <2>7. CASE OptimizeFails \/ OptimizeAgain  BY <2>7, OptimizeKeeps
  <2>8. ASSUME NEW order \in Orders(Len(optimizing.captured)),
               NEW crossed \in SUBSET Networks, Optimized(order, crossed)
        PROVE  Typed' /\ Current'
    BY <2>8, OptimizedTyped, OptimizedCurrent
  <2> QED
    BY <1>3, <2>1, <2>2, <2>3, <2>4, <2>5, <2>6, <2>7, <2>8 DEF Elsewhere
<1> QED  BY <1>1, <1>2, <1>3 DEF DirectionsNext

(* The types, and what makes a patient user's view current, hold throughout,  *)
(* for any number of networks, stops, alternates and edits.                   *)
THEOREM DirectionsInvariant == DirectionsSpec => []DirectionsInv
<1>1. Init => DirectionsInv  BY InitHolds
<1>2. DirectionsInv /\ [DirectionsNext]_dvars => DirectionsInv'
  <2> SUFFICES ASSUME DirectionsInv, [DirectionsNext]_dvars PROVE DirectionsInv'
    OBVIOUS
  <2>1. Typed' /\ Current'  BY InvIs, StepKeepsCurrent
  <2> QED  BY <2>1, InvIs, PTL
<1> QED  BY <1>1, <1>2, PTL DEF DirectionsSpec

(* A user who waits for every answer before the next edit sees routes for the *)
(* stops and networks selected now, or none (use-directions-queries.ts: every *)
(* edit refetches or clears; waypoints.tsx, directions-store.ts).             *)
THEOREM WaitingUsersSeeCurrentRoutes == DirectionsSpec => []WaitingMeansCurrent
<1>1. DirectionsInv => WaitingMeansCurrent
  BY DEF DirectionsInv, WaitingMeansCurrent, Busy, ShownIsCurrent
<1> QED  BY <1>1, DirectionsInvariant, PTL

-----------------------------------------------------------------------------
(* Navigation. *)

(* NeverStuck is inductive once the requests are known to be a number.        *)
StuckInv == calls \in Nat /\ NeverStuck

(* A reroute that ends takes both flags down, the last one or not.            *)
LEMMA EndKeeps ==
    ASSUME StuckInv, RerouteEnds
    PROVE  StuckInv'
<1>1. calls' \in Nat  BY DEF StuckInv, RerouteEnds
<1>2. isRerouting' = FALSE /\ reroutingRef' = FALSE  BY DEF RerouteEnds
<1> QED  BY <1>1, <1>2 DEF StuckInv, NeverStuck

(* The timer hands the bar over to a request, or takes it down.               *)
LEMMA FireKeeps ==
    ASSUME StuckInv, TimerFires
    PROVE  StuckInv'
<1>1. CASE isNavigating
  <2>1. calls' = calls + 1  BY <1>1 DEF TimerFires
  <2>2. calls' \in Nat /\ calls' > 0  BY <2>1 DEF StuckInv
  <2> QED  BY <2>2 DEF StuckInv, NeverStuck
<1>2. CASE ~isNavigating
  <2>1. isRerouting' = FALSE /\ reroutingRef' = FALSE /\ calls' = calls
    BY <1>2 DEF TimerFires
  <2> QED  BY <2>1 DEF StuckInv, NeverStuck
<1> QED  BY <1>1, <1>2

LEMMA StuckStep ==
    ASSUME StuckInv, [NavigationNext]_<<dvars, nvars>>
    PROVE  StuckInv'
<1>1. CASE UNCHANGED nvars
  BY <1>1 DEF nvars, StuckInv, NeverStuck
<1>2. ASSUME NEW p \in Shown, simulate(p)
      PROVE  StuckInv'
  BY <1>2 DEF simulate, StuckInv, NeverStuck
<1>3. CASE stopNavigation
  BY <1>3 DEF stopNavigation, StuckInv, NeverStuck
<1>4. CASE DriveOff
  BY <1>4 DEF DriveOff, StuckInv, NeverStuck
<1>5. CASE DriveBack
  BY <1>5 DEF DriveBack, StuckInv, NeverStuck
<1>6. CASE Space
  BY <1>6 DEF Space, StuckInv, NeverStuck
<1>7. CASE TimerFires
  BY <1>7, FireKeeps
<1>8. CASE Reroute
  BY <1>8, EndKeeps DEF Reroute, RerouteFails, RerouteAnswered
<1> QED
  BY <1>1, <1>2, <1>3, <1>4, <1>5, <1>6, <1>7, <1>8 DEF NavigationNext

(* Whatever sessions are started and stopped and however late the answers     *)
(* come, the "Recalculating route" bar has a timer or a request behind it and *)
(* off-route detection is off only while a request is out                     *)
(* (use-keyboard-navigation.ts:116-222).                                      *)
THEOREM NavigationIsNeverStuck == NavigationSpec => []NeverStuck
<1>1. NavigationInit => StuckInv
  BY DEF NavigationInit, StuckInv, NeverStuck
<1>2. StuckInv /\ [NavigationNext]_<<dvars, nvars>> => StuckInv'
  BY StuckStep
<1>3. StuckInv => NeverStuck
  BY DEF StuckInv
<1> QED  BY <1>1, <1>2, <1>3, PTL DEF NavigationSpec

(* Driving changes nothing on the directions page, so what is proved of it    *)
(* holds while driving too.                                                   *)
LEMMA StepOfDirections ==
    ASSUME [NavigationNext]_<<dvars, nvars>>
    PROVE  [DirectionsNext]_dvars
<1>1. CASE Panel \/ Elsewhere  BY <1>1 DEF DirectionsNext
<1>2. ASSUME NEW p \in Shown, simulate(p) PROVE UNCHANGED dvars
  BY <1>2 DEF simulate
<1>3. CASE stopNavigation  BY <1>3 DEF stopNavigation
<1>4. CASE DriveOff  BY <1>4 DEF DriveOff
<1>5. CASE DriveBack  BY <1>5 DEF DriveBack
<1>6. CASE Space  BY <1>6 DEF Space
<1>7. CASE TimerFires  BY <1>7 DEF TimerFires
<1>8. CASE Reroute
  BY <1>8 DEF Reroute, RerouteFails, RerouteAnswered, RerouteEnds
<1> QED
  BY <1>1, <1>2, <1>3, <1>4, <1>5, <1>6, <1>7, <1>8 DEF NavigationNext

(* Navigation implements Directions: each of its behaviours, seen on the      *)
(* variables of the page, is one of the page.                                 *)
THEOREM NavigationImplementsDirections == NavigationSpec => DirectionsSpec
<1>1. NavigationInit => Init  BY DEF NavigationInit
<1>2. [NavigationNext]_<<dvars, nvars>> => [DirectionsNext]_dvars
  BY StepOfDirections
<1> QED  BY <1>1, <1>2, PTL DEF NavigationSpec, DirectionsSpec
===============================================================================
