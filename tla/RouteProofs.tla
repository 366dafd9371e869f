----------------------------- MODULE RouteProofs -----------------------------
(* Proofs about RouteSearch, for any consistent graph and request: a skipped  *)
(* shortcut never loses the label of an edge the search has reached, the two  *)
(* searches agree on shortcuts, every path given back over sound shortcuts is  *)
(* a legal route, the builder's shortcuts are sound, and costs follow chains:  *)
(* none of this depends on what a queue holds.                                *)
EXTENDS RouteSearch, Shortcuts, RecursionFacts, FiniteSetTheorems

(* x can be driven before y; either may be a shortcut. *)
Follows(G, x, y) == Meets(G, x, y) /\ Turn(G, x, y) \notin G.banned

-----------------------------------------------------------------------------
(* Paths. *)

LEMMA RequestIsWellFormed ==
    ASSUME NEW r \in Requests
    PROVE  r \in Request /\ r.graph \in Graph /\ WellFormed(r.graph)
BY RequestAssumption DEF Request

(* A legal path goes on as another one that can be driven after it.          *)
LEMMA PathsJoin ==
    ASSUME NEW G, NEW p \in Seq(Edges), NEW q \in Seq(Edges),
           LegalPath(G, p), LegalPath(G, q), Follows(G, Last(p), Head(q))
    PROVE  LegalPath(G, p \o q) /\ Last(p \o q) = Last(q) /\ Head(p \o q) = Head(p)
<1> DEFINE r == p \o q
<1>1. /\ Len(p) \in Nat \ {0} /\ Len(q) \in Nat \ {0} /\ Len(r) = Len(p) + Len(q)
      /\ \A i \in 1..Len(p) : r[i] = p[i]
      /\ \A i \in Len(p) + 1..Len(r) : r[i] = q[i - Len(p)]
  BY DEF LegalPath
<1>2. r # <<>> /\ Last(r) = Last(q) /\ Head(r) = Head(p)
  BY <1>1 DEF Last
<1>3. \A i \in 1..Len(r) : Permitted(G, r[i])
  <2> SUFFICES ASSUME NEW i \in 1..Len(r) PROVE Permitted(G, r[i])
    OBVIOUS
  <2>1. CASE i \in 1..Len(p)
    BY <1>1, <2>1 DEF LegalPath
  <2>2. CASE i \in Len(p) + 1..Len(r)
    <3>1. r[i] = q[i - Len(p)] /\ i - Len(p) \in 1..Len(q)  BY <1>1, <2>2
    <3> QED  BY <3>1 DEF LegalPath
  <2> QED  BY <1>1, <2>1, <2>2
<1>4. \A i \in 1..(Len(r) - 1) : Follows(G, r[i], r[i + 1])
  <2> SUFFICES ASSUME NEW i \in 1..(Len(r) - 1) PROVE Follows(G, r[i], r[i + 1])
    OBVIOUS
  <2>1. CASE i \in 1..(Len(p) - 1)
    <3>1. r[i] = p[i] /\ r[i + 1] = p[i + 1]  BY <1>1, <2>1
    <3> QED  BY <3>1, <2>1 DEF LegalPath, Follows
  <2>2. CASE i = Len(p)
    <3>1. r[i] = Last(p) /\ r[i + 1] = Head(q)  BY <1>1, <2>2 DEF Last
    <3> QED  BY <3>1
  <2>3. CASE i \in Len(p) + 1..Len(r) - 1
    <3>1. /\ i - Len(p) \in 1..(Len(q) - 1)
          /\ r[i] = q[i - Len(p)] /\ r[i + 1] = q[(i - Len(p)) + 1]
      BY <1>1, <2>3
    <3> QED  BY <3>1 DEF LegalPath, Follows
  <2> QED  BY <1>1, <2>1, <2>2, <2>3
<1> HIDE DEF r
<1>5. LegalPath(G, r)  BY <1>2, <1>3, <1>4 DEF LegalPath, Follows
<1> QED  BY <1>2, <1>5 DEF r
(* What a permitted edge stands for is a legal path.                         *)
LEMMA PartsAreLegal ==
    ASSUME NEW r \in Requests, NEW e \in r.graph.edge, Permitted(r.graph, e),
           IsShortcut(r.graph, e) => SoundShortcut(r.graph, e)
    PROVE  /\ r.graph.parts[e] \in Seq(Edges) /\ LegalPath(r.graph, r.graph.parts[e])
           /\ Head(r.graph.parts[e]) = FirstPart(r.graph, e)
           /\ Last(r.graph.parts[e]) = LastPart(r.graph, e)
<1> DEFINE G == r.graph
           p == G.parts[e]
<1>1. G \in Graph /\ WellFormed(G) /\ e \in Edges
  BY RequestIsWellFormed DEF Graph
<1>2. p \in Seq(Edges) /\ p # <<>>
  BY <1>1 DEF Graph, WellFormed
<1>3. LegalPath(G, p)
  <2>1. CASE p = <<e>>
    BY <2>1 DEF LegalPath
  <2>2. CASE IsShortcut(G, e)
    <3>1. \A i \in 1..Len(p) : p[i] \in ToSet(p)
      BY <1>2 DEF ToSet
    <3>2. \A i \in 1..Len(p) : Permitted(G, p[i])
      BY <2>2, <3>1 DEF SoundShortcut, Permitted, Prohibited
    <3>3. \A i \in 1..(Len(p) - 1) : Meets(G, p[i], p[i + 1]) /\ Turn(G, p[i], p[i + 1]) \notin G.banned
      BY <2>2 DEF SoundShortcut, Meets
    <3> QED  BY <1>2, <3>2, <3>3 DEF LegalPath
  <2> QED  BY <2>1, <2>2 DEF IsShortcut
<1> QED  BY <1>2, <1>3 DEF FirstPart, LastPart

(* Edges follow each other as the roads at their ends do.                    *)
LEMMA PartsFollow ==
    ASSUME NEW r \in Requests, NEW e \in r.graph.edge, NEW f \in r.graph.edge,
           Follows(r.graph, e, f)
    PROVE  Follows(r.graph, LastPart(r.graph, e), FirstPart(r.graph, f))
<1> DEFINE G == r.graph
<1>1. G \in Graph /\ WellFormed(G)
  BY RequestIsWellFormed
<1>2. \A x \in {e, f} : G.parts[x] \in Seq(Edges) /\ G.parts[x] # <<>>
  BY <1>1 DEF WellFormed, Graph
<1>3. LastPart(G, e) \in ToSet(G.parts[e]) /\ FirstPart(G, f) \in ToSet(G.parts[f])
  BY <1>2 DEF LastPart, FirstPart, Last, ToSet
<1>4. G.parts[LastPart(G, e)] = <<LastPart(G, e)>> /\ G.parts[FirstPart(G, f)] = <<FirstPart(G, f)>>
  BY <1>1, <1>3 DEF WellFormed, IsShortcut
<1>5. Turn(G, LastPart(G, e), FirstPart(G, f)) = Turn(G, e, f)
  <2>1. Last(<<LastPart(G, e)>>) = LastPart(G, e) /\ Head(<<FirstPart(G, f)>>) = FirstPart(G, f)
    BY DEF Last
  <2> QED  BY <1>4, <2>1 DEF Turn, LastPart, FirstPart
<1>6. G.from[f] = G.from[FirstPart(G, f)] /\ G.to[e] = G.to[LastPart(G, e)]
  BY <1>1 DEF WellFormed
<1> QED  BY <1>5, <1>6 DEF Follows, Meets

-----------------------------------------------------------------------------
(* The inductive invariant. *)

SettledSets == {"temporary", "permanent"}
IsReached(d, e) == status[d][e].set \in SettledSets
Offers(d, e) == \E k \in DOMAIN Candidates(d) : Candidates(d)[k].edge = e

(* In direction d the search goes on from edge p to edge e. *)
GoesOn(d, p, e) ==
    IF d = Fwd THEN Follows(g, p, e) ELSE Follows(g, g.opp[e], g.opp[p])

LabelT == [edge : Edges, opp : Edges \cup {NoEdge}, pred : Nat, cost : Int, sort : Int,
           dist : Int, turn : Int, notThru : BOOLEAN, prune : BOOLEAN]

ConnectionT == [edge : Edges, opp : Edges, cost : Int]

Types ==
    /\ request \in Requests /\ pass \in {1, 2}
    /\ labels \in [Directions -> Seq(LabelT)]
    /\ status \in [Directions -> [Edges -> Status]]
    /\ up \in [Directions -> [0..7 -> Nat]]
    /\ at \in [Directions -> Nat] /\ exp \in [Directions -> BOOLEAN]
    /\ best \in Seq(ConnectionT)
    /\ work \in Work

(* Each direction has a label to go on from where the loop reads it, and the *)
(* expansion is at the end of that label's edge or across a transition.       *)
HasLabel(d) == at[d] \in DOMAIN labels[d]
Control ==
    /\ pc = Fwd => \A d \in Directions : exp[d] \/ HasLabel(d)
    /\ pc = Rev => HasLabel(Fwd) /\ (exp[Rev] \/ HasLabel(Rev))
    /\ pc \in {"choose", "expand"} => \A d \in Directions : HasLabel(d)
    /\ pc = "again" => best = <<>>
    /\ pc = "expand" =>
          /\ work.node = EndNode \/ work.node \in ToSet(g.trans[EndNode])
          /\ work.trans = 0 => work.node = EndNode
          /\ work.uturn # NoEdge => work.uturn \in g.edge /\ g.from[work.uturn] = EndNode

(* A label's edge may be driven and goes on from its predecessor's; a label  *)
(* without one is a candidate's.                                              *)
LegalLabel(d, i) ==
    LET l == labels[d][i]
    IN /\ l.edge \in g.edge /\ Permitted(g, Driven(d, l.edge))
       /\ l.opp # NoEdge => l.opp = g.opp[l.edge]
       /\ l.dist = Abs(g.pos[g.to[l.edge]] - Own(d))
       /\ l.pred = NoLabel => Offers(d, Driven(d, l.edge))
       /\ l.pred # NoLabel =>
             l.pred \in DOMAIN labels[d] /\ GoesOn(d, labels[d][l.pred].edge, l.edge)
       /\ IsReached(d, l.edge)
LabelsAreLegal == \A d \in Directions : \A i \in DOMAIN labels[d] : LegalLabel(d, i)

(* A shortcut is reached where the hierarchy limit had stopped, which it      *)
(* stays, or because the other search had reached it: it is not skipped later. *)
ShortcutsAreDue ==
    \A d \in Directions : \A e \in g.edge :
        IsShortcut(g, e) /\ IsReached(d, e) =>
            \/ Stop(d, LevelOf(e) + 1, Abs(g.pos[g.from[e]] - Own(d)))
            \/ IsReached(Other(d), g.opp[e])

ConnectionsAreReached ==
    \A k \in DOMAIN best :
        /\ best[k].edge \in g.edge /\ best[k].opp = g.opp[best[k].edge]
        /\ IsReached(Fwd, best[k].edge) /\ IsReached(Rev, best[k].opp)

SearchInv ==
    /\ Types /\ Searched /\ Control /\ LabelsAreLegal /\ StatusPointsAtLabel /\ ShortcutsAgree
    /\ ShortcutsAreDue /\ ConnectionsAreReached

(* FormPath: the path formed so far is legal, begins where the forward chain *)
(* comes from, and ends with edge x; the reverse chain goes on from x.        *)
LeadsOn(x, i) ==
    IF i = NoLabel THEN Offers(Rev, x)
    ELSE i \in DOMAIN labels[Rev] /\ Follows(g, x, g.opp[labels[Rev][i].edge])
FromOrigin == Offers(Fwd, Head(route))
BackTo(i) ==
    IF i = NoLabel THEN FromOrigin
    ELSE i \in DOMAIN labels[Fwd]
         /\ Follows(g, LastPart(g, labels[Fwd][i].edge), Head(route))
FormedTo(x) == LegalPath(g, route) /\ Last(route) = LastPart(g, x)
BackFrom(x) ==
    /\ LeadsOn(x, walk.then)
    /\ \/ /\ route = <<>> /\ walk.index \in DOMAIN labels[Fwd]
          /\ labels[Fwd][walk.index].edge = x
       \/ FormedTo(x) /\ BackTo(walk.index)
OnFrom(x) == FromOrigin /\ LeadsOn(x, walk.index) /\ FormedTo(x)
PathInv ==
    /\ walk \in [index : Nat, then : Nat]
    /\ route \in Seq(Edges) /\ routes \in Seq(Seq(Edges))
    /\ pc = "back" => \E x \in g.edge : BackFrom(x)
    /\ pc = "on" => \E x \in g.edge : OnFrom(x)
    /\ RoutesAreLegal

-----------------------------------------------------------------------------
(* What every step keeps. *)

USE DEF Directions, Fwd, Rev, NoEdge, NoLabel

LEMMA GraphFacts ==
    ASSUME request \in Requests
    PROVE  /\ g.edge \subseteq Edges
           /\ \A e \in g.edge :
                 /\ e \in Edges /\ g.from[e] \in Nodes /\ g.to[e] \in Nodes
                 /\ g.opp[e] \in g.edge /\ g.opp[g.opp[e]] = e
                 /\ g.from[g.opp[e]] = g.to[e] /\ g.to[g.opp[e]] = g.from[e]
                 /\ IsShortcut(g, e) <=> IsShortcut(g, g.opp[e])
           /\ \A n \in Nodes :
                 /\ g.out[n] \in Seq(Edges) /\ g.trans[n] \in Seq(Nodes) /\ g.pos[n] \in Nat
                 /\ \A e \in ToSet(g.out[n]) : e \in g.edge /\ g.from[e] = n
                 /\ \A m \in ToSet(g.trans[n]) :
                       m \in Nodes /\ n \in ToSet(g.trans[m]) /\ g.pos[m] = g.pos[n]
           /\ g.start \in Nat /\ g.goal \in Nat
<1>1. g \in Graph /\ WellFormed(g)
  BY RequestIsWellFormed DEF g
<1> HIDE DEF g
<1>2. /\ g.edge \subseteq Edges /\ g.start \in Nat /\ g.goal \in Nat
      /\ \A e \in Edges : g.from[e] \in Nodes /\ g.to[e] \in Nodes
      /\ \A n \in Nodes :
            g.out[n] \in Seq(Edges) /\ g.trans[n] \in Seq(Nodes) /\ g.pos[n] \in Nat
  BY <1>1 DEF Graph
<1>3. \A e \in g.edge : g.opp[e] \in g.edge /\ g.opp[g.opp[e]] = e /\ g.from[g.opp[e]] = g.to[e]
  BY <1>1 DEF WellFormed
<1>4. \A e \in g.edge : g.to[g.opp[e]] = g.from[e]
  BY <1>3
<1>5. \A e \in g.edge : IsShortcut(g, e) <=> IsShortcut(g, g.opp[e])
  BY <1>1 DEF WellFormed
<1>6. \A n \in Nodes :
          /\ \A e \in ToSet(g.out[n]) : e \in g.edge /\ g.from[e] = n
          /\ \A m \in ToSet(g.trans[n]) :
                m \in Nodes /\ n \in ToSet(g.trans[m]) /\ g.pos[m] = g.pos[n]
  BY <1>1 DEF WellFormed
<1> QED  BY <1>2, <1>3, <1>4, <1>5, <1>6

LEMMA LabelsKept ==
    ASSUME SearchInv, UNCHANGED <<request, labels, status>>
    PROVE  LabelsAreLegal' /\ StatusPointsAtLabel' /\ ShortcutsAgree'
<1>1. g' = g
  BY DEF g
<1>2. StatusPointsAtLabel' /\ ShortcutsAgree'
  BY DEF SearchInv, StatusPointsAtLabel, ShortcutsAgree, g
<1> HIDE DEF g
<1>3. ASSUME NEW d \in Directions, NEW i \in DOMAIN labels[d] PROVE LegalLabel(d, i)'
  <2>1. LegalLabel(d, i)
    BY DEF SearchInv, LabelsAreLegal
  <2> QED  BY <1>1, <2>1 DEF LegalLabel, GoesOn, Offers, Candidates, Own, Driven, IsReached
<1> QED  BY <1>2, <1>3 DEF LabelsAreLegal

LEMMA SearchedKept == Searched /\ UNCHANGED request => Searched'
<1> SUFFICES ASSUME Searched, UNCHANGED request PROVE Searched'
  OBVIOUS
<1>1. g' = g
  BY DEF g
<1> HIDE DEF g
<1>2. \A d \in Directions : Candidates(d)' = Candidates(d)
  BY <1>1 DEF Candidates
<1>3. \A e, f : Connected(e, f)' <=> Connected(e, f)
  BY <1>1 DEF Connected, Ends
<1> QED  BY <1>1, <1>2, <1>3 DEF Searched

LEMMA DueKept ==
    ASSUME SearchInv, UNCHANGED <<request, pass, status, up>> PROVE ShortcutsAreDue'
BY DEF SearchInv, ShortcutsAreDue, Stop, LevelOf, Relaxed, Own, IsReached, g

LEMMA ConnectionsKept ==
    ASSUME SearchInv, UNCHANGED <<request, status, best>>
    PROVE  ConnectionsAreReached'
BY DEF SearchInv, ConnectionsAreReached, IsReached, g

-----------------------------------------------------------------------------
(* A pass starts with the candidates and nothing else. *)

LEMMA CandidateFacts ==
    ASSUME request \in Requests, NEW d \in Directions
    PROVE  /\ Candidates(d) \in Seq(Location)
           /\ \A k \in DOMAIN Candidates(d) :
                 Candidates(d)[k].edge \in g.edge /\ ~IsShortcut(g, Candidates(d)[k].edge)
<1>1. g \in Graph /\ WellFormed(g)
  BY RequestIsWellFormed DEF g
<1> HIDE DEF g
<1>2. g.origin \in Seq(Location) /\ g.dest \in Seq(Location)
  BY <1>1 DEF Graph
<1>3. Candidates(d) \in {g.origin, g.dest}
  BY DEF Candidates
<1>4. \A k \in DOMAIN Candidates(d) :
          Candidates(d)[k].edge \in g.edge /\ ~IsShortcut(g, Candidates(d)[k].edge)
  BY <1>1, <1>3 DEF WellFormed
<1> QED  BY <1>2, <1>3, <1>4

LEMMA AbsIsNat == ASSUME NEW x \in Int PROVE Abs(x) \in Nat
BY DEF Abs

LEMMA DistancesAreNat ==
    ASSUME request \in Requests, NEW d \in Directions, NEW n \in Nodes
    PROVE  Own(d) \in Nat /\ Abs(g.pos[n] - Own(d)) \in Nat /\ Heuristic(d, n) \in Nat
<1>1. Own(d) \in Nat /\ Far(d) \in Nat /\ g.pos[n] \in Nat
  BY GraphFacts DEF Own, Far, Other
<1>2. g.pos[n] - Own(d) \in Int /\ g.pos[n] - Far(d) \in Int
  BY <1>1
<1> QED  BY <1>1, <1>2, AbsIsNat DEF Heuristic

LEMMA Roots ==
    ASSUME request \in Requests, Searched, NEW d \in Directions
    PROVE  /\ RootLabels(d) \in Seq(LabelT) /\ RootStatus(d) \in [Edges -> Status]
           /\ \A i \in DOMAIN RootLabels(d) :
                 LET l == RootLabels(d)[i]
                 IN /\ l.edge \in g.edge /\ Permitted(g, Driven(d, l.edge))
                    /\ l.opp # NoEdge => l.opp = g.opp[l.edge]
                    /\ l.dist = Abs(g.pos[g.to[l.edge]] - Own(d))
                    /\ l.pred = NoLabel /\ Offers(d, Driven(d, l.edge))
                    /\ RootStatus(d)[l.edge].set = "temporary"
           /\ \A e \in g.edge :
                 /\ RootStatus(d)[e].set # "skipped"
                 /\ RootStatus(d)[e].set \in SettledSets =>
                       /\ ~IsShortcut(g, e) /\ RootStatus(d)[e].label \in DOMAIN RootLabels(d)
                       /\ RootLabels(d)[RootStatus(d)[e].label].edge = e
<1> DEFINE C == Candidates(d)
           L == RootLabels(d)
           Start(k) == IF d = Fwd THEN C[k].edge ELSE g.opp[C[k].edge]
<1>1. /\ C \in Seq(Location) /\ DOMAIN L = DOMAIN C
      /\ \A k \in DOMAIN C :
            C[k] \in Location /\ C[k].edge \in g.edge /\ ~IsShortcut(g, C[k].edge)
            /\ Permitted(g, C[k].edge)
  BY CandidateFacts DEF RootLabels, Searched
<1>2. \A k \in DOMAIN C :
          /\ Start(k) \in g.edge /\ ~IsShortcut(g, Start(k)) /\ Driven(d, Start(k)) = C[k].edge
          /\ C[k].cost \in Nat /\ g.to[Start(k)] \in Nodes
          /\ d = Rev => C[k].edge = g.opp[Start(k)]
  BY <1>1, GraphFacts DEF Location, Driven
<1>3. \A k \in DOMAIN C :
          /\ L[k] = RootLabel(d, C[k])
          /\ L[k].edge = Start(k) /\ L[k].pred = NoLabel
          /\ L[k].opp = IF d = Fwd THEN NoEdge ELSE C[k].edge
          /\ L[k].dist = Abs(g.pos[g.to[L[k].edge]] - Own(d))
  BY DEF RootLabels, RootLabel
<1>4. \A k \in DOMAIN C : L[k] \in LabelT
  <2> SUFFICES ASSUME NEW k \in DOMAIN C PROVE L[k] \in LabelT
    OBVIOUS
  <2> DEFINE n == g.to[Start(k)]
  <2>1. Heuristic(d, n) \in Nat /\ Abs(g.pos[n] - Own(d)) \in Nat
    BY <1>2, DistancesAreNat
  <2>2. Start(k) \in Edges /\ C[k].edge \in Edges
    BY <1>1, <1>2, GraphFacts
  <2>3. RootLabel(d, C[k]) =
          [edge |-> Start(k), opp |-> IF d = Fwd THEN NoEdge ELSE C[k].edge, pred |-> NoLabel,
           cost |-> C[k].cost, sort |-> C[k].cost + Heuristic(d, n),
           dist |-> Abs(g.pos[n] - Own(d)), turn |-> 0, notThru |-> FALSE,
           prune |-> ~g.notThru[Start(k)]]
    BY DEF RootLabel
  <2>4. (~g.notThru[Start(k)]) \in BOOLEAN
    OBVIOUS
  <2> HIDE DEF n, C, Start
  <2>5. C[k].cost + Heuristic(d, n) \in Int /\ C[k].cost \in Int
    BY <2>1, <1>2
  <2>6. RootLabel(d, C[k]) \in LabelT
    BY <2>1, <2>2, <2>3, <2>4, <2>5 DEF LabelT
  <2> QED  BY <2>6, <1>3
<1>5. L \in Seq(LabelT)
  BY <1>1, <1>4 DEF RootLabels
<1>6. \A e \in Edges :
          LET ks == {k \in DOMAIN C : Start(k) = e}
          IN /\ ks = {} => RootStatus(d)[e] = Unreached
             /\ ks # {} => /\ RootStatus(d)[e].set = "temporary"
                           /\ RootStatus(d)[e].label \in ks
                           /\ RootStatus(d)[e] \in Status
  <2> SUFFICES ASSUME NEW e \in Edges, NEW ks, ks = {k \in DOMAIN C : Start(k) = e}
               PROVE /\ ks = {} => RootStatus(d)[e] = Unreached
                     /\ ks # {} => /\ RootStatus(d)[e].set = "temporary"
                                   /\ RootStatus(d)[e].label \in ks
                                   /\ RootStatus(d)[e] \in Status
    OBVIOUS
  <2>1. ks = {k \in DOMAIN L : L[k].edge = e}
    BY <1>1, <1>3
  <2>2. RootStatus(d)[e] = IF ks = {} THEN Unreached
                           ELSE [set |-> "temporary", label |-> CHOOSE k \in ks : TRUE]
    BY <2>1 DEF RootStatus
  <2>3. ks \subseteq Nat \ {0}
    BY <1>1
  <2>4. ks # {} => (CHOOSE k \in ks : TRUE) \in ks
    OBVIOUS
  <2> DEFINE first == CHOOSE k \in ks : TRUE
  <2>5. ASSUME ks # {}
        PROVE  RootStatus(d)[e] = [set |-> "temporary", label |-> first] /\ first \in ks
    BY <2>2, <2>4, <2>5
  <2> HIDE DEF first
  <2>6. ks # {} => [set |-> "temporary", label |-> first] \in Status
    BY <2>3, <2>5 DEF Status
  <2> QED  BY <2>2, <2>5, <2>6
<1>7. RootStatus(d) \in [Edges -> Status]
  <2>1. \A e \in Edges : RootStatus(d)[e] \in Status
    BY <1>6 DEF Status, Unreached
  <2> QED  BY <2>1 DEF RootStatus
<1>8. \A i \in DOMAIN L :
          /\ L[i].edge \in g.edge /\ Permitted(g, Driven(d, L[i].edge))
          /\ L[i].opp # NoEdge => L[i].opp = g.opp[L[i].edge]
          /\ L[i].dist = Abs(g.pos[g.to[L[i].edge]] - Own(d))
          /\ L[i].pred = NoLabel /\ Offers(d, Driven(d, L[i].edge))
          /\ RootStatus(d)[L[i].edge].set = "temporary"
  <2> SUFFICES ASSUME NEW i \in DOMAIN L
               PROVE /\ L[i].edge \in g.edge /\ Permitted(g, Driven(d, L[i].edge))
                     /\ L[i].opp # NoEdge => L[i].opp = g.opp[L[i].edge]
                     /\ L[i].dist = Abs(g.pos[g.to[L[i].edge]] - Own(d))
                     /\ L[i].pred = NoLabel /\ Offers(d, Driven(d, L[i].edge))
                     /\ RootStatus(d)[L[i].edge].set = "temporary"
    OBVIOUS
  <2>1. i \in DOMAIN C /\ Start(i) \in Edges
    BY <1>1, <1>2, GraphFacts
  <2>2. RootStatus(d)[Start(i)].set = "temporary"
    BY <2>1, <1>6
  <2> QED  BY <2>1, <2>2, <1>1, <1>2, <1>3 DEF Offers
<1>9. \A e \in g.edge :
          /\ RootStatus(d)[e].set # "skipped"
          /\ RootStatus(d)[e].set \in SettledSets =>
                /\ ~IsShortcut(g, e) /\ RootStatus(d)[e].label \in DOMAIN L
                /\ L[RootStatus(d)[e].label].edge = e
  <2> SUFFICES ASSUME NEW e \in g.edge
               PROVE /\ RootStatus(d)[e].set # "skipped"
                     /\ RootStatus(d)[e].set \in SettledSets =>
                           /\ ~IsShortcut(g, e) /\ RootStatus(d)[e].label \in DOMAIN L
                           /\ L[RootStatus(d)[e].label].edge = e
    OBVIOUS
  <2>1. e \in Edges
    BY GraphFacts
  <2>2. CASE {k \in DOMAIN C : Start(k) = e} = {}
    <3>1. RootStatus(d)[e] = Unreached  BY <2>1, <2>2, <1>6
    <3> QED  BY <3>1 DEF Unreached, SettledSets
  <2>3. CASE {k \in DOMAIN C : Start(k) = e} # {}
    <3>1. /\ RootStatus(d)[e].set = "temporary"
          /\ RootStatus(d)[e].label \in {k \in DOMAIN C : Start(k) = e}
      BY <2>1, <2>3, <1>6
    <3> QED  BY <3>1, <1>1, <1>2, <1>3
  <2> QED  BY <2>2, <2>3
<1> HIDE DEF L
<1> QED  BY <1>5, <1>7, <1>8, <1>9 DEF L

Begun ==
    /\ request \in Requests /\ Searched
    /\ labels = [d \in Directions |-> RootLabels(d)]
    /\ status = [d \in Directions |-> RootStatus(d)]

BegunInv ==
    /\ labels \in [Directions -> Seq(LabelT)] /\ status \in [Directions -> [Edges -> Status]]
    /\ LabelsAreLegal /\ StatusPointsAtLabel /\ ShortcutsAgree /\ ShortcutsAreDue

LEMMA BegunIsLegal == Begun => BegunInv
<1> SUFFICES ASSUME Begun PROVE BegunInv
  OBVIOUS
<1>1. request \in Requests /\ Searched
  BY DEF Begun
<1>2. \A d \in Directions : labels[d] = RootLabels(d) /\ status[d] = RootStatus(d)
  BY DEF Begun
<1>3. \A d \in Directions : RootLabels(d) \in Seq(LabelT) /\ RootStatus(d) \in [Edges -> Status]
  BY <1>1, Roots
<1>4. labels \in [Directions -> Seq(LabelT)] /\ status \in [Directions -> [Edges -> Status]]
  <2> HIDE DEF Directions
  <2> QED  BY <1>3 DEF Begun
<1>5. LabelsAreLegal
  <2> SUFFICES ASSUME NEW d \in Directions, NEW i \in DOMAIN labels[d] PROVE LegalLabel(d, i)
    BY DEF LabelsAreLegal
  <2>1. i \in DOMAIN RootLabels(d)  BY <1>2
  <2> QED  BY <1>1, <1>2, <2>1, Roots DEF LegalLabel, IsReached, SettledSets
<1>6. \A d \in Directions : \A e \in g.edge :
          /\ status[d][e].set # "skipped"
          /\ status[d][e].set \in SettledSets =>
                /\ ~IsShortcut(g, e) /\ status[d][e].label \in DOMAIN labels[d]
                /\ labels[d][status[d][e].label].edge = e
  BY <1>1, <1>2, Roots
<1>7. StatusPointsAtLabel
  BY <1>6 DEF StatusPointsAtLabel, SettledSets
<1>8. ShortcutsAgree /\ ShortcutsAreDue
  BY <1>6 DEF ShortcutsAgree, ShortcutsAreDue, IsReached, SettledSets
<1> QED  BY <1>4, <1>5, <1>7, <1>8 DEF BegunInv

LEMMA NoWorkIsWork == request \in Requests => NoWork \in Work
<1> SUFFICES ASSUME request \in Requests PROVE NoWork \in Work
  OBVIOUS
<1>1. Candidates(Fwd) = g.origin /\ Candidates(Fwd) # <<>>
  <2>1. WellFormed(g)  BY RequestIsWellFormed DEF g
  <2> HIDE DEF g
  <2> QED  BY <2>1 DEF WellFormed, Candidates
<1>2. 1 \in DOMAIN g.origin
  BY <1>1, CandidateFacts
<1>3. g.to[g.origin[1].edge] \in Nodes
  BY <1>1, <1>2, CandidateFacts, GraphFacts
<1> HIDE DEF g
<1> QED  BY <1>3 DEF NoWork, Work

LEMMA InitSearch == Init => SearchInv
<1> SUFFICES ASSUME Init PROVE SearchInv
  OBVIOUS
<1>1. Begun
  BY DEF Init, Begun
<1>2. BegunInv
  BY <1>1, BegunIsLegal
<1>3. Types
  <2>1. NoWork \in Work
    BY NoWorkIsWork DEF Init
  <2>2. up \in [Directions -> [0..7 -> Nat]] /\ at \in [Directions -> Nat]
        /\ exp \in [Directions -> BOOLEAN]
    BY DEF Init
  <2> QED  BY <1>2, <2>1, <2>2 DEF BegunInv, Init, Types, NoWalk
<1>4. Control /\ ConnectionsAreReached
  BY DEF Init, Control, ConnectionsAreReached
<1> QED  BY <1>2, <1>3, <1>4 DEF Init, SearchInv, BegunInv

-----------------------------------------------------------------------------
(* The steps keep the search's part of the invariant. *)

USE DEF searchVars, pathVars

LEMMA RetrySearch == SearchInv /\ Retry => SearchInv'
<1> SUFFICES ASSUME SearchInv, Retry PROVE SearchInv'
  OBVIOUS
<1>1. request' = request /\ g' = g /\ Searched'
  BY SearchedKept DEF Retry, SearchInv, g
<1>2. Begun'
  <2>1. \A d \in Directions : RootLabels(d)' = RootLabels(d) /\ RootStatus(d)' = RootStatus(d)
    BY <1>1 DEF RootLabels, RootStatus, RootLabel, Candidates, Heuristic, Own, Far, g
  <2> QED  BY <1>1, <2>1 DEF Begun, Retry, SearchInv, Types
<1>3. BegunInv'
  BY <1>2, BegunIsLegal, PTL
<1>4. Types'
  <2>1. up' \in [Directions -> [0..7 -> Nat]] /\ at' \in [Directions -> Nat]
        /\ exp' \in [Directions -> BOOLEAN]
    BY DEF Retry
  <2> QED  BY <1>3, <2>1 DEF Retry, Types, SearchInv, BegunInv
<1>5. Control'
  BY DEF Control, Retry
<1>6. ConnectionsAreReached'
  BY DEF SearchInv, Control, ConnectionsAreReached, Retry
<1> QED  BY <1>1, <1>3, <1>4, <1>5, <1>6 DEF SearchInv, BegunInv

Quiet == UNCHANGED <<request, pass, labels, status, up>>

LEMMA QuietStep ==
    ASSUME SearchInv, Quiet, Types', Control', ConnectionsAreReached' PROVE SearchInv'
BY LabelsKept, SearchedKept, DueKept DEF SearchInv, Quiet

(* the steps of the loop that settle nothing *)
LEMMA LoopSearch ==
    ASSUME SearchInv, NEW d \in Directions,
           IterationsExceeded \/ NotExpanded(d) \/ Exhausted(d) \/ Prune(d) \/ BeginExpand(d)
    PROVE  SearchInv'
<1>1. Quiet /\ UNCHANGED best
  BY DEF Quiet, IterationsExceeded, NotExpanded, Exhausted, Prune, BeginExpand
<1>2. ConnectionsAreReached'
  BY <1>1, ConnectionsKept DEF Quiet
<1>3. CASE IterationsExceeded
  <2>1. Types'  BY <1>3 DEF SearchInv, Types, IterationsExceeded
  <2>2. Control'  BY <1>3 DEF Control, IterationsExceeded
  <2> QED  BY <1>1, <1>2, <2>1, <2>2, QuietStep
<1>4. CASE NotExpanded(d)
  <2>1. Types'  BY <1>4 DEF SearchInv, Types, NotExpanded
  <2>2. Control'
    BY <1>4 DEF SearchInv, Control, NotExpanded, Turns, AfterPop, HasLabel
  <2> QED  BY <1>1, <1>2, <2>1, <2>2, QuietStep
<1>5. CASE Exhausted(d)
  <2>1. Types'  BY <1>5 DEF SearchInv, Types, Exhausted
  <2>2. Control'
    BY <1>5 DEF SearchInv, Control, Exhausted, AfterFailure
  <2> QED  BY <1>1, <1>2, <2>1, <2>2, QuietStep
<1>6. CASE Prune(d)
  <2>1. Types'
    BY <1>6 DEF SearchInv, Types, Prune
  <2>2. Control'
    BY <1>6 DEF SearchInv, Control, Prune, HasLabel
  <2> QED  BY <1>1, <1>2, <2>1, <2>2, QuietStep
<1>7. CASE BeginExpand(d)
  <2>1. HasLabel(d) /\ g.to[Reached(d).edge] \in Nodes
    <3>1. at[d] \in DOMAIN labels[d]
      BY <1>7 DEF SearchInv, Control, HasLabel, BeginExpand
    <3>2. labels[d][at[d]].edge \in g.edge
      BY <3>1 DEF SearchInv, LabelsAreLegal, LegalLabel
    <3>3. request \in Requests
      BY DEF SearchInv, Types
    <3> QED  BY <3>1, <3>2, <3>3, GraphFacts DEF HasLabel, Reached
  <2>2. work' = [dir |-> d, node |-> g.to[Reached(d).edge], trans |-> 0, next |-> 1,
                 used |-> {}, approved |-> FALSE, uturn |-> NoEdge]
    BY <1>7 DEF BeginExpand, NoWork
  <2>3. work' \in Work
    BY <2>1, <2>2 DEF Work
  <2>4. Types'
    BY <1>7, <2>3 DEF SearchInv, Types, BeginExpand
  <2>5. EndNode' = g.to[Reached(d).edge]
    BY <1>7, <2>2 DEF EndNode, Reached, BeginExpand, g
  <2>6. Control'
    <3>0. pc' = "expand"
      BY <1>7 DEF BeginExpand
    <3>1. work'.node = EndNode' /\ work'.uturn = NoEdge
      BY <2>2, <2>5
    <3>2. \A c \in Directions : HasLabel(c)'
      BY <1>7 DEF SearchInv, Control, BeginExpand, HasLabel
    <3> QED  BY <3>0, <3>1, <3>2 DEF Control
  <2> QED  BY <1>1, <1>2, <2>4, <2>6, QuietStep
<1> QED  BY <1>3, <1>4, <1>5, <1>6, <1>7

(* the edge examined leaves the end of the label expanded *)
LEMMA ExaminedFacts ==
    ASSUME SearchInv, NEW e, NEW deadEnd \in BOOLEAN, Evaluates(e, deadEnd)
    PROVE  /\ work.dir \in Directions /\ at[work.dir] \in DOMAIN labels[work.dir]
           /\ e \in g.edge
           /\ g.from[e] = EndNode \/ g.from[e] \in ToSet(g.trans[EndNode])
           /\ EndNode \in Nodes
<1>1. /\ pc = "expand" /\ work \in Work /\ request \in Requests
      /\ \A d \in Directions : at[d] \in DOMAIN labels[d]
      /\ \A d \in Directions : LegalLabel(d, at[d])
  BY DEF Evaluates, SearchInv, Types, Control, HasLabel, LabelsAreLegal
<1>2. work.dir \in Directions /\ work.node \in Nodes /\ work.next \in Nat \ {0}
  BY <1>1 DEF Work
<1>3. EndNode \in Nodes
  BY <1>1, <1>2, GraphFacts DEF EndNode, Reached, LegalLabel
<1>4. CASE ~deadEnd
  <2>1. e = g.out[work.node][work.next] /\ ~(work.next > Len(g.out[work.node]))
    BY <1>4 DEF Evaluates, NextEdge, NodeDone
  <2>2. g.out[work.node] \in Seq(Edges)
    BY <1>1, <1>2, GraphFacts
  <2>3. e \in ToSet(g.out[work.node])
    BY <1>2, <2>1, <2>2 DEF ToSet
  <2>4. e \in g.edge /\ g.from[e] = work.node
    BY <1>1, <1>2, <2>3, GraphFacts
  <2> QED  BY <1>1, <1>2, <1>3, <2>4 DEF SearchInv, Control
<1>5. CASE deadEnd
  <2>1. e = work.uturn /\ work.uturn # NoEdge
    BY <1>5 DEF Evaluates, TurnsRound
  <2> QED  BY <1>1, <1>2, <1>3, <2>1 DEF SearchInv, Control
<1> QED  BY <1>4, <1>5

(* whatever became of the edge, the expansion goes on from the same label *)
LEMMA EvaluatedControl ==
    ASSUME SearchInv, NEW e, NEW deadEnd \in BOOLEAN, Evaluates(e, deadEnd),
           NEW approved \in BOOLEAN, NEW used \in SUBSET Edges,
           Evaluated(deadEnd, approved, used), UNCHANGED <<request, at, exp, best>>,
           \A d \in Directions : \A i \in DOMAIN labels[d] :
               i \in DOMAIN labels'[d] /\ labels'[d][i].edge = labels[d][i].edge
    PROVE  work' \in Work /\ Control'
<1>1. /\ pc = "expand" /\ work \in Work /\ request \in Requests
      /\ \A d \in Directions : at[d] \in DOMAIN labels[d]
  BY DEF Evaluates, SearchInv, Types, Control, HasLabel
<1>2. \A d \in Directions : HasLabel(d)'
  BY <1>1 DEF HasLabel
<1>3. CASE deadEnd
  <2>1. pc' = Fwd /\ work' = NoWork
    BY <1>3 DEF Evaluated
  <2>2. work' \in Work
    BY <1>1, <2>1, NoWorkIsWork
  <2>3. Control'
    BY <1>2, <2>1 DEF Control
  <2> QED  BY <2>2, <2>3
<1>4. CASE ~deadEnd
  <2>1. /\ pc' = "expand"
        /\ work' = [work EXCEPT !.next = @ + 1, !.approved = @ \/ approved, !.used = used]
    BY <1>1, <1>4 DEF Evaluated
  <2> DEFINE a == work.approved \/ approved
             n == work.next + 1
  <2>2. /\ a \in BOOLEAN
        /\ n \in Nat \ {0}
        /\ work' = [work EXCEPT !.next = n, !.approved = a, !.used = used]
    <3>1. a \in BOOLEAN  OBVIOUS
    <3>2. n \in Nat \ {0}  BY <1>1 DEF Work
    <3> QED  BY <2>1, <3>1, <3>2, Zenon
  <2> HIDE DEF a, n
  <2>3. /\ work' \in Work /\ work'.dir = work.dir /\ work'.node = work.node
        /\ work'.trans = work.trans /\ work'.uturn = work.uturn
    BY <1>1, <2>1, <2>2 DEF Work
  <2>4. EndNode' = EndNode
    <3>1. work.dir \in Directions  BY <1>1 DEF Work
    <3>2. labels'[work.dir][at[work.dir]].edge = labels[work.dir][at[work.dir]].edge
      BY <1>1, <3>1
    <3> QED  BY <2>3, <3>2 DEF EndNode, Reached, g
  <2>5. /\ work.node = EndNode \/ work.node \in ToSet(g.trans[EndNode])
        /\ work.trans = 0 => work.node = EndNode
        /\ work.uturn # NoEdge => work.uturn \in g.edge /\ g.from[work.uturn] = EndNode
    BY <1>1 DEF SearchInv, Control
  <2>6. g' = g
    BY DEF g
  <2>7. Control'
    BY <1>2, <2>1, <2>3, <2>4, <2>5, <2>6 DEF Control
  <2> QED  BY <2>3, <2>7
<1> QED  BY <1>3, <1>4

LEMMA UsedIsEdges ==
    ASSUME SearchInv, NEW e \in g.edge
    PROVE  work.used \in SUBSET Edges /\ UsedBy(e) \in SUBSET Edges
<1>1. work \in Work /\ request \in Requests
  BY DEF SearchInv, Types
<1>2. work.used \in SUBSET Edges /\ e \in Edges
  BY <1>1, GraphFacts DEF Work
<1> QED  BY <1>2 DEF UsedBy

(* the edge is passed over, or its label stays the better one *)
LEMMA PassedOverSearch ==
    ASSUME SearchInv, NEW e, NEW deadEnd \in BOOLEAN,
           SkipSuperseded(e, deadEnd) \/ Refuse(e, deadEnd) \/ KeepLabel(e, deadEnd)
    PROVE  SearchInv'
<1>1. /\ Evaluates(e, deadEnd)
      /\ UNCHANGED <<request, pass, searchVars, best, cap, pathVars>>
  BY DEF SkipSuperseded, Refuse, KeepLabel, Tries
<1>2. PICK approved \in BOOLEAN, used \in SUBSET Edges : Evaluated(deadEnd, approved, used)
  <2>1. e \in g.edge
    BY <1>1, ExaminedFacts
  <2>2. work.used \in SUBSET Edges /\ UsedBy(e) \in SUBSET Edges
    BY <2>1, UsedIsEdges
  <2>3. (status[work.dir][e].set = "permanent") \in BOOLEAN
    OBVIOUS
  <2> QED  BY <2>2, <2>3 DEF SkipSuperseded, Refuse, KeepLabel
<1>3. work' \in Work /\ Control'
  BY <1>1, <1>2, EvaluatedControl
<1>4. Types'
  BY <1>1, <1>3 DEF SearchInv, Types
<1>5. ConnectionsAreReached'
  BY <1>1, ConnectionsKept
<1> QED  BY <1>1, <1>3, <1>4, <1>5, QuietStep DEF Quiet

LEMMA SetAsideSearch == ASSUME SearchInv, SetAside PROVE SearchInv'
<1>1. /\ pc = "expand" /\ work \in Work /\ request \in Requests
      /\ UNCHANGED <<request, pass, pc, searchVars, best, cap, pathVars>>
      /\ work' = [work EXCEPT !.uturn = NextEdge, !.next = @ + 1]
      /\ ~(work.next > Len(g.out[work.node])) /\ work.trans = 0
      /\ NextEdge = g.out[work.node][work.next]
  BY DEF SearchInv, Types, SetAside, SetsAside, NodeDone, NextEdge
<1>2. work.node \in Nodes /\ work.next \in Nat \ {0} /\ work.node = EndNode
  BY <1>1 DEF Work, SearchInv, Control
<1>3. NextEdge \in g.edge /\ g.from[NextEdge] = EndNode /\ NextEdge \in Edges
  <2>1. g.out[work.node] \in Seq(Edges)
    BY <1>1, <1>2, GraphFacts
  <2>2. NextEdge \in ToSet(g.out[work.node])
    BY <1>1, <1>2, <2>1 DEF ToSet
  <2> QED  BY <1>1, <1>2, <2>2, GraphFacts
<1>4. /\ work' \in Work /\ work'.dir = work.dir /\ work'.node = work.node
      /\ work'.trans = work.trans /\ work'.uturn = NextEdge
  <2> DEFINE n == work.next + 1
             f == NextEdge
  <2>1. work' = [work EXCEPT !.uturn = f, !.next = n] /\ n \in Nat \ {0} /\ f \in Edges
    BY <1>1, <1>2, <1>3
  <2> HIDE DEF n, f
  <2>2. /\ work' \in Work /\ work'.dir = work.dir /\ work'.node = work.node
        /\ work'.trans = work.trans /\ work'.uturn = f
    BY <1>1, <2>1 DEF Work
  <2> QED  BY <2>2 DEF f
<1>5. Types'
  BY <1>1, <1>4 DEF SearchInv, Types
<1>6. EndNode' = EndNode /\ g' = g
  BY <1>1, <1>4 DEF EndNode, Reached, g
<1>7. Control'
  <2>1. \A d \in Directions : HasLabel(d)'
    BY <1>1 DEF SearchInv, Control, HasLabel
  <2> QED  BY <1>1, <1>2, <1>3, <1>4, <1>6, <2>1 DEF Control
<1>8. ConnectionsAreReached'
  BY <1>1, ConnectionsKept
<1> QED  BY <1>1, <1>5, <1>7, <1>8, QuietStep DEF Quiet

LEMMA EndExpandSearch == ASSUME SearchInv, EndExpand PROVE SearchInv'
<1>1. request \in Requests /\ work' = NoWork
      /\ UNCHANGED <<request, pass, searchVars, best, cap, pathVars>>
  BY DEF SearchInv, Types, EndExpand
<1>2. Types'
  BY <1>1, NoWorkIsWork DEF SearchInv, Types
<1>3. Control'
  BY <1>1 DEF SearchInv, Control, EndExpand, HasLabel
<1>4. ConnectionsAreReached'
  BY <1>1, ConnectionsKept
<1> QED  BY <1>1, <1>2, <1>3, <1>4, QuietStep DEF Quiet

(* going up only adds to the transitions counted: a limit reached stays so *)
LEMMA TransitionSearch == ASSUME SearchInv, Transition PROVE SearchInv'
<1> DEFINE n == g.trans[EndNode][work.trans + 1]
<1>1. /\ pc = "expand" /\ work \in Work /\ request \in Requests
      /\ UNCHANGED <<request, pass, pc, labels, status, queue, at, exp, best, cap, pathVars>>
      /\ work.trans < Len(g.trans[EndNode]) /\ Across(n)
  BY DEF SearchInv, Types, Transition
<1>2. work.dir \in Directions /\ at[work.dir] \in DOMAIN labels[work.dir] /\ work.trans \in Nat
  BY <1>1 DEF SearchInv, Control, HasLabel, Work
<1>3. EndNode \in Nodes
  <2>1. LegalLabel(work.dir, at[work.dir])
    BY <1>2 DEF SearchInv, LabelsAreLegal
  <2> QED  BY <1>1, <2>1, GraphFacts DEF LegalLabel, EndNode, Reached
<1>4. n \in ToSet(g.trans[EndNode]) /\ n \in Nodes
  <2>1. g.trans[EndNode] \in Seq(Nodes)
    BY <1>1, <1>3, GraphFacts
  <2> QED  BY <1>1, <1>2, <2>1 DEF ToSet
<1> HIDE DEF n
<1>5. /\ work' \in Work /\ work'.dir = work.dir /\ work'.uturn = work.uturn
      /\ work'.trans # 0 /\ work'.node \in {work.node, n}
  <2> DEFINE t == work.trans + 1
             first == 1
  <2>1. \/ work' = [work EXCEPT !.trans = t, !.node = n, !.next = first]
        \/ work' = [work EXCEPT !.trans = t]
    BY <1>1 DEF Across
  <2>2. t \in Nat \ {0} /\ first \in Nat \ {0}
    BY <1>2
  <2> HIDE DEF t, first
  <2>3. work \in Work
    BY <1>1
  <2>4. CASE work' = [work EXCEPT !.trans = t, !.node = n, !.next = first]
    BY <1>4, <2>2, <2>3, <2>4 DEF Work
  <2>5. CASE work' = [work EXCEPT !.trans = t]
    BY <2>2, <2>3, <2>5 DEF Work
  <2> QED  BY <2>1, <2>4, <2>5
<1>6. /\ up' \in [Directions -> [0..7 -> Nat]]
      /\ \A d \in Directions : \A l \in 0..7 : up'[d][l] >= up[d][l]
  <2>1. up \in [Directions -> [0..7 -> Nat]]
    BY DEF SearchInv, Types
  <2>2. \/ up' = up
        \/ up' = [up EXCEPT ![work.dir][g.level[EndNode]] = @ + 1]
    BY <1>1 DEF Across
  <2>3. g.level[EndNode] \in 0..7
    BY <1>1, <1>3, RequestIsWellFormed DEF Graph, g
  <2> QED  BY <1>2, <2>1, <2>2, <2>3
<1>7. Types'
  BY <1>1, <1>5, <1>6 DEF SearchInv, Types
<1>8. g' = g /\ EndNode' = EndNode
  BY <1>1, <1>5 DEF EndNode, Reached, g
<1>9. Control'
  <2>1. \A d \in Directions : HasLabel(d)'
    BY <1>1 DEF SearchInv, Control, HasLabel
  <2>2. work'.node = EndNode' \/ work'.node \in ToSet(g'.trans[EndNode'])
    BY <1>1, <1>4, <1>5, <1>8 DEF SearchInv, Control
  <2>3. work'.uturn # NoEdge => work'.uturn \in g'.edge /\ g'.from[work'.uturn] = EndNode'
    BY <1>1, <1>5, <1>8 DEF SearchInv, Control
  <2> QED  BY <1>1, <1>5, <2>1, <2>2, <2>3 DEF Control
<1>10. ConnectionsAreReached'
  BY <1>1, ConnectionsKept
<1>11. LabelsAreLegal' /\ StatusPointsAtLabel' /\ ShortcutsAgree' /\ Searched'
  BY <1>1, LabelsKept, SearchedKept DEF SearchInv
<1>12. ShortcutsAreDue'
  <2> SUFFICES ASSUME NEW d \in Directions, NEW e \in g'.edge,
                      (IsShortcut(g, e) /\ IsReached(d, e))'
               PROVE  (\/ Stop(d, LevelOf(e) + 1, Abs(g.pos[g.from[e]] - Own(d)))
                       \/ IsReached(Other(d), g.opp[e]))'
    BY DEF ShortcutsAreDue
  <2>1. IsShortcut(g, e) /\ IsReached(d, e)
    BY <1>1, <1>8 DEF IsReached
  <2>2. \/ Stop(d, LevelOf(e) + 1, Abs(g.pos[g.from[e]] - Own(d)))
        \/ IsReached(Other(d), g.opp[e])
    BY <1>8, <2>1 DEF SearchInv, ShortcutsAreDue
  <2>3. CASE IsReached(Other(d), g.opp[e])
    BY <1>1, <1>8, <2>3 DEF IsReached
  <2>4. CASE Stop(d, LevelOf(e) + 1, Abs(g.pos[g.from[e]] - Own(d)))
    <3>1. LevelOf(e) + 1 \in 0..7
      <4>1. e \in g.edge /\ g.from[e] \in Nodes
        BY <1>1, <1>8, GraphFacts
      <4>2. g.level[g.from[e]] \in 0..2
        BY <1>1, <4>1, RequestIsWellFormed DEF Graph, g
      <4> QED  BY <4>2 DEF LevelOf
    <3>2. Relaxed(request.maxUp, 8)' = Relaxed(request.maxUp, 8)
          /\ Relaxed(request.maxUp, 8) \in Nat
      BY <1>1, RequestIsWellFormed DEF Relaxed, Request
    <3>3. Relaxed(request.within, 2)' = Relaxed(request.within, 2)
      BY <1>1 DEF Relaxed
    <3>4. (LevelOf(e))' = LevelOf(e) /\ Own(d)' = Own(d)
      BY <1>8 DEF LevelOf, Own
    <3>5. up'[d][LevelOf(e) + 1] >= up[d][LevelOf(e) + 1]
          /\ up'[d][LevelOf(e) + 1] \in Nat /\ up[d][LevelOf(e) + 1] \in Nat
      BY <1>6, <3>1 DEF SearchInv, Types
    <3>6. Stop(d, LevelOf(e) + 1, Abs(g.pos[g.from[e]] - Own(d)))'
      BY <1>8, <2>4, <3>2, <3>3, <3>4, <3>5 DEF Stop
    <3> QED  BY <3>6
  <2> QED  BY <2>2, <2>3, <2>4
<1> QED  BY <1>7, <1>9, <1>10, <1>11, <1>12 DEF SearchInv

(* Steps that leave the labels and change a status: the edges reached, and   *)
(* what their statuses point at, stay the same.                               *)
SameReached ==
    \A c \in Directions : \A f \in g.edge :
        /\ IsReached(c, f)' <=> IsReached(c, f)
        /\ IsReached(c, f) => status'[c][f].label = status[c][f].label

LEMMA ReachedKept ==
    ASSUME SearchInv, UNCHANGED <<request, labels>>, SameReached
    PROVE  /\ LabelsAreLegal' /\ StatusPointsAtLabel'
           /\ UNCHANGED <<pass, up>> => ShortcutsAreDue'
<1>1. g' = g /\ request \in Requests
  BY DEF g, SearchInv, Types
<1>2. \A c \in Directions : \A f \in g.edge :
          /\ status'[c][f].set \in SettledSets <=> status[c][f].set \in SettledSets
          /\ status[c][f].set \in SettledSets => status'[c][f].label = status[c][f].label
  BY DEF SameReached, IsReached
<1>3. LabelsAreLegal'
  <2> SUFFICES ASSUME NEW d \in Directions, NEW i \in DOMAIN labels[d] PROVE LegalLabel(d, i)'
    BY DEF LabelsAreLegal
  <2>1. LegalLabel(d, i)
    BY DEF SearchInv, LabelsAreLegal
  <2>2. labels[d][i].edge \in g.edge /\ status[d][labels[d][i].edge].set \in SettledSets
    BY <2>1 DEF LegalLabel, IsReached
  <2>3. status'[d][labels[d][i].edge].set \in SettledSets
    BY <1>2, <2>2
  <2> QED  BY <2>1, <2>3 DEF LegalLabel, GoesOn, Offers, Candidates, Own, Driven, IsReached, g
<1>4. StatusPointsAtLabel'
  <2> SUFFICES ASSUME NEW d \in Directions, NEW e \in g.edge, status'[d][e].set \in SettledSets
               PROVE  status'[d][e].label \in DOMAIN labels[d]
                      /\ labels[d][status'[d][e].label].edge = e
    BY <1>1 DEF StatusPointsAtLabel, SettledSets
  <2> QED  BY <1>2 DEF SearchInv, StatusPointsAtLabel, SettledSets
<1>5. ASSUME UNCHANGED <<pass, up>> PROVE ShortcutsAreDue'
  <2> SUFFICES ASSUME NEW d \in Directions, NEW e \in g.edge,
                      IsShortcut(g, e), status'[d][e].set \in SettledSets
               PROVE  \/ Stop(d, LevelOf(e) + 1, Abs(g.pos[g.from[e]] - Own(d)))'
                      \/ status'[Other(d)][g.opp[e]].set \in SettledSets
    BY <1>1 DEF ShortcutsAreDue, IsReached
  <2>1. \/ Stop(d, LevelOf(e) + 1, Abs(g.pos[g.from[e]] - Own(d)))
        \/ status[Other(d)][g.opp[e]].set \in SettledSets
    BY <1>2 DEF SearchInv, ShortcutsAreDue, IsReached
  <2>2. Stop(d, LevelOf(e) + 1, Abs(g.pos[g.from[e]] - Own(d)))'
          <=> Stop(d, LevelOf(e) + 1, Abs(g.pos[g.from[e]] - Own(d)))
    BY <1>5 DEF Stop, Relaxed, LevelOf, Own, g
  <2>3. Other(d) \in Directions /\ g.opp[e] \in g.edge
    BY <1>1, GraphFacts DEF Other
  <2> QED  BY <1>2, <2>1, <2>2, <2>3
<1> QED  BY <1>3, <1>4, <1>5

LEMMA ReachedConnections ==
    ASSUME SearchInv, UNCHANGED <<request, best>>,
           \A c \in Directions : \A f \in g.edge : IsReached(c, f) => IsReached(c, f)'
    PROVE  ConnectionsAreReached'
<1>1. g' = g /\ request \in Requests
  BY DEF g, SearchInv, Types
<1>2. \A c \in Directions : \A f \in g.edge :
          status[c][f].set \in SettledSets => status'[c][f].set \in SettledSets
  BY DEF IsReached
<1>3. \A k \in DOMAIN best :
          /\ best[k].edge \in g.edge /\ best[k].opp = g.opp[best[k].edge]
          /\ status[Fwd][best[k].edge].set \in SettledSets
          /\ status[Rev][best[k].opp].set \in SettledSets /\ best[k].opp \in g.edge
  BY <1>1, GraphFacts DEF SearchInv, ConnectionsAreReached, IsReached
<1> QED  BY <1>1, <1>2, <1>3 DEF ConnectionsAreReached, IsReached

(* a shortcut reached before is taken again, never skipped *)
LEMMA SkippedIsNotReached ==
    ASSUME SearchInv, NEW e, NEW deadEnd \in BOOLEAN, Evaluates(e, deadEnd),
           IsShortcut(g, e), ~TakesShortcut(work.dir, e)
    PROVE  ~IsReached(work.dir, e)
<1> DEFINE d == work.dir
<1>1. /\ d \in Directions /\ at[d] \in DOMAIN labels[d] /\ e \in g.edge
      /\ g.from[e] = EndNode \/ g.from[e] \in ToSet(g.trans[EndNode])
      /\ EndNode \in Nodes /\ request \in Requests
  BY ExaminedFacts DEF SearchInv, Types
<1> HIDE DEF d
<1>2. Reached(d).dist = Abs(g.pos[g.from[e]] - Own(d))
  <2>1. Reached(d).dist = Abs(g.pos[EndNode] - Own(d))
    <3>1. LegalLabel(d, at[d])
      BY <1>1 DEF SearchInv, LabelsAreLegal
    <3> QED  BY <3>1 DEF LegalLabel, EndNode, Reached, d
  <2>2. g.pos[EndNode] = g.pos[g.from[e]]
    BY <1>1, GraphFacts
  <2> QED  BY <2>1, <2>2
<1>3. SUFFICES ASSUME IsReached(d, e) PROVE FALSE
  BY DEF d
<1>4. status[Other(d)][g.opp[e]].set # "skipped"
  BY <1>1, <1>3 DEF SearchInv, ShortcutsAgree, IsReached, SettledSets
<1>5. \/ Stop(d, LevelOf(e) + 1, Reached(d).dist)
      \/ IsReached(Other(d), g.opp[e])
  BY <1>1, <1>2, <1>3 DEF SearchInv, ShortcutsAreDue
<1> QED  BY <1>4, <1>5 DEF TakesShortcut, IsReached, SettledSets, d

LEMMA SkipShortcutSearch ==
    ASSUME SearchInv, NEW e, NEW deadEnd \in BOOLEAN, SkipShortcut(e, deadEnd) PROVE SearchInv'
<1> DEFINE d == work.dir
<1>1. /\ Evaluates(e, deadEnd) /\ IsShortcut(g, e) /\ ~TakesShortcut(work.dir, e)
      /\ status' = [status EXCEPT ![d][e] = Skipped]
      /\ Evaluated(deadEnd, FALSE, work.used)
      /\ UNCHANGED <<request, pass, labels, queue, up, at, exp, best, cap, pathVars>>
  BY DEF SkipShortcut
<1>2. /\ d \in Directions /\ e \in g.edge /\ e \in Edges /\ request \in Requests
      /\ status \in [Directions -> [Edges -> Status]] /\ g.edge \subseteq Edges
  <2>1. d \in Directions /\ e \in g.edge
    BY <1>1, ExaminedFacts
  <2>2. request \in Requests /\ status \in [Directions -> [Edges -> Status]]
    BY DEF SearchInv, Types
  <2>3. g.edge \subseteq Edges
    BY <2>2, GraphFacts
  <2> QED  BY <2>1, <2>2, <2>3
<1>3. ~IsReached(d, e)
  BY <1>1, SkippedIsNotReached
<1> HIDE DEF d
<1>4. /\ Skipped \in Status /\ Skipped.set = "skipped"
      /\ status' \in [Directions -> [Edges -> Status]]
      /\ \A c \in Directions : \A f \in Edges :
            status'[c][f] = IF c = d /\ f = e THEN Skipped ELSE status[c][f]
  <2>1. Skipped \in Status /\ Skipped.set = "skipped"
    BY DEF Skipped, Status
  <2> QED  BY <1>1, <1>2, <2>1
<1>5. SameReached
  <2> SUFFICES ASSUME NEW c \in Directions, NEW f \in g.edge
               PROVE  /\ status'[c][f].set \in SettledSets <=> status[c][f].set \in SettledSets
                      /\ status[c][f].set \in SettledSets =>
                            status'[c][f].label = status[c][f].label
    BY DEF SameReached, IsReached
  <2> QED  BY <1>2, <1>3, <1>4 DEF IsReached, SettledSets
<1>6. LabelsAreLegal' /\ StatusPointsAtLabel' /\ ShortcutsAreDue' /\ Searched'
      /\ ConnectionsAreReached'
  BY <1>1, <1>5, ReachedKept, ReachedConnections, SearchedKept DEF SearchInv, SameReached
<1>7. ShortcutsAgree'
  <2>1. g' = g
    BY <1>1 DEF g
  <2> SUFFICES ASSUME NEW c \in Directions, NEW f \in g.edge, IsShortcut(g, f),
                      status'[c][f].set \in SettledSets
               PROVE  status'[Other(c)][g.opp[f]].set # "skipped"
    BY <2>1 DEF ShortcutsAgree, SettledSets
  <2>2. status[c][f].set \in SettledSets
    BY <1>5 DEF SameReached, IsReached
  <2>3. status[Other(c)][g.opp[f]].set # "skipped"
    BY <2>2 DEF SearchInv, ShortcutsAgree, SettledSets
  <2>4. g.opp[f] \in g.edge /\ Other(c) \in Directions /\ g.opp[g.opp[f]] = f
        /\ Other(Other(c)) = c
    BY <1>2, GraphFacts DEF Other
  <2>5. ~(Other(c) = d /\ g.opp[f] = e)
    <3> SUFFICES ASSUME Other(c) = d, g.opp[f] = e PROVE FALSE
      OBVIOUS
    <3>1. status[Other(d)][g.opp[e]].set \in SettledSets
      BY <2>2, <2>4
    <3> QED  BY <1>1, <3>1 DEF TakesShortcut, SettledSets, d
  <2> QED  BY <1>2, <1>4, <2>3, <2>4, <2>5
<1>8. work' \in Work /\ Control'
  <2>1. work.used \in SUBSET Edges
    BY <1>2, UsedIsEdges
  <2> QED  BY <1>1, <2>1, EvaluatedControl
<1>9. Types'
  BY <1>1, <1>4, <1>8 DEF SearchInv, Types
<1> QED  BY <1>6, <1>7, <1>8, <1>9 DEF SearchInv

(* What settling the edge of label i keeps, whatever the loop does next. *)
LEMMA SettleKeeps ==
    ASSUME SearchInv, NEW d \in Directions, NEW i, Settle(d, i)
    PROVE  /\ status' \in [Directions -> [Edges -> Status]] /\ at' \in [Directions -> Nat]
           /\ SameReached /\ i \in DOMAIN labels[d] /\ at'[d] = i
           /\ \A c \in Directions : c # d => at'[c] = at[c]
           /\ LabelsAreLegal' /\ StatusPointsAtLabel' /\ ShortcutsAreDue' /\ ShortcutsAgree'
           /\ Searched'
<1> DEFINE x == labels[d][i].edge
<1>1. /\ i \in DOMAIN labels[d] /\ at' = [at EXCEPT ![d] = i]
      /\ status' = [status EXCEPT ![d][x].set = "permanent"]
      /\ UNCHANGED <<request, pass, labels, up, exp, work, pathVars>>
  BY DEF Settle
<1>2. /\ status \in [Directions -> [Edges -> Status]] /\ request \in Requests
      /\ at \in [Directions -> Nat] /\ labels[d] \in Seq(LabelT)
  BY DEF SearchInv, Types
<1>3. x \in g.edge /\ x \in Edges /\ IsReached(d, x) /\ g.edge \subseteq Edges
  <2>1. x \in g.edge /\ IsReached(d, x)
    BY <1>1 DEF SearchInv, LabelsAreLegal, LegalLabel
  <2>2. g.edge \subseteq Edges
    BY <1>2, GraphFacts
  <2> QED  BY <2>1, <2>2
<1> HIDE DEF x
<1>4. /\ status' \in [Directions -> [Edges -> Status]]
      /\ \A c \in Directions : \A f \in Edges :
            /\ status'[c][f].label = status[c][f].label
            /\ status'[c][f].set = IF c = d /\ f = x THEN "permanent" ELSE status[c][f].set
  <2>1. status[d][x] \in Status
    BY <1>2, <1>3
  <2>2. [status[d][x] EXCEPT !.set = "permanent"] \in Status
    BY <2>1 DEF Status
  <2>3. /\ [status[d][x] EXCEPT !.set = "permanent"].set = "permanent"
        /\ [status[d][x] EXCEPT !.set = "permanent"].label = status[d][x].label
    BY <2>1 DEF Status
  <2> DEFINE s == [status[d][x] EXCEPT !.set = "permanent"]
  <2>4. status' = [status EXCEPT ![d] = [status[d] EXCEPT ![x] = s]]
    BY <1>1
  <2> HIDE DEF s
  <2>5. s \in Status /\ s.set = "permanent" /\ s.label = status[d][x].label
    BY <2>2, <2>3 DEF s
  <2>6. status' \in [Directions -> [Edges -> Status]]
    BY <1>2, <1>3, <2>4, <2>5
  <2>7. \A c \in Directions : \A f \in Edges :
            status'[c][f] = IF c = d /\ f = x THEN s ELSE status[c][f]
    BY <1>2, <1>3, <2>4
  <2> QED  BY <2>5, <2>6, <2>7
<1>5. SameReached
  <2> SUFFICES ASSUME NEW c \in Directions, NEW f \in g.edge
               PROVE  /\ status'[c][f].set \in SettledSets <=> status[c][f].set \in SettledSets
                      /\ status'[c][f].label = status[c][f].label
    BY DEF SameReached, IsReached
  <2> QED  BY <1>3, <1>4 DEF IsReached, SettledSets
<1>6. LabelsAreLegal' /\ StatusPointsAtLabel' /\ ShortcutsAreDue' /\ Searched'
  BY <1>1, <1>5, ReachedKept, SearchedKept DEF SearchInv
<1>7. ShortcutsAgree'
  <2>1. g' = g
    BY <1>1 DEF g
  <2> SUFFICES ASSUME NEW c \in Directions, NEW f \in g.edge, IsShortcut(g, f),
                      status'[c][f].set \in SettledSets
               PROVE  status'[Other(c)][g.opp[f]].set # "skipped"
    BY <2>1 DEF ShortcutsAgree, SettledSets
  <2>2. status[c][f].set \in SettledSets
    BY <1>5 DEF SameReached, IsReached
  <2>3. status[Other(c)][g.opp[f]].set # "skipped"
    BY <2>2 DEF SearchInv, ShortcutsAgree, SettledSets
  <2>4. g.opp[f] \in Edges /\ Other(c) \in Directions
    BY <1>2, GraphFacts DEF Other
  <2> QED  BY <1>4, <2>3, <2>4
<1>8. at' \in [Directions -> Nat] /\ at'[d] = i /\ \A c \in Directions : c # d => at'[c] = at[c]
  <2>1. i \in Nat
    BY <1>1, <1>2
  <2> QED  BY <1>1, <1>2, <2>1
<1> QED  BY <1>1, <1>4, <1>5, <1>6, <1>7, <1>8

(* the label reached is a whole number of cost away from its root *)
LEMMA LabelCosts ==
    ASSUME SearchInv, NEW d \in Directions, NEW i \in DOMAIN labels[d]
    PROVE  /\ labels[d][i].cost \in Int /\ labels[d][i].turn \in Int
           /\ labels[d][i].pred \in Nat /\ labels[d][i].edge \in Edges
           /\ labels[d][i].opp \in Edges \cup {NoEdge}
<1>1. labels[d] \in Seq(LabelT)
  BY DEF SearchInv, Types
<1>2. labels[d][i] \in LabelT
  BY <1>1
<1> QED  BY <1>2 DEF LabelT

(* A connection joins an edge both searches have reached. *)
LEMMA ConnectionFacts ==
    ASSUME SearchInv, NEW d \in Directions, NEW i \in DOMAIN labels[d], MeetsOther(d, i)
    PROVE  LET c == ConnectionOf(d, i)
           IN /\ c \in ConnectionT
              /\ c.edge \in g.edge /\ c.opp = g.opp[c.edge]
              /\ IsReached(Fwd, c.edge) /\ IsReached(Rev, c.opp)
<1> DEFINE p == labels[d][i]
           j == status[Other(d)][p.opp].label
           q == labels[Other(d)][j]
           cost == ConnectionCost(d, i)
<1>1. Other(d) \in Directions /\ request \in Requests
  BY DEF Other, SearchInv, Types
<1>2. /\ p.edge \in g.edge /\ p.opp = g.opp[p.edge] /\ IsReached(d, p.edge)
      /\ p.pred # NoLabel => p.pred \in DOMAIN labels[d]
  BY DEF SearchInv, LabelsAreLegal, LegalLabel, MeetsOther
<1>3. /\ p.opp \in g.edge /\ g.opp[p.opp] = p.edge /\ p.edge \in Edges /\ p.opp \in Edges
  BY <1>1, <1>2, GraphFacts
<1>4. IsReached(Other(d), p.opp)
  BY DEF MeetsOther, IsReached, SettledSets
<1>5. j \in DOMAIN labels[Other(d)]
  BY <1>1, <1>3, <1>4 DEF SearchInv, StatusPointsAtLabel, IsReached, SettledSets
<1>6. q.pred # NoLabel => q.pred \in DOMAIN labels[Other(d)]
  BY <1>1, <1>5 DEF SearchInv, LabelsAreLegal, LegalLabel
<1>7. cost \in Int
  <2>1. p.cost \in Int /\ p.turn \in Int /\ q.cost \in Int /\ q.turn \in Int
    BY <1>1, <1>5, LabelCosts
  <2>2. p.pred # NoLabel => labels[d][p.pred].cost \in Int
    BY <1>2, LabelCosts
  <2>3. q.pred # NoLabel => labels[Other(d)][q.pred].cost \in Int
    BY <1>1, <1>6, LabelCosts
  <2> HIDE DEF p, q
  <2>4. cost = IF p.pred # NoLabel THEN labels[d][p.pred].cost + q.cost + p.turn
               ELSE p.cost + q.turn
                    + (IF q.pred = NoLabel THEN 0 ELSE labels[Other(d)][q.pred].cost)
    BY DEF ConnectionCost, p, q
  <2> HIDE DEF cost
  <2> QED  BY <2>1, <2>2, <2>3, <2>4
<1>8. ConnectionOf(d, i) = [edge |-> IF d = Fwd THEN p.edge ELSE p.opp,
                            opp |-> IF d = Fwd THEN p.opp ELSE p.edge, cost |-> cost]
  BY DEF ConnectionOf
<1> HIDE DEF p, cost
<1>9. CASE d = Fwd
  <2>1. ConnectionOf(d, i) = [edge |-> p.edge, opp |-> p.opp, cost |-> cost]
    BY <1>8, <1>9
  <2> QED  BY <2>1, <1>2, <1>3, <1>4, <1>7, <1>9 DEF Other, ConnectionT
<1>10. CASE d = Rev
  <2>1. ConnectionOf(d, i) = [edge |-> p.opp, opp |-> p.edge, cost |-> cost]
    BY <1>8, <1>10
  <2> QED  BY <2>1, <1>2, <1>3, <1>4, <1>7, <1>10 DEF Other, ConnectionT
<1> QED  BY <1>9, <1>10

LEMMA KeepBestFacts ==
    ASSUME NEW S, NEW c \in S, best \in Seq(S)
    PROVE  /\ KeepBest(c) \in Seq(S)
           /\ \A k \in DOMAIN KeepBest(c) :
                 KeepBest(c)[k] = c \/ \E j \in DOMAIN best : KeepBest(c)[k] = best[j]
<1>1. CASE best # <<>> /\ c.cost < best[1].cost
  <2> DEFINE b == [best EXCEPT ![1] = c]
  <2>1. b \in Seq(S) /\ Len(b) = Len(best) /\ 1 \in DOMAIN best /\ best[1] \in S
        /\ \A k \in 1..Len(best) : b[k] = IF k = 1 THEN c ELSE best[k]
    BY <1>1
  <2> HIDE DEF b
  <2>2. KeepBest(c) = Append(b, best[1])
    BY <1>1 DEF KeepBest, b
  <2> QED  BY <2>1, <2>2
<1>2. CASE ~(best # <<>> /\ c.cost < best[1].cost)
  <2>1. KeepBest(c) = Append(best, c)
    BY <1>2 DEF KeepBest
  <2> QED  BY <2>1
<1> QED  BY <1>1, <1>2

LEMMA SettledSearch ==
    ASSUME SearchInv, NEW d \in Directions, NEW i, StopAt(d, i) \/ Connect(d, i) \/ GoOn(d, i)
    PROVE  SearchInv'
<1>1. /\ Settle(d, i) /\ Turns(d)
      /\ UNCHANGED <<request, pass, labels, up, exp, work, pathVars>>
  BY DEF StopAt, Connect, GoOn, Settle
<1>2. /\ status' \in [Directions -> [Edges -> Status]] /\ at' \in [Directions -> Nat]
      /\ SameReached /\ i \in DOMAIN labels[d] /\ at'[d] = i
      /\ \A c \in Directions : c # d => at'[c] = at[c]
      /\ LabelsAreLegal' /\ StatusPointsAtLabel' /\ ShortcutsAreDue' /\ ShortcutsAgree'
      /\ Searched'
  BY <1>1, SettleKeeps
<1>3. /\ best' \in Seq(ConnectionT) /\ ConnectionsAreReached'
  <2>1. best \in Seq(ConnectionT) /\ g' = g
    BY <1>1 DEF SearchInv, Types, g
  <2>2. \A c \in Directions : \A f \in g.edge : IsReached(c, f) <=> IsReached(c, f)'
    BY <1>2 DEF SameReached
  <2>3. CASE best' = best
    <3>1. ConnectionsAreReached'
      BY <1>1, <2>2, <2>3, ReachedConnections
    <3> QED  BY <2>1, <2>3, <3>1
  <2>4. CASE Connect(d, i)
    <3> DEFINE c == ConnectionOf(d, i)
    <3>1. MeetsOther(d, i) /\ best' = KeepBest(c)
      BY <2>4 DEF Connect
    <3>2. /\ c \in ConnectionT
          /\ c.edge \in g.edge /\ c.opp = g.opp[c.edge]
          /\ IsReached(Fwd, c.edge) /\ IsReached(Rev, c.opp)
      BY <1>2, <3>1, ConnectionFacts
    <3> HIDE DEF c
    <3>3. /\ best' \in Seq(ConnectionT)
          /\ \A k \in DOMAIN best' : best'[k] = c \/ \E j \in DOMAIN best : best'[k] = best[j]
      BY <2>1, <3>1, <3>2, KeepBestFacts
    <3>4. ConnectionsAreReached'
      <4> SUFFICES ASSUME NEW k \in DOMAIN best'
                   PROVE  /\ best'[k].edge \in g.edge /\ best'[k].opp = g.opp[best'[k].edge]
                          /\ status'[Fwd][best'[k].edge].set \in SettledSets
                          /\ status'[Rev][best'[k].opp].set \in SettledSets
        BY <2>1 DEF ConnectionsAreReached, IsReached
      <4>1. PICK b : /\ b = best'[k] /\ b.edge \in g.edge /\ b.opp = g.opp[b.edge]
                     /\ IsReached(Fwd, b.edge) /\ IsReached(Rev, b.opp)
        BY <3>2, <3>3 DEF SearchInv, ConnectionsAreReached
      <4>2. b.opp \in g.edge
        BY <4>1, GraphFacts DEF SearchInv, Types
      <4> QED  BY <2>2, <4>1, <4>2 DEF IsReached
    <3> QED  BY <3>3, <3>4
  <2>5. best' = best \/ Connect(d, i)
    BY DEF StopAt, GoOn
  <2> QED  BY <2>3, <2>4, <2>5
<1>4. Types'
  BY <1>1, <1>2, <1>3 DEF SearchInv, Types
<1>5. HasLabel(d)' /\ \A c \in Directions : HasLabel(c) => HasLabel(c)'
  BY <1>1, <1>2 DEF HasLabel
<1>6. Control'
  <2>1. CASE StopAt(d, i)
    BY <2>1 DEF StopAt, Control
  <2>2. CASE Connect(d, i)
    <3>1. pc' = Fwd
      BY <2>2 DEF Connect
    <3>2. \A c \in Directions : exp'[c] \/ HasLabel(c)'
      BY <1>1, <1>5 DEF SearchInv, Control, Turns
    <3> QED  BY <3>1, <3>2 DEF Control
  <2>3. CASE GoOn(d, i)
    <3>1. pc' = AfterPop(d) /\ pc = d
      BY <1>1, <2>3 DEF GoOn, Turns
    <3>2. CASE d = Fwd
      <4>1. pc' = Rev /\ HasLabel(Fwd)' /\ (exp'[Rev] \/ HasLabel(Rev)')
        BY <1>1, <1>5, <3>1, <3>2 DEF SearchInv, Control, AfterPop
      <4> QED  BY <4>1 DEF Control
    <3>3. CASE d = Rev
      <4>1. pc' = "choose" /\ HasLabel(Fwd)' /\ HasLabel(Rev)'
        BY <1>5, <3>1, <3>3 DEF SearchInv, Control, AfterPop
      <4> QED  BY <4>1 DEF Control
    <3> QED  BY <3>2, <3>3
  <2> QED  BY <2>1, <2>2, <2>3
<1> QED  BY <1>2, <1>3, <1>4, <1>6 DEF SearchInv

(* the edge ExpandInner admits may be driven after, or in the reverse search *)
(* before, the edge of the label expanded                                     *)
LEMMA AdmittedFacts ==
    ASSUME SearchInv, NEW e, NEW deadEnd \in BOOLEAN, Evaluates(e, deadEnd), Admits(e, deadEnd)
    PROVE  /\ Permitted(g, Driven(work.dir, e))
           /\ GoesOn(work.dir, Reached(work.dir).edge, e)
           /\ CostTo(work.dir, e) \in Int /\ TurnCost(work.dir, Reached(work.dir).edge, e) \in Int
<1> DEFINE d == work.dir
           p == Reached(d).edge
<1>1. /\ d \in Directions /\ at[d] \in DOMAIN labels[d] /\ e \in g.edge
      /\ g.from[e] = EndNode \/ g.from[e] \in ToSet(g.trans[EndNode])
      /\ EndNode \in Nodes
  BY ExaminedFacts
<1>2. request \in Requests
  BY DEF SearchInv, Types
<1>3. p \in g.edge /\ EndNode = g.to[p]
  <2>1. LegalLabel(d, at[d])
    BY <1>1 DEF SearchInv, LabelsAreLegal
  <2> QED  BY <2>1 DEF LegalLabel, Reached, EndNode
<1>4. Allowed(d, p, e, deadEnd)
  BY DEF Admits
<1> HIDE DEF d, p
<1>5. Permitted(g, Driven(d, e)) /\ TurnOnto(d, p, e) \notin g.banned
  BY <1>4 DEF Allowed, Permitted
<1>6. GoesOn(d, p, e)
  <2>1. CASE d = Fwd
    BY <1>1, <1>3, <1>5, <2>1 DEF GoesOn, Follows, Meets, TurnOnto
  <2>2. CASE d = Rev
    <3>1. /\ g.from[g.opp[p]] = EndNode /\ g.to[g.opp[e]] = g.from[e] /\ g.from[e] \in Nodes
      BY <1>1, <1>2, <1>3, GraphFacts
    <3>2. EndNode = g.from[e] \/ EndNode \in ToSet(g.trans[g.from[e]])
      BY <1>1, <1>2, GraphFacts
    <3>3. Meets(g, g.opp[e], g.opp[p])
      BY <3>1, <3>2 DEF Meets
    <3>4. Turn(g, g.opp[e], g.opp[p]) \notin g.banned
      BY <1>5, <2>2 DEF TurnOnto
    <3> QED  BY <2>2, <3>3, <3>4 DEF GoesOn, Follows
  <2> QED  BY <1>1, <2>1, <2>2
<1>7. TurnCost(d, p, e) \in Int
  BY DEF TurnCost, TransitionCost
<1>8. CostTo(d, e) \in Int
  <2>1. Driven(d, e) \in Edges
    BY <1>1, <1>2, GraphFacts DEF Driven
  <2>2. g.cost[Driven(d, e)] \in Nat
    BY <1>2, <2>1, RequestIsWellFormed DEF Graph, g
  <2>3. Reached(d).cost \in Int
    BY <1>1, LabelCosts DEF Reached
  <2> QED  BY <1>7, <2>2, <2>3 DEF CostTo, p
<1> QED  BY <1>5, <1>6, <1>7, <1>8 DEF d, p

(* The label of an edge stays legal when others are added or improved. *)
LEMMA LabelStays ==
    ASSUME SearchInv, UNCHANGED request, NEW c \in Directions, NEW j \in DOMAIN labels[c],
           labels'[c][j] = labels[c][j],
           \A k \in DOMAIN labels[c] :
               k \in DOMAIN labels'[c] /\ labels'[c][k].edge = labels[c][k].edge,
           \A f \in g.edge : status[c][f].set \in SettledSets => status'[c][f].set \in SettledSets
    PROVE  LegalLabel(c, j)'
<1>1. LegalLabel(c, j)
  BY DEF SearchInv, LabelsAreLegal
<1>2. status'[c][labels[c][j].edge].set \in SettledSets
  BY <1>1 DEF LegalLabel, IsReached
<1>3. g' = g
  BY DEF g
<1> DEFINE l == labels[c][j]
<1>4. l.pred # NoLabel => l.pred \in DOMAIN labels'[c]
                          /\ GoesOn(c, labels'[c][l.pred].edge, l.edge)
  BY <1>1 DEF LegalLabel
<1>5. l.pred = NoLabel => Offers(c, Driven(c, l.edge))
  BY <1>1 DEF LegalLabel
<1>6. /\ l.edge \in g.edge /\ Permitted(g, Driven(c, l.edge))
      /\ l.opp # NoEdge => l.opp = g.opp[l.edge]
      /\ l.dist = Abs(g.pos[g.to[l.edge]] - Own(c))
  BY <1>1 DEF LegalLabel
<1> QED
  BY <1>2, <1>3, <1>4, <1>5, <1>6
     DEF LegalLabel, IsReached, GoesOn, Offers, Candidates, Driven, Own

LEMMA ImproveSearch ==
    ASSUME SearchInv, NEW e, NEW deadEnd \in BOOLEAN, Improve(e, deadEnd) PROVE SearchInv'
<1> DEFINE d == work.dir
           i == status[d][e].label
           l == labels[d][i]
           sort == l.sort - (l.cost - CostTo(d, e))
           turn == TurnCost(d, Reached(d).edge, e)
           new == [l EXCEPT !.pred = at[d], !.cost = CostTo(d, e), !.sort = sort, !.turn = turn]
<1>1. /\ Evaluates(e, deadEnd) /\ Admits(e, deadEnd) /\ status[d][e].set = "temporary"
      /\ labels' = [labels EXCEPT ![d][i] = new]
      /\ Evaluated(deadEnd, TRUE, UsedBy(e))
      /\ UNCHANGED <<request, pass, status, up, at, exp, best, cap, pathVars>>
  BY DEF Improve, Tries
<1>2. /\ d \in Directions /\ at[d] \in DOMAIN labels[d] /\ e \in g.edge
  BY <1>1, ExaminedFacts
<1>3. /\ labels \in [Directions -> Seq(LabelT)] /\ request \in Requests
      /\ at[d] \in Nat \ {0}
  <2>1. labels \in [Directions -> Seq(LabelT)] /\ request \in Requests
    BY DEF SearchInv, Types
  <2>2. labels[d] \in Seq(LabelT)
    BY <1>2, <2>1
  <2> QED  BY <1>2, <2>1, <2>2
<1>4. i \in DOMAIN labels[d] /\ l.edge = e
  BY <1>1, <1>2 DEF SearchInv, StatusPointsAtLabel
<1>5. l \in LabelT
  BY <1>2, <1>3, <1>4
<1>6. /\ Permitted(g, Driven(d, e)) /\ GoesOn(d, Reached(d).edge, e)
      /\ CostTo(d, e) \in Int /\ turn \in Int
  BY <1>1, AdmittedFacts
<1>7. sort \in Int
  <2>1. l.sort \in Int /\ l.cost \in Int
    BY <1>5 DEF LabelT
  <2> HIDE DEF l
  <2> QED  BY <1>6, <2>1
<1> HIDE DEF d, i, sort, turn
<1>8. /\ new \in LabelT /\ new.edge = e /\ new.pred = at[d] /\ new.opp = l.opp
      /\ new.dist = l.dist
  <2> HIDE DEF l
  <2> QED  BY <1>3, <1>4, <1>5, <1>6, <1>7 DEF LabelT
<1> HIDE DEF new
<1>9. /\ labels' \in [Directions -> Seq(LabelT)]
      /\ \A c \in Directions :
            /\ DOMAIN labels'[c] = DOMAIN labels[c]
            /\ \A j \in DOMAIN labels[c] :
                  labels'[c][j] = IF c = d /\ j = i THEN new ELSE labels[c][j]
  <2> DEFINE s == [labels[d] EXCEPT ![i] = new]
  <2>1. labels[d] \in Seq(LabelT)
    BY <1>2, <1>3
  <2>2. s \in Seq(LabelT) /\ DOMAIN s = DOMAIN labels[d]
        /\ \A j \in DOMAIN s : s[j] = IF j = i THEN new ELSE labels[d][j]
    BY <1>4, <1>8, <2>1
  <2>3. labels' = [labels EXCEPT ![d] = s]
    BY <1>1
  <2> HIDE DEF s
  <2> QED  BY <1>2, <1>3, <2>2, <2>3
<1>10. \A c \in Directions : \A j \in DOMAIN labels[c] :
           j \in DOMAIN labels'[c] /\ labels'[c][j].edge = labels[c][j].edge
  BY <1>4, <1>8, <1>9
<1>11. work' \in Work /\ Control'
  <2>1. UsedBy(e) \in SUBSET Edges
    BY <1>2, UsedIsEdges
  <2> QED  BY <1>1, <1>10, <2>1, EvaluatedControl
<1>12. Types'
  BY <1>1, <1>9, <1>11 DEF SearchInv, Types
<1>13. g' = g
  BY <1>1 DEF g
<1>14. LabelsAreLegal'
  <2> SUFFICES ASSUME NEW c \in Directions, NEW j \in DOMAIN labels[c] PROVE LegalLabel(c, j)'
    BY <1>9 DEF LabelsAreLegal
  <2>1. CASE ~(c = d /\ j = i)
    <3>1. labels'[c][j] = labels[c][j]
      BY <1>9, <2>1
    <3> QED  BY <1>1, <1>10, <3>1, LabelStays
  <2>2. CASE c = d /\ j = i
    <3>1. /\ labels'[d][i] = new /\ at[d] # NoLabel /\ at[d] \in DOMAIN labels'[d]
          /\ labels'[d][at[d]].edge = Reached(d).edge
      BY <1>2, <1>3, <1>4, <1>9, <1>10 DEF Reached
    <3>2. /\ e \in g.edge /\ IsReached(d, e)
          /\ new.opp # NoEdge => new.opp = g.opp[e]
          /\ new.dist = Abs(g.pos[g.to[e]] - Own(d))
      <4>1. LegalLabel(d, i)
        BY <1>2, <1>4 DEF SearchInv, LabelsAreLegal
      <4> QED  BY <1>4, <1>8, <4>1 DEF LegalLabel
    <3> QED
      BY <1>1, <1>6, <1>8, <1>13, <2>2, <3>1, <3>2
         DEF LegalLabel, IsReached, GoesOn, Driven, Own
  <2> QED  BY <2>1, <2>2
<1>15. StatusPointsAtLabel' /\ ShortcutsAgree'
  BY <1>1, <1>10, <1>13 DEF SearchInv, StatusPointsAtLabel, ShortcutsAgree
<1>16. ShortcutsAreDue' /\ ConnectionsAreReached' /\ Searched'
  BY <1>1, DueKept, ConnectionsKept, SearchedKept DEF SearchInv
<1> QED  BY <1>11, <1>12, <1>14, <1>15, <1>16 DEF SearchInv

LEMMA ReachSearch ==
    ASSUME SearchInv, NEW e, NEW deadEnd \in BOOLEAN, Reach(e, deadEnd) PROVE SearchInv'
<1> DEFINE d == work.dir
           i == Len(labels[d]) + 1
           new == NewLabel(d, e)
           here == [set |-> "temporary", label |-> i]
           approved == ~(Reached(d).prune /\ g.notThru[e])
<1>1. /\ Evaluates(e, deadEnd) /\ Admits(e, deadEnd) /\ ~IsReached(d, e)
      /\ IsShortcut(g, e) => TakesShortcut(d, e)
      /\ labels' = [labels EXCEPT ![d] = Append(@, new)]
      /\ status' = [status EXCEPT ![d][e] = here]
      /\ Evaluated(deadEnd, approved, UsedBy(e))
      /\ UNCHANGED <<request, pass, up, at, exp, best, cap, pathVars>>
  BY DEF Reach, Tries, Admits, NewIndex, IsReached, SettledSets
<1>2. /\ d \in Directions /\ at[d] \in DOMAIN labels[d] /\ e \in g.edge
      /\ g.from[e] = EndNode \/ g.from[e] \in ToSet(g.trans[EndNode])
      /\ EndNode \in Nodes
  BY <1>1, ExaminedFacts
<1>3. /\ labels \in [Directions -> Seq(LabelT)] /\ request \in Requests
      /\ status \in [Directions -> [Edges -> Status]]
      /\ at[d] \in Nat \ {0} /\ labels[d] \in Seq(LabelT) /\ g.edge \subseteq Edges
  <2>1. /\ labels \in [Directions -> Seq(LabelT)] /\ request \in Requests
        /\ status \in [Directions -> [Edges -> Status]]
    BY DEF SearchInv, Types
  <2>2. labels[d] \in Seq(LabelT)
    BY <1>2, <2>1
  <2>3. g.edge \subseteq Edges
    BY <2>1, GraphFacts
  <2> QED  BY <1>2, <2>1, <2>2, <2>3
<1>4. /\ Permitted(g, Driven(d, e)) /\ GoesOn(d, Reached(d).edge, e)
      /\ CostTo(d, e) \in Int /\ TurnCost(d, Reached(d).edge, e) \in Int
  BY <1>1, AdmittedFacts
<1> HIDE DEF d
<1>5. /\ new \in LabelT /\ new.edge = e /\ new.opp = g.opp[e] /\ new.pred = at[d]
      /\ new.dist = Abs(g.pos[g.to[e]] - Own(d))
  <2> DEFINE n == g.to[e]
             prune == pass = 1 /\ (Reached(d).prune \/ ~g.notThru[e])
             sort == CostTo(d, e) + Heuristic(d, n)
             dist == Abs(g.pos[n] - Own(d))
             turn == TurnCost(d, Reached(d).edge, e)
  <2>1. n \in Nodes /\ e \in Edges /\ g.opp[e] \in Edges
    BY <1>2, <1>3, GraphFacts
  <2>2. dist \in Int /\ Heuristic(d, n) \in Int
    BY <1>2, <1>3, <2>1, DistancesAreNat
  <2>3. g.notThru[e] \in BOOLEAN
    BY <1>3, <2>1, RequestIsWellFormed DEF Graph, g
  <2>4. prune \in BOOLEAN
    OBVIOUS
  <2>5. new = [edge |-> e, opp |-> g.opp[e], pred |-> at[d], cost |-> CostTo(d, e),
               sort |-> sort, dist |-> dist, turn |-> turn, notThru |-> g.notThru[e],
               prune |-> prune]
    BY DEF NewLabel
  <2>6. sort \in Int /\ turn \in Int
    <3> HIDE DEF n
    <3> QED  BY <1>4, <2>2
  <2> HIDE DEF new, n, prune, sort, dist, turn
  <2>7. new \in LabelT /\ new.edge = e /\ new.opp = g.opp[e] /\ new.pred = at[d]
        /\ new.dist = dist
    BY <1>3, <1>4, <2>1, <2>2, <2>3, <2>4, <2>5, <2>6 DEF LabelT
  <2> QED  BY <2>7 DEF dist, n
<1> HIDE DEF new
<1>6. /\ labels' \in [Directions -> Seq(LabelT)]
      /\ \A c \in Directions : c # d => labels'[c] = labels[c]
      /\ DOMAIN labels'[d] = 1..i /\ DOMAIN labels[d] = 1..i - 1 /\ i \in Nat \ {0}
      /\ labels'[d][i] = new
      /\ \A j \in DOMAIN labels[d] : labels'[d][j] = labels[d][j]
  <2> DEFINE s == Append(labels[d], new)
  <2>1. s \in Seq(LabelT) /\ DOMAIN s = 1..i /\ s[i] = new /\ DOMAIN labels[d] = 1..i - 1
        /\ i \in Nat \ {0} /\ \A j \in DOMAIN labels[d] : s[j] = labels[d][j]
    BY <1>3, <1>5
  <2>2. labels' = [labels EXCEPT ![d] = s]
    BY <1>1
  <2> HIDE DEF s, i
  <2> QED  BY <1>2, <1>3, <2>1, <2>2
<1> HIDE DEF i
<1>7. /\ here \in Status /\ here.set = "temporary" /\ here.label = i
      /\ status' \in [Directions -> [Edges -> Status]]
      /\ \A c \in Directions : \A f \in Edges :
            status'[c][f] = IF c = d /\ f = e THEN here ELSE status[c][f]
  <2>1. here \in Status /\ here.set = "temporary" /\ here.label = i
    BY <1>6 DEF Status
  <2> HIDE DEF here
  <2>2. e \in Edges
    BY <1>2, <1>3
  <2> QED  BY <1>1, <1>2, <1>3, <2>1, <2>2
<1> HIDE DEF here
<1>8. \A c \in Directions : \A j \in DOMAIN labels[c] :
          j \in DOMAIN labels'[c] /\ labels'[c][j] = labels[c][j]
  <2>1. DOMAIN labels[d] \subseteq DOMAIN labels'[d]
    BY <1>6
  <2>2. \A j \in DOMAIN labels[d] : j \in DOMAIN labels'[d] /\ labels'[d][j] = labels[d][j]
    BY <1>6, <2>1
  <2> QED  BY <1>6, <2>2
<1>9. \A c \in Directions : \A f \in g.edge :
          status[c][f].set \in SettledSets => status'[c][f] = status[c][f]
  BY <1>1, <1>3, <1>7 DEF IsReached
<1>10. work' \in Work /\ Control'
  <2>1. UsedBy(e) \in SUBSET Edges
    BY <1>2, UsedIsEdges
  <2>2. approved \in BOOLEAN
    OBVIOUS
  <2> HIDE DEF approved
  <2> QED  BY <1>1, <1>8, <2>1, <2>2, EvaluatedControl
<1>11. Types'
  BY <1>1, <1>6, <1>7, <1>10 DEF SearchInv, Types
<1>12. g' = g
  BY <1>1 DEF g
<1>13. LabelsAreLegal'
  <2> SUFFICES ASSUME NEW c \in Directions, NEW j \in DOMAIN labels'[c] PROVE LegalLabel(c, j)'
    BY DEF LabelsAreLegal
  <2>1. CASE j \in DOMAIN labels[c]
    BY <1>1, <1>8, <1>9, <2>1, LabelStays
  <2>2. CASE c = d /\ j = i
    <3>1. /\ labels'[d][i] = new /\ at[d] # NoLabel /\ at[d] \in DOMAIN labels'[d]
          /\ labels'[d][at[d]].edge = Reached(d).edge
      BY <1>2, <1>3, <1>6, <1>8 DEF Reached
    <3>2. e \in g.edge /\ status'[d][e].set \in SettledSets
      BY <1>2, <1>3, <1>7 DEF SettledSets
    <3> QED
      BY <1>4, <1>5, <1>12, <2>2, <3>1, <3>2 DEF LegalLabel, IsReached, GoesOn, Driven, Own
  <2> QED  BY <1>6, <2>1, <2>2
<1>14. StatusPointsAtLabel'
  <2> SUFFICES ASSUME NEW c \in Directions, NEW f \in g.edge, status'[c][f].set \in SettledSets
               PROVE  status'[c][f].label \in DOMAIN labels'[c]
                      /\ labels'[c][status'[c][f].label].edge = f
    BY <1>12 DEF StatusPointsAtLabel, SettledSets
  <2>1. CASE c = d /\ f = e
    BY <1>3, <1>5, <1>6, <1>7, <2>1
  <2>2. CASE ~(c = d /\ f = e)
    <3>1. status'[c][f] = status[c][f]
      BY <1>3, <1>7, <2>2
    <3>2. status[c][f].label \in DOMAIN labels[c] /\ labels[c][status[c][f].label].edge = f
      BY <3>1 DEF SearchInv, StatusPointsAtLabel, SettledSets
    <3> QED  BY <1>8, <3>1, <3>2
  <2> QED  BY <2>1, <2>2
<1>15. /\ \A f \in g.edge : g.opp[f] \in g.edge /\ g.opp[g.opp[f]] = f
       /\ \A c \in Directions : Other(c) \in Directions /\ Other(Other(c)) = c
  BY <1>3, GraphFacts DEF Other
<1>16. ShortcutsAgree'
  <2> SUFFICES ASSUME NEW c \in Directions, NEW f \in g.edge, IsShortcut(g, f),
                      status'[c][f].set \in SettledSets
               PROVE  status'[Other(c)][g.opp[f]].set # "skipped"
    BY <1>12 DEF ShortcutsAgree, SettledSets
  <2>1. CASE Other(c) = d /\ g.opp[f] = e
    BY <1>2, <1>3, <1>7, <2>1
  <2>2. CASE ~(Other(c) = d /\ g.opp[f] = e)
    <3>1. status'[Other(c)][g.opp[f]] = status[Other(c)][g.opp[f]]
      BY <1>3, <1>7, <1>15, <2>2
    <3>2. CASE c = d /\ f = e
      <4>1. status[Other(d)][g.opp[e]].set # "skipped"
        BY <1>1, <3>2 DEF TakesShortcut
      <4> QED  BY <3>1, <3>2, <4>1
    <3>3. CASE ~(c = d /\ f = e)
      <4>1. status'[c][f] = status[c][f]
        BY <1>3, <1>7, <3>3
      <4> QED  BY <3>1, <4>1 DEF SearchInv, ShortcutsAgree, SettledSets
    <3> QED  BY <3>2, <3>3
  <2> QED  BY <2>1, <2>2
<1>17. Reached(d).dist = Abs(g.pos[g.from[e]] - Own(d))
  <2>1. Reached(d).dist = Abs(g.pos[EndNode] - Own(d))
    <3>1. LegalLabel(d, at[d])
      BY <1>2 DEF SearchInv, LabelsAreLegal
    <3> QED  BY <3>1 DEF LegalLabel, EndNode, Reached, d
  <2>2. g.pos[EndNode] = g.pos[g.from[e]]
    BY <1>2, <1>3, GraphFacts
  <2> QED  BY <2>1, <2>2
<1>18. ShortcutsAreDue'
  <2> SUFFICES ASSUME NEW c \in Directions, NEW f \in g.edge, IsShortcut(g, f),
                      status'[c][f].set \in SettledSets
               PROVE  \/ Stop(c, LevelOf(f) + 1, Abs(g.pos[g.from[f]] - Own(c)))'
                      \/ status'[Other(c)][g.opp[f]].set \in SettledSets
    BY <1>12 DEF ShortcutsAreDue, IsReached
  <2>1. Stop(c, LevelOf(f) + 1, Abs(g.pos[g.from[f]] - Own(c)))'
          <=> Stop(c, LevelOf(f) + 1, Abs(g.pos[g.from[f]] - Own(c)))
    BY <1>1 DEF Stop, Relaxed, LevelOf, Own, g
  <2>2. \/ Stop(c, LevelOf(f) + 1, Abs(g.pos[g.from[f]] - Own(c)))
        \/ status[Other(c)][g.opp[f]].set \in SettledSets
    <3>1. CASE c = d /\ f = e
      BY <1>1, <1>17, <3>1 DEF TakesShortcut, SettledSets
    <3>2. CASE ~(c = d /\ f = e)
      <4>1. status'[c][f] = status[c][f]
        BY <1>3, <1>7, <3>2
      <4> QED  BY <4>1 DEF SearchInv, ShortcutsAreDue, IsReached
    <3> QED  BY <3>1, <3>2
  <2> QED  BY <1>9, <1>15, <2>1, <2>2
<1>19. ConnectionsAreReached'
  <2>1. \A c \in Directions : \A f \in g.edge : IsReached(c, f) => IsReached(c, f)'
    BY <1>9 DEF IsReached
  <2> QED  BY <1>1, <2>1, ReachedConnections
<1>20. Searched'
  BY <1>1, SearchedKept DEF SearchInv
<1> QED  BY <1>10, <1>11, <1>13, <1>14, <1>16, <1>18, <1>19, <1>20 DEF SearchInv

LEMMA RemovedConnections ==
    ASSUME NEW k \in DOMAIN best, best \in Seq(ConnectionT)
    PROVE  /\ RemoveAt(best, k) \in Seq(ConnectionT)
           /\ \A i \in DOMAIN RemoveAt(best, k) :
                 \E j \in DOMAIN best : RemoveAt(best, k)[i] = best[j]
<1> DEFINE p == SubSeq(best, 1, k - 1)
           q == SubSeq(best, k + 1, Len(best))
<1>1. k \in 1..Len(best) /\ Len(best) \in Nat
  OBVIOUS
<1>2. /\ p \in Seq(ConnectionT) /\ Len(p) = k - 1
      /\ \A i \in 1..k - 1 : p[i] = best[i]
  BY <1>1
<1>3. /\ q \in Seq(ConnectionT) /\ Len(q) = Len(best) - k
      /\ \A i \in 1..Len(best) - k : q[i] = best[k + i]
  BY <1>1
<1>4. RemoveAt(best, k) = p \o q
  BY DEF RemoveAt
<1> HIDE DEF p, q
<1>5. /\ p \o q \in Seq(ConnectionT) /\ DOMAIN (p \o q) = 1..(Len(p) + Len(q))
      /\ \A i \in 1..(Len(p) + Len(q)) :
            (p \o q)[i] = IF i <= Len(p) THEN p[i] ELSE q[i - Len(p)]
  BY <1>2, <1>3
<1>6. ASSUME NEW i \in 1..(Len(p) + Len(q))
      PROVE  \E j \in DOMAIN best : (p \o q)[i] = best[j]
  <2>1. CASE i <= k - 1
    <3>1. (p \o q)[i] = best[i] /\ i \in DOMAIN best
      BY <1>1, <1>2, <1>5, <2>1
    <3> QED  BY <3>1
  <2>2. CASE ~(i <= k - 1)
    <3>1. i - (k - 1) \in 1..Len(best) - k /\ k + (i - (k - 1)) \in DOMAIN best
      <4>1. /\ k \in Int /\ Len(best) \in Int /\ k >= 1 /\ k <= Len(best)
            /\ i \in Int /\ i >= 1 /\ i <= (k - 1) + (Len(best) - k) /\ i > k - 1
        BY <1>1, <1>2, <1>3, <2>2
      <4>2. i - (k - 1) \in 1..Len(best) - k
        BY <4>1
      <4>3. k + (i - (k - 1)) \in 1..Len(best)
        BY <4>1
      <4> QED  BY <4>2, <4>3
    <3>2. (p \o q)[i] = best[k + (i - (k - 1))]
      BY <1>2, <1>3, <1>5, <2>2, <3>1
    <3> QED  BY <3>1, <3>2
  <2> QED  BY <2>1, <2>2
<1> QED  BY <1>4, <1>5, <1>6

LEMMA FormSearch ==
    ASSUME SearchInv, \/ \E k \in DOMAIN best : FormPath(k)
                      \/ WalkBack \/ TurnOver \/ WalkOn \/ \E keeps \in BOOLEAN : GivePath(keeps)
    PROVE  SearchInv'
<1>1. /\ UNCHANGED <<request, pass, searchVars, work>>
      /\ pc' \in {"back", "on", "form", "done", "thrown"}
  BY DEF FormPath, WalkBack, TurnOver, WalkOn, GivePath, AfterPath
<1>2. best' \in Seq(ConnectionT) /\ ConnectionsAreReached'
  <2>1. best \in Seq(ConnectionT)
    BY DEF SearchInv, Types
  <2>2. CASE best' = best
    BY <1>1, <2>1, <2>2, ConnectionsKept
  <2>3. ASSUME NEW k \in DOMAIN best, best' = RemoveAt(best, k)
        PROVE  best' \in Seq(ConnectionT) /\ ConnectionsAreReached'
    <3>1. /\ best' \in Seq(ConnectionT)
          /\ \A i \in DOMAIN best' : \E j \in DOMAIN best : best'[i] = best[j]
      BY <2>1, <2>3, RemovedConnections
    <3>2. \A i \in DOMAIN best' :
              /\ best'[i].edge \in g.edge /\ best'[i].opp = g.opp[best'[i].edge]
              /\ IsReached(Fwd, best'[i].edge) /\ IsReached(Rev, best'[i].opp)
      BY <3>1 DEF SearchInv, ConnectionsAreReached
    <3> QED  BY <1>1, <3>1, <3>2 DEF ConnectionsAreReached, IsReached, g
  <2> QED  BY <2>2, <2>3 DEF FormPath, WalkBack, TurnOver, WalkOn, GivePath
<1>3. Types'
  BY <1>1, <1>2 DEF SearchInv, Types
<1>4. Control'
  BY <1>1 DEF Control
<1> QED  BY <1>1, <1>2, <1>3, <1>4, QuietStep DEF Quiet

LEMMA NextSearch == SearchInv /\ [Next]_vars => SearchInv'
<1> SUFFICES ASSUME SearchInv, [Next]_vars PROVE SearchInv'
  OBVIOUS
<1>1. CASE IterationsExceeded
  BY <1>1, LoopSearch
<1>2. ASSUME NEW d \in Directions,
             NotExpanded(d) \/ Exhausted(d) \/ Prune(d) \/ BeginExpand(d)
      PROVE  SearchInv'
  BY <1>2, LoopSearch
<1>3. ASSUME NEW d \in Directions, NEW i, StopAt(d, i) \/ Connect(d, i) \/ GoOn(d, i)
      PROVE  SearchInv'
  BY <1>3, SettledSearch
<1>4. CASE SetAside \/ Transition \/ EndExpand
  BY <1>4, SetAsideSearch, TransitionSearch, EndExpandSearch
<1>5. ASSUME NEW deadEnd \in BOOLEAN, NEW e,
             \/ SkipSuperseded(e, deadEnd) \/ SkipShortcut(e, deadEnd) \/ Refuse(e, deadEnd)
             \/ KeepLabel(e, deadEnd) \/ Improve(e, deadEnd) \/ Reach(e, deadEnd)
      PROVE  SearchInv'
  BY <1>5, PassedOverSearch, SkipShortcutSearch, ImproveSearch, ReachSearch
<1>6. CASE Retry
  BY <1>6, RetrySearch
<1>7. CASE \/ \E k \in DOMAIN best : FormPath(k)
           \/ WalkBack \/ TurnOver \/ WalkOn \/ \E keeps \in BOOLEAN : GivePath(keeps)
  BY <1>7, FormSearch
<1>8. CASE UNCHANGED vars
  <2>1. Types'  BY <1>8 DEF vars, SearchInv, Types
  <2>2. Control'
    BY <1>8 DEF vars, SearchInv, Control, HasLabel, EndNode, Reached, g
  <2> QED  BY <1>8, <2>1, <2>2, QuietStep, ConnectionsKept DEF vars, Quiet
<1>9. Next \/ UNCHANGED vars
  OBVIOUS
<1> QED
  BY <1>1, <1>2, <1>3, <1>4, <1>5, <1>6, <1>7, <1>8, <1>9 DEF Next, Step, Answered

-----------------------------------------------------------------------------
(* FormPath: over sound shortcuts, what is formed is a legal path. *)

LEMMA LabelParts ==
    ASSUME SearchInv, ShortcutsAreSound, NEW d \in Directions, NEW i \in DOMAIN labels[d]
    PROVE  LET e == Driven(d, labels[d][i].edge)
           IN /\ e \in g.edge /\ g.parts[e] \in Seq(Edges) /\ LegalPath(g, g.parts[e])
              /\ Head(g.parts[e]) = FirstPart(g, e) /\ Last(g.parts[e]) = LastPart(g, e)
<1> DEFINE e == Driven(d, labels[d][i].edge)
<1>1. request \in Requests /\ labels[d][i].edge \in g.edge /\ Permitted(g, e)
  BY DEF SearchInv, Types, LabelsAreLegal, LegalLabel
<1>2. e \in g.edge
  BY <1>1, GraphFacts DEF Driven
<1>3. IsShortcut(g, e) => SoundShortcut(g, e)
  BY <1>2 DEF ShortcutsAreSound
<1> HIDE DEF e
<1>4. /\ g.parts[e] \in Seq(Edges) /\ LegalPath(g, g.parts[e])
      /\ Head(g.parts[e]) = FirstPart(g, e) /\ Last(g.parts[e]) = LastPart(g, e)
  BY <1>1, <1>2, <1>3, PartsAreLegal DEF g
<1> QED  BY <1>2, <1>4 DEF e

(* a candidate is a regular edge, and its own only part *)
LEMMA OfferedIsRegular ==
    ASSUME request \in Requests, NEW d \in Directions, NEW e, Offers(d, e)
    PROVE  FirstPart(g, e) = e /\ LastPart(g, e) = e
<1>1. g.parts[e] = <<e>>
  BY CandidateFacts DEF Offers, IsShortcut
<1>2. Head(<<e>>) = e /\ Last(<<e>>) = e
  BY DEF Last
<1> QED  BY <1>1, <1>2 DEF FirstPart, LastPart

LEMMA ForwardChain ==
    ASSUME SearchInv, NEW i \in DOMAIN labels[Fwd]
    PROVE  LET l == labels[Fwd][i]
               head == FirstPart(g, l.edge)
           IN IF l.pred = NoLabel THEN Offers(Fwd, head)
              ELSE /\ l.pred \in DOMAIN labels[Fwd]
                   /\ Follows(g, LastPart(g, labels[Fwd][l.pred].edge), head)
<1> DEFINE l == labels[Fwd][i]
<1>1. request \in Requests /\ LegalLabel(Fwd, i)
  BY DEF SearchInv, Types, LabelsAreLegal
<1>2. CASE l.pred = NoLabel
  <2>1. Offers(Fwd, l.edge)
    BY <1>1, <1>2 DEF LegalLabel, Driven
  <2>2. FirstPart(g, l.edge) = l.edge
    BY <1>1, <2>1, OfferedIsRegular
  <2> QED  BY <1>2, <2>1, <2>2
<1>3. CASE l.pred # NoLabel
  <2>1. l.pred \in DOMAIN labels[Fwd] /\ Follows(g, labels[Fwd][l.pred].edge, l.edge)
    BY <1>1, <1>3 DEF LegalLabel, GoesOn
  <2>2. labels[Fwd][l.pred].edge \in g.edge /\ l.edge \in g.edge
    BY <1>1, <2>1 DEF SearchInv, LabelsAreLegal, LegalLabel
  <2>3. Follows(g, LastPart(g, labels[Fwd][l.pred].edge), FirstPart(g, l.edge))
    BY <1>1, <2>1, <2>2, PartsFollow DEF g
  <2> QED  BY <1>3, <2>1, <2>3
<1> QED  BY <1>2, <1>3

LEMMA ReverseChain ==
    ASSUME SearchInv, NEW i \in DOMAIN labels[Rev]
    PROVE  LeadsOn(g.opp[labels[Rev][i].edge], labels[Rev][i].pred)
BY DEF SearchInv, LabelsAreLegal, LegalLabel, Driven, GoesOn, LeadsOn

LEMMA FormPathPath ==
    ASSUME SearchInv, PathInv, NEW k \in DOMAIN best, FormPath(k) PROVE PathInv'
<1>0. PICK x : x = best[k].edge
  OBVIOUS
<1> DEFINE i == status[Fwd][x].label
           j == status[Rev][best[k].opp].label
<1>1. /\ pc' = "back" /\ route' = <<>>
      /\ walk' = [index |-> i, then |-> labels[Rev][j].pred]
      /\ UNCHANGED <<request, labels, routes>>
  BY <1>0 DEF FormPath
<1>2. /\ x \in g.edge /\ best[k].opp = g.opp[x] /\ IsReached(Fwd, x)
      /\ IsReached(Rev, best[k].opp) /\ request \in Requests
  BY <1>0 DEF SearchInv, Types, ConnectionsAreReached
<1>3. best[k].opp \in g.edge /\ g.opp[best[k].opp] = x
  BY <1>2, GraphFacts
<1>4. /\ i \in DOMAIN labels[Fwd] /\ labels[Fwd][i].edge = x
      /\ j \in DOMAIN labels[Rev] /\ labels[Rev][j].edge = best[k].opp
  BY <1>2, <1>3 DEF SearchInv, StatusPointsAtLabel, IsReached, SettledSets
<1>5. LeadsOn(x, labels[Rev][j].pred)
  <2>1. LeadsOn(g.opp[labels[Rev][j].edge], labels[Rev][j].pred)
    BY <1>4, ReverseChain
  <2> QED  BY <1>3, <1>4, <2>1
<1>6. labels[Rev][j].pred \in Nat /\ i \in Nat
  <2>1. labels[Fwd] \in Seq(LabelT)
    BY DEF SearchInv, Types
  <2>2. i \in Nat
    BY <1>4, <2>1
  <2> QED  BY <1>4, <2>2, LabelCosts
<1> HIDE DEF i, j
<1>7. walk' \in [index : Nat, then : Nat] /\ walk'.index = i /\ walk'.then = labels[Rev][j].pred
  BY <1>1, <1>6
<1>8. LeadsOn(x, walk.then)'
  BY <1>1, <1>5, <1>7 DEF LeadsOn, Offers, Candidates, g
<1>9. g' = g /\ RoutesAreLegal'
  BY <1>1 DEF PathInv, RoutesAreLegal, g
<1>10. BackFrom(x)'
  BY <1>1, <1>4, <1>7, <1>8 DEF BackFrom
<1>11. route' \in Seq(Edges) /\ routes' \in Seq(Seq(Edges))
  BY <1>1 DEF PathInv
<1> QED  BY <1>1, <1>2, <1>7, <1>9, <1>10, <1>11 DEF PathInv

LEMMA WalkBackPath ==
    ASSUME SearchInv, PathInv, ShortcutsAreSound, WalkBack PROVE PathInv'
<1>1. PICK i, f, p :
          /\ i = walk.index /\ i # NoLabel /\ f = labels[Fwd][i].edge /\ p = labels[Fwd][i].pred
          /\ pc = "back" /\ pc' = pc /\ route' = g.parts[f] \o route
          /\ walk' = [walk EXCEPT !.index = p]
          /\ UNCHANGED <<request, labels, routes>>
  BY DEF WalkBack
<1>2. PICK x \in g.edge : BackFrom(x)
  BY <1>1 DEF PathInv
<1>3. i \in DOMAIN labels[Fwd]
  BY <1>1, <1>2 DEF BackFrom, BackTo
<1>4. /\ g.parts[f] \in Seq(Edges) /\ LegalPath(g, g.parts[f])
      /\ Head(g.parts[f]) = FirstPart(g, f) /\ Last(g.parts[f]) = LastPart(g, f)
  BY <1>1, <1>3, LabelParts DEF Driven
<1>5. IF p = NoLabel THEN Offers(Fwd, FirstPart(g, f))
      ELSE p \in DOMAIN labels[Fwd]
           /\ Follows(g, LastPart(g, labels[Fwd][p].edge), FirstPart(g, f))
  BY <1>1, <1>3, ForwardChain
<1>6. /\ route' \in Seq(Edges) /\ LegalPath(g, route') /\ Last(route') = LastPart(g, x)
      /\ Head(route') = FirstPart(g, f)
  <2>1. CASE route = <<>>
    <3>1. f = x
      BY <1>1, <1>2, <2>1 DEF BackFrom, FormedTo, LegalPath
    <3>2. route' = g.parts[f]
      BY <1>1, <1>4, <2>1
    <3> QED  BY <1>4, <3>1, <3>2
  <2>2. CASE route # <<>>
    <3>1. FormedTo(x) /\ Follows(g, LastPart(g, f), Head(route)) /\ route \in Seq(Edges)
      BY <1>1, <1>2, <2>2 DEF BackFrom, BackTo, PathInv
    <3>2. /\ LegalPath(g, g.parts[f] \o route) /\ Last(g.parts[f] \o route) = Last(route)
          /\ Head(g.parts[f] \o route) = Head(g.parts[f])
      BY <1>4, <3>1, PathsJoin DEF FormedTo
    <3>3. g.parts[f] \o route \in Seq(Edges)
      BY <1>4, <3>1
    <3>4. route' = g.parts[f] \o route
      BY <1>1
    <3>5. Last(route) = LastPart(g, x)
      BY <3>1 DEF FormedTo
    <3> QED  BY <1>4, <3>2, <3>3, <3>4, <3>5
  <2> QED  BY <2>1, <2>2
<1>7. walk' \in [index : Nat, then : Nat] /\ walk'.index = p /\ walk'.then = walk.then
  <2>1. p \in Nat
    BY <1>1, <1>3, LabelCosts
  <2> QED  BY <1>1, <2>1 DEF PathInv
<1>8. g' = g /\ RoutesAreLegal' /\ routes' \in Seq(Seq(Edges))
  BY <1>1 DEF PathInv, RoutesAreLegal, g
<1>9. LeadsOn(x, walk.then)'
  BY <1>1, <1>2, <1>7 DEF BackFrom, LeadsOn, Offers, Candidates, g
<1>10. BackTo(walk.index)'
  BY <1>1, <1>5, <1>6, <1>7, <1>8 DEF BackTo, FromOrigin, Offers, Candidates
<1>11. BackFrom(x)'
  BY <1>6, <1>8, <1>9, <1>10 DEF BackFrom, FormedTo
<1> QED  BY <1>1, <1>6, <1>7, <1>8, <1>11 DEF PathInv

LEMMA TurnOverPath == ASSUME SearchInv, PathInv, TurnOver PROVE PathInv'
<1>1. /\ pc = "back" /\ pc' = "on" /\ walk.index = NoLabel
      /\ walk' = [walk EXCEPT !.index = walk.then]
      /\ UNCHANGED <<request, labels, route, routes>>
  BY DEF TurnOver
<1>2. PICK x \in g.edge : BackFrom(x)
  BY <1>1 DEF PathInv
<1>3. NoLabel \notin DOMAIN labels[Fwd]
  <2>1. labels[Fwd] \in Seq(LabelT)
    BY DEF SearchInv, Types
  <2> QED  BY <2>1
<1>4. FormedTo(x) /\ FromOrigin /\ LeadsOn(x, walk.then)
  BY <1>1, <1>2, <1>3 DEF BackFrom, BackTo
<1>5. walk' \in [index : Nat, then : Nat] /\ walk'.index = walk.then
  BY <1>1 DEF PathInv
<1>6. g' = g /\ RoutesAreLegal'
  BY <1>1 DEF PathInv, RoutesAreLegal, g
<1>7. OnFrom(x)'
  BY <1>1, <1>4, <1>5 DEF OnFrom, FormedTo, FromOrigin, LeadsOn, Offers, Candidates, g
<1> QED  BY <1>1, <1>5, <1>6, <1>7 DEF PathInv

LEMMA WalkOnPath ==
    ASSUME SearchInv, PathInv, ShortcutsAreSound, WalkOn PROVE PathInv'
<1>1. PICK i, f, p :
          /\ i = walk.index /\ i # NoLabel /\ f = g.opp[labels[Rev][i].edge]
          /\ p = labels[Rev][i].pred
          /\ pc = "on" /\ pc' = pc /\ route' = route \o g.parts[f]
          /\ walk' = [walk EXCEPT !.index = p]
          /\ UNCHANGED <<request, labels, routes>>
  BY DEF WalkOn
<1>2. PICK x \in g.edge : OnFrom(x)
  BY <1>1 DEF PathInv
<1>3. i \in DOMAIN labels[Rev] /\ Follows(g, x, f)
  BY <1>1, <1>2 DEF OnFrom, LeadsOn
<1>4. /\ f \in g.edge /\ g.parts[f] \in Seq(Edges) /\ LegalPath(g, g.parts[f])
      /\ Head(g.parts[f]) = FirstPart(g, f) /\ Last(g.parts[f]) = LastPart(g, f)
  BY <1>1, <1>3, LabelParts DEF Driven
<1>5. LeadsOn(f, p)
  BY <1>1, <1>3, ReverseChain
<1>6. Follows(g, LastPart(g, x), FirstPart(g, f))
  BY <1>2, <1>3, <1>4, PartsFollow DEF SearchInv, Types, g
<1>7. /\ route' \in Seq(Edges) /\ LegalPath(g, route') /\ Last(route') = LastPart(g, f)
      /\ Head(route') = Head(route)
  <2>1. route \in Seq(Edges) /\ LegalPath(g, route) /\ Last(route) = LastPart(g, x)
    BY <1>2 DEF PathInv, OnFrom, FormedTo
  <2>2. /\ LegalPath(g, route \o g.parts[f]) /\ Last(route \o g.parts[f]) = Last(g.parts[f])
        /\ Head(route \o g.parts[f]) = Head(route)
    BY <1>4, <1>6, <2>1, PathsJoin
  <2>3. route \o g.parts[f] \in Seq(Edges)
    BY <1>4, <2>1
  <2>4. route' = route \o g.parts[f]
    BY <1>1
  <2> QED  BY <1>4, <2>2, <2>3, <2>4
<1>8. walk' \in [index : Nat, then : Nat] /\ walk'.index = p
  <2>1. p \in Nat
    BY <1>1, <1>3, LabelCosts
  <2> QED  BY <1>1, <2>1 DEF PathInv
<1>9. g' = g /\ RoutesAreLegal' /\ routes' \in Seq(Seq(Edges))
  BY <1>1 DEF PathInv, RoutesAreLegal, g
<1>10. LeadsOn(f, walk.index)'
  BY <1>1, <1>5, <1>8 DEF LeadsOn, Offers, Candidates, g
<1>11. FromOrigin'
  BY <1>2, <1>7, <1>9 DEF OnFrom, FromOrigin, Offers, Candidates
<1>12. OnFrom(f)'
  BY <1>7, <1>9, <1>10, <1>11 DEF OnFrom, FormedTo
<1> QED  BY <1>1, <1>4, <1>7, <1>8, <1>9, <1>12 DEF PathInv

LEMMA GivePathPath ==
    ASSUME SearchInv, PathInv, NEW keeps \in BOOLEAN, GivePath(keeps) PROVE PathInv'
<1>1. /\ pc = "on" /\ walk.index = NoLabel
      /\ routes' = IF keeps /\ Joins(g, route) THEN Append(routes, route) ELSE routes
      /\ pc' = IF Joins(g, route) THEN AfterPath(routes') ELSE "thrown"
      /\ UNCHANGED <<request, labels, walk, route>>
  BY DEF GivePath
<1>2. PICK x \in g.edge : OnFrom(x)
  BY <1>1 DEF PathInv
<1>3. /\ Offers(Rev, x) /\ Offers(Fwd, Head(route))
      /\ LegalPath(g, route) /\ Last(route) = LastPart(g, x) /\ route \in Seq(Edges)
  BY <1>1, <1>2 DEF OnFrom, LeadsOn, FromOrigin, FormedTo, PathInv
<1>4. Last(route) = x
  BY <1>3, OfferedIsRegular DEF SearchInv, Types
<1>5. Joins(g, route)
  <2>1. route # <<>>
    BY <1>3 DEF LegalPath
  <2>2. route[1] = Head(route) /\ route[Len(route)] = Last(route)
    BY <1>3, <2>1 DEF Last
  <2> QED  BY <1>3, <1>4, <2>2 DEF Joins, Offers, Candidates
<1>6. pc' \in {"form", "done"}
  BY <1>1, <1>5 DEF AfterPath
<1>7. routes \in Seq(Seq(Edges)) /\ \A k \in DOMAIN routes : LegalRoute(g, routes[k])
  BY DEF PathInv, RoutesAreLegal
<1>8. routes' \in Seq(Seq(Edges)) /\ \A k \in DOMAIN routes' : LegalRoute(g, routes'[k])
  <2>1. CASE routes' = routes
    BY <1>7, <2>1
  <2>2. CASE routes' = Append(routes, route)
    <3>1. LegalRoute(g, route)
      BY <1>3, <1>5 DEF LegalRoute
    <3> QED  BY <1>3, <1>7, <2>2, <3>1
  <2> QED  BY <1>1, <2>1, <2>2
<1>9. RoutesAreLegal'
  BY <1>1, <1>6, <1>8 DEF RoutesAreLegal, g
<1> QED  BY <1>1, <1>6, <1>8, <1>9 DEF PathInv

LEMMA InitPath == Init => PathInv
BY DEF Init, NoWalk, PathInv, RoutesAreLegal

LEMMA NextPath ==
    SearchInv /\ PathInv /\ ShortcutsAreSound /\ [Next]_vars => PathInv'
<1> SUFFICES ASSUME SearchInv, PathInv, ShortcutsAreSound, [Next]_vars PROVE PathInv'
  OBVIOUS
<1>1. ASSUME UNCHANGED <<request, walk, route, routes>>, pc' \notin {"back", "on", "thrown"}
      PROVE  PathInv'
  <2>1. RoutesAreLegal'
    BY <1>1 DEF PathInv, RoutesAreLegal, g
  <2> QED  BY <1>1, <2>1 DEF PathInv
<1>2. CASE IterationsExceeded \/ Retry \/ SetAside \/ Transition \/ EndExpand
  BY <1>1, <1>2 DEF IterationsExceeded, Retry, SetAside, Transition, EndExpand
<1>3. ASSUME NEW d \in Directions,
             NotExpanded(d) \/ Exhausted(d) \/ Prune(d) \/ BeginExpand(d)
      PROVE  PathInv'
  BY <1>1, <1>3 DEF NotExpanded, Exhausted, Prune, BeginExpand, AfterPop, AfterFailure
<1>4. ASSUME NEW d \in Directions, NEW i, StopAt(d, i) \/ Connect(d, i) \/ GoOn(d, i)
      PROVE  PathInv'
  BY <1>1, <1>4 DEF StopAt, Connect, GoOn, Settle, AfterPop
<1>5. ASSUME NEW deadEnd \in BOOLEAN, NEW e,
             \/ SkipSuperseded(e, deadEnd) \/ SkipShortcut(e, deadEnd) \/ Refuse(e, deadEnd)
             \/ KeepLabel(e, deadEnd) \/ Improve(e, deadEnd) \/ Reach(e, deadEnd)
      PROVE  PathInv'
  <2>1. Evaluates(e, deadEnd) /\ UNCHANGED <<request, walk, route, routes>>
    BY <1>5 DEF SkipSuperseded, SkipShortcut, Refuse, KeepLabel, Improve, Reach, Tries
  <2>2. pc' \in {Fwd, pc} /\ pc = "expand"
    BY <1>5, <2>1 DEF SkipSuperseded, SkipShortcut, Refuse, KeepLabel, Improve, Reach,
                      Evaluates, Evaluated
  <2> QED  BY <1>1, <2>1, <2>2
<1>6. ASSUME NEW k \in DOMAIN best, FormPath(k) PROVE PathInv'
  BY <1>6, FormPathPath
<1>7. CASE WalkBack \/ TurnOver \/ WalkOn
  BY <1>7, WalkBackPath, TurnOverPath, WalkOnPath
<1>8. ASSUME NEW keeps \in BOOLEAN, GivePath(keeps) PROVE PathInv'
  BY <1>8, GivePathPath
<1>9. CASE UNCHANGED vars
  BY <1>9 DEF vars, PathInv, BackFrom, OnFrom, LeadsOn, FormedTo, BackTo, FromOrigin, Offers,
              Candidates, RoutesAreLegal, g
<1>10. Next \/ UNCHANGED vars
  OBVIOUS
<1> QED
  BY <1>2, <1>3, <1>4, <1>5, <1>6, <1>7, <1>8, <1>9, <1>10 DEF Next, Step, Answered

-----------------------------------------------------------------------------
(* Costs: only the label of an unsettled edge is improved, and only a settled *)
(* one is followed.                                                           *)

IsSettled(d, e) == status[d][e].set = "permanent"
CostOver(d, l, p) == p.cost + g.cost[Driven(d, l.edge)] + TurnCost(d, p.edge, l.edge)
CostsInv ==
    /\ \A d \in Directions : HasLabel(d) => IsSettled(d, labels[d][at[d]].edge)
    /\ \A d \in Directions : \A i \in DOMAIN labels[d] :
          LET l == labels[d][i]
          IN l.pred # NoLabel =>
                /\ IsSettled(d, labels[d][l.pred].edge)
                /\ l.cost = CostOver(d, l, labels[d][l.pred])

LEMMA InitCosts == Init => CostsInv
<1> SUFFICES ASSUME Init PROVE CostsInv
  OBVIOUS
<1>1. \A d \in Directions : labels[d] = RootLabels(d) /\ at[d] = NoLabel
      /\ request \in Requests /\ Searched
  BY DEF Init
<1>2. \A d \in Directions :
          RootLabels(d) \in Seq(LabelT)
          /\ \A i \in DOMAIN RootLabels(d) : RootLabels(d)[i].pred = NoLabel
  BY <1>1, Roots
<1> QED  BY <1>1, <1>2 DEF CostsInv, HasLabel

(* steps that change no label: settled edges stay settled *)
LEMMA CostsKept ==
    ASSUME SearchInv, CostsInv, UNCHANGED <<request, labels>>,
           \A d \in Directions : \A e \in g.edge :
               status[d][e].set = "permanent" => status'[d][e].set = "permanent",
           \A d \in Directions :
               at'[d] \in {at[d], NoLabel}
               \/ status'[d][labels[d][at'[d]].edge].set = "permanent"
    PROVE  CostsInv'
<1>1. g' = g
  BY DEF g
<1>2. \A d \in Directions : \A i \in DOMAIN labels[d] :
          /\ labels[d][i].edge \in g.edge
          /\ labels[d][i].pred # NoLabel => labels[d][i].pred \in DOMAIN labels[d]
          /\ i # NoLabel
  <2>1. \A d \in Directions : labels[d] \in Seq(LabelT)
    BY DEF SearchInv, Types
  <2>2. \A d \in Directions : \A i \in DOMAIN labels[d] : i # NoLabel
    BY <2>1
  <2>3. \A d \in Directions : \A i \in DOMAIN labels[d] :
            /\ labels[d][i].edge \in g.edge
            /\ labels[d][i].pred # NoLabel => labels[d][i].pred \in DOMAIN labels[d]
    BY DEF SearchInv, LabelsAreLegal, LegalLabel
  <2> HIDE DEF NoLabel, Directions
  <2> QED  BY <2>2, <2>3
<1>3. ASSUME NEW d \in Directions, HasLabel(d)'
      PROVE  status'[d][labels[d][at'[d]].edge].set = "permanent"
  <2>1. at'[d] \in DOMAIN labels[d]
    BY <1>3 DEF HasLabel
  <2>2. CASE at'[d] = at[d]
    BY <1>2, <2>1, <2>2 DEF CostsInv, HasLabel, IsSettled
  <2> QED  BY <1>2, <2>1, <2>2
<1>4. ASSUME NEW d \in Directions, NEW i \in DOMAIN labels[d], labels[d][i].pred # NoLabel
      PROVE  /\ status'[d][labels[d][labels[d][i].pred].edge].set = "permanent"
             /\ labels[d][i].cost = CostOver(d, labels[d][i], labels[d][labels[d][i].pred])
  <2>1. /\ status[d][labels[d][labels[d][i].pred].edge].set = "permanent"
        /\ labels[d][i].cost = CostOver(d, labels[d][i], labels[d][labels[d][i].pred])
    BY <1>4 DEF CostsInv, IsSettled
  <2>2. labels[d][labels[d][i].pred].edge \in g.edge
    BY <1>2, <1>4
  <2> QED  BY <2>1, <2>2
<1> QED  BY <1>1, <1>3, <1>4 DEF CostsInv, IsSettled, CostOver, Driven, TurnCost

(* a step that gives one label, new or improved, the cost over the label that *)
(* is expanded                                                                *)
LEMMA CostsOfLabel ==
    ASSUME SearchInv, CostsInv, UNCHANGED <<request, at>>,
           NEW d \in Directions, NEW i, NEW new, HasLabel(d), i \in DOMAIN labels'[d],
           labels'[d][i] = new, new.pred = at[d], new.cost = CostOver(d, new, labels[d][at[d]]),
           \A c \in Directions : \A j \in DOMAIN labels'[c] :
               (c = d /\ j = i) \/ (j \in DOMAIN labels[c] /\ labels'[c][j] = labels[c][j]),
           \A c \in Directions : \A j \in DOMAIN labels[c] : j \in DOMAIN labels'[c],
           i \in DOMAIN labels[d] => ~IsSettled(d, labels[d][i].edge),
           \A c \in Directions : \A e \in g.edge :
               status[c][e].set = "permanent" => status'[c][e].set = "permanent"
    PROVE  CostsInv'
<1>1. g' = g
  BY DEF g
<1>2. \A c \in Directions : \A j \in DOMAIN labels[c] :
          /\ labels[c][j].edge \in g.edge
          /\ labels[c][j].pred # NoLabel => labels[c][j].pred \in DOMAIN labels[c]
  BY DEF SearchInv, LabelsAreLegal, LegalLabel
(* a label of a settled edge is not the one that changes *)
<1>3. ASSUME NEW c \in Directions, NEW j \in DOMAIN labels[c], IsSettled(c, labels[c][j].edge)
      PROVE  /\ labels'[c][j] = labels[c][j]
             /\ status'[c][labels[c][j].edge].set = "permanent"
  <2>1. ~(c = d /\ j = i)
    BY <1>3
  <2>2. labels'[c][j] = labels[c][j]
    BY <2>1
  <2> QED  BY <1>2, <1>3, <2>2 DEF IsSettled
<1>4. ASSUME NEW c \in Directions, at[c] \in DOMAIN labels'[c]
      PROVE  status'[c][labels'[c][at[c]].edge].set = "permanent"
  <2>1. CASE at[c] \in DOMAIN labels[c]
    <3>1. IsSettled(c, labels[c][at[c]].edge)
      BY <2>1 DEF CostsInv, HasLabel
    <3> QED  BY <1>3, <2>1, <3>1
  <2>2. CASE at[c] \notin DOMAIN labels[c]
    BY <1>4, <2>2 DEF HasLabel
  <2> QED  BY <2>1, <2>2
<1>5. ASSUME NEW c \in Directions, NEW j \in DOMAIN labels'[c], labels'[c][j].pred # NoLabel
      PROVE  LET l == labels'[c][j]
             IN /\ status'[c][labels'[c][l.pred].edge].set = "permanent"
                /\ l.cost = CostOver(c, l, labels'[c][l.pred])
  <2>1. CASE c = d /\ j = i
    <3>1. IsSettled(d, labels[d][at[d]].edge)
      BY DEF CostsInv
    <3>2. /\ labels'[d][at[d]] = labels[d][at[d]]
          /\ status'[d][labels[d][at[d]].edge].set = "permanent"
      BY <1>3, <3>1 DEF HasLabel
    <3> QED  BY <2>1, <3>2
  <2>2. CASE ~(c = d /\ j = i)
    <3> DEFINE p == labels[c][j].pred
    <3>1. j \in DOMAIN labels[c] /\ labels'[c][j] = labels[c][j]
      BY <2>2
    <3>2. p # NoLabel /\ p \in DOMAIN labels[c]
      BY <1>2, <1>5, <3>1
    <3>3. IsSettled(c, labels[c][p].edge)
          /\ labels[c][j].cost = CostOver(c, labels[c][j], labels[c][p])
      BY <3>1, <3>2 DEF CostsInv
    <3>4. labels'[c][p] = labels[c][p] /\ status'[c][labels[c][p].edge].set = "permanent"
      BY <1>3, <3>2, <3>3
    <3> HIDE DEF p
    <3>5. labels'[c][j].pred = p
      BY <3>1 DEF p
    <3> QED  BY <3>1, <3>3, <3>4, <3>5
  <2> QED  BY <2>1, <2>2
<1> QED  BY <1>1, <1>4, <1>5 DEF CostsInv, IsSettled, HasLabel, CostOver, Driven, TurnCost

LEMMA NextCosts == SearchInv /\ CostsInv /\ [Next]_vars => CostsInv'
<1> SUFFICES ASSUME SearchInv, CostsInv, [Next]_vars PROVE CostsInv'
  OBVIOUS
<1>1. ASSUME UNCHANGED <<request, labels, status>>, \A d \in Directions : at'[d] \in {at[d], NoLabel}
      PROVE  CostsInv'
  BY <1>1, CostsKept
<1>2. CASE \/ IterationsExceeded \/ SetAside \/ Transition \/ EndExpand
           \/ WalkBack \/ TurnOver \/ WalkOn \/ UNCHANGED vars
  BY <1>1, <1>2 DEF IterationsExceeded, SetAside, Transition, EndExpand, WalkBack, TurnOver,
                    WalkOn, vars
<1>3. ASSUME NEW d \in Directions, NotExpanded(d) \/ Prune(d) \/ BeginExpand(d)
      PROVE  CostsInv'
  BY <1>1, <1>3 DEF NotExpanded, Prune, BeginExpand
<1>4. ASSUME NEW d \in Directions, Exhausted(d) PROVE CostsInv'
  <2>1. at \in [Directions -> Nat]
    BY DEF SearchInv, Types
  <2>2. \A c \in Directions : at'[c] \in {at[c], NoLabel}
    BY <1>4, <2>1 DEF Exhausted
  <2> QED  BY <1>1, <1>4, <2>2 DEF Exhausted
<1>5. ASSUME NEW d \in Directions, NEW i, StopAt(d, i) \/ Connect(d, i) \/ GoOn(d, i)
      PROVE  CostsInv'
  <2>1. Settle(d, i)
    BY <1>5 DEF StopAt, Connect, GoOn
  <2>2. /\ UNCHANGED <<request, labels>> /\ i \in DOMAIN labels[d]
        /\ status' = [status EXCEPT ![d][labels[d][i].edge].set = "permanent"]
    BY <2>1 DEF Settle
  <2>3. at'[d] = i /\ \A c \in Directions : c # d => at'[c] = at[c]
    BY <2>1, SettleKeeps
  <2>4. /\ status \in [Directions -> [Edges -> Status]] /\ request \in Requests
        /\ labels[d][i].edge \in g.edge
    BY <2>2 DEF SearchInv, Types, LabelsAreLegal, LegalLabel
  <2>5. g.edge \subseteq Edges
    BY <2>4, GraphFacts
  <2>6. /\ \A c \in Directions : \A e \in g.edge :
              status[c][e].set = "permanent" => status'[c][e].set = "permanent"
        /\ status'[d][labels[d][i].edge].set = "permanent"
    <3> DEFINE x == labels[d][i].edge
               s == [status[d][x] EXCEPT !.set = "permanent"]
    <3>1. x \in Edges /\ status[d][x] \in Status
      BY <2>4, <2>5
    <3>2. s.set = "permanent"
      BY <3>1 DEF Status
    <3>3. status' = [status EXCEPT ![d] = [status[d] EXCEPT ![x] = s]]
      BY <2>2
    <3> HIDE DEF s, x
    <3>4. \A c \in Directions : \A f \in Edges :
              status'[c][f] = IF c = d /\ f = x THEN s ELSE status[c][f]
      BY <2>4, <3>1, <3>3
    <3>5. status'[d][x].set = "permanent"
      BY <3>1, <3>2, <3>4
    <3> QED  BY <2>5, <3>2, <3>4, <3>5 DEF x
  <2>7. \A c \in Directions :
            at'[c] \in {at[c], NoLabel} \/ status'[c][labels[c][at'[c]].edge].set = "permanent"
    BY <2>3, <2>6
  <2> QED  BY <2>2, <2>6, <2>7, CostsKept
<1>6. ASSUME NEW deadEnd \in BOOLEAN, NEW e,
             SkipSuperseded(e, deadEnd) \/ Refuse(e, deadEnd) \/ KeepLabel(e, deadEnd)
      PROVE  CostsInv'
  BY <1>1, <1>6 DEF SkipSuperseded, Refuse, KeepLabel
<1>7. ASSUME NEW deadEnd \in BOOLEAN, NEW e, SkipShortcut(e, deadEnd) PROVE CostsInv'
  <2>1. /\ Evaluates(e, deadEnd) /\ IsShortcut(g, e) /\ ~TakesShortcut(work.dir, e)
        /\ status' = [status EXCEPT ![work.dir][e] = Skipped]
        /\ UNCHANGED <<request, labels, at>>
    BY <1>7 DEF SkipShortcut
  <2>2. ~IsReached(work.dir, e)
    BY <2>1, SkippedIsNotReached
  <2>3. work.dir \in Directions /\ e \in g.edge
    BY <2>1, ExaminedFacts
  <2>4. status \in [Directions -> [Edges -> Status]] /\ g.edge \subseteq Edges
    BY GraphFacts DEF SearchInv, Types
  <2>5. \A c \in Directions : \A f \in g.edge :
            status[c][f].set = "permanent" => status'[c][f].set = "permanent"
    BY <2>1, <2>2, <2>3, <2>4 DEF IsReached, SettledSets
  <2> QED  BY <2>1, <2>5, CostsKept
<1>8. ASSUME NEW deadEnd \in BOOLEAN, NEW e, Improve(e, deadEnd) PROVE CostsInv'
  <2> DEFINE d == work.dir
             i == status[d][e].label
             sort == labels[d][i].sort - (labels[d][i].cost - CostTo(d, e))
             new == [labels[d][i] EXCEPT !.pred = at[d], !.cost = CostTo(d, e), !.sort = sort,
                                         !.turn = TurnCost(d, Reached(d).edge, e)]
  <2>1. /\ Evaluates(e, deadEnd) /\ status[d][e].set = "temporary"
        /\ labels' = [labels EXCEPT ![d][i] = new]
        /\ UNCHANGED <<request, status, at>>
    BY <1>8 DEF Improve, Tries
  <2>2. d \in Directions /\ at[d] \in DOMAIN labels[d] /\ e \in g.edge
    BY <2>1, ExaminedFacts
  <2>3. i \in DOMAIN labels[d] /\ labels[d][i].edge = e
    BY <2>1, <2>2 DEF SearchInv, StatusPointsAtLabel
  <2>4. labels \in [Directions -> Seq(LabelT)] /\ labels[d][i] \in LabelT
    <3>1. labels \in [Directions -> Seq(LabelT)]
      BY DEF SearchInv, Types
    <3> HIDE DEF i, d
    <3>2. labels[d] \in Seq(LabelT)
      BY <2>2, <3>1
    <3> QED  BY <2>3, <3>1, <3>2
  <2> HIDE DEF sort
  <2>5. new.edge = e /\ new.pred = at[d] /\ new.cost = CostTo(d, e)
    <3> HIDE DEF d, i
    <3> QED  BY <2>3, <2>4 DEF LabelT
  <2> HIDE DEF new
  <2>6. new.cost = CostOver(d, new, labels[d][at[d]])
    BY <2>5 DEF CostTo, CostOver, Reached
  <2> HIDE DEF d, i
  <2>7. \A c \in Directions :
            /\ DOMAIN labels'[c] = DOMAIN labels[c]
            /\ \A j \in DOMAIN labels[c] :
                  labels'[c][j] = IF c = d /\ j = i THEN new ELSE labels[c][j]
    <3> DEFINE s == [labels[d] EXCEPT ![i] = new]
    <3>1. labels[d] \in Seq(LabelT)
      BY <2>2, <2>4
    <3>2. DOMAIN s = DOMAIN labels[d]
          /\ \A j \in DOMAIN s : s[j] = IF j = i THEN new ELSE labels[d][j]
      BY <2>3, <3>1
    <3>3. labels' = [labels EXCEPT ![d] = s]
      BY <2>1
    <3> HIDE DEF s
    <3> QED  BY <2>2, <2>4, <3>2, <3>3
  <2>8. /\ HasLabel(d) /\ i \in DOMAIN labels'[d] /\ labels'[d][i] = new
        /\ ~IsSettled(d, labels[d][i].edge)
    BY <2>1, <2>2, <2>3, <2>7 DEF HasLabel, IsSettled
  <2>9. \A c \in Directions : \A j \in DOMAIN labels'[c] :
            (c = d /\ j = i) \/ (j \in DOMAIN labels[c] /\ labels'[c][j] = labels[c][j])
    BY <2>7
  <2>10. \A c \in Directions : \A j \in DOMAIN labels[c] : j \in DOMAIN labels'[c]
    BY <2>7
  <2>11. \A c \in Directions : \A f \in g.edge :
             status[c][f].set = "permanent" => status'[c][f].set = "permanent"
    BY <2>1
  <2>12. UNCHANGED <<request, at>>
    BY <2>1
  <2> QED
    BY <2>2, <2>5, <2>6, <2>8, <2>9, <2>10, <2>11, <2>12, CostsOfLabel
<1>9. ASSUME NEW deadEnd \in BOOLEAN, NEW e, Reach(e, deadEnd) PROVE CostsInv'
  <2> DEFINE d == work.dir
             i == Len(labels[d]) + 1
             new == NewLabel(d, e)
             here == [set |-> "temporary", label |-> i]
  <2>1. /\ Evaluates(e, deadEnd) /\ ~IsSettled(d, e)
        /\ labels' = [labels EXCEPT ![d] = Append(@, new)]
        /\ status' = [status EXCEPT ![d][e] = here]
        /\ UNCHANGED <<request, at>>
    BY <1>9 DEF Reach, Tries, Admits, NewIndex, IsSettled
  <2>2. d \in Directions /\ at[d] \in DOMAIN labels[d] /\ e \in g.edge
    BY <2>1, ExaminedFacts
  <2>3. /\ labels \in [Directions -> Seq(LabelT)] /\ labels[d] \in Seq(LabelT)
        /\ status \in [Directions -> [Edges -> Status]] /\ g.edge \subseteq Edges
    BY <2>2, GraphFacts DEF SearchInv, Types
  <2>4. new.edge = e /\ new.pred = at[d] /\ new.cost = CostTo(d, e)
    <3> HIDE DEF d
    <3> QED  BY DEF NewLabel
  <2> HIDE DEF new
  <2>5. new.cost = CostOver(d, new, labels[d][at[d]])
    BY <2>4 DEF CostTo, CostOver, Reached
  <2> HIDE DEF d, here
  <2>6. /\ \A c \in Directions : c # d => labels'[c] = labels[c]
        /\ DOMAIN labels'[d] = 1..i /\ DOMAIN labels[d] = 1..i - 1 /\ i \in Nat \ {0}
        /\ labels'[d][i] = new /\ i \notin DOMAIN labels[d]
        /\ \A j \in 1..i : j \in DOMAIN labels[d] \/ j = i
        /\ \A j \in DOMAIN labels[d] : j \in DOMAIN labels'[d] /\ labels'[d][j] = labels[d][j]
    <3> DEFINE s == Append(labels[d], new)
    <3>1. /\ DOMAIN s = 1..i /\ s[i] = new /\ DOMAIN labels[d] = 1..i - 1 /\ i \in Nat \ {0}
          /\ \A j \in DOMAIN labels[d] : s[j] = labels[d][j]
      BY <2>3
    <3>2. labels' = [labels EXCEPT ![d] = s]
      BY <2>1
    <3> HIDE DEF s, i
    <3>3. /\ labels'[d] = s /\ \A c \in Directions : c # d => labels'[c] = labels[c]
      BY <2>2, <2>3, <3>2
    <3>4. /\ i \notin 1..i - 1 /\ \A j \in 1..i : j \in 1..i - 1 \/ j = i
          /\ \A j \in 1..i - 1 : j \in 1..i
      BY <3>1
    <3> QED  BY <3>1, <3>3, <3>4
  <2> HIDE DEF i
  <2>7. \A c \in Directions : \A f \in g.edge :
            status[c][f].set = "permanent" => status'[c][f].set = "permanent"
    BY <2>1, <2>2, <2>3 DEF IsSettled
  <2>8. \A c \in Directions : \A j \in DOMAIN labels'[c] :
            (c = d /\ j = i) \/ (j \in DOMAIN labels[c] /\ labels'[c][j] = labels[c][j])
    <3> SUFFICES ASSUME NEW c \in Directions, NEW j \in DOMAIN labels'[c]
                 PROVE  (c = d /\ j = i) \/ (j \in DOMAIN labels[c] /\ labels'[c][j] = labels[c][j])
      OBVIOUS
    <3>1. CASE c = d
      <4>1. j \in 1..i
        BY <2>6, <3>1
      <4>2. j = i \/ j \in DOMAIN labels[d]
        BY <2>6, <4>1
      <4> QED  BY <2>6, <3>1, <4>2
    <3>2. CASE c # d
      BY <2>6, <3>2
    <3> QED  BY <3>1, <3>2
  <2>9. \A c \in Directions : \A j \in DOMAIN labels[c] : j \in DOMAIN labels'[c]
    BY <2>6
  <2>10. i \in DOMAIN labels'[d]
    BY <2>6
  <2>11. /\ HasLabel(d) /\ labels'[d][i] = new /\ UNCHANGED <<request, at>>
         /\ i \in DOMAIN labels[d] => ~IsSettled(d, labels[d][i].edge)
    BY <2>1, <2>2, <2>6 DEF HasLabel
  <2> QED
    BY <2>2, <2>4, <2>5, <2>7, <2>8, <2>9, <2>10, <2>11, CostsOfLabel
<1>10. CASE Retry
  <2>1. request' = request /\ g' = g /\ request \in Requests /\ Searched
    BY <1>10 DEF Retry, SearchInv, Types, g
  <2>2. \A d \in Directions :
            RootLabels(d) \in Seq(LabelT)
            /\ \A i \in DOMAIN RootLabels(d) : RootLabels(d)[i].pred = NoLabel
    BY <2>1, Roots
  <2>3. \A d \in Directions : labels'[d] = RootLabels(d) /\ at'[d] = NoLabel
    BY <1>10 DEF Retry
  <2> QED  BY <2>2, <2>3 DEF CostsInv, HasLabel
<1>11. CASE \E k \in DOMAIN best : FormPath(k)
  BY <1>1, <1>11 DEF FormPath
<1>12. CASE \E keeps \in BOOLEAN : GivePath(keeps)
  BY <1>1, <1>12 DEF GivePath
<1>13. Next \/ UNCHANGED vars
  OBVIOUS
<1> QED
  BY <1>2, <1>3, <1>4, <1>5, <1>6, <1>7, <1>8, <1>9, <1>10, <1>11, <1>12, <1>13
     DEF Next, Step, Answered

-----------------------------------------------------------------------------
(* Shortcuts as the builder lays them. *)

(* c is a chain of roads that a shortcut beginning with e may stand for.      *)
IsSound(R, e, c) ==
    /\ c # <<>> /\ c[1] = e
    /\ \A i \in DOMAIN c : R.tags[c[i]] = {} /\ R.open[c[i]] = R.open[e]
    /\ \A i \in 1..Len(c) - 1 :
          R.from[c[i + 1]] = R.to[c[i]] /\ <<c[i], c[i + 1]>> \notin R.banned

LEMMA OneIs ==
    ASSUME NEW E, NEW e \in E
    PROVE  <<e>> \in Seq(E) /\ Len(<<e>>) = 1 /\ DOMAIN <<e>> = 1..1 /\ <<e>>[1] = e
           /\ <<e>> # <<>>
OBVIOUS

LEMMA PlainFacts ==
    ASSUME NEW R, IsPlain(R)
    PROVE  /\ R.edge \subseteq Edges /\ IsFiniteSet(R.edge) /\ Cardinality(R.edge) \in Nat
           /\ R.edge = 1..Cardinality(R.edge)
           /\ \A e \in R.edge :
                 /\ R.parts[e] = <<e>> /\ R.from[e] \in Nodes /\ R.to[e] \in Nodes
                 /\ R.opp[e] \in R.edge /\ R.opp[R.opp[e]] = e /\ R.from[R.opp[e]] = R.to[e]
                 /\ e \in ToSet(R.out[R.from[e]]) /\ R.open[e] \in BOOLEAN
           /\ \A n \in Nodes : /\ R.out[n] \in Seq(Edges)
                               /\ \A e \in ToSet(R.out[n]) : e \in R.edge /\ R.from[e] = n
<1>1. /\ R.edge \subseteq Edges /\ \A n \in Nodes : R.out[n] \in Seq(Edges)
      /\ \A e \in Edges : R.from[e] \in Nodes /\ R.to[e] \in Nodes /\ R.open[e] \in BOOLEAN
  BY DEF IsPlain, Graph
<1>2. R.edge = 1..Cardinality(R.edge) /\ IsFiniteSet(R.edge)  BY DEF IsPlain
<1>3. Cardinality(R.edge) \in Nat
  BY <1>2, FS_CardinalityType
<1>4. \A e \in R.edge :
          /\ R.opp[e] \in R.edge /\ R.opp[R.opp[e]] = e /\ R.from[R.opp[e]] = R.to[e]
          /\ R.parts[e] = <<e>> /\ e \in ToSet(R.out[R.from[e]])
  BY DEF IsPlain, WellFormed, IsShortcut
<1>5. \A m \in Nodes : \A e \in ToSet(R.out[m]) : e \in R.edge /\ R.from[e] = m
  BY DEF IsPlain, WellFormed
<1> QED  BY <1>1, <1>2, <1>3, <1>4, <1>5

(* what follows an edge into a node that is contracted *)
LEMMA OnwardIs ==
    ASSUME NEW R, IsPlain(R), NEW a \in R.edge, CanContract(R, R.to[a])
    PROVE  LET f == Onward(R, a) IN
           /\ f \in R.edge /\ R.from[f] = R.to[a] /\ R.tags[f] = {}
           /\ R.open[f] = R.open[a] /\ <<a, f>> \notin R.banned
<1> DEFINE n == R.to[a]
           s == R.out[n]
           b == R.opp[a]
           f == Onward(R, a)
<1>1. /\ n \in Nodes /\ s \in Seq(Edges) /\ b \in R.edge /\ R.opp[b] = a /\ R.from[b] = n
      /\ b \in ToSet(R.out[R.from[b]])
      /\ \A e \in ToSet(s) : e \in R.edge /\ R.from[e] = n
      /\ \A e \in R.edge : R.opp[R.opp[e]] = e
  <2>1. /\ n \in Nodes /\ b \in R.edge /\ R.opp[b] = a /\ R.from[b] = n
        /\ \A e \in R.edge : R.opp[R.opp[e]] = e /\ e \in ToSet(R.out[R.from[e]])
    BY PlainFacts
  <2> HIDE DEF n, b
  <2> QED  BY <2>1, PlainFacts
<1>2. /\ Len(s) = 2 /\ R.to[s[1]] # R.to[s[2]]
      /\ R.open[s[1]] = R.open[R.opp[s[2]]] /\ R.open[R.opp[s[1]]] = R.open[s[2]]
      /\ \A e \in ToSet(s) : R.tags[e] = {}
      /\ \A e, x \in ToSet(s) : e # x => <<R.opp[e], x>> \notin R.banned
  BY DEF CanContract, EdgesMatch, Tagged
<1>3. f = CHOOSE x \in ToSet(s) : x # b
  BY DEF Onward
<1> HIDE DEF f, s, n, b
<1>4. ToSet(s) = {s[1], s[2]} /\ s[1] # s[2]
  <2>1. DOMAIN s = {1, 2}  BY <1>1, <1>2
  <2> QED  BY <1>2, <2>1 DEF ToSet
<1>5. b \in ToSet(s)
  BY <1>1 DEF s
<1>6. f \in ToSet(s) /\ f # b
  BY <1>3, <1>4
<1>7. R.open[f] = R.open[a]
  <2>1. CASE b = s[1] /\ f = s[2]  BY <1>1, <1>2, <2>1
  <2>2. CASE b = s[2] /\ f = s[1]  BY <1>1, <1>2, <2>2
  <2> QED  BY <1>4, <1>5, <1>6, <2>1, <2>2
<1>8. <<a, f>> \notin R.banned
  BY <1>1, <1>2, <1>5, <1>6
<1> QED  BY <1>1, <1>2, <1>6, <1>7, <1>8 DEF f, n

(* What lengthening a chain keeps, the chain has.                             *)
Longer(R, c) == IF CanContract(R, R.to[Last(c)]) THEN Append(c, Onward(R, Last(c))) ELSE c

LEMMA ChainIn ==
    ASSUME NEW R, NEW e, NEW S, Cardinality(R.edge) \in Nat, <<e>> \in S,
           \A c \in S : Longer(R, c) \in S
    PROVE  Chain(R, e) \in S
<1> DEFINE N == Cardinality(R.edge)
           one == <<e>>
           Step_(C) == [k \in 0..N |-> IF k = 0 THEN one ELSE Longer(R, C[k - 1])]
<1>1. N \in Nat /\ one \in S
  OBVIOUS
<1> HIDE DEF N, one
<1> DEFINE H == [k \in 1..N |-> [c \in S |-> Longer(R, c)]]
<1>2. H \in Steps(N, S)  BY DEF Steps
<1>3. \A k \in 1..N, c \in S : H[k][c] = Longer(R, c)  OBVIOUS
<1> HIDE DEF H
<1>4. PICK F : Iterates(F, N, S, one, H)  BY <1>1, <1>2, Recursion
<1>5. \A k \in 1..N : k - 1 \in 0..N /\ F[k] = Longer(R, F[k - 1])
  <2>1. \A k \in 1..N : k - 1 \in 0..N  BY <1>1
  <2> QED  BY <1>3, <1>4, <2>1 DEF Iterates
<1>6. F = Step_(F)
  <2>1. DOMAIN F = 0..N /\ F = [k \in 0..N |-> F[k]]  BY <1>4 DEF Iterates
  <2>2. ASSUME NEW k \in 0..N PROVE F[k] = IF k = 0 THEN one ELSE Longer(R, F[k - 1])
    <3>1. CASE k = 0  BY <1>4, <3>1 DEF Iterates
    <3>2. CASE k # 0
      <4>1. k \in 1..N  BY <1>1, <3>2
      <4> QED  BY <1>5, <3>2, <4>1
    <3> QED  BY <3>1, <3>2
  <2> QED  BY <2>1, <2>2
<1> DEFINE C == CHOOSE V : V = Step_(V)
<1>7. C = Step_(C)  BY <1>6
<1>8. Chain(R, e) = C[N]  BY DEF Chain, Longer, N, one
<1> HIDE DEF C
<1>9. C[0] = one /\ \A k \in 1..N : C[k] = Longer(R, C[k - 1])
  <2>1. \A k \in 0..N : C[k] = IF k = 0 THEN one ELSE Longer(R, C[k - 1])  BY <1>7
  <2>2. 0 \in 0..N /\ \A k \in 1..N : k \in 0..N /\ k # 0  BY <1>1
  <2> QED  BY <2>1, <2>2
<1> DEFINE A == {k \in 0..N : C[k] \in S}
<1>10. 0 \in A  BY <1>1, <1>9
<1>11. ASSUME NEW k \in 1..N, k - 1 \in A PROVE k \in A
  BY <1>1, <1>9, <1>11
<1> HIDE DEF A
<1>12. \A k \in 0..N : k \in A  BY <1>1, <1>10, <1>11, UpTo
<1>13. N \in A  BY <1>1, <1>12
<1> QED  BY <1>8, <1>13 DEF A

(* A chain, as far as it goes, is sound.                                      *)
LEMMA ChainIsSound ==
    ASSUME NEW R, IsPlain(R), NEW e \in R.edge, R.tags[e] = {}
    PROVE  Chain(R, e) \in Seq(R.edge) /\ IsSound(R, e, Chain(R, e))
<1> DEFINE S == {c \in Seq(R.edge) : IsSound(R, e, c)}
<1>1. Cardinality(R.edge) \in Nat  BY PlainFacts
<1>2. <<e>> \in S
  <2> DEFINE one == <<e>>
  <2>1. one \in Seq(R.edge) /\ Len(one) = 1 /\ DOMAIN one = 1..1 /\ one[1] = e
        /\ one # <<>>
    BY OneIs
  <2> HIDE DEF one
  <2>2. 1..Len(one) - 1 = {}
    <3>1. 1..1 - 1 = {}  OBVIOUS
    <3> QED  BY <2>1, <3>1
  <2> QED  BY <2>1, <2>2 DEF IsSound, one
<1>3. ASSUME NEW c \in S PROVE Longer(R, c) \in S
  <2>1. CASE ~CanContract(R, R.to[Last(c)])  BY <2>1 DEF Longer
  <2>2. CASE CanContract(R, R.to[Last(c)])
    <3> DEFINE m == Len(c)
               a == Last(c)
               f == Onward(R, a)
    <3>1. /\ c \in Seq(R.edge) /\ m \in Nat /\ m >= 1 /\ a = c[m] /\ a \in R.edge
          /\ \A i \in DOMAIN c : R.tags[c[i]] = {} /\ R.open[c[i]] = R.open[e]
          /\ \A i \in 1..m - 1 :
                R.from[c[i + 1]] = R.to[c[i]] /\ <<c[i], c[i + 1]>> \notin R.banned
          /\ c[1] = e
      <4>1. c \in Seq(R.edge) /\ c # <<>>  BY DEF IsSound
      <4>2. m \in Nat /\ m >= 1 /\ a = c[m] /\ a \in R.edge  BY <4>1 DEF Last
      <4> QED  BY <4>1, <4>2 DEF IsSound
    <3>2. /\ f \in R.edge /\ R.from[f] = R.to[a] /\ R.tags[f] = {}
          /\ R.open[f] = R.open[a] /\ <<a, f>> \notin R.banned
      BY <2>2, <3>1, OnwardIs
    <3> DEFINE x == Append(c, f)
    <3>3. Longer(R, c) = x  BY <2>2 DEF Longer
    <3> HIDE DEF f, a
    <3>4. /\ x \in Seq(R.edge) /\ Len(x) = m + 1 /\ DOMAIN x = 1..m + 1
          /\ x[m + 1] = f /\ \A i \in 1..m : x[i] = c[i]
      BY <3>1, <3>2
    <3> HIDE DEF x
    <3>5. \A i \in DOMAIN x : R.tags[x[i]] = {} /\ R.open[x[i]] = R.open[e]
      <4> SUFFICES ASSUME NEW i \in 1..m + 1
                   PROVE  R.tags[x[i]] = {} /\ R.open[x[i]] = R.open[e]
        BY <3>4
      <4>1. CASE i = m + 1
        <5>1. R.open[a] = R.open[e]  BY <3>1
        <5> QED  BY <3>2, <3>4, <4>1, <5>1
      <4>2. CASE i # m + 1
        <5>1. i \in 1..m /\ i \in DOMAIN c  BY <3>1, <4>2
        <5> QED  BY <3>1, <3>4, <5>1
      <4> QED  BY <4>1, <4>2
    <3>6. ASSUME NEW i \in 1..Len(x) - 1
          PROVE  R.from[x[i + 1]] = R.to[x[i]] /\ <<x[i], x[i + 1]>> \notin R.banned
      <4>1. CASE i = m
        <5>1. x[i] = a /\ x[i + 1] = f  BY <3>1, <3>4, <4>1
        <5> QED  BY <3>2, <5>1
      <4>2. CASE i # m
        <5>1. i \in 1..m - 1 /\ i \in 1..m /\ i + 1 \in 1..m  BY <3>1, <3>4, <4>2
        <5> QED  BY <3>1, <3>4, <5>1
      <4> QED  BY <4>1, <4>2
    <3>7. x # <<>> /\ x[1] = e  BY <3>1, <3>4
    <3>8. IsSound(R, e, x)  BY <3>5, <3>6, <3>7 DEF IsSound
    <3> QED  BY <3>3, <3>4, <3>8
  <2> QED  BY <2>1, <2>2
<1> HIDE DEF S
<1>4. Chain(R, e) \in S  BY <1>1, <1>2, <1>3, ChainIn
<1> QED  BY <1>4 DEF S

(* What the builder lays over the edges of a plain graph.                     *)
LEMMA BuiltFacts ==
    ASSUME NEW R, IsPlain(R), WithShortcuts(R) \in Graph, NEW s \in WithShortcuts(R).edge
    PROVE  LET T == WithShortcuts(R)
               N == Cardinality(R.edge) IN
           /\ s \in Edges
           /\ \/ s \in R.edge /\ T.parts[s] = <<s>>
              \/ /\ s - N \in R.edge /\ R.tags[s - N] = {}
                 /\ T.parts[s] = Chain(R, s - N) /\ T.open[s] = R.open[s - N]
           /\ \A p \in R.edge :
                 /\ T.parts[p] = <<p>> /\ T.tags[p] = R.tags[p] /\ T.open[p] = R.open[p]
                 /\ T.from[p] = R.from[p] /\ T.to[p] = R.to[p]
           /\ T.banned = R.banned
<1> DEFINE T == WithShortcuts(R)
           N == Cardinality(R.edge)
           starts == {e \in R.edge : StartsShortcut(R, e)}
           new == {ShortcutOver(R, e) : e \in starts}
           chain == [e \in starts |-> Chain(R, e)]
<1>1. T.edge = R.edge \cup new /\ T.banned = R.banned
  BY DEF WithShortcuts, IsPlain, Graph
<1>2. T.from = [e \in Edges |-> IF e \in new THEN R.from[e - N] ELSE R.from[e]]
  BY DEF WithShortcuts, IsPlain, Graph
<1>3. T.open = [e \in Edges |-> IF e \in new THEN R.open[e - N] ELSE R.open[e]]
  BY DEF WithShortcuts, IsPlain, Graph
<1>4. \A e \in Edges : e \notin new => T.tags[e] = R.tags[e] /\ T.to[e] = R.to[e]
  BY DEF WithShortcuts, IsPlain, Graph
<1>5. T.parts = [e \in Edges |-> IF e \in new THEN chain[e - N] ELSE R.parts[e]]
  BY DEF WithShortcuts, IsPlain, Graph
<1>6. /\ N \in Nat /\ R.edge = 1..N /\ R.edge \subseteq Edges
      /\ \A e \in R.edge : R.parts[e] = <<e>>
  BY PlainFacts
<1>7. s \in Edges /\ s \in R.edge \cup new
  <2>1. T.edge \subseteq Edges  BY DEF Graph
  <2> QED  BY <1>1, <2>1
<1>8. \A e \in starts : e \in R.edge /\ R.tags[e] = {}
  BY DEF StartsShortcut, Tagged
<1>9. \A p \in R.edge : p \in Edges /\ p \notin new
  <2> SUFFICES ASSUME NEW p \in 1..N, NEW e \in 1..N, p = e + N PROVE FALSE
    BY <1>6, <1>8 DEF ShortcutOver
  <2> QED  BY <1>6
<1> HIDE DEF T, N, chain
<1>10. \A p \in R.edge :
          /\ T.parts[p] = <<p>> /\ T.tags[p] = R.tags[p] /\ T.open[p] = R.open[p]
          /\ T.from[p] = R.from[p] /\ T.to[p] = R.to[p]
  <2> HIDE DEF new
  <2> QED  BY <1>2, <1>3, <1>4, <1>5, <1>6, <1>9
<1>11. CASE s \in R.edge  BY <1>1, <1>7, <1>10, <1>11 DEF T, N
<1>12. CASE s \in new
  <2>1. PICK e \in starts : s = ShortcutOver(R, e)  BY <1>12
  <2>2. s - N = e
    <3>1. e \in 1..N  BY <1>6, <1>8
    <3> HIDE DEF starts
    <3>2. s = e + N  BY <2>1 DEF ShortcutOver, N
    <3> QED  BY <1>6, <3>1, <3>2
  <2>3. chain[e] = Chain(R, e)  BY DEF chain
  <2> HIDE DEF new, starts
  <2>4. T.parts[s] = Chain(R, s - N) /\ T.open[s] = R.open[s - N]
    BY <1>3, <1>5, <1>7, <1>12, <2>2, <2>3
  <2> QED  BY <1>1, <1>7, <1>8, <1>10, <2>2, <2>4 DEF T, N
<1> QED  BY <1>7, <1>11, <1>12

(* On every plain graph the builder lays its shortcuts over roads without a   *)
(* tag, as open as the shortcut, that follow each other.                      *)
LEMMA BuiltIsSound ==
    ASSUME NEW R, IsPlain(R), WithShortcuts(R) \in Graph, NEW s \in WithShortcuts(R).edge,
           IsShortcut(WithShortcuts(R), s)
    PROVE  SoundShortcut(WithShortcuts(R), s)
<1> DEFINE T == WithShortcuts(R)
           e == s - Cardinality(R.edge)
           c == Chain(R, e)
<1>1. /\ e \in R.edge /\ R.tags[e] = {} /\ T.parts[s] = c /\ T.open[s] = R.open[e]
  BY BuiltFacts DEF IsShortcut
<1>2. /\ T.banned = R.banned
      /\ \A p \in R.edge :
             /\ T.parts[p] = <<p>> /\ T.tags[p] = R.tags[p] /\ T.open[p] = R.open[p]
             /\ T.from[p] = R.from[p] /\ T.to[p] = R.to[p]
  BY BuiltFacts
<1>3. c \in Seq(R.edge) /\ IsSound(R, e, c)  BY <1>1, ChainIsSound
<1> HIDE DEF T, e, c
<1>4. Len(c) \in Nat /\ \A i \in 1..Len(c) : c[i] \in R.edge  BY <1>3
<1>5. ASSUME NEW p \in ToSet(c) PROVE T.tags[p] = {} /\ T.open[p] = T.open[s]
  <2>1. PICK i \in DOMAIN c : p = c[i]  BY DEF ToSet
  <2>2. p \in R.edge /\ R.tags[p] = {} /\ R.open[p] = R.open[e]
    BY <1>3, <2>1 DEF IsSound
  <2> QED  BY <1>1, <1>2, <2>2
<1>6. ASSUME NEW i \in 1..Len(c) - 1
      PROVE  T.from[c[i + 1]] = T.to[c[i]] /\ Turn(T, c[i], c[i + 1]) \notin T.banned
  <2>1. c[i] \in R.edge /\ c[i + 1] \in R.edge  BY <1>4
  <2>2. R.from[c[i + 1]] = R.to[c[i]] /\ <<c[i], c[i + 1]>> \notin R.banned
    BY <1>3 DEF IsSound
  <2>3. Turn(T, c[i], c[i + 1]) = <<c[i], c[i + 1]>>
    <3>1. \A p : Last(<<p>>) = p /\ Head(<<p>>) = p  BY DEF Last
    <3> QED  BY <1>2, <2>1, <3>1 DEF Turn, LastPart, FirstPart
  <2> QED  BY <1>2, <2>1, <2>2, <2>3
<1>7. SoundShortcut(T, s)  BY <1>1, <1>5, <1>6 DEF SoundShortcut
<1> QED  BY <1>7 DEF T

-----------------------------------------------------------------------------
(* The results. *)

(* In every search, whatever it pops and skips, what the search has reached   *)
(* is found again by its status.                                              *)
THEOREM StatusTheorem == Spec => []StatusPointsAtLabel
<1>1. Init => SearchInv
  BY InitSearch
<1>2. SearchInv /\ [Next]_vars => SearchInv'
  BY NextSearch
<1>3. SearchInv => StatusPointsAtLabel
  BY DEF SearchInv
<1> QED  BY <1>1, <1>2, <1>3, PTL DEF Spec

(* In every search, a shortcut one direction has taken is not passed over by  *)
(* the other, on any graph and under any hierarchy limits.                     *)
THEOREM ShortcutsTheorem == Spec => []ShortcutsAgree
<1>1. Init => SearchInv
  BY InitSearch
<1>2. SearchInv /\ [Next]_vars => SearchInv'
  BY NextSearch
<1>3. SearchInv => ShortcutsAgree
  BY DEF SearchInv
<1> QED  BY <1>1, <1>2, <1>3, PTL DEF Spec

(* On any graph whose shortcuts are sound, every path given back is legal, and *)
(* no request ends in an exception.                                            *)
THEOREM RoutesTheorem == Spec /\ []ShortcutsAreSound => []RoutesAreLegal
<1>1. Init => SearchInv /\ PathInv
  BY InitSearch, InitPath
<1>2. SearchInv /\ PathInv /\ ShortcutsAreSound /\ [Next]_vars => SearchInv' /\ PathInv'
  BY NextSearch, NextPath
<1>3. PathInv => RoutesAreLegal
  BY DEF PathInv
<1> QED  BY <1>1, <1>2, <1>3, PTL DEF Spec

(* The graphs asked about are tiles without shortcuts, or what the builder    *)
(* makes of such tiles.                                                       *)
AreBuilt ==
    \A r \in Requests :
        IsPlain(r.graph) \/ \E G \in Graph : IsPlain(G) /\ r.graph = WithShortcuts(G)

(* On tiles that the builder has made no shortcut lies over a tagged road, a   *)
(* road that is not as open as it is, or a turn that is forbidden.             *)
THEOREM BuiltTheorem == ASSUME AreBuilt PROVE Spec => []ShortcutsAreSound
<1>1. \A r \in Requests : \A s \in r.graph.edge :
          IsShortcut(r.graph, s) => SoundShortcut(r.graph, s)
  <2> SUFFICES ASSUME NEW r \in Requests, NEW s \in r.graph.edge, IsShortcut(r.graph, s)
               PROVE  SoundShortcut(r.graph, s)
    OBVIOUS
  <2>1. r.graph \in Graph  BY RequestAssumption DEF Request
  <2>2. PICK G \in Graph : IsPlain(G) /\ r.graph = WithShortcuts(G)
    BY DEF AreBuilt, IsPlain
  <2> QED  BY <2>1, <2>2, BuiltIsSound
<1>2. Init => SearchInv
  BY InitSearch
<1>3. SearchInv /\ [Next]_vars => SearchInv'
  BY NextSearch
<1>4. SearchInv => ShortcutsAreSound
  BY <1>1 DEF SearchInv, Types, ShortcutsAreSound, g
<1> QED  BY <1>2, <1>3, <1>4, PTL DEF Spec

(* On tiles that the builder has made every path given back is legal, and no  *)
(* request ends in an exception.                                              *)
THEOREM LegalTheorem == ASSUME AreBuilt PROVE Spec => []RoutesAreLegal
<1> QED  BY BuiltTheorem, RoutesTheorem, PTL

(* In every search the cost of a label is that of the chain that leads back   *)
(* from it: no label is improved once another follows it.                      *)
THEOREM CostsTheorem == Spec => []CostsFollowChains
<1>1. Init => SearchInv /\ CostsInv
  BY InitSearch, InitCosts
<1>2. SearchInv /\ CostsInv /\ [Next]_vars => SearchInv' /\ CostsInv'
  BY NextSearch, NextCosts
<1>3. CostsInv => CostsFollowChains
  BY DEF CostsInv, CostOver, CostsFollowChains
<1> QED  BY <1>1, <1>2, <1>3, PTL DEF Spec
=============================================================================
