------------------------------ MODULE RoadGraph ------------------------------
(***************************************************************************)
(* The part of Valhalla's tiles and of a truck request that decides which   *)
(* roads a route may take.  A road is two opposing directed edges; a place  *)
(* has a node on each hierarchy level that has edges there, tied by node    *)
(* transitions; a shortcut is an edge of its own that stands for a chain.   *)
(*                                                                         *)
(* All tiles are present, and the only restrictions are one-ways, not-thru  *)
(* edges, forbidden turns between two edges and the NHVR networks for which *)
(* an edge is prohibited: barriers, closures, timed, complex and            *)
(* destination-only restrictions do not occur in the graphs described here. *)
(***************************************************************************)
EXTENDS Integers, SequencesExt

CONSTANTS
    Nodes, Edges, Networks     \* what graphs are made of

NoEdge == 0

(* An edge is a number, which is never that of none.                         *)
ASSUME EdgesAssumption == Edges \subseteq Nat \ {NoEdge}

(* start and goal are positions on a line, along which the A* heuristic      *)
(* measures; a location is an edge of the road and the cost of the part of it *)
(* the route covers (loki's correlation).                                     *)
Location == [edge : Edges, cost : Nat]
Graph ==
    [node : SUBSET Nodes, level : [Nodes -> 0..2], pos : [Nodes -> Nat],
     trans : [Nodes -> Seq(Nodes)], out : [Nodes -> Seq(Edges)],
     edge : SUBSET Edges, from : [Edges -> Nodes], to : [Edges -> Nodes],
     opp : [Edges -> Edges], cost : [Edges -> Nat], open : [Edges -> BOOLEAN],
     tags : [Edges -> SUBSET Networks], notThru : [Edges -> BOOLEAN],
     parts : [Edges -> Seq(Edges)], over : [Edges -> Edges \cup {NoEdge}],
     banned : SUBSET (Edges \X Edges), slow : SUBSET (Edges \X Edges),
     networks : SUBSET Networks, start : Nat, goal : Nat,
     origin : Seq(Location), dest : Seq(Location)]

IsShortcut(g, e) == g.parts[e] # <<e>>
FirstPart(g, e) == Head(g.parts[e])
LastPart(g, e) == Last(g.parts[e])

(* Tiles are consistent: transitions tie nodes of one place both ways, edges  *)
(* are found at the node they leave, shortcuts ahead of the others; every     *)
(* edge has a way back, and a shortcut lies over regular edges.  A location   *)
(* has candidates, each a regular edge that it names once.                    *)
WellFormed(g) ==
    /\ IsFiniteSet(g.edge)
    /\ \A m \in Nodes : \A n \in ToSet(g.trans[m]) :
          n \in Nodes /\ m \in ToSet(g.trans[n]) /\ g.pos[m] = g.pos[n]
    /\ \A n \in Nodes : \A e \in ToSet(g.out[n]) : e \in g.edge /\ g.from[e] = n
    /\ \A n \in Nodes : \A j \in DOMAIN g.out[n] :
          IsShortcut(g, g.out[n][j]) => \A i \in 1..j : IsShortcut(g, g.out[n][i])
    /\ \A e \in g.edge :
          /\ e \in ToSet(g.out[g.from[e]])
          /\ g.opp[e] \in g.edge /\ g.opp[g.opp[e]] = e /\ g.from[g.opp[e]] = g.to[e]
          /\ g.parts[e] # <<>>
          /\ \A p \in ToSet(g.parts[e]) : p \in g.edge /\ ~IsShortcut(g, p)
          /\ IsShortcut(g, e) <=> IsShortcut(g, g.opp[e])
          /\ g.from[e] = g.from[FirstPart(g, e)] /\ g.to[e] = g.to[LastPart(g, e)]
    /\ \A location \in {g.origin, g.dest} :
          /\ location # <<>>
          /\ \A i \in DOMAIN location :
                /\ location[i].edge \in g.edge /\ ~IsShortcut(g, location[i].edge)
                /\ \A j \in DOMAIN location : location[i].edge = location[j].edge => i = j

Prohibited(g, e) == g.tags[e] \cap g.networks # {}
(* TruckCost::Allowed(edge, tile, mask), which filters the roads a location *)
(* can be on.                                                               *)
Permitted(g, e) == g.open[e] /\ ~Prohibited(g, e)

(* Local indices survive the split into levels: opp_local_idx of an edge     *)
(* names its last part's way back, localedgeidx its first part.              *)
IsUturn(g, e, next) == FirstPart(g, next) = g.opp[LastPart(g, e)]
Turn(g, e, next) == <<LastPart(g, e), FirstPart(g, next)>>
TransitionCost(g, e, next) == IF Turn(g, e, next) \in g.slow THEN 3 ELSE 0

(* e ends where next begins, on the same level or over one transition. *)
Meets(g, e, next) ==
    \/ g.from[next] = g.to[e]
    \/ g.from[next] \in ToSet(g.trans[g.to[e]])

-----------------------------------------------------------------------------
(* What a route has to be. *)

(* regular edges, all of them permitted, driven one after the other through  *)
(* turns that are not forbidden                                               *)
LegalPath(g, path) ==
    /\ path # <<>>
    /\ \A i \in 1..Len(path) : Permitted(g, path[i])
    /\ \A i \in 1..(Len(path) - 1) :
          Meets(g, path[i], path[i + 1]) /\ Turn(g, path[i], path[i + 1]) \notin g.banned

Joins(g, path) ==
    /\ \E k \in DOMAIN g.origin : path[1] = g.origin[k].edge
    /\ \E k \in DOMAIN g.dest : path[Len(path)] = g.dest[k].edge

LegalRoute(g, path) == LegalPath(g, path) /\ Joins(g, path)

(* The roads under a shortcut have no tag, are as open as it is, and follow   *)
(* each other through turns that are not forbidden.                          *)
SoundShortcut(g, s) ==
    /\ \A p \in ToSet(g.parts[s]) : g.tags[p] = {} /\ g.open[p] = g.open[s]
    /\ \A i \in 1..Len(g.parts[s]) - 1 :
          /\ g.from[g.parts[s][i + 1]] = g.to[g.parts[s][i]]
          /\ Turn(g, g.parts[s][i], g.parts[s][i + 1]) \notin g.banned

(* A vehicle is sure to turn round only where no other road is open to it,    *)
(* neither to go on nor to come from: each search tries the way back where it  *)
(* has approved no other edge, and looks at the roads there its own way.      *)
DeadEnd(g, e) ==
    \A other \in g.edge :
        ~IsShortcut(g, other) /\ Meets(g, e, other) /\ other # g.opp[e]
        => ~Permitted(g, other) /\ ~Permitted(g, g.opp[other])
MayFollow(g, e, next) ==
    /\ Meets(g, e, next) /\ ~IsShortcut(g, next)
    /\ Permitted(g, next) /\ <<e, next>> \notin g.banned
    /\ next = g.opp[e] => DeadEnd(g, e)

(* The least cost of a route, the reference the search is compared with;     *)
(* NoWay when there is none.  A pair <<e, c>> is a way that ends with e at    *)
(* cost c; an origin edge counts with its part only.                          *)
NoWay == 1000000
LeastOf(S) == CHOOSE x \in S : \A y \in S : x <= y
Departures(g) == {<<g.origin[k].edge, g.origin[k].cost>> : k \in DOMAIN g.origin}
Cheapest(W) == {w \in W : \A v \in W : v[1] = w[1] => w[2] <= v[2]}
Extended(g, W) ==
    W \cup UNION {{<<e, w[2] + TransitionCost(g, w[1], e) + g.cost[e]>> :
                      e \in {f \in g.edge : MayFollow(g, w[1], f)}} : w \in W}
Ways(g) ==
    LET W[n \in 0..Cardinality(g.edge)] ==
            IF n = 0 THEN Departures(g) ELSE Cheapest(Extended(g, W[n - 1]))
    IN W[Cardinality(g.edge)]
LeastCost(g) ==
    LeastOf({NoWay} \cup UNION {
        {w[2] + TransitionCost(g, w[1], g.dest[k].edge) + g.dest[k].cost :
            w \in {v \in Ways(g) : MayFollow(g, v[1], g.dest[k].edge)}} : k \in DOMAIN g.dest})
=============================================================================
