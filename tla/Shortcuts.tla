------------------------------ MODULE Shortcuts ------------------------------
(***************************************************************************)
(* mjolnir's shortcut edges: over a graph without shortcuts, the edges that  *)
(* stand for a chain through nodes where there is nothing to decide.  A      *)
(* shortcut has no tags of its own, so it must not run over a road that has.  *)
(***************************************************************************)
EXTENDS RoadGraph

CONSTANT LocalLevel      \* shortcuts are formed on the levels above it

(* What the builder is given: tiles without shortcuts, whose edges leave the  *)
(* nodes they start at.  Edges are numbered from 1 here.                      *)
IsPlain(g) ==
    /\ g \in Graph /\ WellFormed(g)
    /\ IsFiniteSet(g.edge) /\ g.edge = 1..Cardinality(g.edge)
    /\ \A e \in g.edge : ~IsShortcut(g, e) /\ e \in ToSet(g.out[g.from[e]])

(* EdgesMatch: both roads at the node have the same access (all other        *)
(* attributes it compares agree on a level of the graphs described here).    *)
EdgesMatch(g, e1, e2) ==
    /\ g.to[e1] # g.to[e2]
    /\ g.open[e1] = g.open[g.opp[e2]]
    /\ g.open[g.opp[e1]] = g.open[e2]

NeverTagged(g, e) == FALSE                                         \* variant
Tagged(g, e) == g.tags[e] # {}

CanContract(g, n) ==
    /\ ~\E t \in ToSet(g.trans[n]) : g.level[t] < g.level[n]
    /\ Len(g.out[n]) = 2
    /\ EdgesMatch(g, g.out[n][1], g.out[n][2])
    /\ \A e \in ToSet(g.out[n]) : ~Tagged(g, e)
    /\ \A e, f \in ToSet(g.out[n]) : e # f => <<g.opp[e], f>> \notin g.banned

(* the edges a shortcut starts on *)
StartsShortcut(g, e) ==
    /\ g.level[g.from[e]] < LocalLevel
    /\ ~CanContract(g, g.from[e])
    /\ ~Tagged(g, e)
    /\ CanContract(g, g.to[e])

(* the chain from e on, as long as it enters nodes that are contracted *)
Onward(g, e) == CHOOSE f \in ToSet(g.out[g.to[e]]) : f # g.opp[e]
Chain(g, e) ==
    LET C[k \in 0..Cardinality(g.edge)] ==
            IF k = 0 THEN <<e>>
            ELSE LET c == C[k - 1]
                 IN IF CanContract(g, g.to[Last(c)]) THEN Append(c, Onward(g, Last(c))) ELSE c
    IN C[Cardinality(g.edge)]
ChainCost(g, c) ==
    FoldLeft(+, 0, [i \in DOMAIN c |->
        g.cost[c[i]] + (IF i = 1 THEN 0 ELSE TransitionCost(g, c[i - 1], c[i]))])

(* FormShortcuts: shortcuts come first among a node's edges; access and      *)
(* not-thru are those of the first edge of the chain, the restrictions and   *)
(* the way back those of the last.  The shortcut over e is numbered after e.  *)
ShortcutOver(g, e) == e + Cardinality(g.edge)
ShortcutsFirst(g, n, starts) ==
    LET under == SelectSeq(g.out[n], LAMBDA e : e \in starts)
    IN [i \in DOMAIN under |-> ShortcutOver(g, under[i])] \o g.out[n]
WithShortcuts(g) ==
    LET starts == {e \in g.edge : StartsShortcut(g, e)}
        shortcuts == {ShortcutOver(g, e) : e \in starts}
        chain == [e \in starts |-> Chain(g, e)]
        last == [e \in starts |-> Last(chain[e])]
        Lay(field, over) ==
            [e \in Edges |-> IF e \in shortcuts THEN over[e - Cardinality(g.edge)] ELSE field[e]]
    IN [g EXCEPT
        !.out = [n \in Nodes |-> ShortcutsFirst(g, n, starts)],
        !.edge = @ \cup shortcuts,
        !.from = Lay(@, @),
        !.to = Lay(@, [e \in starts |-> g.to[last[e]]]),
        !.opp = Lay(@, [e \in starts |-> ShortcutOver(g, g.opp[last[e]])]),
        !.cost = Lay(@, [e \in starts |-> ChainCost(g, chain[e])]),
        !.open = Lay(@, @),
        !.tags = Lay(@, [e \in starts |-> {}]),
        !.notThru = Lay(@, @),
        !.parts = Lay(@, chain),
        !.over = [e \in Edges |-> IF e \in starts THEN ShortcutOver(g, e) ELSE NoEdge]]
=============================================================================
