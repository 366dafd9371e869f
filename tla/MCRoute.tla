------------------------------- MODULE MCRoute -------------------------------
(***************************************************************************)
(* Instances of RouteSearch: a town on one level, whose roads are            *)
(* prohibited, one-way or not through in all combinations, a highway above a  *)
(* local road, with and without hierarchy limits, on which shortcuts are      *)
(* formed, and a spur whose ends count with more than their roads.             *)
(***************************************************************************)
EXTENDS RouteSearch

MCNodes == 1..9
MCEdges == 1..24
MCNetworks == {"B-double", "HML", "PBS"}
MCLocalLevel == 2

Built == INSTANCE Shortcuts WITH LocalLevel <- MCLocalLevel

(* Requests are numbered: the digits of i, in the radices given, are the      *)
(* options of the request.                                                    *)
Digits(i, radix) ==
    LET Weight[k \in 1..Len(radix) + 1] == IF k = 1 THEN 1 ELSE Weight[k - 1] * radix[k - 1]
    IN [k \in DOMAIN radix |-> (i \div Weight[k]) % radix[k]]
Bits(i, S) == {k \in S : (i \div 2^k) % 2 = 1}
Product(radix) == FoldLeft(LAMBDA x, y : x * y, 1, radix)

(* Road k is edge 2k - 1 there and edge 2k back. *)
There(k) == 2 * k - 1
Back(k) == 2 * k
RoadOf(e) == (e + 1) \div 2

(* the same function, evaluated once for TLC *)
Strict(f) == f @@ <<>>

(* roads: <<node, node, cost>>; shut, notThru, banned, slow: edges, pairs    *)
Plan(roads, level, pos, links, tags, shut, notThru, banned, slow, origin, dest) ==
    LET E == 1..(2 * Len(roads))
        Ahead(e) == e = There(RoadOf(e))
        From(e) == roads[RoadOf(e)][IF Ahead(e) THEN 1 ELSE 2]
        Field(F(_), default) == Strict([e \in Edges |-> IF e \in E THEN F(e) ELSE default])
    IN [node |-> DOMAIN pos, level |-> [n \in Nodes |-> level[n]], pos |-> pos,
        trans |-> Strict([n \in Nodes |->
            SelectSeq([m \in Nodes |-> m], LAMBDA m : <<n, m>> \in links \/ <<m, n>> \in links)]),
        out |-> Strict([n \in Nodes |-> SelectSeq([e \in E |-> e], LAMBDA e : From(e) = n)]),
        edge |-> E,
        from |-> Field(From, 1),
        to |-> Field(LAMBDA e : roads[RoadOf(e)][IF Ahead(e) THEN 2 ELSE 1], 1),
        opp |-> Field(LAMBDA e : IF Ahead(e) THEN e + 1 ELSE e - 1, 1),
        cost |-> Field(LAMBDA e : roads[RoadOf(e)][3], 0),
        open |-> Field(LAMBDA e : e \notin shut, FALSE),
        tags |-> Field(LAMBDA e : tags[RoadOf(e)], {}),
        notThru |-> Field(LAMBDA e : e \in notThru, FALSE),
        parts |-> [e \in Edges |-> <<e>>], over |-> [e \in Edges |-> NoEdge],
        banned |-> banned, slow |-> slow, networks |-> {"B-double", "HML"},
        start |-> pos[roads[1][2]] - origin[1].cost,
        goal |-> pos[roads[Len(roads)][1]] + dest[1].cost,
        origin |-> origin, dest |-> dest]

Tagging(prohibited, other) ==
    [k \in 1..14 |-> IF k \in prohibited THEN {"HML"} ELSE IF k \in other THEN {"PBS"} ELSE {}]
At(e, c) == [edge |-> e, cost |-> c]

-----------------------------------------------------------------------------
(*          3                                                              *)
(*       2/ | \4                                                           *)
(*   1 - 2  |6  5 - 6        road 1 is the origin's, road 7 the            *)
(*       3\ | /5             destination's                                 *)
(*          4                                                              *)
TownRoads(a, b) ==
    <<<<1, 2, 2>>, <<2, 3, a>>, <<2, 4, 3>>, <<3, 5, 2>>, <<4, 5, b>>, <<3, 4, 2>>, <<5, 6, 4>>>>
TownPos == <<0, 2, 4, 4, 6, 10, 0, 0, 0>>
TownRadix == <<16, 5, 2, 3>>
TownRequest(i) ==
    LET o == Digits(i, TownRadix)
        prohibited == {k + 2 : k \in Bits(o[1], 0..3)}
        shut == IF o[2] \in {1, 4} THEN {Back(4), Back(5)} ELSE {}
        notThru == CASE o[2] = 2 -> {There(4), There(5)}
                     [] o[2] = 4 -> {There(2), There(3), Back(4), Back(5)}
                     [] OTHER -> {}
        banned == IF o[2] = 3 THEN {<<There(2), There(4)>>, <<There(3), There(6)>>} ELSE {}
        origin == <<At(There(1), 1)>> \o
                  <<<<>>, <<At(Back(1), 1)>>, <<At(There(2), 5 - 4 * o[3])>>>>[o[4] + 1]
    IN [graph |-> Plan(TownRoads(2 + 3 * o[3], 4 - 2 * o[3]), [n \in Nodes |-> 2], TownPos,
                       {}, Tagging(prohibited, {}), shut, notThru, banned,
                       {<<There(3), There(5)>>}, origin, <<At(There(7), 3)>>),
        paths |-> IF o[4] = 2 THEN 3 ELSE 1, maxUp |-> 100, within |-> 0]

-----------------------------------------------------------------------------
(*   5 --2-- 6 --3-- 7 --4-- 8     the highway, level 1                    *)
(*   :               :       :                                             *)
(*   2 -------6----- 9 --5-- 3     local roads, level 2                    *)
(*   |1                      |7                                            *)
(*   1                       4                                             *)
HighwayRoads(a, b) ==
    <<<<1, 2, 4>>, <<5, 6, 3>>, <<6, 7, 3>>, <<7, 8, 3>>, <<9, 3, b>>, <<2, 9, a>>, <<3, 4, 2>>>>
HighwayPos == <<0, 4, 12, 14, 4, 7, 9, 12, 9>>
HighwayLevel == <<2, 2, 2, 2, 1, 1, 1, 1, 2>>
Ramps == {<<2, 5>>, <<3, 8>>}
HighwayRadix == <<9, 4, 2, 2, 3>>
HighwayTiles(o) ==
    LET prohibited == IF o[1] < 8 THEN {k + 2 : k \in Bits(o[1], 0..2)} ELSE {6}
        other == IF o[2] = 2 THEN {4} ELSE {}
        shut == <<{}, {Back(2), Back(3), Back(4)}, {Back(3)}, {}>>[o[2] + 1]
        banned == IF o[2] = 3 THEN {<<There(2), There(3)>>} ELSE {}
        links == IF o[3] = 0 THEN Ramps ELSE Ramps \cup {<<9, 7>>}
    IN Plan(HighwayRoads(5 + 4 * o[4], 4), HighwayLevel, HighwayPos, links,
            Tagging(prohibited, other), shut, {}, banned, {},
            <<At(There(1), 1 + 3 * o[3])>>, <<At(There(7), 1)>>)
HighwayRequest(i) ==
    LET o == Digits(i, HighwayRadix)
    IN [graph |-> Built!WithShortcuts(HighwayTiles(o)),
        paths |-> 1 + o[4], maxUp |-> 100 * (o[5] \div 2), within |-> 3 * (o[5] % 2)]

-----------------------------------------------------------------------------
(*   1 - 2 -6- 3 -20- 4 -0- 5                                              *)
(*             | 2                                                         *)
(*             8                   6 -3- 7                                 *)
(* Road 3 is the destination's, driven either way, and road 6 is beside it.  *)
(* There(3) may count with far more than its road, and positions may rise by  *)
(* more than a road costs.                                                    *)
SpurRoads == <<<<1, 2, 2>>, <<2, 3, 6>>, <<3, 4, 20>>, <<4, 5, 0>>, <<3, 8, 2>>, <<6, 7, 3>>>>
SpurPos == <<<<0, 0, 0, 0, 0, 0, 0, 0, 0>>, <<0, 2, 2, 28, 28, 25, 28, 4, 0>>>>
SpurRadix == <<2, 2, 2, 2, 2>>
SpurRequest(i) ==
    LET o == Digits(i, SpurRadix)
        pos == SpurPos[o[5] + 1]
        dest == <<At(There(3), 3 + 37 * o[1]), At(Back(3), 9)>> \o
                <<<<>>, <<At(There(6), 27)>>>>[o[2] + 1]
        shut == <<{}, {Back(4)}>>[o[3] + 1]
        slow == <<{}, {<<There(3), Back(3)>>}>>[o[4] + 1]
    IN [graph |-> [Plan(SpurRoads, [n \in Nodes |-> 2], pos, {}, Tagging({}, {}), shut, {}, {},
                        slow, <<At(There(1), 0)>>, dest)
                   EXCEPT !.goal = pos[4]],
        paths |-> 1, maxUp |-> 100, within |-> 0]

Asked ==
    {TownRequest(i) : i \in 0..Product(TownRadix) - 1}
    \cup {HighwayRequest(i) : i \in 0..Product(HighwayRadix) - 1}
    \cup {SpurRequest(i) : i \in 0..Product(SpurRadix) - 1}
MCRequests == Asked      \* TLC evaluates the constant once

(* the premise of LegalTheorem: the town and the spur have no shortcuts, and   *)
(* the highway's tiles had none before the builder                            *)
ASSUME TilesArePlain ==
    /\ \A i \in 0..Product(TownRadix) - 1 : Built!IsPlain(TownRequest(i).graph)
    /\ \A i \in 0..Product(SpurRadix) - 1 : Built!IsPlain(SpurRequest(i).graph)
    /\ \A i \in 0..Product(HighwayRadix) - 1 :
          Built!IsPlain(HighwayTiles(Digits(i, HighwayRadix)))
=============================================================================
