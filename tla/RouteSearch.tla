----------------------------- MODULE RouteSearch -----------------------------
(***************************************************************************)
(* One truck route request in thor: the bidirectional A* search between the  *)
(* candidate edges of an origin and a destination, the second pass that      *)
(* follows when the first finds nothing, and the forming of the paths.        *)
(*                                                                         *)
(* Both directions are written once: a label of the reverse search names the *)
(* edge driven away from the destination, and what is driven is its opposing  *)
(* edge.  Costs are whole numbers; a node's position lies on a line along     *)
(* which the heuristic measures, the same for both directions (cost_diff_ 0). *)
(***************************************************************************)
EXTENDS RoadGraph, BucketQueue

CONSTANTS
    Requests,           \* the requests that may be asked
    Delta,              \* threshold_delta_
    IterationsDelta     \* alternative_iterations_delta_

(* paths: desired_paths_count_; maxUp and within: the hierarchy limits below *)
(* the top level.                                                            *)
Request == [graph : Graph, paths : Nat \ {0}, maxUp : Nat, within : Nat]

ASSUME RequestAssumption ==
    \A r \in Requests : r \in Request /\ WellFormed(r.graph)
ASSUME DeltaAssumption == Delta \in Nat /\ IterationsDelta \in Nat

Fwd == "forward"
Rev == "reverse"
Directions == {Fwd, Rev}
Other(d) == IF d = Fwd THEN Rev ELSE Fwd

Label == [edge : Edges, opp : Edges \cup {NoEdge}, pred : Nat, cost : Nat, sort : Nat,
          dist : Nat, turn : Nat, notThru : BOOLEAN, prune : BOOLEAN]
Status == [set : {"unreached", "temporary", "permanent", "skipped"}, label : Nat \ {0}]
Unreached == [set |-> "unreached", label |-> 1]
SkippedNoLabel == [set |-> "skipped", label |-> 0]                   \* variant
Skipped == [set |-> "skipped", label |-> 1]
Work == [dir : Directions, node : Nodes, trans : Nat, next : Nat \ {0},
         used : SUBSET Edges, approved : BOOLEAN, uturn : Edges \cup {NoEdge}]
Connection == [edge : Edges, opp : Edges, cost : Nat]

VARIABLES
    request,    \* the request
    pass,       \* 1, then 2 with relaxed limits
    pc,         \* what the worker does next
    labels,     \* edgelabels_*
    status,     \* edgestatus_*
    queue,      \* adjacencylist_*
    up,         \* up_transition_count of each level
    at,         \* *_pred_idx: the label popped last
    exp,        \* expand_forward, expand_reverse
    best,       \* best_connections_
    cap,        \* iterations_threshold_, 0 while there is none
    work,       \* the expansion in progress
    walk,       \* FormPath: the label it is at, and where the reverse chain starts
    route,      \* FormPath: path_edges
    routes      \* the paths given back

searchVars == <<labels, status, queue, up, at, exp>>
pathVars == <<walk, route, routes>>
vars == <<request, pass, pc, searchVars, best, cap, work, pathVars>>

g == request.graph

-----------------------------------------------------------------------------
Abs(x) == IF x < 0 THEN -x ELSE x
LevelOf(e) == g.level[g.from[e]]
(* the search's own start, and the end the heuristic estimates the cost to *)
Own(d) == IF d = Fwd THEN g.start ELSE g.goal
Far(d) == Own(Other(d))
Heuristic(d, n) == Abs(g.pos[n] - Far(d))
Driven(d, e) == IF d = Fwd THEN e ELSE g.opp[e]
TurnOnto(d, p, e) == IF d = Fwd THEN Turn(g, p, e) ELSE Turn(g, g.opp[e], g.opp[p])
TurnCost(d, p, e) ==
    IF d = Fwd THEN TransitionCost(g, p, e) ELSE TransitionCost(g, g.opp[e], g.opp[p])

(* StopExpanding; RelaxHierarchyLimits for the second pass *)
Relaxed(limit, factor) == IF pass = 1 THEN limit ELSE factor * limit
Stop(d, level, dist) ==
    /\ level > 0
    /\ up[d][level] > Relaxed(request.maxUp, 8)
    /\ dist > Relaxed(request.within, 2)

(* TruckCost::Allowed and AllowedReverse *)
AllowedWithoutTags(d, p, e, deadEnd) ==                              \* variant
    /\ g.open[Driven(d, e)]
    /\ deadEnd \/ ~IsUturn(g, p, e)
    /\ TurnOnto(d, p, e) \notin g.banned
    /\ d = Fwd => ~Prohibited(g, e)
Allowed(d, p, e, deadEnd) ==
    /\ g.open[Driven(d, e)]
    /\ deadEnd \/ ~IsUturn(g, p, e)
    /\ TurnOnto(d, p, e) \notin g.banned
    /\ ~Prohibited(g, Driven(d, e))

-----------------------------------------------------------------------------
(* GetBestPath's start, SetOrigin and SetDestination *)
Candidates(d) == IF d = Fwd THEN g.origin ELSE g.dest
RootLabel(d, location) ==
    LET e == IF d = Fwd THEN location.edge ELSE g.opp[location.edge]
    IN [edge |-> e, opp |-> IF d = Fwd THEN NoEdge ELSE location.edge, pred |-> NoLabel,
        cost |-> location.cost, sort |-> location.cost + Heuristic(d, g.to[e]),
        dist |-> Abs(g.pos[g.to[e]] - Own(d)), turn |-> 0, notThru |-> FALSE,
        prune |-> ~g.notThru[e]]
RootLabels(d) == [k \in DOMAIN Candidates(d) |-> RootLabel(d, Candidates(d)[k])]
RootStatus(d) ==
    [e \in Edges |->
        LET ks == {k \in DOMAIN RootLabels(d) : RootLabels(d)[k].edge = e}
        IN IF ks = {} THEN Unreached
           ELSE [set |-> "temporary", label |-> CHOOSE k \in ks : TRUE]]
RootQueue(d) ==
    LET Q[k \in 0..Len(Candidates(d))] ==
            IF k = 0 THEN EmptyQueue(Abs(g.start - g.goal))
            ELSE Add(Q[k - 1], k, RootLabels(d)[k].sort)
    IN Q[Len(Candidates(d))]

(* AreEdgesConnected: routes between such edges are not searched for here,   *)
(* and loki offers no candidate the vehicle may not use.                      *)
Ends(e) == {g.from[e], g.to[e]}
Connected(e, f) ==
    \E m \in Ends(e), n \in Ends(f) : m = n \/ n \in ToSet(g.trans[m])

NoWork == [dir |-> Fwd, node |-> g.to[g.origin[1].edge], trans |-> 0, next |-> 1,
           used |-> {}, approved |-> FALSE, uturn |-> NoEdge]
NoWalk == [index |-> NoLabel, then |-> NoLabel]

Searched ==
    /\ \A d \in Directions : \A k \in DOMAIN Candidates(d) : Permitted(g, Candidates(d)[k].edge)
    /\ \A k \in DOMAIN g.origin, j \in DOMAIN g.dest :
          ~Connected(g.origin[k].edge, g.dest[j].edge)

Init ==
    /\ request \in Requests /\ Searched
    /\ pass = 1 /\ pc = Fwd
    /\ labels = [d \in Directions |-> RootLabels(d)]
    /\ status = [d \in Directions |-> RootStatus(d)]
    /\ queue = [d \in Directions |-> RootQueue(d)]
    /\ up = [d \in Directions |-> [l \in 0..7 |-> 0]]
    /\ at = [d \in Directions |-> NoLabel]
    /\ exp = [d \in Directions |-> TRUE]
    /\ best = <<>> /\ cap = 0 /\ work = NoWork
    /\ walk = NoWalk /\ route = <<>> /\ routes = <<>>

-----------------------------------------------------------------------------
(* The loop of GetBestPath. *)

Sorts(d) == [i \in DOMAIN labels[d] |-> labels[d][i].sort]
Popped(d) == Pop(queue[d], Sorts(d))

(* cost_threshold_, while there is a connection; 1.2 is alternative_cost_extend_ *)
Threshold ==
    LET c == best[1].cost
    IN Delta + (IF request.paths = 1 THEN c ELSE c + c \div 5)
BeyondAny(cost) == best # <<>>                                       \* variant
Beyond(cost) == best # <<>> /\ cost > Threshold

IterationsExceeded ==
    /\ pc = Fwd /\ cap # 0 /\ Len(labels[Fwd]) + Len(labels[Rev]) > cap
    /\ pc' = "form"
    /\ UNCHANGED <<request, pass, searchVars, best, cap, work, pathVars>>

AfterPop(d) == IF d = Fwd THEN Rev ELSE "choose"
Turns(d) == pc = d /\ (d = Fwd => cap = 0 \/ Len(labels[Fwd]) + Len(labels[Rev]) <= cap)
NotExpanded(d) ==
    /\ Turns(d) /\ ~exp[d]
    /\ pc' = AfterPop(d)
    /\ UNCHANGED <<request, pass, searchVars, best, cap, work, pathVars>>

AfterFailureAgain == "again"                                         \* variant
AfterFailure == IF pass = 1 THEN "again" ELSE "done"
Exhausted(d) ==
    /\ Turns(d) /\ exp[d] /\ Popped(d).label = NoLabel
    /\ queue' = [queue EXCEPT ![d] = Popped(d).queue]
    /\ at' = [at EXCEPT ![d] = NoLabel]
    /\ pc' = IF best = <<>> THEN AfterFailure ELSE "form"
    /\ UNCHANGED <<request, pass, labels, status, up, exp, best, cap, work, pathVars>>

(* pop the label i and settle its edge *)
Pops(d) == IF pc = d THEN {Popped(d).label} ELSE {}
Settle(d, i) ==
    /\ Turns(d) /\ exp[d] /\ i = Popped(d).label /\ i \in DOMAIN labels[d]
    /\ queue' = [queue EXCEPT ![d] = Popped(d).queue]
    /\ at' = [at EXCEPT ![d] = i]
    /\ status' = [status EXCEPT ![d][labels[d][i].edge].set = "permanent"]
    /\ UNCHANGED <<request, pass, labels, up, exp, work, pathVars>>

(* The settled edge meets a settled edge of the other search, or one of its  *)
(* ends.                                                                     *)
MeetsOther(d, i) ==
    /\ labels[d][i].opp # NoEdge
    /\ LET s == status[Other(d)][labels[d][i].opp]
       IN \/ s.set = "permanent"
          \/ s.set = "temporary" /\ labels[Other(d)][s.label].pred = NoLabel
ConnectionCost(d, i) ==
    LET p == labels[d][i]
        q == labels[Other(d)][status[Other(d)][p.opp].label]
    IN IF p.pred # NoLabel
       THEN labels[d][p.pred].cost + q.cost + p.turn
       ELSE p.cost + q.turn + (IF q.pred = NoLabel THEN 0 ELSE labels[Other(d)][q.pred].cost)
ConnectionOf(d, i) ==
    LET p == labels[d][i]
    IN [edge |-> IF d = Fwd THEN p.edge ELSE p.opp,
        opp |-> IF d = Fwd THEN p.opp ELSE p.edge, cost |-> ConnectionCost(d, i)]

(* the best connection at the front, the others behind *)
KeepBest(c) ==
    IF best # <<>> /\ c.cost < best[1].cost
    THEN Append([best EXCEPT ![1] = c], best[1]) ELSE Append(best, c)

StopAt(d, i) ==
    /\ Settle(d, i) /\ Beyond(labels[d][i].sort)
    /\ pc' = "form"
    /\ UNCHANGED <<best, cap>>
(* SetForwardConnection and SetReverseConnection *)
Connect(d, i) ==
    /\ Settle(d, i) /\ ~Beyond(labels[d][i].sort) /\ MeetsOther(d, i)
    /\ best' = KeepBest(ConnectionOf(d, i))
    /\ cap' = IF request.paths > 1 /\ (best = <<>> \/ ConnectionCost(d, i) < best[1].cost)
              THEN Len(labels[Fwd]) + Len(labels[Rev]) + IterationsDelta ELSE cap
    /\ pc' = Fwd
GoOn(d, i) ==
    /\ Settle(d, i) /\ ~Beyond(labels[d][i].sort) /\ ~MeetsOther(d, i)
    /\ pc' = AfterPop(d)
    /\ UNCHANGED <<best, cap>>

-----------------------------------------------------------------------------
(* Which direction expands: the one with the lower sort cost, unless the     *)
(* other has used up a level's limits that it has not.                       *)
Reached(d) == labels[d][at[d]]
StoppedAhead(d, level) ==
    Stop(d, level, Reached(d).dist) /\ ~Stop(Other(d), level, Reached(Other(d)).dist)
Forced(d) ==
    \E l \in 1..2 :
        /\ StoppedAhead(Other(d), l)
        /\ \A k \in l + 1..2 : ~StoppedAhead(d, k)
Chosen ==
    IF (~Forced(Rev) /\ Reached(Fwd).sort < Reached(Rev).sort) \/ Forced(Fwd) THEN Fwd ELSE Rev

(* reach-based pruning *)
LowerBound(d) ==
    labels[d][Reached(d).pred].cost + Reached(d).turn + Reached(Other(d)).sort
      - Heuristic(Other(d), g.to[Reached(d).edge])
Pruned(d) ==
    \/ Reached(d).notThru /\ Reached(d).prune
    \/ Stop(d, g.level[g.to[Reached(d).edge]], Reached(d).dist)
    \/ Reached(d).pred # NoLabel /\ Beyond(LowerBound(d))

Prune(d) ==
    /\ pc = "choose" /\ d = Chosen /\ Pruned(d)
    /\ exp' = [c \in Directions |-> c = d]
    /\ pc' = Fwd
    /\ UNCHANGED <<request, pass, labels, status, queue, up, at, best, cap, work, pathVars>>
BeginExpand(d) ==
    /\ pc = "choose" /\ d = Chosen /\ ~Pruned(d)
    /\ exp' = [c \in Directions |-> c = d]
    /\ work' = [NoWork EXCEPT !.dir = d, !.node = g.to[Reached(d).edge]]
    /\ pc' = "expand"
    /\ UNCHANGED <<request, pass, labels, status, queue, up, at, best, cap, pathVars>>

-----------------------------------------------------------------------------
(* Expand: the edges of the node in order, then those of the nodes its       *)
(* transitions lead to; a way back is put aside and tried when no other      *)
(* edge was approved.                                                        *)
EndNode == g.to[Reached(work.dir).edge]
NodeDone == work.next > Len(g.out[work.node])
NextEdge == g.out[work.node][work.next]
SetsAside(e) == work.trans = 0 /\ IsUturn(g, Reached(work.dir).edge, e)

SetAside ==
    /\ pc = "expand" /\ ~NodeDone /\ SetsAside(NextEdge)
    /\ work' = [work EXCEPT !.uturn = NextEdge, !.next = @ + 1]
    /\ UNCHANGED <<request, pass, pc, searchVars, best, cap, pathVars>>

(* a transition down is not taken once expansion has stopped there *)
Across(n) ==
    LET d == work.dir
        rises == g.level[n] < g.level[EndNode]
        taken == rises \/ ~Stop(d, g.level[n], Reached(d).dist)
    IN /\ up' = IF rises THEN [up EXCEPT ![d][g.level[EndNode]] = @ + 1] ELSE up
       /\ work' = IF taken THEN [work EXCEPT !.trans = @ + 1, !.node = n, !.next = 1]
                  ELSE [work EXCEPT !.trans = @ + 1]
Transition ==
    /\ pc = "expand" /\ NodeDone /\ work.trans < Len(g.trans[EndNode])
    /\ Across(g.trans[EndNode][work.trans + 1])
    /\ UNCHANGED <<request, pass, pc, labels, status, queue, at, exp, best, cap, pathVars>>

AllDone == NodeDone /\ work.trans = Len(g.trans[EndNode])
TurnsRound == AllDone /\ ~work.approved /\ work.uturn # NoEdge
EndExpand ==
    /\ pc = "expand" /\ AllDone /\ ~TurnsRound
    /\ pc' = Fwd /\ work' = NoWork
    /\ UNCHANGED <<request, pass, searchVars, best, cap, pathVars>>

(* the edge ExpandInner looks at, deadEnd when it is the way back *)
Examined ==
    IF pc # "expand" THEN {} ELSE IF NodeDone THEN {work.uturn} ELSE {NextEdge}
Evaluates(e, deadEnd) ==
    /\ pc = "expand"
    /\ \/ ~deadEnd /\ ~NodeDone /\ e = NextEdge /\ ~SetsAside(e)
       \/ deadEnd /\ TurnsRound /\ e = work.uturn
Evaluated(deadEnd, approved, used) ==
    IF deadEnd THEN pc' = Fwd /\ work' = NoWork
    ELSE /\ pc' = pc
         /\ work' = [work EXCEPT !.next = @ + 1, !.approved = @ \/ approved, !.used = used]

(* ExpandInner, one action for each of its outcomes. *)
Superseded(e) == g.over[e] \in work.used
TakesShortcutAlone(d, e) ==                                          \* variant
    \/ Stop(d, LevelOf(e) + 1, Reached(d).dist)
    \/ status[Other(d)][g.opp[e]].set \in {"permanent", "temporary"}
TakesShortcut(d, e) ==
    LET other == status[Other(d)][g.opp[e]].set
    IN \/ other # "skipped" /\ Stop(d, LevelOf(e) + 1, Reached(d).dist)
       \/ other \in {"permanent", "temporary"}
UsedBy(e) == IF IsShortcut(g, e) THEN work.used \cup {e} ELSE work.used

SkipSuperseded(e, deadEnd) ==
    /\ Evaluates(e, deadEnd) /\ Superseded(e)
    /\ Evaluated(deadEnd, FALSE, work.used)
    /\ UNCHANGED <<request, pass, searchVars, best, cap, pathVars>>
SkipShortcut(e, deadEnd) ==
    /\ Evaluates(e, deadEnd) /\ ~Superseded(e)
    /\ IsShortcut(g, e) /\ ~TakesShortcut(work.dir, e)
    /\ status' = [status EXCEPT ![work.dir][e] = Skipped]
    /\ Evaluated(deadEnd, FALSE, work.used)
    /\ UNCHANGED <<request, pass, labels, queue, up, at, exp, best, cap, pathVars>>

Tries(e, deadEnd) ==
    /\ Evaluates(e, deadEnd) /\ ~Superseded(e)
    /\ IsShortcut(g, e) => TakesShortcut(work.dir, e)
Admits(e, deadEnd) ==
    /\ status[work.dir][e].set # "permanent"
    /\ Allowed(work.dir, Reached(work.dir).edge, e, deadEnd)
Refuse(e, deadEnd) ==
    /\ Tries(e, deadEnd) /\ ~Admits(e, deadEnd)
    /\ Evaluated(deadEnd, status[work.dir][e].set = "permanent", UsedBy(e))
    /\ UNCHANGED <<request, pass, searchVars, best, cap, pathVars>>

CostWithoutTurn(d, e) == Reached(d).cost + g.cost[Driven(d, e)]      \* variant
CostTo(d, e) ==
    Reached(d).cost + g.cost[Driven(d, e)] + TurnCost(d, Reached(d).edge, e)
Improves(d, e) == CostTo(d, e) < labels[d][status[d][e].label].cost
KeepLabel(e, deadEnd) ==
    /\ Tries(e, deadEnd) /\ Admits(e, deadEnd)
    /\ status[work.dir][e].set = "temporary" /\ ~Improves(work.dir, e)
    /\ Evaluated(deadEnd, TRUE, UsedBy(e))
    /\ UNCHANGED <<request, pass, searchVars, best, cap, pathVars>>
Improve(e, deadEnd) ==
    LET d == work.dir
        i == status[d][e].label
        l == labels[d][i]
        sort == l.sort - (l.cost - CostTo(d, e))
    IN /\ Tries(e, deadEnd) /\ Admits(e, deadEnd)
       /\ status[d][e].set = "temporary" /\ Improves(d, e)
       /\ queue' = [queue EXCEPT ![d] = Decrease(@, i, l.sort, sort)]
       /\ labels' = [labels EXCEPT ![d][i] =
              [@ EXCEPT !.pred = at[d], !.cost = CostTo(d, e), !.sort = sort,
                        !.turn = TurnCost(d, Reached(d).edge, e)]]
       /\ Evaluated(deadEnd, TRUE, UsedBy(e))
       /\ UNCHANGED <<request, pass, status, up, at, exp, best, cap, pathVars>>

NewLabelPruned(d, e) ==                                              \* variant
    LET cost == CostTo(d, e)
    IN [edge |-> e, opp |-> g.opp[e], pred |-> at[d], cost |-> cost,
        sort |-> cost + Heuristic(d, g.to[e]), dist |-> Abs(g.pos[g.to[e]] - Own(d)),
        turn |-> TurnCost(d, Reached(d).edge, e), notThru |-> g.notThru[e],
        prune |-> Reached(d).prune \/ ~g.notThru[e]]
NewLabel(d, e) ==
    LET cost == CostTo(d, e)
    IN [edge |-> e, opp |-> g.opp[e], pred |-> at[d], cost |-> cost,
        sort |-> cost + Heuristic(d, g.to[e]), dist |-> Abs(g.pos[g.to[e]] - Own(d)),
        turn |-> TurnCost(d, Reached(d).edge, e), notThru |-> g.notThru[e],
        prune |-> pass = 1 /\ (Reached(d).prune \/ ~g.notThru[e])]
IndexAfter(d) == Len(labels[d]) + 2                                  \* variant
NewIndex(d) == Len(labels[d]) + 1
Reach(e, deadEnd) ==
    LET d == work.dir
        i == NewIndex(d)
    IN /\ Tries(e, deadEnd) /\ Admits(e, deadEnd) /\ status[d][e].set # "temporary"
       /\ labels' = [labels EXCEPT ![d] = Append(@, NewLabel(d, e))]
       /\ queue' = [queue EXCEPT ![d] = Add(@, i, NewLabel(d, e).sort)]
       /\ status' = [status EXCEPT ![d][e] = [set |-> "temporary", label |-> i]]
       /\ Evaluated(deadEnd, ~(Reached(d).prune /\ g.notThru[e]), UsedBy(e))
       /\ UNCHANGED <<request, pass, up, at, exp, best, cap, pathVars>>

-----------------------------------------------------------------------------
(* get_path: the second pass, with nothing kept of the first *)
Retry ==
    /\ pc = "again"
    /\ pass' = 2 /\ pc' = Fwd
    /\ labels' = [d \in Directions |-> RootLabels(d)]
    /\ status' = [d \in Directions |-> RootStatus(d)]
    /\ queue' = [d \in Directions |-> RootQueue(d)]
    /\ up' = [d \in Directions |-> [l \in 0..7 |-> 0]]
    /\ at' = [d \in Directions |-> NoLabel]
    /\ exp' = [d \in Directions |-> TRUE]
    /\ UNCHANGED <<request, best, cap, work, pathVars>>

(* FormPath, one label at a time: the forward chain back to its root, then   *)
(* the reverse chain from the edge after the connection on.                   *)
FormPath(k) ==
    /\ pc = "form" /\ k \in DOMAIN best
    /\ \A j \in DOMAIN best : best[k].cost <= best[j].cost
    /\ request.paths = 1 => k = 1
    /\ walk' = [index |-> status[Fwd][best[k].edge].label,
                then |-> labels[Rev][status[Rev][best[k].opp].label].pred]
    /\ route' = <<>> /\ best' = RemoveAt(best, k) /\ pc' = "back"
    /\ UNCHANGED <<request, pass, searchVars, cap, work, routes>>
WalkBack ==
    /\ pc = "back" /\ walk.index # NoLabel
    /\ route' = g.parts[labels[Fwd][walk.index].edge] \o route
    /\ walk' = [walk EXCEPT !.index = labels[Fwd][walk.index].pred]
    /\ UNCHANGED <<request, pass, pc, searchVars, best, cap, work, routes>>
TurnOver ==
    /\ pc = "back" /\ walk.index = NoLabel
    /\ walk' = [walk EXCEPT !.index = walk.then]
    /\ pc' = "on"
    /\ UNCHANGED <<request, pass, searchVars, best, cap, work, route, routes>>
WalkOn ==
    /\ pc = "on" /\ walk.index # NoLabel
    /\ route' = route \o g.parts[g.opp[labels[Rev][walk.index].edge]]
    /\ walk' = [walk EXCEPT !.index = labels[Rev][walk.index].pred]
    /\ UNCHANGED <<request, pass, pc, searchVars, best, cap, work, routes>>

(* find_percent_along throws when an end of the path is no candidate; an     *)
(* alternate is kept or not by how it compares with the paths before it.      *)
AfterPath(given) ==
    IF Len(given) < request.paths /\ best # <<>> THEN "form" ELSE "done"
GivePath(keeps) ==
    /\ pc = "on" /\ walk.index = NoLabel
    /\ keeps \/ (routes # <<>> /\ Joins(g, route))
    /\ routes' = IF keeps /\ Joins(g, route) THEN Append(routes, route) ELSE routes
    /\ pc' = IF Joins(g, route) THEN AfterPath(routes') ELSE "thrown"
    /\ UNCHANGED <<request, pass, searchVars, best, cap, work, walk, route>>

Answered == pc = "done" /\ UNCHANGED vars

-----------------------------------------------------------------------------
Step ==
    \/ IterationsExceeded
    \/ \E d \in Directions :
          \/ NotExpanded(d) \/ Exhausted(d) \/ Prune(d) \/ BeginExpand(d)
          \/ \E i \in Pops(d) : StopAt(d, i) \/ Connect(d, i) \/ GoOn(d, i)
    \/ SetAside \/ Transition \/ EndExpand
    \/ \E deadEnd \in BOOLEAN : \E e \in Examined :
          \/ SkipSuperseded(e, deadEnd) \/ SkipShortcut(e, deadEnd) \/ Refuse(e, deadEnd)
          \/ KeepLabel(e, deadEnd) \/ Improve(e, deadEnd) \/ Reach(e, deadEnd)
    \/ Retry
    \/ \E k \in DOMAIN best : FormPath(k)
    \/ WalkBack \/ TurnOver \/ WalkOn
    \/ \E keeps \in BOOLEAN : GivePath(keeps)
Next == Step \/ Answered

Spec == Init /\ [][Next]_vars /\ WF_vars(Step)
-----------------------------------------------------------------------------
(* Properties. *)

(* Every variable has its type. *)
TypeOK ==
    /\ request \in Requests /\ pass \in 1..2
    /\ pc \in {Fwd, Rev, "choose", "expand", "again", "form", "back", "on", "done", "thrown"}
    /\ labels \in [Directions -> Seq(Label)]
    /\ status \in [Directions -> [Edges -> Status]]
    /\ queue \in [Directions -> Queue]
    /\ up \in [Directions -> [0..7 -> Nat]]
    /\ at \in [Directions -> Nat] /\ exp \in [Directions -> BOOLEAN]
    /\ best \in Seq(Connection) /\ cap \in Nat /\ work \in Work
    /\ walk \in [index : Nat, then : Nat]
    /\ route \in Seq(Edges) /\ routes \in Seq(Seq(Edges))

(* Every path given back, an alternate too, runs from a candidate edge of    *)
(* the origin to one of the destination over roads the vehicle may use and   *)
(* turns it may make, whichever search found which part of it and whatever   *)
(* shortcuts it was found over; no request ends in the exception FormPath     *)
(* throws for a path that starts or ends elsewhere.                           *)
RoutesAreLegal ==
    /\ pc # "thrown"
    /\ \A k \in DOMAIN routes : LegalRoute(g, routes[k])

(* A shortcut stands for roads without a tag, each open and each joined to    *)
(* the next by a turn that is allowed (shortcutbuilder.cc: "a shortcut that   *)
(* spans an NHVR-tagged edge would lose its access status and could bypass a  *)
(* prohibited section at routing time").                                      *)
ShortcutsAreSound == \A s \in g.edge : IsShortcut(g, s) => SoundShortcut(g, s)

(* The status of an edge a search has reached leads to that edge's label,    *)
(* though skipping a shortcut resets the status to the first label: FormPath  *)
(* and the connections find their labels by it.                               *)
StatusPointsAtLabel ==
    \A d \in Directions, e \in g.edge :
        status[d][e].set \in {"temporary", "permanent"} =>
            status[d][e].label \in DOMAIN labels[d] /\ labels[d][status[d][e].label].edge = e

(* One search does not pass over a shortcut the other travels ("Synchronize   *)
(* shortcuts for both directions", bidirectional_astar.cc:229): the two       *)
(* would use different edges for the same road and could not meet on it.      *)
ShortcutsAgree ==
    \A d \in Directions, e \in g.edge :
        IsShortcut(g, e) /\ status[d][e].set \in {"temporary", "permanent"}
            => status[Other(d)][g.opp[e]].set # "skipped"

(* The queue holds the labels still to be settled, each once, through all     *)
(* decreases, refills from the overflow bucket and advances of the range.      *)
QueueHoldsOpenLabels ==
    \A d \in Directions : \A i \in DOMAIN labels[d] :
        Occurrences(queue[d], i)
            = IF status[d][labels[d][i].edge].set = "permanent" THEN 0 ELSE 1

(* A label that is popped costs less than one bucket more than any other in   *)
(* the queue ("Returns the label index of the lowest cost label",              *)
(* double_bucket_queue.h); what costs less than the floor is held in one        *)
(* bucket.  Where no road costs less than the estimate falls along it the floor *)
(* is the queue's first bucket throughout.  Elsewhere it is the bucket the queue *)
(* has come to, for a way on may cost less than the way so far: truck routes     *)
(* have such roads, EdgeCost being scaled down by kTruckRouteFactor               *)
(* (truckcost.cc:584) and the estimate (AStarCostFactor, truckcost.cc:766) not.    *)
HeuristicIsConsistent ==
    \A e \in g.edge : Abs(g.pos[g.to[e]] - g.pos[g.from[e]]) <= g.cost[e]
Least == EmptyQueue(Abs(g.start - g.goal)).low
Floor(d) == IF HeuristicIsConsistent THEN Least ELSE queue[d].current
PopIsLeast ==
    [][\A d \in Directions :
          at'[d] # at[d] /\ at'[d] # NoLabel =>
              \A i \in Labels(queue'[d]) :
                  labels[d][at'[d]].sort < Width +
                      (IF labels[d][i].sort < Floor(d) THEN Floor(d) ELSE labels[d][i].sort)]_vars

(* A label's cost is that of the chain FormPath would walk back from it: the  *)
(* label it follows is never improved after it was used.                      *)
CostsFollowChains ==
    \A d \in Directions : \A i \in DOMAIN labels[d] :
        LET l == labels[d][i]
        IN l.pred # NoLabel =>
              l.cost = labels[d][l.pred].cost + g.cost[Driven(d, l.edge)]
                       + TurnCost(d, labels[d][l.pred].edge, l.edge)

(* With no hierarchy limit in the way, no road that is not through and none    *)
(* that costs less than the estimate falls along it, the first path costs no    *)
(* more than any way to the destination: where the two searches meet, stop and  *)
(* prune loses no better path, provided the threshold covers what a candidate   *)
(* counts with and its whole road: the search that comes to the road counts it   *)
(* as a whole.                                                                  *)
Unlimited == request.maxUp >= Cardinality(g.edge)
RouteCost(path) ==
    LET C[i \in 1..Len(path)] ==
            IF i = 1 THEN LeastOf({w[2] : w \in {v \in Departures(g) : v[1] = path[1]}})
            ELSE C[i - 1] + TransitionCost(g, path[i - 1], path[i]) +
                 (IF i < Len(path) THEN g.cost[path[i]]
                  ELSE LeastOf({g.dest[k].cost : k \in {j \in DOMAIN g.dest :
                                                      g.dest[j].edge = path[i]}}))
    IN C[Len(path)]
ThresholdCovers ==
    \A d \in Directions : \A k \in DOMAIN Candidates(d) :
        Candidates(d)[k].cost <= Delta /\ g.cost[Candidates(d)[k].edge] <= Delta
IsPlainSearch ==
    Unlimited /\ HeuristicIsConsistent /\ ThresholdCovers /\ (\A e \in g.edge : ~g.notThru[e])
FirstIsLeast ==
    pc = "done" /\ routes # <<>> /\ IsPlainSearch => RouteCost(routes[1]) <= LeastCost(g)

(* When there is a way the request ends with a path, unless a hierarchy limit *)
(* was used up: what the first pass prunes behind roads that are not through  *)
(* the second pass finds, whichever of the two searches runs out of edges.    *)
(* One more case is left out, TurnedRound.  A candidate may count with more    *)
(* than its road, for its distance to the location is added to its cost        *)
(* (bidirectional_astar.cc:1055, 1160); then a search can improve the label of  *)
(* its own candidate, and the other search no longer meets it there but on the  *)
(* road before.  Where that is the same road, driven the other way at a place   *)
(* which is a dead end in one search only, they miss each other.                 *)
LimitsUnused ==
    \A d \in Directions, level \in 1..7 : up[d][level] <= Relaxed(request.maxUp, 8)
TurnedRound ==
    \E d \in Directions : \E k \in DOMAIN Candidates(d) :
        LET l == labels[d][k]
        IN /\ l.pred # NoLabel /\ labels[d][l.pred].edge = g.opp[l.edge]
           /\ ~DeadEnd(g, labels[d][l.pred].edge)
FindsRoute ==
    pc = "done" /\ routes = <<>> /\ LimitsUnused /\ ~TurnedRound => ~(LeastCost(g) < NoWay)

(* Every request is answered. *)
Terminates == <>(pc = "done")
=============================================================================
