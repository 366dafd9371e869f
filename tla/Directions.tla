------------------------------ MODULE Directions ------------------------------
(* The directions page of the web app: the list of waypoints, the selected    *)
(* NHVR networks, the requests sent to Valhalla and the routes it shows.      *)
(* The profile is "truck", the only one that sends nhvr_networks.  A route is *)
(* the set of networks it is prohibited for, as its maneuvers report them.    *)
EXTENDS Naturals, FiniteSets, SequencesExt

CONSTANTS
    Networks,       \* NHVR networks the server knows
    Permalinks,     \* numbers of stops the page's URL may carry when opened
    Guarded,        \* the tiles keep prohibited edges out of every shortcut
    MaxAlternates,  \* alternates in a response
    MaxWaypoints,   \* bound on the list
    MaxEdits        \* bound on the user's edits

ASSUME DirectionsAssumption ==
    /\ Permalinks \subseteq Nat
    /\ Guarded \in BOOLEAN
    /\ {MaxAlternates, MaxWaypoints, MaxEdits} \subseteq Nat
    /\ MaxEdits > 0   \* to open the page is one

VARIABLES
    waypoints,   \* directions-store: waypoints
    networks,    \* common-store: settings.nhvr_networks
    results,     \* directions-store: results.data and what was asked for it
    active,      \* directions-store: activeRouteIndex
    isOptimized, \* directions-store: isOptimized
    inFlight,    \* requests sent to /route and not answered
    held,        \* the one the query cache waits for, 0 when none
    fetched,     \* the query cache has data (null counts)
    optimizing,  \* the optimize mutation
    edits,       \* edits made; numbers the stops and the requests
    disturbed    \* history: an edit did not wait for the previous answer

store  == <<waypoints, networks, results, active, isOptimized>>
cache  == <<inFlight, held, fetched>>
dvars  == <<store, cache, optimizing, edits, disturbed>>

-------------------------------------------------------------------------------
(* A waypoint with stop = 0 has no selected address; typed: userInput is set. *)

Empty(id)      == [id |-> id, stop |-> 0, typed |-> FALSE]
defaultWaypoints == <<Empty(0), Empty(1)>>

Selected(w)     == w.stop # 0
Places(ws)      == {i \in DOMAIN ws : Selected(ws[i])}
Nth(S, k)       == CHOOSE i \in S : Cardinality({j \in S : j <= i}) = k
relevantWaypoints(ws) ==
    [k \in 1..Cardinality(Places(ws)) |-> ws[Nth(Places(ws), k)]]
getActiveWaypoints(ws) ==
    [k \in DOMAIN relevantWaypoints(ws) |-> relevantWaypoints(ws)[k].stop]
hasActiveRoute(ws)     == Len(relevantWaypoints(ws)) >= 2

Asked(ws, ns) == [stops |-> getActiveWaypoints(ws), networks |-> ns]

getNextWaypointId(ws) ==
    1 + CHOOSE m \in {ws[i].id : i \in DOMAIN ws} :
            \A i \in DOMAIN ws : ws[i].id <= m

NoResults == [asked |-> [stops |-> <<>>, networks |-> {}], optimized |-> FALSE,
              routes |-> [p \in {} |-> {}]]
Shown     == DOMAIN results.routes
HasRoutes == Shown # {}

Idle    == [phase |-> "idle", captured |-> <<>>, networks |-> {}]
Waiting == [phase |-> "waiting", captured |-> <<>>, networks |-> {}]
Busy == inFlight # {} \/ optimizing.phase # "idle"

CanEdit == edits < MaxEdits

(* clearRoutes, receiveRouteResults: the first route becomes the active one.  *)
First(S) == CHOOSE p \in S : \A q \in S : p <= q

clearRoutes == results' = NoResults /\ active' = 0

ReceiveKeepingActive(asked, routes, optimized) ==      \* variant
    /\ results' = [asked |-> asked, optimized |-> optimized, routes |-> routes]
    /\ UNCHANGED active

receiveRouteResults(asked, routes, optimized) ==
    /\ results' = [asked |-> asked, optimized |-> optimized, routes |-> routes]
    /\ active' = First(DOMAIN routes)

-------------------------------------------------------------------------------
(* refetchDirections() after the waypoints became ws and the networks ns.     *)
(* While the first fetch runs, the query joins it: nothing is sent.  Later    *)
(* fetches drop the running one from the cache, but its answer still comes.   *)
(* With fewer than two stops fetchDirections returns null at once.            *)

Joins == held # 0 /\ ~fetched

Refetch(ws, ns) ==
    /\ edits' = edits + 1
    /\ \/ /\ Joins
          /\ disturbed' = TRUE
          /\ UNCHANGED cache
       \/ /\ ~Joins /\ ~hasActiveRoute(ws)
          /\ held' = 0
          /\ fetched' = TRUE
          /\ disturbed' = (disturbed \/ Busy)
          /\ UNCHANGED inFlight
       \/ /\ ~Joins /\ hasActiveRoute(ws)
          /\ inFlight' = inFlight \cup
                {[n |-> edits', asked |-> Asked(ws, ns)]}
          /\ held' = edits'
          /\ disturbed' = Busy
          /\ UNCHANGED fetched

(* setWaypointFromCoords, and updateTextInput with a found address: the       *)
(* waypoint at i, if there still is one, gets a new selected stop.            *)
PlacedPastEnd(ws, i, stop) ==                          \* variant
    IF i \in DOMAIN ws THEN [ws EXCEPT ![i].stop = stop, ![i].typed = TRUE]
    ELSE Append(ws, [stop |-> stop, typed |-> TRUE])

Placed(ws, i, stop) ==
    IF i \in DOMAIN ws
    THEN [ws EXCEPT ![i] = [id |-> @.id, stop |-> stop, typed |-> TRUE]]
    ELSE ws

SetStop(ws, i) ==
    /\ waypoints' = Placed(ws, i, MaxWaypoints + edits)
    /\ isOptimized' = (isOptimized /\ ws = waypoints /\ i \notin DOMAIN ws)
    /\ Refetch(waypoints', networks)
    /\ UNCHANGED <<networks, results, active, optimizing>>

-------------------------------------------------------------------------------
(* The page opens with the stops of its URL, and asks for them.               *)

FromUrl(k) ==
    [i \in 1..k |-> [id |-> IF i <= 2 THEN i - 1 ELSE i, stop |-> i, typed |-> TRUE]]

Opened(k) == FromUrl(k) \o SubSeq(defaultWaypoints, k + 1, 2)

Init ==
    /\ \E k \in Permalinks :
         /\ waypoints = Opened(k)
         /\ inFlight = IF k < 2 THEN {}
                       ELSE {[n |-> 1, asked |-> Asked(Opened(k), {})]}
         /\ held = IF k < 2 THEN 0 ELSE 1
         /\ fetched = (k = 1)
    /\ networks = {}
    /\ results = NoResults
    /\ active = 0
    /\ isOptimized = FALSE
    /\ optimizing = Idle
    /\ edits = 1
    /\ disturbed = FALSE

-------------------------------------------------------------------------------
(* What the user does.  Every edit asks again, except for a search, a reset   *)
(* and a new empty waypoint.                                                  *)

(* A found address is picked for waypoint i, its marker is dragged, the map   *)
(* menu's "Directions from / to here" is used, or the position asked for by   *)
(* "Use my current location" comes: that one keeps the index it was asked     *)
(* for, and the list may have become shorter since.                           *)
ChooseStop(i) ==
    /\ CanEdit
    /\ SetStop(waypoints, i)

(* The map menu's "Add as via point".                                         *)
AddVia ==
    /\ CanEdit
    /\ Len(waypoints) < MaxWaypoints
    /\ LET at == Len(waypoints)
       IN  SetStop(InsertAt(waypoints, at, Empty(getNextWaypointId(waypoints))), at)

(* The geocoder's results for waypoint i arrive, none of them selected yet.   *)
Search(i) ==
    /\ CanEdit
    /\ i \in DOMAIN waypoints
    /\ waypoints' = [waypoints EXCEPT ![i] = [id |-> @.id, stop |-> 0, typed |-> @.typed]]
    /\ isOptimized' = FALSE
    /\ edits' = edits + 1
    /\ disturbed' = TRUE
    /\ UNCHANGED <<networks, results, active, cache, optimizing>>

addEmptyWaypointToEnd ==
    /\ CanEdit
    /\ Len(waypoints) < MaxWaypoints
    /\ waypoints' = Append(waypoints, Empty(Len(waypoints) + 1))
    /\ isOptimized' = FALSE
    /\ edits' = edits + 1
    /\ UNCHANGED <<networks, results, active, cache, optimizing, disturbed>>

(* The trash button of waypoint i: two waypoints always remain.               *)
doRemoveWaypoint(i) ==
    /\ CanEdit
    /\ i \in DOMAIN waypoints
    /\ Len(waypoints) >= 3 \/ Selected(waypoints[i])
    /\ waypoints' = IF Len(waypoints) > 2 THEN RemoveAt(waypoints, i)
                    ELSE [waypoints EXCEPT ![i] = Empty(@.id)]
    /\ isOptimized' = FALSE
    /\ results' = IF hasActiveRoute(waypoints') THEN results ELSE NoResults
    /\ Refetch(waypoints', networks)
    /\ UNCHANGED <<networks, active, optimizing>>

(* onDragEnd finds both ends by waypoint id: the first that carries it.       *)
IndexOfId(id) == First({k \in DOMAIN waypoints : waypoints[k].id = id})

arrayMove(ws, from, to) == InsertAt(RemoveAt(ws, from), to, ws[from])

Move(i, j) ==
    /\ CanEdit
    /\ {i, j} \subseteq DOMAIN waypoints
    /\ waypoints[i].id # waypoints[j].id
    /\ waypoints' = arrayMove(waypoints, IndexOfId(waypoints[i].id),
                              IndexOfId(waypoints[j].id))
    /\ Refetch(waypoints', networks)
    /\ UNCHANGED <<networks, results, active, isOptimized, optimizing>>

(* The reset button: the list and the routes are cleared, nothing is asked.   *)
clearWaypoints ==
    /\ CanEdit
    /\ Len(waypoints) >= 3 \/ \E i \in DOMAIN waypoints : waypoints[i].typed
    /\ waypoints' = defaultWaypoints
    /\ isOptimized' = FALSE
    /\ clearRoutes
    /\ edits' = edits + 1
    /\ disturbed' = Busy
    /\ UNCHANGED <<networks, cache, optimizing>>

(* The network selector, the settings panel or the effects that apply a       *)
(* vehicle's network and drop networks the server no longer has.              *)
SelectAskingOld(ns) ==                                 \* variant
    /\ CanEdit
    /\ ns # networks
    /\ networks' = ns
    /\ Refetch(waypoints, networks)
    /\ UNCHANGED <<waypoints, results, active, isOptimized, optimizing>>

SelectNetworks(ns) ==
    /\ CanEdit
    /\ ns # networks
    /\ networks' = ns
    /\ Refetch(waypoints, ns)
    /\ UNCHANGED <<waypoints, results, active, isOptimized, optimizing>>

setActiveRouteIndex(p) ==
    /\ p \in Shown \ {active}
    /\ active' = p
    /\ UNCHANGED <<waypoints, networks, results, isOptimized, cache, optimizing,
                   edits, disturbed>>

-------------------------------------------------------------------------------
(* The answers of /route.                                                     *)

(* A response: the main route at position 0 and its alternates.  Valhalla     *)
(* costs every edge by the asked networks, so only a shortcut built without   *)
(* the tile builder's guard can lead through a prohibited one.                *)
Legal(crossed, asked) == crossed \cap asked.networks = {}

Responses(asked) ==
    {r \in UNION {[0..n -> SUBSET Networks] : n \in 0..MaxAlternates} :
        Guarded => \A p \in DOMAIN r : Legal(r[p], asked)}

(* An illegal main route is replaced by its first legal alternate, illegal    *)
(* alternates are dropped: the legal routes remain, in their order.           *)
MainRouteOnly(r, asked) ==                             \* variant
    IF Legal(r[0], asked) THEN DOMAIN r ELSE {p \in DOMAIN r : Legal(r[p], asked)}

LegalPart(r, asked) == {p \in DOMAIN r : Legal(r[p], asked)}

(* The fetch of request q ends: the cache hears of it if it still waits.      *)
Ends(q, ok) ==
    /\ inFlight' = inFlight \ {q}
    /\ held' = IF held = q.n THEN 0 ELSE held
    /\ fetched' = (fetched \/ (ok /\ held = q.n))
    /\ UNCHANGED <<waypoints, networks, isOptimized, optimizing, edits,
                   disturbed>>

Answer(q, r) ==
    /\ LegalPart(r, q.asked) # {}
    /\ receiveRouteResults(q.asked, [p \in LegalPart(r, q.asked) |-> r[p]], FALSE)
    /\ Ends(q, TRUE)

(* Nothing legal in the response, an error of the server or the network, or   *)
(* no path within 500 m either: the shown routes are cleared.  (The same      *)
(* question put again with a larger radius is part of the time in flight.)    *)
Fails(q) ==
    /\ clearRoutes
    /\ Ends(q, FALSE)

-------------------------------------------------------------------------------
(* The optimize button: a mutation that is tried twice.                       *)

Captured(phase) ==
    [phase |-> phase, captured |-> relevantWaypoints(waypoints), networks |-> networks]

OptimizeUnchanged ==
    UNCHANGED <<store, cache, edits>>

optimizeRoute ==
    /\ Len(relevantWaypoints(waypoints)) >= 4
    /\ optimizing.phase = "idle" /\ ~isOptimized
    /\ optimizing' = Captured("asked")
    /\ disturbed' = (disturbed \/ Busy)
    /\ OptimizeUnchanged

OptimizeFails ==
    /\ optimizing.phase \in {"asked", "again"}
    /\ optimizing' = IF optimizing.phase = "asked"
                     THEN Waiting ELSE Idle
    /\ UNCHANGED disturbed
    /\ OptimizeUnchanged

(* The retry takes the waypoints of that moment.                              *)
OptimizeAgain ==
    /\ optimizing.phase = "waiting"
    /\ optimizing' = IF Len(relevantWaypoints(waypoints)) >= 4
                     THEN Captured("again") ELSE Idle
    /\ UNCHANGED disturbed
    /\ OptimizeUnchanged

(* The answer keeps both ends and may permute the stops between them.         *)
Orders(n) ==
    {o \in [1..n -> 1..n] : /\ \A i \in {1, n} \cap DOMAIN o : o[i] = i
                           /\ \A i, j \in 1..n : o[i] = o[j] => i = j}

Optimized(order, crossed) ==
    LET ws    == [i \in DOMAIN order |-> optimizing.captured[order[i]]]
        asked == Asked(ws, optimizing.networks)
    IN  /\ optimizing.phase \in {"asked", "again"}
        /\ Guarded => Legal(crossed, asked)
        /\ waypoints' = ws
        /\ isOptimized' = TRUE
        /\ receiveRouteResults(asked, [p \in {0} |-> crossed], TRUE)
        /\ optimizing' = Idle
        /\ UNCHANGED <<networks, cache, edits, disturbed>>

-------------------------------------------------------------------------------
(* The steps of the panel, and those that go on while it is hidden.           *)

Panel ==
    \/ addEmptyWaypointToEnd
    \/ clearWaypoints
    \/ optimizeRoute
    \/ \E i \in DOMAIN waypoints :
         doRemoveWaypoint(i) \/ \E j \in DOMAIN waypoints : Move(i, j)
    \/ \E p \in Shown : setActiveRouteIndex(p)

Elsewhere ==
    \/ AddVia
    \/ \E i \in 1..MaxWaypoints : ChooseStop(i) \/ Search(i)
    \/ \E ns \in SUBSET Networks : SelectNetworks(ns)
    \/ \E q \in inFlight :
         \/ \E r \in Responses(q.asked) : Answer(q, r)
         \/ Fails(q)
    \/ OptimizeFails \/ OptimizeAgain
    \/ \E order \in Orders(Len(optimizing.captured)), crossed \in SUBSET Networks :
         Optimized(order, crossed)

DirectionsNext == Panel \/ Elsewhere

DirectionsSpec == Init /\ [][DirectionsNext]_dvars

-------------------------------------------------------------------------------
(* What should hold.                                                          *)

Waypoint == [id : Nat, stop : Nat, typed : BOOLEAN]

Question(asked) == asked.stops \in Seq(Nat) /\ asked.networks \subseteq Networks

(* Every variable holds a value of its kind, and a request that is held by    *)
(* the query cache has a number already given out.                            *)
TypeOK ==
    /\ waypoints \in Seq(Waypoint)
    /\ networks \subseteq Networks
    /\ Question(results.asked) /\ results.optimized \in BOOLEAN
    /\ Shown \subseteq 0..MaxAlternates
    /\ \A p \in Shown : results.routes[p] \subseteq Networks
    /\ active \in 0..MaxAlternates
    /\ isOptimized \in BOOLEAN
    /\ \A q \in inFlight : q.n \in 1..edits /\ Question(q.asked)
    /\ held \in 0..edits
    /\ fetched \in BOOLEAN /\ disturbed \in BOOLEAN
    /\ optimizing.phase \in {"idle", "asked", "waiting", "again"}
    /\ optimizing.captured \in Seq(Waypoint) /\ optimizing.networks \subseteq Networks
    /\ edits \in 1..MaxEdits

(* No route of the directions query that is shown, main or alternate, crosses *)
(* a network it was asked to respect, even when Valhalla's tiles have         *)
(* shortcuts over prohibited edges.  The optimized route is not filtered, so  *)
(* it is legal only with guarded tiles (use-directions-queries.ts:146-183).   *)
LegalAsAsked ==
    Guarded \/ ~results.optimized =>
        \A p \in Shown : Legal(results.routes[p], results.asked)

(* While routes are shown, the active one is one of them: neither a shorter   *)
(* response nor a dropped alternate leaves the index of a route that is gone  *)
(* (directions-store.ts:137-162, 270-290).                                    *)
ActiveRouteExists == HasRoutes => active \in Shown

(* A user who waits for every answer before the next edit sees routes for     *)
(* the stops and the networks selected now, or none.  Every edit that changes *)
(* a stop or a network asks again or clears the routes.                       *)
WaitingMeansCurrent ==
    ~Busy /\ ~disturbed /\ HasRoutes => results.asked = Asked(waypoints, networks)

(* What makes it so: the routes answer the present question, which has two    *)
(* stops at least, or the one request out asks it; what is being optimized    *)
(* was asked with the present networks.  Two waypoints always remain.         *)
ShownIsCurrent ==
    HasRoutes => /\ results.asked = Asked(waypoints, networks)
                 /\ hasActiveRoute(waypoints)

Optimizing == optimizing.phase \in {"asked", "again"}

DirectionsInv ==
    /\ TypeOK
    /\ Len(waypoints) >= 2
    /\ Optimizing =>
          /\ Len(optimizing.captured) >= 4
          /\ \A k \in DOMAIN optimizing.captured : Selected(optimizing.captured[k])
    /\ ~disturbed =>
          \/ /\ inFlight = {} /\ ShownIsCurrent
             /\ Optimizing => optimizing.networks = networks
          \/ /\ optimizing.phase = "idle" /\ hasActiveRoute(waypoints)
             /\ \E q \in inFlight : inFlight = {q} /\ q.asked = Asked(waypoints, networks)

(* "A selected network is a hard constraint: restricted sections for that     *)
(* network must never be used" (use-directions-queries.ts:122-123): once      *)
(* every request is answered no shown route crosses a selected network.       *)
(* It does not hold: the answer of an older request may come last.            *)
ShownIsLegal ==
    ~Busy => \A p \in Shown : results.routes[p] \cap networks = {}
===============================================================================
