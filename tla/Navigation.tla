------------------------------ MODULE Navigation ------------------------------
(* Driving a shown route: the demo simulation, the arrow keys that take over, *)
(* and the rerouting that starts once the vehicle is off the route for 1.5 s. *)
(* A trip is the set of networks it is prohibited for, as a route is.  Where  *)
(* the vehicle is matters only as "off the route" or not.                     *)
EXTENDS Directions

CONSTANT MaxCalls   \* bound on the reroute requests in flight

ASSUME NavigationAssumption == MaxCalls \in Nat

VARIABLES
    isNavigating,  \* navigation-store: isNavigating, and isDemoMode with it
    trip,          \* navigation-store: trip, {} when null
    isRerouting,   \* navigation-store: isRerouting, "Recalculating route" shows
    timer,         \* rerouteTimerRef is set
    reroutingRef,  \* reroutingRef: off-route detection is switched off
    calls,         \* reroute requests in flight
    respected      \* history: the networks the started route was asked with

nvars == <<isNavigating, trip, isRerouting, timer, reroutingRef, calls, respected>>

NavigationInit ==
    /\ Init
    /\ isNavigating = FALSE
    /\ trip = {}
    /\ isRerouting = FALSE
    /\ timer = FALSE
    /\ reroutingRef = FALSE
    /\ calls = 0
    /\ respected = {}

-------------------------------------------------------------------------------
(* "Start Route" on the card of route p: a new session resets what the last   *)
(* one left, but its reroute requests are still in flight.                    *)
simulate(p) ==
    /\ ~isNavigating
    /\ isNavigating' = TRUE
    /\ trip' = results.routes[p]
    /\ respected' = results.asked.networks
    /\ isRerouting' = FALSE
    /\ timer' = FALSE
    /\ reroutingRef' = FALSE
    /\ UNCHANGED <<calls, dvars>>

(* The timer and the requests of the session survive it.                      *)
stopNavigation ==
    /\ isNavigating
    /\ isNavigating' = FALSE
    /\ trip' = {}
    /\ isRerouting' = FALSE
    /\ UNCHANGED <<timer, reroutingRef, calls, respected, dvars>>

(* An arrow key leaves the vehicle more than 50 m off the route, ...          *)
DriveOff ==
    /\ isNavigating /\ ~reroutingRef /\ ~timer
    /\ timer' = TRUE
    /\ isRerouting' = TRUE
    /\ UNCHANGED <<isNavigating, trip, reroutingRef, calls, respected, dvars>>

(* ... or takes it back before the timer fires.                               *)
DriveBack ==
    /\ isNavigating /\ ~reroutingRef /\ timer
    /\ timer' = FALSE
    /\ isRerouting' = FALSE
    /\ UNCHANGED <<isNavigating, trip, reroutingRef, calls, respected, dvars>>

(* The space bar hands control back to the simulation.                        *)
Space ==
    /\ isNavigating
    /\ timer' = FALSE
    /\ isRerouting' = FALSE
    /\ UNCHANGED <<isNavigating, trip, reroutingRef, calls, respected, dvars>>

(* After the session there is no position: the callback only resets its flags *)
FiresAfterStop ==                                      \* variant
    /\ timer /\ calls < MaxCalls
    /\ timer' = FALSE
    /\ reroutingRef' = TRUE
    /\ calls' = IF isNavigating THEN calls + 1 ELSE calls
    /\ UNCHANGED <<isRerouting, isNavigating, trip, respected, dvars>>

TimerFires ==
    /\ timer /\ calls < MaxCalls
    /\ timer' = FALSE
    /\ IF isNavigating
       THEN /\ reroutingRef' = TRUE
            /\ calls' = calls + 1
            /\ UNCHANGED isRerouting
       ELSE /\ reroutingRef' = FALSE
            /\ isRerouting' = FALSE
            /\ UNCHANGED calls
    /\ UNCHANGED <<isNavigating, trip, respected, dvars>>

(* fetchReroute asks with costing "auto" and no networks, so the new trip may *)
(* cross any; updateRoute does not look whether a session still runs.         *)
RerouteEnds ==
    /\ calls > 0
    /\ calls' = calls - 1
    /\ isRerouting' = FALSE
    /\ reroutingRef' = FALSE
    /\ UNCHANGED <<isNavigating, timer, respected, dvars>>

RerouteAnswered(crossed) == trip' = crossed /\ RerouteEnds

(* An error, or 8 s without an answer.                                        *)
FailsAndRearms ==                                      \* variant
    /\ calls > 0
    /\ calls' = calls - 1
    /\ reroutingRef' = FALSE
    /\ timer' = TRUE
    /\ UNCHANGED <<isNavigating, trip, isRerouting, respected, dvars>>

RerouteFails == UNCHANGED trip /\ RerouteEnds

Reroute == RerouteFails \/ \E crossed \in SUBSET Networks : RerouteAnswered(crossed)

-------------------------------------------------------------------------------
(* The panel is hidden while navigating; the map, the settings and everything *)
(* in flight go on.                                                           *)
NavigationNext ==
    \/ /\ ~isNavigating /\ Panel
       /\ UNCHANGED nvars
    \/ /\ Elsewhere
       /\ UNCHANGED nvars
    \/ \E p \in Shown : simulate(p)
    \/ stopNavigation \/ DriveOff \/ DriveBack \/ Space
    \/ TimerFires
    \/ Reroute

(* The browser runs a timer that is due, and AbortSignal.timeout(8000) ends a *)
(* request that is never answered.                                            *)
NavigationSpec ==
    /\ NavigationInit
    /\ [][NavigationNext]_<<dvars, nvars>>
    /\ WF_<<dvars, nvars>>(TimerFires)
    /\ WF_<<dvars, nvars>>(Reroute)

-------------------------------------------------------------------------------
(* Neither the "Recalculating route" bar nor the switched-off detection can   *)
(* outlive its cause: the bar has a timer or a request behind it, the         *)
(* switched-off detection a request, whatever sessions were stopped, started  *)
(* or answered late (use-keyboard-navigation.ts:116-222).                     *)
NeverStuck ==
    /\ isRerouting => timer \/ calls > 0
    /\ reroutingRef => calls > 0

(* The bar always goes away again.                                            *)
BarClears == isRerouting ~> ~isRerouting

(* "A selected network is a hard constraint: restricted sections for that     *)
(* network must never be used" (use-directions-queries.ts:122-123): the route *)
(* that is driven stays clear of the networks the started one was asked with. *)
(* It does not hold: the first reroute drops them.                            *)
DrivenIsLegal == isNavigating => trip \cap respected = {}
===============================================================================
