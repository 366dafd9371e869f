SPECIFICATION DirectionsSpec
CONSTANTS
    Networks <- OneNetwork
    Permalinks <- NewOrShared
    Guarded = FALSE
    MaxAlternates = 1
    MaxWaypoints = 4
    MaxEdits = 3
INVARIANTS DirectionsInv LegalAsAsked ActiveRouteExists WaitingMeansCurrent
CHECK_DEADLOCK FALSE
