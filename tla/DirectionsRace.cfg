SPECIFICATION DirectionsSpec
CONSTANTS
    Networks <- OneNetwork
    Permalinks <- NewOrShared
    Guarded = TRUE
    MaxAlternates = 0
    MaxWaypoints = 4
    MaxEdits = 3
INVARIANTS ShownIsLegal
CHECK_DEADLOCK FALSE
