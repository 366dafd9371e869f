SPECIFICATION NavigationSpec
CONSTANTS
    Networks <- OneNetwork
    Permalinks <- Shared
    Guarded = TRUE
    MaxAlternates = 0
    MaxWaypoints = 2
    MaxEdits = 3
    MaxCalls = 2
INVARIANTS DrivenIsLegal
CHECK_DEADLOCK FALSE
