SPECIFICATION Spec
CONSTANTS
    Nodes <- MCNodes
    Edges <- MCEdges
    Networks <- MCNetworks
    Width = 2
    Count = 3
    Requests <- MCRequests
    Delta = 6
    IterationsDelta = 4
INVARIANTS
    TypeOK
    RoutesAreLegal
    ShortcutsAreSound
    StatusPointsAtLabel
    ShortcutsAgree
    QueueHoldsOpenLabels
    CostsFollowChains
    FirstIsLeast
    FindsRoute
PROPERTIES
    PopIsLeast
    Terminates
