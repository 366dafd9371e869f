SPECIFICATION FairSpec
CONSTANTS
    Workers = {w1, w2}
    Inexact = {2}
    Bodies <- Requests
    Schemes <- TwoSchemes
    Stock <- Seeded
    None = None
    MaxRequests = 3
PROPERTY RefusedForAReason
CHECK_DEADLOCK FALSE
