SPECIFICATION FairSpec
CONSTANTS
    Workers = {w1, w2}
    Inexact = {2}
    Bodies <- Requests
    Schemes <- TwoSchemes
    Stock <- Seeded
    None = None
    MaxRequests = 3
INVARIANTS Whole VehiclesInv
PROPERTIES StoresItsAxles AloneIsExact Answered
CHECK_DEADLOCK FALSE
