SPECIFICATION Spec
CONSTANTS
    Commands <- Everything
    ValhallaLocal = TRUE
    Revert = FALSE
    Faults = {"command", "unhealthy"}
    MaxVersion = 2
    MaxFaults = 2
INVARIANTS ReleaseInv RestoredOnFailure AdminsAreCurrent OneRelease
