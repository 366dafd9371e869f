SPECIFICATION FairSpec
CONSTANTS
    Commands <- Routine
    ValhallaLocal = TRUE
    Revert = FALSE
    Faults = {"kill", "command", "unhandled", "unhealthy"}
    MaxVersion = 2
    MaxFaults = 2
INVARIANTS UpToDateIsTrue Inv
PROPERTIES Converges PublishesReleases
