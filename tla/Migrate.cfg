SPECIFICATION FairSpec
CONSTANTS
    Runners = {m1, m2}
    Databases <- FromAll
    MaxFailures = 2
    MaxResets = 2
INVARIANTS Retryable DoneMeansComplete MigrateInv
PROPERTIES EditsSurvive Migrates
CHECK_DEADLOCK FALSE
