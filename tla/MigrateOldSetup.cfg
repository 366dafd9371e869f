SPECIFICATION Spec
CONSTANTS
    Runners = {m1}
    Databases <- FromUntracked
    MaxFailures = 1
    MaxResets = 0
INVARIANT RetriedRunsCanFinish
CHECK_DEADLOCK FALSE
