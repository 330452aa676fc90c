\* An obedient CO that may lose replies, with OS calls that may fail.
CONSTANTS
    s = s
    t1 = t1
    t2 = t2
    w1 = w1
    w2 = w2
    StagingPath = s
    Targets <- MCTargetsOne
    Workers <- MCWorkers
    ScanSteps = 2
    MaxDepth = 2
    Obedient = FALSE
    CoTimeouts = FALSE
    ReplyLosses = FALSE
    OsFailures = TRUE
SPECIFICATION Spec
INVARIANT WorkloadSeesVolume
