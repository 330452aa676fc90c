\* Any CO, deadlines, lost replies and failing OS calls: requests still return.
CONSTANTS
    s = s
    t1 = t1
    t2 = t2
    w1 = w1
    w2 = w2
    StagingPath = s
    Targets <- MCTargetsOne
    Workers <- MCWorkers
    ScanSteps = 2
    MaxDepth = 2
    Obedient = FALSE
    CoTimeouts = TRUE
    ReplyLosses = TRUE
    OsFailures = TRUE
SPECIFICATION Spec
PROPERTY RequestsReturn
