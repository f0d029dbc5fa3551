\* Two requests for one slot, two workers with a row and a place in the queue
\* each, which crash and restart but answer probes while they are up.
CONSTANTS
    r1 = r1
    r2 = r2
    Requests = {r1, r2}
    NumWorkers = 2
    MaxInflight = 1
    Crashes = TRUE
    SlowProbes = FALSE
    Signals = FALSE
    MaxBatchSize = 1
    MaxQueueSize = 1
SPECIFICATION ClusterFairSpec
INVARIANTS
    OkIsServed
    LoadCountsTheLiving
PROPERTIES
    GhostsLeave
    BothServe
CHECK_DEADLOCK FALSE
