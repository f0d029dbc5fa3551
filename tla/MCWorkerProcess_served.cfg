\* One row for a blocking call and a stream, and no admission window.
CONSTANTS
    b1 = b1
    s1 = s1
    NoRequest = NoRequest
    Requests = {b1, s1}
    Streaming = {s1}
    Limit <- MCLimit
    MaxBatchSize = 1
    MaxQueueSize = 2
    HasWindow = FALSE
SPECIFICATION ProcessFairSpec
INVARIANTS
    ReadyIsTrue
    StopFindsNoCaller
PROPERTIES
    ServedToTheEnd
    AbandonedLeaves
CHECK_DEADLOCK FALSE
