\* Two blocking calls and one stream share two rows and a queue of two.
CONSTANTS
    b1 = b1
    b2 = b2
    s1 = s1
    NoRequest = NoRequest
    Requests = {b1, b2, s1}
    Streaming = {s1}
    Limit <- MCLimit
    MaxBatchSize = 2
    MaxQueueSize = 2
    HasWindow = TRUE
SPECIFICATION Spec
INVARIANTS
    TypeOK
    RowsWithinBatch
    OnePlace
    RunningHasRow
    NoOrphanedCaller
    AwakeForWork
    StreamExact
    AnswerIsWhole
    RecordedOnce
PROPERTY ServiceSpec
CHECK_DEADLOCK FALSE
