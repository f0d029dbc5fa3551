\* A stream whose client hangs up between two deltas, beside a blocking call.
CONSTANTS
    b1 = b1
    b2 = b2
    s1 = s1
    NoRequest = NoRequest
    Requests = {b1, s1}
    Streaming = {s1}
    Limit <- MCLimit
    MaxBatchSize = 1
    MaxQueueSize = 1
    HasWindow = FALSE
SPECIFICATION Spec
PROPERTY HungUpSwept
CHECK_DEADLOCK FALSE
