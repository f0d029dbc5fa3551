\* One blocking call that times out while it runs.
CONSTANTS
    b1 = b1
    b2 = b2
    s1 = s1
    NoRequest = NoRequest
    Requests = {b1}
    Streaming = {}
    Limit <- MCLimit
    MaxBatchSize = 1
    MaxQueueSize = 1
    HasWindow = FALSE
SPECIFICATION Spec
INVARIANT TerminalStatusOnce
CHECK_DEADLOCK FALSE
