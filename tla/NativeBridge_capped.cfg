SPECIFICATION Spec
CONSTANTS
    Ids = {"a"}
    MaxCalls = 1
    MaxTokens = 2
    MaxReads = 2
    MaxPendingRequests = 2
    MaxHandles = 4
    MaxOpenResources = 1
    MaxInFlight = 2
    MaxCreditsPerStream = 2
    MaxOutstandingCredits = 2
    Modes = {"stream"}
    Binaries = {0, 1}
    Deadlines = {TRUE}
INVARIANT UndeliveredIsClosed
CHECK_DEADLOCK FALSE
