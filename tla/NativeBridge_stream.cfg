SPECIFICATION FairSpec
CONSTANTS
    Ids = {"a"}
    MaxCalls = 1
    MaxTokens = 1
    MaxReads = 2
    MaxPendingRequests = 2
    MaxHandles = 4
    MaxOpenResources = 2
    MaxInFlight = 2
    MaxCreditsPerStream = 2
    MaxOutstandingCredits = 2
    Modes = {"stream"}
    Binaries = {0, 1}
    Deadlines = {TRUE, FALSE}
INVARIANTS
    QuotaConserved
    SettledInOrder
PROPERTIES
    FirstTerminalWins
    EveryCallSettles
CHECK_DEADLOCK FALSE
