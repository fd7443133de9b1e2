SPECIFICATION MCSpec
CONSTANTS
    Ids = {a, b}
    a = a
    b = b
    MaxCalls = 2
    MaxTokens = 2
    MaxReads = 1
    MaxPendingRequests = 2
    MaxHandles = 3
    MaxOpenResources = 2
    MaxInFlight = 2
    MaxCreditsPerStream = 2
    MaxOutstandingCredits = 2
    Modes = {"result", "stream"}
    Binaries = {0}
    Deadlines = {FALSE}
    Gates = {g1, g2}
    Handlers = 2
    MaxGates = 1
    MaxGraph = 1
    MaxQueuedEvents = 2
    MaxSequence = 10
    Files = {"a", "b", "c", "p", "q"}
    Manifests = {"p", "q"}
    ScopeOf <- MCScopeOf
    Synthetics = {"s"}
    Scoped = {"c"}
    Imports <- MCImports
    LoaderCalls <- MCLoaderCalls
    Answers <- MCAnswers
    MaxLoads = 3
    MaxModules = 4
    MaxSources = 4
    MaxAliases = 2
    Definitions <- MCDefinitions
    MaxInstances = 3
    MaxReplaces = 2
    MaxLeases = 1
INVARIANTS
    CallsAccounted
    GateFailsClosed
    ObserverKeepsTrack
    LoadsAreWhole
    PluginsOutliveUse
SYMMETRY Symmetry
