SPECIFICATION MCSpec
CONSTANTS
    MaxOps = 3
    MaxGen = 2
    Breaks = {TRUE, FALSE}
    Scenarios <- MCScenarios
    Keys = {k1, k2, k3}
    MaxRecords = 2
    MaxRestarts = 2
    MaxWriteFaults = 2
    i1 = i1
    i2 = i2
    a = a
    Invocations = {i1, i2}
    Bindings = {a}
    Grants <- MCGrants
    CallScenarios <- MCCallScenarios
    MaxRevision = 1
    MaxDepth = 2
    MaxPending = 1
    MaxRequests = 2
    Pids = {p1}
    Configures = {TRUE, FALSE}
    MaxAdmissions = 1
    MaxAsked = 2
    ReadableHighWaterMark = 1
    ReadableSizes = {0, 1}
    MaxChunks = 2
    MaxReads = 3
    WritableHighWaterMark = 1
    WritableSizes = {1}
    MaxWrites = 3
    Emits = {0, 1, 2}
    Deadlines = {0, 1, 3}
    TicksPerMs = 2
    MaxNow = 6
    MaxTickets = 5
INVARIANTS
    ChildrenAccounted
    WorkOnce
    ResourcesKept
    ConnectionEndsClean
    ReadableDelivers
    WritableAgrees
    StreamsAlone
    PeersAgree
    QueuedIsReal
PROPERTIES
    EndIsFinal
    StopEnds
    SuccessIsReplayed
    IoIsFenced
    ResultArrives
    EnvironmentsSettle
    TransformsOnDemand
    StreamsGoOn
    PortKept
