SPECIFICATION MCSpec
CONSTANTS
    RequestIds = {}
    NoRequest = "none"
    Observers = {}
    MaxCallbacksPerTurn = 2
    MinimumInterval = 1
    MaxTimerDelay = 2
    TicksPerMs = 1
    Delays = {1}
    Refs = {TRUE}
    Kinds = {"macrotask", "immediate", "nextTick", "timeout"}
    Faults = {}
    MaxNow = 2
    MaxId = 3
PROPERTIES
    WorkServed
    CheckPhaseServed
CHECK_DEADLOCK FALSE
