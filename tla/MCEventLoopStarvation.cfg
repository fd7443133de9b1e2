SPECIFICATION MCSpec
CONSTANTS
    RequestIds = {}
    NoRequest = "none"
    Observers = {}
    MaxCallbacksPerTurn = 2
    MinimumInterval = 1
    MaxTimerDelay = 2
    TicksPerMs = 1
    Delays = {1}
    Refs = {TRUE}
    Kinds = {"immediate", "interval"}
    Faults = {}
    MaxNow = 2
    MaxId = 2
PROPERTIES
    CheckPhaseServed
CHECK_DEADLOCK FALSE
