SPECIFICATION MCSpec
CONSTANTS
    RequestIds = {"r1"}
    NoRequest = "none"
    Observers = {"o1"}
    MaxCallbacksPerTurn = 2
    MinimumInterval = 2
    MaxTimerDelay = 4
    TicksPerMs = 2
    Delays = {1, 5}
    Refs = {TRUE, FALSE}
    Kinds = {"macrotask", "io", "immediate", "nextTick", "native", "timeout", "interval"}
    Faults = {"clock", "port", "callback", "checkpoint"}
    MaxNow = 5
    MaxId = 3
INVARIANTS
    TypeOK
    IndexAgreement
    WakeupCoversWork
    TerminatesOnce
PROPERTIES
    ReadyTasksFifo
    LedgerSpec
    PhasesKeepOrder
CHECK_DEADLOCK FALSE
