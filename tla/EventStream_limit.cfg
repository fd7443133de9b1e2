SPECIFICATION StreamSpec
CONSTANTS
    MaxTransactions = 3
    Times = {0}
    RetentionMs = 1
    Sizes = {"small"}
    Faults = FALSE
    MaxEventsPerRead = 1
    SlowClient = FALSE
INVARIANT NoEventMissed
