SPECIFICATION Spec
CONSTANTS
    MaxTransactions = 3
    Times = {0, 2, 4}
    RetentionMs = 1
    Sizes = {"small", "large"}
    Faults = TRUE
INVARIANT Reopens
