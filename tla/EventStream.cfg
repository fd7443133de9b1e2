SPECIFICATION StreamSpec
CONSTANTS
    MaxTransactions = 3
    Times = {0, 2}
    RetentionMs = 1
    Sizes = {"small", "huge"}
    Faults = TRUE
    MaxEventsPerRead = 2
    SlowClient = TRUE
INVARIANTS
    AckedSurvives
    Reopens
    EventsAreTrue
PROPERTY
    LogSpec
