SPECIFICATION FairSpec
CONSTANTS
    None = None
    OpIds = {o1}
    StorageFails = TRUE
    MaxStarts = 2
    MaxSessions = 2
    MaxDeliveries = 2
    MaxQueue = 2
    MaxReceipts = 2
INVARIANTS
    FinalResultsAreHeld
    OneFinalResult
    ManagerClosesFirst
    CleanShutdownIsSettled
PROPERTIES
    ResultsAreConfirmed
CHECK_DEADLOCK FALSE
