SPECIFICATION Spec
CONSTANTS
    None = None
    OpIds = {o1}
    StorageFails = FALSE
    MaxStarts = 1
    MaxSessions = 1
    MaxDeliveries = 2
    MaxQueue = 2
    MaxReceipts = 2
INVARIANTS
    RacingReceiptIsTolerated
CHECK_DEADLOCK FALSE
