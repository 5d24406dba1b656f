SPECIFICATION FairSpec
CONSTANTS
    None = None
    Contents = {"old", "new"}
    MaxVersion = 2
    MaxDeliveries = 2
    MaxFaults = 2
INVARIANTS
    NeverBehindAResult
PROPERTIES
    HeartbeatsCatchUp
