SPECIFICATION FairSpec
CONSTANTS
    None = None
    o1 = o1
    o2 = o2
    a1 = a1
    a2 = a2
    c1 = c1
    OpIds = {o1}
    Tasks <- OneIdTasks
    Values = {0, 1}
    AppRefs = {}
    Clients = {c1}
    MaxApps = 2
    MaxGeneration = 0
    MaxRecords = 2
    MaxIdentities = 2
    InitialApps <- NoApps
    EditedApps = {}
    Edited = {"config", "clients"}
    RestartAttempts = 2
INVARIANTS
    TypeOK
    AtMostOneRequest
    RequestImpliesIntent
    RefusedMeansUntouched
    OneVerdict
    VerdictIsDurable
    UncertaintyHasIntent
    SuccessIsWitnessed
PROPERTIES
    ClosedIsOver
    DeliveryEnds
    ImplementsLedger
