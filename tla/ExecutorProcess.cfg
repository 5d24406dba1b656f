SPECIFICATION Spec
CONSTANTS
    None = None
    o1 = o1
    o2 = o2
    a1 = a1
    a2 = a2
    c1 = c1
    OpIds = {o1}
    Tasks <- ProcessTasks
    Values = {0, 1}
    AppRefs = {}
    Clients = {}
    MaxApps = 2
    MaxGeneration = 2
    MaxRecords = 2
    MaxIdentities = 2
    InitialApps <- NoApps
    EditedApps = {}
    Edited = {"config", "process"}
    RestartAttempts = 2
INVARIANTS
    SuccessIsWitnessed
