SPECIFICATION Spec
CONSTANTS
    None = None
    o1 = o1
    o2 = o2
    a1 = a1
    a2 = a2
    c1 = c1
    OpIds = {o1, o2}
    Tasks <- ApplicationTasks
    Values = {0}
    AppRefs = {a1, a2}
    Clients = {}
    MaxApps = 2
    MaxGeneration = 0
    MaxRecords = 1
    MaxIdentities = 2
    InitialApps <- OneApp
    EditedApps <- AppLists
    Edited = {"apps"}
    RestartAttempts = 2
INVARIANTS
    SuccessIsWitnessed
    WritesAreLegal
    ClosedByTheManager
