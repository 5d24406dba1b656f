SPECIFICATION MCSpec
CONSTANTS
    None = None
    MaxExecution = 3
    MaxActive = 5
    MaxSleep = 2
    Modes = {"Disabled", "Systemd", "Windows"}
    Grants = {2, 4}
    ControlBudget = 2
    CommandTimeout = 1
    Polls = 2
    MaxProcesses = 2
    LogLines <- MCLogLines
    LogLength = 8
    Window = 5
    PageLimits = {1, 2, 5}
INVARIANTS
    CommandsWithinBudget
    RestartedIsNew
    PagesAreContiguous
    SecretsAreWithheld
PROPERTIES
    CallEnds
CHECK_DEADLOCK FALSE
