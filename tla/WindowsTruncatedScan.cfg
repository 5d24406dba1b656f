SPECIFICATION Spec
CONSTANTS
    None = None
    Operations = 4
    Fingerprints = {f1}
    Effects = {}
    Answers = {"ConfigSaved"}
    MaxRecords = 1
    MaxIdentities = 4
    ScanLimit = 3
INVARIANTS
    OwedResultsArePending
