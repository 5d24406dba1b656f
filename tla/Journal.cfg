SPECIFICATION JournalSpec
CONSTANTS
    None = None
    OpIds = {o1, o2, o3}
    Fingerprints = {f1}
    Effects = {e1}
    Answers = {"Unknown.EffectNotConfirmed", "ConfigSaved"}
    MaxRecords = 1
    MaxIdentities = 2
INVARIANTS
    JournalTypeOK
    InventoryMatchesDisk
    ReopenWithinLimits
    OwedResultsArePending
PROPERTIES
    HistoryIsPermanent
