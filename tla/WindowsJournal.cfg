SPECIFICATION Spec
CONSTANTS
    None = None
    Operations = 3
    Fingerprints = {f1, f2}
    Effects = {e1}
    Answers = {"Unknown.EffectNotConfirmed", "ConfigSaved"}
    MaxRecords = 1
    MaxIdentities = 3
    ScanLimit = 2
INVARIANTS
    InventoryIsSound
PROPERTIES
    HistoryIsPermanent
