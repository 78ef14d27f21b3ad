SPECIFICATION Spec
CONSTANTS
    t1 = t1
    t2 = t2
    f1 = f1
    f2 = f2
    f3 = f3
    j1 = j1
    j2 = j2
    Tables = {t1, t2}
    Streams = {}
    Files = {f1, f2, f3}
    TableOf <- TwoFilesAndOne
    Jobs = {j1, j2}
    NoJob = NoJob
    Sources = {}
    NoSource = NoSource
    Modes = {"all", "snapshot-only", "incremental-only"}
    ConfigTSOs = {0, 2}
    ConfigChanges = TRUE
    FreshIncremental = FALSE
    MetadataAtStart = TRUE
    MaxTS = 3
    MaxFaults = 2
INVARIANTS
    CheckpointReached
CHECK_DEADLOCK FALSE
