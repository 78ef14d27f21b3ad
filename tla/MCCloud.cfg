SPECIFICATION Spec
CONSTANTS
    c1 = c1
    j1 = j1
    j2 = j2
    j3 = j3
    Tables = {}
    Streams = {}
    Jobs = {j1, j2, j3}
    NoJob = NoJob
    Sources = {c1}
    NoSource = NoSource
    Modes = {"all", "snapshot-only", "incremental-only"}
    FreshIncremental = FALSE
    ConfigTSOs = {0, 2}
    MetadataAtStart = TRUE
    MaxTS = 3
    MaxFaults = 2
INVARIANTS
    TypeOK
    NoOrphan
    OneWriterPerPrefix
    CheckpointReached
CHECK_DEADLOCK FALSE
