SPECIFICATION Spec
CONSTANTS
    creator = creator
    deleter = deleter
    t1 = t1
    t2 = t2
    x1 = x1
    x2 = x2
    j1 = j1
    c1 = c1
    Tables = {t1, t2}
    Streams = {x1, x2}
    Jobs = {j1}
    NoJob = NoJob
    Sources = {c1}
    NoSource = NoSource
    Creators = {creator}
    Deleters = {deleter}
    Exclusive = TRUE
    IncrementalOnly = FALSE
    MaxTS = 2
    MaxIndex = 1
    MaxFaults = 2
INVARIANTS
    TypeOK
    SavedStateOpens
    CopyIsSaved
    FinishedWithCheckpoint
PROPERTIES
    CheckpointNeverBackward
    FirstBackupKept
CHECK_DEADLOCK FALSE
