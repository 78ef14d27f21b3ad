SPECIFICATION Spec
CONSTANTS
    creator = creator
    deleter = deleter
    t1 = t1
    t2 = t2
    x1 = x1
    x2 = x2
    j1 = j1
    c1 = c1
    Tables = {t1}
    Streams = {x1}
    Jobs = {j1}
    NoJob = NoJob
    Sources = {c1}
    NoSource = NoSource
    Creators = {creator}
    Deleters = {deleter}
    Exclusive = FALSE
    IncrementalOnly = FALSE
    MaxTS = 2
    MaxIndex = 1
    MaxFaults = 0
PROPERTIES
    CheckpointNeverBackward
CHECK_DEADLOCK FALSE
