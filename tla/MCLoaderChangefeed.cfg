SPECIFICATION Spec
CONSTANTS
    t1 = t1
    t2 = t2
    k1 = k1
    k2 = k2
    Tables = {t1}
    Keys = {k1, k2}
    Streams <- MCStreams
    Jobs = {}
    NoJob = NoJob
    Sources = {}
    NoSource = NoSource
    Partitions = {1, 2}
    PartitionOf <- OnePartitionPerKey
    DDLKinds = {"plain"}
    SnapshotTS = 3
    InitVersion = 1
    Backlog <- TwoChanges
    MaxTS = 5
    MaxDate = 2
    MaxDDL = 1
    MaxFaults = 1
    MaxRestarts = 1
    DDLBarrier = TRUE
INVARIANTS
    NoLostRows
    WatermarkCovered
    RowsMeetTheirSchema
PROPERTIES
    ImplementsContract
CHECK_DEADLOCK FALSE
