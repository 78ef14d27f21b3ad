SPECIFICATION Spec
CONSTANTS
    t1 = t1
    t2 = t2
    k1 = k1
    k2 = k2
    Tables = {t1, t2}
    Keys = {k1}
    Streams <- MCStreams
    Jobs = {}
    NoJob = NoJob
    Sources = {}
    NoSource = NoSource
    Partitions = {0}
    PartitionOf <- NotPartitioned
    DDLKinds = {"plain"}
    SnapshotTS = 1
    InitVersion = 1
    Backlog <- NoBacklog
    MaxTS = 4
    MaxDate = 1
    MaxDDL = 1
    MaxFaults = 1
    MaxRestarts = 0
    DDLBarrier = FALSE
INVARIANTS
    NoLostRows
    WatermarkCovered
PROPERTIES
    ImplementsContract
CHECK_DEADLOCK FALSE
