SPECIFICATION FairSpec
CONSTANTS
    t1 = t1
    t2 = t2
    k1 = k1
    k2 = k2
    Tables = {t1}
    Keys = {k1}
    Streams <- MCStreams
    Jobs = {}
    NoJob = NoJob
    Sources = {}
    NoSource = NoSource
    Partitions = {0}
    PartitionOf <- NotPartitioned
    DDLKinds = {"plain", "add", "modify", "drop"}
    SnapshotTS = 1
    InitVersion = 1
    Backlog <- NoBacklog
    MaxTS = 4
    MaxDate = 2
    MaxDDL = 2
    MaxFaults = 1
    MaxRestarts = 0
    DDLBarrier = FALSE
PROPERTIES
    EveryChangeArrives
CHECK_DEADLOCK FALSE
