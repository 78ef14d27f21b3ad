SPECIFICATION FairSpec
CONSTANTS
    w1 = w1
    w2 = w2
    Workers = {w1, w2}
    Groups <- SnapshotGroups
INVARIANTS
    TypeOK
    StagesInOrder
    NoneOutlivesItsGroup
PROPERTIES
    KeepsPromise
    Terminates
