SPECIFICATION Spec
CONSTANTS
    k1 = k1
    k2 = k2
    Keys = {k1}
    NoRow = NoRow
    NoMeta = NoMeta
    Names <- MCNames
    Fold <- MCFold
    Ident <- MCIdent
    Types = {1, 2}
    FirstColumns <- AandI
    Alters <- PartitionAlters
    Actions = {}
    MovedKeys <- NoMoves
    MaxTS = 3
    MaxFaults = 0
INVARIANTS
    UnsupportedStaysPending
CHECK_DEADLOCK FALSE
