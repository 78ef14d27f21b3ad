SPECIFICATION Spec
CONSTANTS
    k1 = k1
    k2 = k2
    Keys = {k1}
    NoRow = NoRow
    NoMeta = NoMeta
    Names <- MCNames
    Fold <- MCFold
    Ident <- MCIdent
    Types = {1, 2}
    FirstColumns <- AandI
    Alters <- SupportedAlters
    Actions = {"truncate table", "drop table", "rename table"}
    MovedKeys <- NoMoves
    MaxTS = 5
    MaxFaults = 2
INVARIANTS
    TypeOK
    ColumnsAreExplained
    RowsFollowUpstream
    MergeStopsOnlyInsideDDL
CHECK_DEADLOCK FALSE
