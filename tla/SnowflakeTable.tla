--------------------------- MODULE SnowflakeTable ---------------------------
(***************************************************************************)
(* The columns and rows of one replicated table.  Upstream they change by  *)
(* DML and DDL, which TiCDC writes as data files and schema files; the     *)
(* loader turns a TiDB DDL into any number of Snowflake statements         *)
(* (src/pkg/snowflake/ddl.go), executes them one by one, and merges the    *)
(* data files by the columns of their version (src/pkg/snowflake/sql.go).  *)
(* A statement may fail or the process stop between any two of them; the   *)
(* message of a failed DDL asks the operator to finish it.  Which files a  *)
(* scan sees and how cursors are kept is the matter of IncrementalLoader:  *)
(* here a scan takes all there is, from a state that has a watermark.      *)
(***************************************************************************)
EXTENDS Integers, Sequences, FiniteSets, SequencesExt

CONSTANTS
    Keys,           \* primary keys
    NoRow,          \* a key without a row
    NoMeta,         \* currentMeta is nil
    Names,          \* column names as TiDB spells them
    Fold,           \* a name without its case (strings.EqualFold)
    Ident,          \* the identifier that quoteIdent makes of a name
    Types,          \* all of a column that columnModifyString compares
    FirstColumns,   \* the columns at the snapshot, besides the key: name -> type
    Alters,         \* the ALTER TABLE statements: sequences of specs
    Actions,        \* the other DDLs
    MovedKeys,      \* pairs of keys that trade their rows in one transaction
    MaxTS,          \* bound: the last commit_ts
    MaxFaults       \* bound: crashes and failed statements

NoName == ""

ASSUME TableAssumption ==
    /\ MaxTS \in Nat \ {0} /\ MaxFaults \in Nat
    /\ Actions \subseteq {"truncate table", "drop table", "rename table", "drop schema"}
    /\ \A S \in SUBSET Names : NoMeta \notin [S -> Types]
    /\ \A S \in SUBSET (Names \cup {Ident[n] : n \in Names}) : NoRow \notin [S -> Nat]

\* A table has no two columns whose names differ in their case only, and names
\* that differ otherwise are different identifiers.
ASSUME NamesAssumption ==
    /\ FirstColumns \in UNION {[S -> Types] : S \in SUBSET Names}
    /\ \A m, n \in DOMAIN FirstColumns : Fold[m] = Fold[n] => m = n
    /\ \A m, n \in Names : Ident[m] = Ident[n] => Fold[m] = Fold[n]

VARIABLES
    \* upstream
    clock,      \* the last commit_ts
    columns,    \* name -> type
    rows,       \* key -> (name -> value); a value is the commit_ts of its write
    present,    \* the table has its old name and is not dropped
    log,        \* the schema files and data files of the table, in their order
    \* Snowflake
    exists,
    sfColumns,  \* identifier -> type
    sfRows,     \* key -> (identifier -> value)
    \* the state object
    saved,      \* [watermark, consumed, checkpoint]
    \* the loader
    pc,         \* "idle", "load", "apply", "finish", "told" or "stopped"
    work,       \* the files still to do in this scan, by their place in the log
    seen,       \* how much of the log any scan has seen
    target,     \* the checkpoint the scan will save
    dirty,      \* files merged whose cursor is not saved
    meta,       \* currentMeta: the columns of the last version handled, or nil
    todo,       \* the statements of the DDL at work still to execute
    faults      \* crashes and failures so far

upstream == <<clock, columns, rows, present, log>>
table == <<exists, sfColumns, sfRows>>
process == <<pc, work, seen, target, dirty, meta, todo>>
vars == <<upstream, table, saved, process, faults>>

FirstVersion == 1
NoFill == 0         \* the value an added column has in the rows there are

SchemaFile(version, action, specs, cols) ==
    [kind |-> "schema", version |-> version, action |-> action,
     specs |-> specs, columns |-> cols]

DataFile(version, cols, changes) ==
    [kind |-> "file", version |-> version, columns |-> cols, changes |-> changes]

IsSchema(i) == log[i].kind = "schema"
Version == log[Len(log)].version

----------------------------------------------------------------------------
(***************************************************************************)
(* Upstream, external: TiDB and TiCDC.                                     *)
(***************************************************************************)
Put(k, row) == [ts |-> clock + 1, key |-> k, row |-> row]

\* A row is written or deleted, or two keys are deleted and written again.
Transactions ==
    LET full == [n \in DOMAIN columns |-> clock + 1]
        there == {k \in Keys : rows[k] # NoRow}
    IN  {{Put(k, full)} : k \in Keys}
        \cup {{Put(k, NoRow)} : k \in there}
        \cup {{Put(p[1], NoRow), Put(p[2], NoRow),
                Put(p[1], rows[p[2]]), Put(p[2], rows[p[1]])} :
                  p \in MovedKeys \cap (there \X there)}

Written(changes, k) ==
    LET of == {c \in changes : c.key = k}
        written == {c \in of : c.row # NoRow}
    IN  IF of = {} THEN rows[k]
        ELSE IF written = {} THEN NoRow
        ELSE (CHOOSE c \in written : TRUE).row

\* A file takes further changes until a scan has seen it.
Commit ==
    /\ present
    /\ clock < MaxTS
    /\ clock' = clock + 1
    /\ \E changes \in Transactions :
          /\ rows' = [k \in Keys |-> Written(changes, k)]
          /\ \/ /\ Len(log) > seen /\ ~IsSchema(Len(log))
                /\ log' = [log EXCEPT ![Len(log)].changes = @ \cup changes]
             \/ log' = Append(log, DataFile(Version, columns, changes))
    /\ UNCHANGED <<columns, present, table, saved, process, faults>>

Leaves(spec) == IF spec.op \in {"drop", "rename", "change", "modify"}
                THEN {spec.old} ELSE {}
Enters(spec) == IF spec.op \in {"add", "rename", "change", "modify"}
                THEN {spec.new} ELSE {}

Touched(spec) == {Fold[n] : n \in Leaves(spec) \cup Enters(spec)}

\* TiDB refuses a statement that names a column twice, in whatever case.
ASSUME AltersAssumption ==
    \A specs \in Alters :
        /\ specs \in Seq([op : STRING, old : Names \cup {NoName},
                          new : Names \cup {NoName}, type : Types \cup {0}])
        /\ \A i \in DOMAIN specs :
              /\ specs[i].op \notin {"truncate table", "drop table"}
              /\ Leaves(specs[i]) \cup Enters(specs[i]) \subseteq Names
              /\ specs[i].op \in {"add", "modify", "change"} => specs[i].type \in Types
              /\ specs[i].op = "modify" => specs[i].old = specs[i].new
        /\ \A i, j \in DOMAIN specs :
              i # j => Touched(specs[i]) \cap Touched(specs[j]) = {}

Valid(cols, spec) ==
    /\ Leaves(spec) \subseteq DOMAIN cols
    /\ \A n \in Enters(spec), c \in DOMAIN cols \ Leaves(spec) : Fold[n] # Fold[c]

\* The columns of the table, or the values of one row, after a spec.
After(f, spec, entering) ==
    [n \in (DOMAIN f \ Leaves(spec)) \cup Enters(spec) |->
        IF n \in Enters(spec) THEN entering ELSE f[n]]

ColumnsAfter(cols, spec) ==
    After(cols, spec, IF spec.op = "rename" THEN cols[spec.old] ELSE spec.type)

\* DROP PARTITION takes all the rows there are.
Empties == {"partition", "truncate table", "drop table"}

RowAfter(row, spec) ==
    IF row = NoRow \/ spec.op \in Empties THEN NoRow
    ELSE After(row, spec, IF spec.op = "add" THEN NoFill ELSE row[spec.old])

\* ... after the specs of a statement, one after the other.
ColumnsAfterAll(cols, specs) == FoldLeft(ColumnsAfter, cols, specs)
RowAfterAll(row, specs) == FoldLeft(RowAfter, row, specs)

Alter(specs) ==
    /\ present
    /\ clock < MaxTS
    /\ \A i \in DOMAIN specs : Valid(columns, specs[i])
    /\ clock' = clock + 1
    /\ columns' = ColumnsAfterAll(columns, specs)
    /\ rows' = [k \in Keys |-> RowAfterAll(rows[k], specs)]
    /\ log' = Append(log, SchemaFile(clock', "alter table", specs, columns'))
    /\ UNCHANGED <<present, table, saved, process, faults>>

OtherDDL(action) ==
    /\ present
    /\ clock < MaxTS
    /\ clock' = clock + 1
    /\ present' = (action = "truncate table")
    /\ rows' = [k \in Keys |-> NoRow]
    /\ log' = Append(log, SchemaFile(clock', action, <<>>, columns))
    /\ UNCHANGED <<columns, table, saved, process, faults>>

----------------------------------------------------------------------------
(***************************************************************************)
(* GenDDLViaTiDBDDL: the Snowflake statements of a schema file.  A type    *)
(* stands for all that columnModifyString compares.                        *)
(***************************************************************************)
InMeta(cols, name) ==
    cols # NoMeta /\ \E c \in DOMAIN cols : Fold[c] = Fold[name]

ColumnInMeta(cols, name) ==
    CHOOSE c \in DOMAIN cols : Fold[c] = Fold[name]

\* The look-ups that must succeed for a spec; other specs are passed over.
Translatable(prev, next, spec) ==
    /\ Leaves(spec) # {} => InMeta(prev, spec.old)
    /\ Enters(spec) # {} => InMeta(next, spec.new)
    /\ spec.op # "rename table"

Statement(op, old, new, type) == [op |-> op, old |-> old, new |-> new, type |-> type]
OfTable(op) == Statement(op, NoName, NoName, 0)

AddColumn(name, type) == <<Statement("add", NoName, Ident[name], type)>>
DropColumn(name) == <<Statement("drop", Ident[name], NoName, 0)>>
RenameColumn(old, new) == <<Statement("rename", Ident[old], Ident[new], 0)>>

ModifyColumn(before, after, name) ==
    IF before = after THEN <<>>
    ELSE <<Statement("modify", Ident[name], Ident[name], after)>>

\* Wrong on purpose: CHANGE COLUMN is taken for MODIFY COLUMN.
ChangedColumnNotRenamed(old, new, before, after) == ModifyColumn(before, after, new)

\* CHANGE COLUMN; a new name that differs in its case only is no new name.
ChangedColumn(old, new, before, after) ==
    (IF Fold[old] # Fold[new] THEN RenameColumn(old, new) ELSE <<>>)
        \o ModifyColumn(before, after, new)

StatementsOf(prev, next, spec) ==
    LET old == ColumnInMeta(prev, spec.old)
        new == ColumnInMeta(next, spec.new)
    IN  CASE spec.op = "add"    -> AddColumn(new, next[new])
          [] spec.op = "drop"   -> DropColumn(spec.old)
          [] spec.op = "rename" -> RenameColumn(spec.old, spec.new)
          [] spec.op = "modify" -> ModifyColumn(prev[old], next[new], new)
          [] spec.op = "change" -> ChangedColumn(old, new, prev[old], next[new])
          [] OTHER              -> <<>>

GenAlterTableDDLs(prev, next, specs) ==
    LET append(ddls, spec) == ddls \o StatementsOf(prev, next, spec)
    IN  FoldLeft(append, <<>>, specs)

Accepted(prev, file) ==
    /\ file.action # "rename table"
    /\ \A i \in DOMAIN file.specs : Translatable(prev, file.columns, file.specs[i])

Translation(prev, file) ==
    CASE file.action = "truncate table" -> <<OfTable("truncate table")>>
      [] file.action = "drop table"     -> <<OfTable("drop table")>>
      [] OTHER -> \* of an ALTER TABLE spec by spec; of DROP DATABASE nothing
           GenAlterTableDDLs(prev, file.columns, file.specs)

----------------------------------------------------------------------------
(***************************************************************************)
(* Snowflake, external: what a statement needs and does.  DROP TABLE is    *)
(* IF EXISTS.                                                              *)
(***************************************************************************)
Legal(there, cols, s) ==
    \/ s.op = "drop table"
    \/ s.op = "truncate table" /\ there
    \/ /\ there
       /\ Leaves(s) \subseteq DOMAIN cols
       /\ Enters(s) \cap (DOMAIN cols \ Leaves(s)) = {}

Dropped(statements) == \E i \in DOMAIN statements : statements[i].op = "drop table"

\* The table after the statements, one after the other.  The columns that a
\* dropped table had stay in the model.
Execute(statements) ==
    /\ exists' = (exists /\ ~Dropped(statements))
    /\ sfColumns' = ColumnsAfterAll(sfColumns, statements)
    /\ sfRows' = [k \in Keys |-> RowAfterAll(sfRows[k], statements)]

----------------------------------------------------------------------------
(***************************************************************************)
(* The loader.                                                             *)
(***************************************************************************)
Image(f) ==
    [c \in {Ident[n] : n \in DOMAIN f} |-> f[CHOOSE n \in DOMAIN f : Ident[n] = c]]
ImageOfRow(row) == IF row = NoRow THEN NoRow ELSE Image(row)

\* A new table, copied from the snapshot; its initial schema file is handled.
Init ==
    /\ clock = FirstVersion
    /\ columns = FirstColumns
    /\ rows \in [Keys -> {NoRow, [n \in DOMAIN FirstColumns |-> FirstVersion]}]
    /\ present = TRUE
    /\ log = <<SchemaFile(FirstVersion, "none", <<>>, FirstColumns)>>
    /\ exists = TRUE
    /\ sfColumns = Image(FirstColumns)
    /\ sfRows = [k \in Keys |-> ImageOfRow(rows[k])]
    /\ saved = [watermark |-> FirstVersion, consumed |-> {}, checkpoint |-> FirstVersion]
    /\ pc = "idle"
    /\ work = {}
    /\ seen = 1
    /\ target = 0
    /\ dirty = {}
    /\ meta = NoMeta
    /\ todo = <<>>
    /\ faults = 0

\* What the process knows when it starts.
Started ==
    /\ pc' = "idle"
    /\ work' = {}
    /\ seen' = seen
    /\ target' = 0
    /\ dirty' = {}
    /\ meta' = NoMeta
    /\ todo' = <<>>

Pending(s) ==
    {i \in DOMAIN log :
        \/ log[i].version > s.watermark
        \/ log[i].version = s.watermark /\ ~IsSchema(i)} \ s.consumed

SchemaFileAt(version) ==
    log[CHOOSE i \in DOMAIN log : IsSchema(i) /\ log[i].version = version]
ColumnsAt(version) == SchemaFileAt(version).columns

\* beginScan and getNewFiles; loadSchemaFiles rebuilds currentMeta for a DDL.
BeginScan ==
    /\ pc = "idle"
    /\ clock > saved.checkpoint
    /\ pc' = "load"
    /\ work' = Pending(saved)
    /\ seen' = Len(log)
    /\ target' = clock
    /\ meta' = IF meta = NoMeta /\ \E i \in work' : IsSchema(i)
               THEN ColumnsAt(saved.watermark) ELSE meta
    /\ UNCHANGED <<upstream, table, saved, dirty, todo, faults>>

Loading == pc = "load" /\ work # {}

\* Wrong on purpose: the data files of a scan come before its schema files.
CurrentDataFirst ==
    LET data == {i \in work : ~IsSchema(i)}
    IN  Min(IF data = {} THEN work ELSE data)

\* handleNewFiles: by version, the schema file first.
Current == Min(work)
File == log[Current]

\* applyDDL: every statement is generated before the first is executed.
StartDDL ==
    /\ Loading /\ IsSchema(Current)
    /\ IF Accepted(meta, File)
       THEN pc' = "apply" /\ todo' = Translation(meta, File)
       ELSE pc' = "stopped" /\ UNCHANGED todo
    /\ UNCHANGED <<upstream, table, saved, work, seen, target, dirty, meta, faults>>

ExecDDL ==
    /\ pc = "apply" /\ todo # <<>>
    /\ Legal(exists, sfColumns, Head(todo))
    /\ Execute(<<Head(todo)>>)
    /\ todo' = Tail(todo)
    /\ UNCHANGED <<upstream, saved, pc, work, seen, target, dirty, meta, faults>>

\* A statement fails, or its answer is lost: ddlExecutionErrorMessage.
ExecDDLFails ==
    /\ pc = "apply" /\ todo # <<>>
    /\ \/ /\ ~Legal(exists, sfColumns, Head(todo))
          /\ UNCHANGED <<table, faults>>
       \/ /\ Legal(exists, sfColumns, Head(todo))
          /\ faults < MaxFaults
          /\ faults' = faults + 1
          /\ UNCHANGED table \/ Execute(<<Head(todo)>>)
    /\ pc' = "told"
    /\ UNCHANGED <<upstream, saved, work, seen, target, dirty, meta, todo>>

\* Wrong on purpose: the watermark is saved after the first statement.
AppliedInPart == pc = "apply" /\ Len(todo) <= 1

Applied == pc = "apply" /\ todo = <<>>

SaveWatermark ==
    /\ Applied
    /\ saved' = [saved EXCEPT !.watermark = File.version]
    /\ meta' = File.columns
    /\ work' = work \ {Current}
    /\ todo' = <<>>
    /\ pc' = "load"
    /\ UNCHANGED <<upstream, table, seen, target, dirty, faults>>

(***************************************************************************)
(* LoadIncrement.  Of the changes of a key the one with the latest         *)
(* commit_ts counts, if it is after the checkpoint; of several such, any.  *)
(***************************************************************************)
\* Wrong on purpose: the first change of a key counts.
EarliestChanges(k) ==
    LET of == {c \in File.changes : c.key = k /\ c.ts > saved.checkpoint}
    IN  {c \in of : \A d \in of : c.ts <= d.ts}

LatestChanges(k) ==
    LET of == {c \in File.changes : c.key = k /\ c.ts > saved.checkpoint}
    IN  {c \in of : \A d \in of : d.ts <= c.ts}

Fits == exists /\ {Ident[n] : n \in DOMAIN File.columns} \subseteq DOMAIN sfColumns

\* Columns that the file does not have keep their values.
MergedRow(old, new) ==
    IF new = NoRow THEN NoRow
    ELSE LET image == Image(new)
         IN  [c \in DOMAIN sfColumns |->
                 IF c \in DOMAIN image THEN image[c]
                 ELSE IF old = NoRow THEN NoFill ELSE old[c]]

\* Wrong on purpose: the cursor of a file is not moved when it was merged.
RestWithFile == work

Rest == work \ {Current}

LoadIncrement ==
    /\ Loading /\ ~IsSchema(Current)
    /\ Fits
    /\ \E pick \in [{k \in Keys : LatestChanges(k) # {}} -> File.changes] :
           /\ \A k \in DOMAIN pick : pick[k] \in LatestChanges(k)
           /\ sfRows' = [k \in Keys |-> IF k \in DOMAIN pick
                                        THEN MergedRow(sfRows[k], pick[k].row)
                                        ELSE sfRows[k]]
    /\ dirty' = dirty \cup {Current}
    /\ work' = Rest
    /\ UNCHANGED <<upstream, exists, sfColumns, saved, pc, seen, target, meta,
                   todo, faults>>

\* A MERGE that names a column the table does not have fails every time.
LoadIncrementFails ==
    /\ Loading /\ ~IsSchema(Current)
    /\ ~Fits
    /\ pc' = "stopped"
    /\ UNCHANGED <<upstream, table, saved, work, seen, target, dirty, meta, todo, faults>>

SaveCursors ==
    /\ pc = "load" /\ work = {}
    /\ saved' = [saved EXCEPT !.consumed = @ \cup dirty]
    /\ dirty' = {}
    /\ pc' = "finish"
    /\ UNCHANGED <<upstream, table, work, seen, target, meta, todo, faults>>

SaveCheckpoint ==
    /\ pc = "finish"
    /\ saved' = [saved EXCEPT !.checkpoint = target]
    /\ pc' = "idle"
    /\ target' = 0
    /\ UNCHANGED <<upstream, table, work, seen, dirty, meta, todo, faults>>

----------------------------------------------------------------------------
\* A failed save ends the process like a crash, before or after its effect.
Crash ==
    /\ pc \notin {"told", "stopped"}
    /\ faults < MaxFaults
    /\ faults' = faults + 1
    /\ Started
    /\ UNCHANGED <<upstream, table, saved>>

\* The program is started again as it is ...
Restart ==
    /\ pc \in {"told", "stopped"}
    /\ Started
    /\ UNCHANGED <<upstream, table, saved, faults>>

\* After the watermark's DDL, the first n statements were executed, as far as
\* the columns tell.
ExplainedBy(statements, n) ==
    LET executed == SubSeq(statements, 1, n)
    IN  /\ sfColumns = ColumnsAfterAll(Image(ColumnsAt(saved.watermark)), executed)
        /\ exists <=> ~Dropped(executed) /\
                         SchemaFileAt(saved.watermark).action # "drop table"

\* ... or the operator executes what is left and moves the watermark first.
Repair ==
    /\ pc = "told"
    /\ LET statements == Translation(meta, File)
           n == Min({m \in 0..Len(statements) : ExplainedBy(statements, m)})
       IN  Execute(SubSeq(statements, n + 1, Len(statements)))
    /\ saved' = [saved EXCEPT !.watermark = File.version]
    /\ Started
    /\ UNCHANGED <<upstream, faults>>

----------------------------------------------------------------------------
Upstream ==
    \/ Commit
    \/ \E specs \in Alters : Alter(specs)
    \/ \E action \in Actions : OtherDDL(action)

Loader ==
    \/ BeginScan
    \/ StartDDL \/ ExecDDL \/ ExecDDLFails \/ SaveWatermark
    \/ LoadIncrement \/ LoadIncrementFails
    \/ SaveCursors \/ SaveCheckpoint

Next == Upstream \/ Loader \/ Crash \/ Restart \/ Repair

Spec == Init /\ [][Next]_vars

----------------------------------------------------------------------------
Columns == UNION {[S -> Types] : S \in SUBSET Names}
SfColumns == UNION {[S -> Types] : S \in SUBSET {Ident[n] : n \in Names}}

\* The types; a row has the columns of its table, and no file of a scan is both
\* merged and still to do.
TypeOK ==
    /\ clock \in FirstVersion..MaxTS
    /\ columns \in Columns
    /\ \A k \in Keys : rows[k] # NoRow => DOMAIN rows[k] = DOMAIN columns
    /\ present \in BOOLEAN /\ exists \in BOOLEAN
    /\ sfColumns \in SfColumns
    /\ \A k \in Keys : sfRows[k] # NoRow => DOMAIN sfRows[k] = DOMAIN sfColumns
    /\ saved.watermark \in FirstVersion..clock
    /\ saved.checkpoint \in FirstVersion..clock
    /\ saved.consumed \subseteq DOMAIN log
    /\ pc \in {"idle", "load", "apply", "finish", "told", "stopped"}
    /\ work \subseteq DOMAIN log /\ dirty \subseteq DOMAIN log
    /\ work \cap (dirty \cup saved.consumed) = {}
    /\ meta \in Columns \cup {NoMeta}
    /\ faults \in 0..MaxFaults

NextDDLs == {i \in DOMAIN log : IsSchema(i) /\ log[i].version > saved.watermark}

\* The statements of the DDL after the watermark.
NextStatements ==
    IF NextDDLs = {} \/ ~Accepted(ColumnsAt(saved.watermark), log[Min(NextDDLs)])
    THEN <<>>
    ELSE Translation(ColumnsAt(saved.watermark), log[Min(NextDDLs)])

(***************************************************************************)
(* The columns in Snowflake are always those of the watermark after the    *)
(* first so many statements of the next DDL: a DDL interrupted between two *)
(* statements, executed again from its first one, or finished by the       *)
(* operator never leaves columns that no place in the history explains     *)
(* (applyDDL).                                                             *)
(***************************************************************************)
ColumnsAreExplained ==
    \E n \in 0..Len(NextStatements) : ExplainedBy(NextStatements, n)

(***************************************************************************)
(* When the loader has nothing left to do, columns and rows in Snowflake   *)
(* are those upstream, whatever was replayed: files merged into a table    *)
(* that has part of the next DDL, statements executed twice, TRUNCATE      *)
(* after the rows before it came back (applyDDL, genMergeIntoSQL).         *)
(***************************************************************************)
RowsFollowUpstream ==
    pc = "idle" /\ Pending(saved) = {} =>
        /\ exists = present
        /\ exists => sfColumns = Image(columns)
        /\ \A k \in Keys : sfRows[k] = ImageOfRow(rows[k])

(***************************************************************************)
(* A MERGE that names a missing column stops the loader for good and its   *)
(* error does not speak of DDL: it happens only where a DDL was executed   *)
(* and its watermark not saved, so the operator knows what to repair.      *)
(***************************************************************************)
MergeStopsOnlyInsideDDL ==
    Loading /\ ~IsSchema(Current) /\ ~Fits => ~ExplainedBy(NextStatements, 0)

(***************************************************************************)
(* "Unsupported DDL must fail clearly without advancing the watermark"     *)
(* (docs/correctness-test-plan.md): no statement that removed rows         *)
(* upstream and has no translation lies at or below the watermark.         *)
(***************************************************************************)
Unsupported(file) ==
    \/ file.action \in {"rename table", "drop schema"}
    \/ \E i \in DOMAIN file.specs : file.specs[i].op \in {"partition", "rename table"}

UnsupportedStaysPending ==
    \A i \in DOMAIN log : IsSchema(i) /\ Unsupported(log[i]) =>
        log[i].version > saved.watermark
=============================================================================
