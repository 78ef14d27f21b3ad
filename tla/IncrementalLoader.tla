------------------------- MODULE IncrementalLoader -------------------------
(***************************************************************************)
(* The incremental loader (src/incremental/loader.go) beside the changefeed *)
(* that feeds it.  A scan reads the changefeed's checkpoint, then lets one *)
(* task per table walk the schema files, list date directories, read the   *)
(* CDC.index files, apply DDLs and MERGE data files, and save the cursors; *)
(* when every task has succeeded the checkpoint is saved.  Every access to *)
(* the object store or to Snowflake is a step of its own, the tasks of the *)
(* tables interleave, and the process may stop between any two steps.      *)
(***************************************************************************)
EXTENDS TiCDCSink

CONSTANT MaxFaults      \* bound: failures and crashes

\* Every version, a commit timestamp, has a stream per partition.
ASSUME LoaderAssumption ==
    /\ MaxFaults \in Nat
    /\ (1..MaxTS) \X Partitions \subseteq Streams

VARIABLES
    \* Snowflake.  schema is the version of the last DDL executed.
    rows,       \* per table and key, the commit_ts of the change last merged
    schema,
    \* the state object, and the copy in the process's state manager
    obj,
    mem,
    \* the loader
    scanning,   \* a scan is in progress
    bounds,     \* its [checkpoint, target]
    pc,         \* per table, where its task is
    watermark,  \* per table, ddlTableVersionWatermark
    cursor,     \* per table and stream, the last consumed [date, index]
    dirty,      \* per table, the streams whose cursor is not saved yet
    meta,       \* per table, the version of currentMeta; 0 for nil
    paths,      \* per table, the schema versions selected by the walk
    agenda,     \* per table, directories still to list and indexes to read
    work,       \* per table, ranges of files to merge and DDLs to apply
    faults      \* failures so far

loaderVars == <<scanning, bounds, pc, watermark, cursor, dirty, meta, paths,
                agenda, work>>
vars == <<sinkVars, rows, schema, obj, mem, loaderVars, faults>>

Idle == [checkpoint |-> 0, target |-> 0]

(***************************************************************************)
(* What getNewFiles collects is ordered by version, partition and date, as *)
(* CompareDMLPathKey orders DML path keys; the key of a schema file comes  *)
(* before the keys of its version.                                         *)
(***************************************************************************)
NoPartition == -1
NoDate == 0
Place(v, p, d) == [version |-> v, part |-> p, date |-> d]
SchemaRange(v) == [version |-> v, part |-> NoPartition, date |-> NoDate,
                   start |-> 0, end |-> 0]
FileRange(v, p, d, from, to) ==
    [version |-> v, part |-> p, date |-> d, start |-> from, end |-> to]

Places == [version : Nat, part : Int, date : Nat]
Ranges == [version : Nat, part : Int, date : Nat, start : Nat, end : Nat]

IsSchemaRange(r) == r.part = NoPartition

\* Wrong on purpose: the key of a schema file after the keys of its version.
PrecedesSchemaLast(x, y) ==
    \/ x.version < y.version
    \/ x.version = y.version /\ x.part # NoPartition /\ y.part = NoPartition
    \/ x.version = y.version /\ x.part # NoPartition /\ x.part < y.part
    \/ x.version = y.version /\ x.part = y.part /\ x.date < y.date

\* Wrong on purpose: every schema file before any data file.
PrecedesSchemasFirst(x, y) ==
    \/ x.part = NoPartition /\ y.part # NoPartition
    \/ (x.part = NoPartition) = (y.part = NoPartition) /\
           \/ x.version < y.version
           \/ x.version = y.version /\ x.part < y.part
           \/ x.version = y.version /\ x.part = y.part /\ x.date < y.date

Precedes(x, y) ==
    \/ x.version < y.version
    \/ x.version = y.version /\ x.part < y.part
    \/ x.version = y.version /\ x.part = y.part /\ x.date < y.date

First(S) == CHOOSE x \in S : \A y \in S \ {x} : Precedes(x, y)

CursorOf(t, v, p) == cursor[t][<<v, p>>]

----------------------------------------------------------------------------
(***************************************************************************)
(* newLoader: what a process that opens state s knows.                     *)
(***************************************************************************)
NewLoader(s) ==
    /\ mem' = s
    /\ scanning' = FALSE
    /\ bounds' = Idle
    /\ pc' = [t \in Tables |-> "idle"]
    /\ watermark' = [t \in Tables |-> s.tables[t].watermark]
    /\ cursor' = [t \in Tables |-> s.tables[t].cursors]
    /\ dirty' = [t \in Tables |-> {}]
    /\ meta' = [t \in Tables |-> 0]
    /\ paths' = [t \in Tables |-> {}]
    /\ agenda' = [t \in Tables |-> {}]
    /\ work' = [t \in Tables |-> {}]

InitState ==
    [NewState(TRUE) EXCEPT !.checkpoint = SnapshotTS]

Init ==
    /\ SinkInit
    /\ rows = [t \in Tables |-> [k \in Keys |-> LatestAt(t, k, SnapshotTS)]]
    /\ schema = [t \in Tables |-> InitVersion]
    /\ obj = InitState
    /\ mem = InitState
    /\ scanning = FALSE
    /\ bounds = Idle
    /\ pc = [t \in Tables |-> "idle"]
    /\ watermark = [t \in Tables |-> 0]
    /\ cursor = [t \in Tables |-> [s \in Streams |-> NoCursor]]
    /\ dirty = [t \in Tables |-> {}]
    /\ meta = [t \in Tables |-> 0]
    /\ paths = [t \in Tables |-> {}]
    /\ agenda = [t \in Tables |-> {}]
    /\ work = [t \in Tables |-> {}]
    /\ faults = 0

(***************************************************************************)
(* beginScan: the metadata is read before anything else, and a checkpoint  *)
(* that has not advanced starts no scan.                                   *)
(***************************************************************************)
BeginScan ==
    /\ ~scanning
    /\ metadata > mem.checkpoint
    /\ scanning' = TRUE
    /\ bounds' = [checkpoint |-> mem.checkpoint, target |-> metadata]
    /\ pc' = [t \in Tables |-> "walk"]
    /\ UNCHANGED <<sinkVars, rows, schema, obj, mem, watermark, cursor, dirty,
                   meta, paths, agenda, work, faults>>

----------------------------------------------------------------------------
(***************************************************************************)
(* getNewFiles, the walk over the schema files.  With a watermark, schema  *)
(* versions below it are crossed, the one at it is current and those above *)
(* are pending DDLs.  Without one, the checkpoint takes its place, and of  *)
(* the versions it covers only the latest is kept, if there is one.        *)
(***************************************************************************)
\* Wrong on purpose: the checkpoint as the bound although there is a watermark.
PendingVersionsByCheckpoint(t) == {v \in VersionsOf(t) : v > bounds.checkpoint}

PendingVersions(t) ==
    {v \in VersionsOf(t) :
        v > IF watermark[t] > 0 THEN watermark[t] ELSE bounds.checkpoint}

CurrentVersion(t) ==
    IF watermark[t] > 0
    THEN VersionsOf(t) \cap {watermark[t]}
    ELSE LET covered == {v \in VersionsOf(t) : v <= bounds.checkpoint}
         IN  IF covered = {} THEN {} ELSE {MaxOf(covered)}

WalkSchemas(t) ==
    /\ pc[t] = "walk"
    /\ watermark[t] > 0 => CurrentVersion(t) # {}
    /\ paths' = [paths EXCEPT ![t] = CurrentVersion(t) \cup PendingVersions(t)]
    /\ work' = [work EXCEPT ![t] = {SchemaRange(v) : v \in PendingVersions(t)}]
    /\ agenda' = [agenda EXCEPT ![t] =
           {Place(v, NoPartition, NoDate) : v \in paths'[t]}]
    /\ pc' = [pc EXCEPT ![t] = "list"]
    /\ UNCHANGED <<sinkVars, rows, schema, obj, mem, scanning, bounds, watermark,
                   cursor, dirty, meta, faults>>

\* Wrong on purpose: the date of the cursor is taken as finished.
LaterDates(t, v, p) == {d \in DateDirs(t, v, p) : d > CursorOf(t, v, p).date}

\* Date directories before the date of the stream's cursor are not read again.
ActiveDates(t, v, p) == {d \in DateDirs(t, v, p) : d >= CursorOf(t, v, p).date}

DatePlaces(t, v, p) == {Place(v, p, d) : d \in ActiveDates(t, v, p)}

\* Listing a version finds date directories, or partitions to be listed in turn.
Listed(t, place) ==
    IF place.part # NoPartition
    THEN DatePlaces(t, place.version, place.part)
    ELSE IF Partitions = {0}
         THEN DatePlaces(t, place.version, 0)
         ELSE {Place(place.version, p, NoDate) : p \in PartitionDirs(t, place.version)}

ListDirs(t) ==
    /\ pc[t] = "list"
    /\ agenda[t] # {}
    /\ First(agenda[t]).date = NoDate
    /\ agenda' = [agenda EXCEPT ![t] =
           (@ \ {First(@)}) \cup Listed(t, First(@))]
    /\ UNCHANGED <<sinkVars, rows, schema, obj, mem, scanning, bounds, pc,
                   watermark, cursor, dirty, meta, paths, work, faults>>

\* Wrong on purpose: the index of the cursor, whatever its date.
ConsumedOnAnyDate(t, place) == CursorOf(t, place.version, place.part).index

\* Wrong on purpose: every directory is read from its start.
ConsumedNothing(t, place) == 0

\* The prefix of a date directory that is consumed already.
Consumed(t, place) ==
    LET c == CursorOf(t, place.version, place.part)
    IN  IF c.date = place.date THEN c.index ELSE 0

\* Wrong on purpose: a directory with nothing new gives a range.
NewRangeWithoutCheck(t, place) ==
    {FileRange(place.version, place.part, place.date, Consumed(t, place) + 1,
               IndexFile(t, place.version, place.part, place.date))}

NewRange(t, place) ==
    LET last == IndexFile(t, place.version, place.part, place.date)
    IN  IF last > Consumed(t, place)
        THEN {FileRange(place.version, place.part, place.date,
                        Consumed(t, place) + 1, last)}
        ELSE {}

\* parseDMLIndexFileIfExists
ReadIndex(t) ==
    /\ pc[t] = "list"
    /\ agenda[t] # {}
    /\ First(agenda[t]).date # NoDate
    /\ work' = [work EXCEPT ![t] = @ \cup NewRange(t, First(agenda[t]))]
    /\ agenda' = [agenda EXCEPT ![t] = @ \ {First(@)}]
    /\ UNCHANGED <<sinkVars, rows, schema, obj, mem, scanning, bounds, pc,
                   watermark, cursor, dirty, meta, paths, faults>>

(***************************************************************************)
(* processTable ends here when nothing is new.  loadSchemaFiles rebuilds   *)
(* currentMeta after a restart, if a DDL is pending and there is a         *)
(* watermark.                                                              *)
(***************************************************************************)
RebuildsMeta(t) ==
    /\ \E r \in work[t] : IsSchemaRange(r) /\ r.version > watermark[t]
    /\ meta[t] = 0
    /\ watermark[t] # 0

\* Wrong on purpose: the latest schema file instead of the applied one.
BaselineLatest(t) == MaxOf(paths[t])

Baseline(t) == MaxOf({v \in paths[t] : v <= watermark[t]})

LoadSchemaFiles(t) ==
    /\ pc[t] = "list"
    /\ agenda[t] = {}
    /\ pc' = [pc EXCEPT ![t] = IF work[t] = {} THEN "done" ELSE "load"]
    /\ meta' = [meta EXCEPT ![t] =
           IF RebuildsMeta(t)
           THEN Baseline(t)
           ELSE @]
    /\ paths' = [paths EXCEPT ![t] = {}]
    /\ UNCHANGED <<sinkVars, rows, schema, obj, mem, scanning, bounds, watermark,
                   cursor, dirty, agenda, work, faults>>

----------------------------------------------------------------------------
(***************************************************************************)
(* A save: the state manager computes the next state, writes the object    *)
(* and then replaces its copy.  When the write fails the copy stays, and   *)
(* the object may or may not have been replaced.                           *)
(***************************************************************************)
Saved(next) == mem' = next /\ obj' = next
SavedButFailed(next) == mem' = mem /\ obj' = next

(***************************************************************************)
(* handleNewFiles takes the ranges in order.                               *)
(***************************************************************************)
Loading(t) == pc[t] = "load" /\ work[t] # {}
Current(t) == First(work[t])
AtSchema(t) == Loading(t) /\ IsSchemaRange(Current(t))
AtFile(t) == Loading(t) /\ ~IsSchemaRange(Current(t))
Rest(t) == [work EXCEPT ![t] = @ \ {Current(t)}]

\* GenDDLViaTiDBDDL: some DDLs need the columns of the version before.
NeedsColumns == {"modify", "drop"}

Translatable(t, v) ==
    /\ KindOf(t, v) # "unsupported"
    /\ KindOf(t, v) \in NeedsColumns => meta[t] # 0

\* ADD, DROP and RENAME COLUMN have no IF [NOT] EXISTS: Snowflake refuses them
\* when they were executed before, by a process that did not save the watermark.
OnlyOnce == {"add", "drop"}

Executable(t, v) == KindOf(t, v) \in OnlyOnce => schema[t] # v

\* applyDDL up to the watermark.
ExecDDL(t) ==
    /\ AtSchema(t)
    /\ LET v == Current(t).version
       IN  /\ KindOf(t, v) # "none"
           /\ Translatable(t, v)
           /\ Executable(t, v)
           /\ schema' = [schema EXCEPT ![t] = v]
           /\ meta' = [meta EXCEPT ![t] = v]
    /\ pc' = [pc EXCEPT ![t] = "watermark"]
    /\ UNCHANGED <<sinkVars, rows, obj, mem, scanning, bounds, watermark, cursor,
                   dirty, paths, agenda, work, faults>>

\* A DDL that cannot be translated, or was executed already and is refused, fails
\* the task every time, until the operator steps in.
RejectDDL(t) ==
    /\ AtSchema(t)
    /\ LET v == Current(t).version
       IN  /\ KindOf(t, v) # "none"
           /\ ~(Translatable(t, v) /\ Executable(t, v))
    /\ pc' = [pc EXCEPT ![t] = "failed"]
    /\ UNCHANGED <<sinkVars, rows, schema, obj, mem, scanning, bounds, watermark,
                   cursor, dirty, meta, paths, agenda, work, faults>>

\* Wrong on purpose: the watermark is saved before the DDL is executed.
NeedsWatermarkFirst(t) == pc[t] = "watermark" \/ AtSchema(t)

NeedsWatermark(t) ==
    \/ pc[t] = "watermark"
    \/ AtSchema(t) /\ KindOf(t, Current(t).version) = "none"

\* The version is recorded as applied, after its DDL if it has one.
SaveWatermark(t) ==
    /\ NeedsWatermark(t)
    /\ LET v == Current(t).version
       IN  /\ \E next \in SetDDLTableVersionWatermark(mem, t, v) : Saved(next)
           /\ watermark' = [watermark EXCEPT ![t] = v]
           /\ meta' = [meta EXCEPT ![t] = v]
    /\ work' = Rest(t)
    /\ pc' = [pc EXCEPT ![t] = "load"]
    /\ UNCHANGED <<sinkVars, rows, schema, scanning, bounds, cursor, dirty, paths,
                   agenda, faults>>

(***************************************************************************)
(* LoadIncrement: MERGE takes the latest change per key among the rows of  *)
(* the file that were committed after the checkpoint of the scan's start.  *)
(***************************************************************************)
\* Wrong on purpose: the filter takes the new checkpoint for the old one.
ChangesAfterTarget(t, r, k) ==
    {c.ts : c \in {x \in RowsOfFile(t, r.version, r.part, r.date, r.start) :
                        x.key = k /\ x.ts > bounds.target}}

\* Wrong on purpose: no filter, so rows older than the checkpoint come back.
ChangesUnfiltered(t, r, k) ==
    {c.ts : c \in {x \in RowsOfFile(t, r.version, r.part, r.date, r.start) :
                        x.key = k}}

ChangesIn(t, r, k) ==
    {c.ts : c \in {x \in RowsOfFile(t, r.version, r.part, r.date, r.start) :
                        x.key = k /\ x.ts > bounds.checkpoint}}

Merged(t, r) ==
    [k \in Keys |-> IF ChangesIn(t, r, k) = {} THEN rows[t][k]
                    ELSE MaxOf(ChangesIn(t, r, k))]

MergeFile(t) ==
    /\ AtFile(t)
    /\ LET r == Current(t)
           s == <<r.version, r.part>>
       IN  /\ rows' = [rows EXCEPT ![t] = Merged(t, r)]
           /\ cursor' = [cursor EXCEPT ![t][s] =
                             [date |-> r.date, index |-> r.start]]
           /\ dirty' = [dirty EXCEPT ![t] = @ \cup {s}]
           /\ work' = [work EXCEPT ![t] = (@ \ {r}) \cup
                  IF r.start = r.end THEN {}
                  ELSE {[r EXCEPT !.start = r.start + 1]}]
    /\ UNCHANGED <<sinkVars, schema, obj, mem, scanning, bounds, pc, watermark,
                   meta, paths, agenda, faults>>

\* The cursors of a table are saved once its whole scan has been loaded.
DirtyCursors(t) == [s \in dirty[t] |-> cursor[t][s]]

SaveCursors(t) ==
    /\ pc[t] = "load"
    /\ work[t] = {}
    /\ IF dirty[t] = {} THEN UNCHANGED <<mem, obj>>
       ELSE \E next \in SetDMLCursors(mem, t, DirtyCursors(t)) : Saved(next)
    /\ dirty' = [dirty EXCEPT ![t] = {}]
    /\ pc' = [pc EXCEPT ![t] = "done"]
    /\ UNCHANGED <<sinkVars, rows, schema, scanning, bounds, watermark, cursor,
                   meta, paths, agenda, work, faults>>

\* run: the checkpoint follows the success of every table.
FinishScan ==
    /\ scanning
    /\ \A t \in Tables : pc[t] = "done"
    /\ \E next \in SetCheckpointTS(mem, bounds.target) : Saved(next)
    /\ scanning' = FALSE
    /\ bounds' = Idle
    /\ pc' = [t \in Tables |-> "idle"]
    /\ UNCHANGED <<sinkVars, rows, schema, watermark, cursor, dirty, meta, paths,
                   agenda, work, faults>>

----------------------------------------------------------------------------
Running(t) == pc[t] \notin {"idle", "done", "failed"}
SomeFailed == \E t \in Tables : pc[t] = "failed"

\* Once a task has failed the group cancels the others, at no further cost.
Fault ==
    \/ SomeFailed /\ faults' = faults
    \/ ~SomeFailed /\ faults < MaxFaults /\ faults' = faults + 1

\* A task fails before the effect of its next step.
Fail(t) ==
    /\ Running(t)
    /\ Fault
    /\ pc' = [pc EXCEPT ![t] = "failed"]
    /\ UNCHANGED <<sinkVars, rows, schema, obj, mem, scanning, bounds, watermark,
                   cursor, dirty, meta, paths, agenda, work>>

\* A task fails to save although the object was written.
FailAfterSave(t) ==
    /\ Fault
    /\ \/ /\ NeedsWatermark(t)
          /\ \E next \in SetDDLTableVersionWatermark(mem, t, Current(t).version) :
                 SavedButFailed(next)
       \/ /\ pc[t] = "load" /\ work[t] = {} /\ dirty[t] # {}
          /\ \E next \in SetDMLCursors(mem, t, DirtyCursors(t)) :
                 SavedButFailed(next)
    /\ pc' = [pc EXCEPT ![t] = "failed"]
    /\ UNCHANGED <<sinkVars, rows, schema, scanning, bounds, watermark, cursor,
                   dirty, meta, paths, agenda, work>>

\* A scan with a failed table ends the process; it is started again.
Exit ==
    /\ SomeFailed
    /\ \A t \in Tables : ~Running(t)
    /\ NewLoader(obj)
    /\ UNCHANGED <<sinkVars, rows, schema, obj, faults>>

\* The process stops between any two steps and is started again.
Crash ==
    /\ faults < MaxFaults
    /\ faults' = faults + 1
    /\ NewLoader(obj)
    /\ UNCHANGED <<sinkVars, rows, schema, obj>>

----------------------------------------------------------------------------
TableStep(t) ==
    \/ WalkSchemas(t) \/ ListDirs(t) \/ ReadIndex(t) \/ LoadSchemaFiles(t)
    \/ ExecDDL(t) \/ RejectDDL(t) \/ SaveWatermark(t) \/ MergeFile(t) \/ SaveCursors(t)

LoaderNext ==
    \/ BeginScan
    \/ \E t \in Tables : TableStep(t)
    \/ FinishScan
    \/ \E t \in Tables : Fail(t) \/ FailAfterSave(t)
    \/ Exit
    \/ Crash

Quiet == UNCHANGED <<rows, schema, obj, mem, loaderVars, faults>>

ChangefeedStep == SinkNext /\ Quiet

Next == ChangefeedStep \/ LoaderNext

Spec == Init /\ [][Next]_vars

----------------------------------------------------------------------------
(***************************************************************************)
(* Properties.                                                             *)
(***************************************************************************)
RangeOK(r) ==
    /\ r.version \in Nat
    /\ \/ r = SchemaRange(r.version)
       \/ /\ <<r.version, r.part>> \in Streams
          /\ r.date \in Nat \ {0} /\ r.start \in Nat \ {0} /\ r.end \in Nat
          /\ r.start <= r.end

\* The types; a range of files left to load is never empty or inverted.
TypeOK ==
    /\ rows \in [Tables -> [Keys -> Nat]]
    /\ schema \in [Tables -> Nat]
    /\ obj \in State /\ mem \in State
    /\ scanning \in BOOLEAN
    /\ bounds \in [checkpoint : Nat, target : Nat]
    /\ pc \in [Tables -> {"idle", "walk", "list", "load", "watermark", "done",
                          "failed"}]
    /\ watermark \in [Tables -> Nat]
    /\ cursor \in [Tables -> [Streams -> Cursor]]
    /\ dirty \in [Tables -> SUBSET Streams]
    /\ meta \in [Tables -> Nat]
    /\ paths \in [Tables -> SUBSET Nat]
    /\ agenda \in [Tables -> SUBSET Places]
    /\ work \in [Tables -> SUBSET Ranges]
    /\ \A t \in Tables : \A r \in work[t] : RangeOK(r)
    /\ faults \in Nat

(***************************************************************************)
(* No committed row is lost: no row is older in Snowflake than it was      *)
(* upstream at the saved checkpoint, whatever crashed, failed or was       *)
(* replayed (docs/correctness-test-plan.md; loader.go run, MERGE filter).  *)
(***************************************************************************)
NoLostRows ==
    \A t \in Tables, k \in Keys : rows[t][k] >= LatestAt(t, k, obj.checkpoint)

(***************************************************************************)
(* A saved watermark V means that the rows of the table committed at or    *)
(* before V are loaded, for versions below V are never read again          *)
(* (TableState.DDLTableVersionWatermark).                                  *)
(***************************************************************************)
WatermarkCovered ==
    \A t \in Tables, k \in Keys :
        rows[t][k] >= LatestAt(t, k, obj.tables[t].watermark)

(***************************************************************************)
(* Every file up to a saved cursor is loaded, and no later replay undoes   *)
(* it: a restart that trusts the cursor skips nothing.                     *)
(***************************************************************************)
CursorsCovered ==
    \A f \in files :
        LET c == obj.tables[f.table].cursors[<<f.version, f.part>>]
        IN  ~CursorBefore(c, [date |-> f.date, index |-> f.index])
                => \A x \in f.rows : rows[f.table][x.key] >= x.ts

\* The version made by the last DDL executed upstream at or before ts.
SchemaAt(t, ts) ==
    MaxOf({InitVersion} \cup {v \in VersionsOf(t) : v <= ts /\ KindOf(t, v) # "none"})

(***************************************************************************)
(* A data file is merged into the table definition it was written with.    *)
(* The one exception is the replay after a crash between a DDL and its     *)
(* watermark: then that DDL is still ahead in the same scan.               *)
(***************************************************************************)
RowsMeetTheirSchema ==
    \A t \in Tables :
        AtFile(t) =>
            \/ schema[t] = SchemaAt(t, Current(t).version)
            \/ SchemaRange(schema[t]) \in work[t]

(***************************************************************************)
(* A DDL that empties the table removes no row committed after it: when    *)
(* it is executed, also when it is replayed, no such row is merged yet.    *)
(***************************************************************************)
DDLBeforeItsRows ==
    \A t \in Tables, k \in Keys :
        AtSchema(t) => rows[t][k] < Current(t).version

\* Every DDL at or before the saved checkpoint has been executed.
NoLostDDL == \A t \in Tables : schema[t] >= SchemaAt(t, obj.checkpoint)

(***************************************************************************)
(* DDLs are executed in version order, and only the last one executed is   *)
(* ever replayed.                                                          *)
(***************************************************************************)
SchemaNeverBackward == [][\A t \in Tables : schema'[t] >= schema[t]]_schema

(***************************************************************************)
(* Once a table has a watermark, every DDL is translated with the columns  *)
(* of the version right before it, in one scan with others or after a      *)
(* restart that has forgotten currentMeta (loadSchemaFiles, applyDDL).     *)
(***************************************************************************)
TranslatedFromVersionBefore ==
    \A t \in Tables :
        AtSchema(t) /\ watermark[t] # 0 /\ KindOf(t, Current(t).version) # "none" =>
            meta[t] = MaxOf({v \in VersionsOf(t) : v < Current(t).version})

(***************************************************************************)
(* The loader implements the replication contract: its rows are the        *)
(* replica, and the saved checkpoint is the verified one.                  *)
(***************************************************************************)
Contract == INSTANCE ReplicationContract WITH
    clock <- tso,
    changes <- [t \in Tables |-> [k \in Keys |-> ChangesOf(t, k)]],
    replica <- rows,
    checkpoint <- obj.checkpoint

\* Every step of the loader is a step of the contract or invisible to it.
ImplementsContract == Contract!Spec

(***************************************************************************)
(* Liveness.  The ticker of run starts the next scan, the worker pool runs *)
(* every task, a failed process is started again; the changefeed delivers  *)
(* what it captured and reports its checkpoint.                            *)
(***************************************************************************)
LoaderFairness ==
    /\ WF_vars(BeginScan)
    /\ \A t \in Tables : WF_vars(TableStep(t))
    /\ WF_vars(FinishScan)
    /\ WF_vars(Exit)

ChangefeedFairness ==
    /\ \A t \in Tables : WF_vars(WriteSchemaFile(t) /\ Quiet)
    /\ \A t \in Tables, p \in Partitions :
           WF_vars((\E n \in {e.ts : e \in unflushed[t]} : Flush(t, p, n)) /\ Quiet)
    /\ WF_vars((\E ts \in 1..MaxTS : AdvanceMetadata(ts)) /\ Quiet)

FairSpec == Spec /\ LoaderFairness /\ ChangefeedFairness

\* The versions whose DDLs a process that starts now has before it.
Ahead(t) ==
    LET saved == obj.tables[t].watermark
    IN  {v \in VersionsOf(t) : v > IF saved > 0 THEN saved ELSE obj.checkpoint}

(***************************************************************************)
(* No process gets past the next DDL of the table.  It is not supported;   *)
(* or it needs the columns of the version before and the table has no      *)
(* watermark, without which they are not read (loader.go:685); or it is    *)
(* executed, its watermark is not saved, and Snowflake refuses it the      *)
(* second time (docs/correctness-test-plan.md:92-93).                      *)
(***************************************************************************)
Blocked(t) ==
    /\ Ahead(t) # {}
    /\ LET v == MinOf(Ahead(t))
       IN  \/ KindOf(t, v) = "unsupported"
           \/ KindOf(t, v) \in NeedsColumns /\ obj.tables[t].watermark = 0
           \/ KindOf(t, v) \in OnlyOnce /\ schema[t] = v

(***************************************************************************)
(* Unless some table is blocked at a DDL from some time on, every committed *)
(* change is in Snowflake eventually, and the checkpoint that says so is   *)
(* saved: nothing but such a DDL stops the loader, whatever crashed,       *)
(* failed or is replayed (loader.go run and processTable; the operator's   *)
(* way out of a blocked DDL is in SnowflakeTable).                         *)
(***************************************************************************)
EveryChangeArrives ==
    (\A t \in Tables : []<>~Blocked(t)) =>
        \A t \in Tables, k \in Keys, c \in 1..MaxTS :
            c \in ChangesOf(t, k) ~> rows[t][k] >= c /\ obj.checkpoint >= c
=============================================================================
