----------------------------- MODULE TiCDCSink -----------------------------
(***************************************************************************)
(* The environment of the incremental loader: the upstream TiDB tables and *)
(* the TiCDC changefeed that writes them to the increment/ prefix of the   *)
(* S3 storage.  None of this is code of tidb2snowflake; it is modelled     *)
(* from what src/incremental/loader.go relies on when it reads the prefix: *)
(*                                                                         *)
(*   - <schema>/<table>/meta/schema_<version>_*.json announces a table     *)
(*     version, with the DDL that made it, if a DDL did;                   *)
(*   - <schema>/<table>/<version>/[<partition>/]<date>/CDC<n>.csv holds    *)
(*     row changes, and meta/CDC.index beside it names the last one;       *)
(*   - metadata holds the changefeed's checkpoint: everything committed at *)
(*     or before it is already in the files.                               *)
(*                                                                         *)
(* The events of a table are delivered in commit order, and a version is   *)
(* announced only after every row of earlier versions is in its file.      *)
(* A row change is identified with its commit_ts: the contents of a row,   *)
(* or its absence after a delete, are those of its latest change.          *)
(***************************************************************************)
EXTENDS ReplState, FiniteSets

CONSTANTS
    Keys,           \* primary keys
    Partitions,     \* {0} for tables without partitions, positive numbers else
    PartitionOf,    \* the partition a key lives in
    DDLKinds,       \* the kinds of schema changes upstream makes
    SnapshotTS,     \* the TSO of the snapshot already loaded
    InitVersion,    \* the table version when the changefeed starts
    Backlog,        \* rows committed at or before SnapshotTS and captured again
    MaxTS,          \* bound: the last commit timestamp
    MaxDate,        \* bound: the last day
    MaxDDL,         \* bound: schema changes per table
    MaxRestarts,    \* bound: restarts of the changefeed
    DDLBarrier      \* a DDL waits for the changefeed's checkpoint to reach it

(***************************************************************************)
(* "none": the schema file has no Query.  "plain": TRUNCATE TABLE, or a    *)
(* DDL that gives no statement.  "add": ADD COLUMN.  "modify": MODIFY      *)
(* COLUMN.  "drop": DROP, RENAME or CHANGE COLUMN, after which the old     *)
(* column is gone.  "unsupported": CREATE TABLE, RENAME TABLE, no ALTER    *)
(* TABLE, or a table without a primary key.                                *)
(***************************************************************************)
AllDDLKinds == {"none", "plain", "add", "modify", "drop", "unsupported"}
NoKey == "nokey"

ASSUME SinkAssumption ==
    /\ Partitions \in SUBSET Nat
    /\ PartitionOf \in [Keys -> Partitions]
    /\ DDLKinds \subseteq AllDDLKinds
    /\ InitVersion \in Nat \ {0} /\ SnapshotTS \in Nat /\ InitVersion <= SnapshotTS
    /\ MaxTS \in Nat /\ MaxDate \in Nat /\ MaxDDL \in Nat /\ MaxRestarts \in Nat
    /\ SnapshotTS <= MaxTS
    /\ DDLBarrier \in BOOLEAN
    /\ NoKey \notin Keys
    /\ Backlog \subseteq [ts : (InitVersion + 1)..SnapshotTS, key : Keys]

VARIABLES
    tso,        \* the latest commit timestamp
    log,        \* per table, the events the changefeed has to deliver
    unflushed,  \* per table, captured events that are not in the storage yet
    schemas,    \* per table, the schema files: [version, kind]
    files,      \* the DML files: [table, version, part, date, index, rows]
    metadata,   \* checkpoint-ts of the metadata file; 0 when there is no file
    today,      \* the current day, which names the date directories
    restarts    \* restarts of the changefeed so far

sinkVars == <<tso, log, unflushed, schemas, files, metadata, today, restarts>>

RowEvent(ts, k) == [ts |-> ts, key |-> k, kind |-> "row"]
SchemaEvent(ts, kind) == [ts |-> ts, key |-> NoKey, kind |-> kind]
IsRow(e) == e.kind = "row"

MaxOf(S) == CHOOSE x \in S : \A y \in S : y <= x
MinOf(S) == CHOOSE x \in S : \A y \in S : x <= y

----------------------------------------------------------------------------
(***************************************************************************)
(* What is in the storage.                                                 *)
(***************************************************************************)
VersionsOf(t) == {s.version : s \in schemas[t]}
KindOf(t, v) == (CHOOSE s \in schemas[t] : s.version = v).kind

\* The version of the rows committed at ts.
VersionAt(t, ts) == MaxOf({v \in VersionsOf(t) : v <= ts})

FilesOf(t, v, p) == {f \in files : f.table = t /\ f.version = v /\ f.part = p}
PartitionDirs(t, v) == {p \in Partitions : FilesOf(t, v, p) # {}}
DateDirs(t, v, p) == {f.date : f \in FilesOf(t, v, p)}

\* CDC.index of a date directory: the index of its last file.
IndexFile(t, v, p, d) ==
    MaxOf({f.index : f \in {g \in FilesOf(t, v, p) : g.date = d}})

RowsOfFile(t, v, p, d, i) ==
    UNION {f.rows : f \in {g \in FilesOf(t, v, p) : g.date = d /\ g.index = i}}

\* The version of row k of table t that a reader at timestamp ts sees.
ChangesOf(t, k) == {e.ts : e \in {x \in log[t] : x.key = k}}
LatestAt(t, k, ts) == MaxOf({0} \cup {c \in ChangesOf(t, k) : c <= ts})

----------------------------------------------------------------------------
BacklogEvents == {RowEvent(b.ts, b.key) : b \in Backlog}

\* The changefeed first announces the version the tables have when it starts.
SinkInit ==
    /\ tso = SnapshotTS
    /\ log = [t \in Tables |-> {SchemaEvent(InitVersion, "none")} \cup BacklogEvents]
    /\ unflushed = log
    /\ schemas = [t \in Tables |-> {}]
    /\ files = {}
    /\ metadata = 0
    /\ today = 1
    /\ restarts = 0

Captured(t, e) ==
    /\ tso < MaxTS
    /\ tso' = tso + 1
    /\ log' = [log EXCEPT ![t] = @ \cup {e}]
    /\ unflushed' = [unflushed EXCEPT ![t] = @ \cup {e}]
    /\ UNCHANGED <<schemas, files, metadata, today, restarts>>

\* A transaction changes row k of table t.
Commit(t, k) == Captured(t, RowEvent(tso + 1, k))

SchemaChanges(t) == Cardinality({e \in log[t] : ~IsRow(e)}) - 1

\* A DDL gives table t a new version.
ChangeSchema(t, kind) ==
    /\ SchemaChanges(t) < MaxDDL
    /\ Captured(t, SchemaEvent(tso + 1, kind))

\* The schema file of a version follows every row of the versions before it.
WriteSchemaFile(t) ==
    /\ \E e \in unflushed[t] :
          /\ ~IsRow(e)
          /\ \A x \in unflushed[t] : e.ts <= x.ts
          /\ DDLBarrier => metadata >= e.ts - 1 \/ e.ts = InitVersion
          /\ schemas' = [schemas EXCEPT ![t] =
                             @ \cup {[version |-> e.ts, kind |-> e.kind]}]
          /\ unflushed' = [unflushed EXCEPT ![t] = @ \ {e}]
    /\ UNCHANGED <<tso, log, files, metadata, today, restarts>>

(***************************************************************************)
(* A file takes the rows of one partition among the events of the table up *)
(* to n, all of one version.  Files are numbered from 1 in every date      *)
(* directory; the data file and its index appear together, for no reader   *)
(* looks past the index.                                                   *)
(***************************************************************************)
Taken(t, p, n) ==
    {e \in unflushed[t] : IsRow(e) /\ PartitionOf[e.key] = p /\ e.ts <= n}

NewFile(t, p, n) ==
    LET v == VersionAt(t, n)
    IN  [table |-> t, version |-> v, part |-> p, date |-> today,
         index |-> Cardinality({f \in FilesOf(t, v, p) : f.date = today}) + 1,
         rows  |-> {[key |-> e.key, ts |-> e.ts] : e \in Taken(t, p, n)}]

Flush(t, p, n) ==
    /\ \A e \in unflushed[t] : e.ts <= n => IsRow(e)
    /\ n \in {e.ts : e \in Taken(t, p, n)}
    /\ files' = files \cup {NewFile(t, p, n)}
    /\ unflushed' = [unflushed EXCEPT ![t] = @ \ Taken(t, p, n)]
    /\ UNCHANGED <<tso, log, schemas, metadata, today, restarts>>

NextDay ==
    /\ today < MaxDate
    /\ today' = today + 1
    /\ UNCHANGED <<tso, log, unflushed, schemas, files, metadata, restarts>>

\* Everything committed up to here is in the storage.
Resolved == MinOf({tso} \cup {e.ts - 1 : e \in UNION {unflushed[t] : t \in Tables}})

AdvanceMetadata(ts) ==
    /\ ts \in (metadata + 1)..Resolved
    /\ metadata' = ts
    /\ UNCHANGED <<tso, log, unflushed, schemas, files, today, restarts>>

\* After a restart everything after the checkpoint is captured once more.
RestartChangefeed ==
    /\ restarts < MaxRestarts
    /\ restarts' = restarts + 1
    /\ unflushed' = [t \in Tables |-> {e \in log[t] : e.ts > metadata}]
    /\ UNCHANGED <<tso, log, schemas, files, metadata, today>>

SinkNext ==
    \/ \E t \in Tables, k \in Keys : Commit(t, k)
    \/ \E t \in Tables, kind \in DDLKinds : ChangeSchema(t, kind)
    \/ \E t \in Tables : WriteSchemaFile(t)
    \/ \E t \in Tables, p \in Partitions :
           \E n \in {e.ts : e \in unflushed[t]} : Flush(t, p, n)
    \/ NextDay
    \/ \E ts \in 1..MaxTS : AdvanceMetadata(ts)
    \/ RestartChangefeed
=============================================================================
