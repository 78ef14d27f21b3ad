# Formal models of tidb2snowflake

tidb2snowflake copies tables from TiDB to Snowflake: a snapshot that Dumpling or
a TiDB Cloud export writes to object storage, then the row and schema changes
that a TiCDC changefeed writes there. Everything a restart knows is one JSON
object, `replication-state.json`. The hard question is therefore always the
same: *after any crash, retry, lost answer or overlap, does that object still
tell the truth about Snowflake, about the files and about the jobs in the cloud?*

Paths below are those of the repository.

## 1. Inventory

| Component | Code | State it keeps | Operations | Hard behaviour |
|---|---|---|---|---|
| State record | `pkg/state/state.go` | checkpoint, phase, job ids, pending creation, per table watermark and cursors | the updates and their validation | sequences of legal calls that save an illegal state |
| State manager | `pkg/state/manager.go` | the object in S3, one copy per process, the v1 backup | `Open`, `OpenExisting`, `Set…`, `BindCloudSource`, `BeginCreate`, … | a write that fails after it happened; two processes |
| Incremental loader | `incremental/loader.go` | per table: watermark, cursors, current schema; in Snowflake: rows, schema | scan, list, read index, DDL, MERGE, save | tables in parallel, the changefeed writing meanwhile, crash at any step, replay |
| TiCDC changefeed | outside; read by `incremental/loader.go` | schema files, data files with `CDC.index`, `metadata` | write, restart | rows written twice; files of several days, versions, partitions |
| Worker pool | `pkg/workerpool/pool.go` | channel, futures, contexts | `Submit`, `Wait`, `Cancel`, `Close` | blocking channel, errors read late, cancellation |
| TiDB Cloud source | `source/tidbcloud/runner.go`, `pkg/tidbcloud` | jobs in the cloud, `pending_create` | preflight, export, changefeed, delete | lost answers, jobs nobody remembers, start TSOs |
| Commands | `cmd/core.go`, `cmd/delete.go`, `source/prepare.go` | mode, configuration | create in three modes, delete | changes of mode and of `snapshot.tso` between runs |
| Snapshot loader | `snapshot/loader.go` | tables and files loaded | tables, then files, then mark | stages that must not overlap; partial load |
| OP source | `source/op/runner.go`, `pkg/ticdc`, `pkg/dumpling` | Dumpling output, TiCDC changefeed | dump, create, delete | no `pending_create` marker; a dump that breaks off; a recorded changefeed is only asked whether it exists |
| Snowflake connector | `pkg/snowflake` | the columns and rows of a table, in Snowflake | SQL for MERGE, COPY, DDL | several statements for one DDL, interrupted, executed again, finished by hand; columns by name and case |
| Table metadata | `pkg/table` | none | columns of schema files, `CREATE TABLE` | which names are the same column |

They interact through three things only: calls on the state manager, files in the
storage, and SQL. `run` (`cmd/core.go`) opens the state, lets the source prepare
the jobs, then loads the snapshot and runs the incremental loop; both loads use
the worker pool.

What makes each correct:

* **state** - what is saved opens again; the checkpoint never goes back; a finished
  snapshot has a checkpoint; a copy in memory never claims what was not saved;
* **loader** - no row older than the checkpoint says; a watermark and a cursor
  cover what they skip; DDLs and rows are applied in their order; DDLs in version
  order, none lost; every change arrives unless a DDL blocks its table;
* **pool** - stages do not overlap; success means all; nothing outlives its group;
  everyone returns;
* **snapshot, OP source** - every file of one dump is loaded once; the changefeed
  leaves no gap behind it; no step but an interrupted POST forgets a changefeed;
* **one table** - its columns are explained by a place in the history of DDLs; rows
  and columns end up as upstream; a MERGE fails only where the operator was told;
* **cloud source** - no orphaned and no second job; one writer per prefix; the
  checkpoint is reached.

`PROJECT.json` lists the hazards behind these, each at its line.

## 2. Modules

| Module | Models | Extends |
|---|---|---|
| `ReplState` | the record, validation and updates | |
| `StateManager` | the object, the managers of several processes, failing writes | `ReplState` |
| `StateManager_proofs` | theorems about it | `StateManager`, `TLAPS` |
| `TiCDCSink` | upstream and the changefeed (external) | `ReplState` |
| `TiCDCSink_proofs` | what the changefeed guarantees to its reader | `TiCDCSink`, `TLAPS` |
| `IncrementalLoader` | the loader beside the changefeed | `TiCDCSink` |
| `IncrementalLoader_proofs` | theorems about its rows | `IncrementalLoader`, `TiCDCSink_proofs` |
| `LoaderDDL_proofs` | theorems about its DDLs | `IncrementalLoader_proofs` |
| `ReplicationContract` | what replication promises (abstract) | |
| `StagedTasks` | what a load in stages promises (abstract) | |
| `WorkerPool` | the pool and the callers of its groups; implements `StagedTasks` | |
| `WorkerPool_proofs` | theorems about it | `WorkerPool`, `TLAPS` |
| `CloudSource` | create and delete against TiDB Cloud | `ReplState` |
| `CloudSource_proofs` | theorems about it | `CloudSource`, `TLAPS` |
| `OPSource` | create and delete against a self-managed TiDB, the snapshot load file by file | `ReplState` |
| `OPSource_proofs` | theorems about it | `OPSource`, `TLAPS` |
| `SnowflakeTable` | columns and rows of one table: upstream, files, DDL statements, MERGE | |
| `SnowflakeTable_proofs` | theorems about it | `SnowflakeTable`, `TLAPS` |
| `MCState`, `MCLoader`, `MCPool`, `MCCloud`, `MCOP`, `MCTable` | instances for TLC | |

An update of the state is a *set* of next states: empty when the code returns an
error, one state otherwise (`Update` in `ReplState`). `StateManager`,
`IncrementalLoader`, `CloudSource` and `OPSource` use the same operators, so that a change of
`SetDMLCursors` is a change of all of them. Definitions that begin with the
comment "Wrong on purpose" are mutations of the next definition; each property
is violated when one of them takes its place.

### ReplState and StateManager

`store` is the object, `copy[p]` the manager of process `p`. A call takes the
lock, so within a process it is atomic (`CommandCall`, `TableCall`); a failed
upload may have replaced the object or not, and the copy stays (`UploadFailed`).
A failed call of the command ends the process; a failed call of a table's task
stops that task only, and tasks of other tables may still save before the scan
ends (`TableCallFails`, `stopped`). `BindCloudSource` is two steps, the backup and the
update. The delete process reads the state, deletes the changefeed and clears
the id. Processes overlap unless `Exclusive`.

### IncrementalLoader

One action per access to the storage or to Snowflake:

| Code | Actions |
|---|---|
| `beginScan`, `readMetadata` | `BeginScan` |
| `getNewFiles` | `WalkSchemas`, `ListDirs`, `ReadIndex` |
| `loadSchemaFiles` | `LoadSchemaFiles` |
| `execDDL`, `applyDDL` | `ExecDDL`, `RejectDDL`, `SaveWatermark` |
| `syncExecDMLEvents`, MERGE | `MergeFile` |
| `processTable`: `SetDMLCursors` | `SaveCursors` |
| `run`: `SetCheckpointTS` | `FinishScan` |
| errors, ambiguous writes, restarts | `Fail`, `FailAfterSave`, `Exit`, `Crash` |

Abstractions:

* A row is identified with the `commit_ts` of its latest change: MERGE keeps, per
  key, the latest of the changes after the checkpoint (`ChangesIn`).
* The loader's index map, active date and dirty cursors are one cursor per
  stream: files of a stream are read by date, and only dates from the cursor's on
  are listed.
* A data file and its `CDC.index` appear together; nothing reads beyond the index.
* A crash and the restart are one step; whatever the process knew is read anew.
* The branch of `execDDL` that skips a version at or below the watermark cannot be
  reached, for such versions are never pending.
* A DDL is one statement, of a kind (`AllDDLKinds`). Executed again after a crash before its
  watermark was saved, TRUNCATE and MODIFY COLUMN have the effect of the first execution; ADD,
  DROP and RENAME COLUMN have no IF [NOT] EXISTS and are refused (`Executable`, `RejectDDL`), by
  every process from then on. `SnowflakeTable` has the statements, DDLs of several of them, a
  MERGE that meets a dropped column or table, and the operator who repairs the table; here there
  is no such operator, so a blocked table stays blocked.

`TiCDCSink` is external. It promises what the loader relies on: versions are
announced after the rows of earlier ones, indexes count from one in each date
directory, `metadata` never claims what is not in the files. With
`DDLBarrier = TRUE` a schema file also waits for the changefeed's checkpoint to
reach its DDL. Without it a changefeed restart could write rows of an earlier
version after the loader has crossed it, and `WatermarkCovered` does not hold;
this is an assumption about TiCDC, made only by the run with changefeed restarts.

`ReplicationContract` has a replica and a checkpoint, and no files: rows move
between committed changes, never behind the checkpoint, and the checkpoint moves
only to what the replica has reached. `ImplementsContract` is its specification
with `replica <- rows` and `checkpoint <- obj.checkpoint`.

### WorkerPool

`futures` is the list of the group, `queue` the channel, `hands` and `state` the
workers, `answers` what a future holds. A group learns of an answer when it drains
its futures, in order. The choice of Go's `select` between a free channel
and a cancelled context is nondeterministic. `Groups` gives the stages of a caller:
`prepareTables` and `loadFiles`, or the scans of the incremental loader.

`StagedTasks` knows stages, the tasks performed and an outcome, and no pool:
a task is performed once and in its stage, a stage follows a complete one, success
follows the last. `KeepsPromise` is its specification with `stage <- group` and the
outcome that the caller of the last group sees.

### CloudSource

The process goes through the steps of `run` (`pc`); each access to the service,
the storage or the state is one action. A POST is answered with an id, is
rejected, is lost, or creates a job whose verification fails (`Responses`); the job may
exist in the last two cases. `jobs` is what the service does meanwhile. `Repair`
is what README.md:248-254 asks of the operator. A scan is one action, and it moves
the checkpoint whether or not the files have what it claims: `reached` is the
truth. Left out: the check of legacy v1 jobs, plan detection, RCU, selectors and
format comparison; a job created after the operator has looked.

Assumptions of the passing run: incremental-only is used after a snapshot
(`FreshIncremental = FALSE`; README.md:127), and a changefeed that runs has
replaced `increment/metadata` (`MetadataAtStart`). Without the second, a
changefeed that was deleted and created again could be taken for as far as the
old one.

### OPSource

The steps of `run` against a self-managed cluster. `EnsureSnapshot` begins a dump
that writes its files one by one and metadata last, and may stop anywhere; a prefix with
files and no metadata ends the command until the operator empties it.
`EnsureChangefeed` asks whether the recorded changefeed exists, whatever it
does; without one it sends a POST, and records the id only afterwards: `lost` is the set of
changefeeds whose creation was interrupted in between. A snapshot load is what
`StagedTasks` allows: `CREATE OR REPLACE TABLE` of each table in any order, then
`COPY` of each file in any order, each of which may take effect and lose its answer.
`copies` counts how often a file is in its table. TiCDC does not know a deleted
changefeed, and its 404 is an error for the client, so a deletion that is repeated
fails and the id stays: the command is stuck until the state is edited, and nothing is lost.

Assumptions of the passing run: as for `CloudSource`, and `snapshot.tso` is the same
in every run (`ConfigChanges = FALSE`); `op_gap` drops the last. `CheckpointReached` is claimed
while no changefeed is lost, for two of them on one prefix overwrite each other's files.

### SnowflakeTable

One table, with columns (name, type) and rows that have a value per column, on both
sides. Upstream changes rows and columns and writes data files and schema
files (`log`). `Translation` is `GenDDLViaTiDBDDL`: every spec of an ALTER TABLE
gives none, one or two statements, by look-ups in the columns before and after that ignore case, with
identifiers as `quoteIdent` makes them. `ExecDDL` executes one statement;
`ExecDDLFails` is a statement that Snowflake refuses (a column that is there, or is not),
or whose request fails before or after its effect. `LoadIncrement` is MERGE by the
columns of the file's version: it fails if the table lacks one, and columns the file
does not have keep their values.

After a failed DDL the message of `ddlExecutionErrorMessage` asks the operator to
execute what is left and to move the watermark. `Repair` does so: the operator looks
at the columns, executes the statements that they do not show yet, and saves the watermark. The
program may also be restarted as it is. Both may happen at any time the process is down
after such an error.

What a statement does to columns and rows is a fold over its specs, on both sides
with the same operators: `After` is one spec on columns by their TiDB name, and one
Snowflake statement on columns by their identifier.

Abstractions: a scan sees the whole log (what it sees, and cursors by day and
index, are `IncrementalLoader`'s matter); the table has a watermark already; a type (a member of
`Types`) stands for all that `columnModifyString` compares; the key is not altered. Assumptions about TiDB: no two
columns of a table differ in their case only (`NamesAssumption`, `Valid`), and an ALTER TABLE
that names a column twice is refused (`AltersAssumption`). About names: `quoteIdent` makes the same
identifier of two names only if they differ at most in their case.

## 3. Runs

| Run | Instance | Shows |
|---|---|---|
| `loader_restart` | 1 table, 1 key, 4 timestamps after the snapshot, 2 days, 2 schema changes (none, plain, drop, unsupported), 1 fault | rows, DDLs, cursors and watermarks through a crash or failed save anywhere |
| `loader_tables` | 2 tables, 1 day, 1 schema change each, 1 fault | tasks that share the state; the contract |
| `loader_changefeed` | 2 partitions, changes older than the snapshot, 1 changefeed restart, 1 fault, 2 days | replayed rows; the contract |
| `loader_live` | 1 table, 1 key, 3 timestamps, 2 days, 2 schema changes of every kind that is supported and has a DDL, 1 fault | every change arrives, unless the table is blocked for good at a DDL (findings 4 and 10) |
| `state_manager` | create and delete in turn, 2 tables, 2 faults | the saved state, through all calls |
| `state_delete` (violation) | create and delete overlap, no fault | finding 1 |
| `worker_pool` | 2 workers, 5 tables without limit, then 7 files with limit 5 | order, completeness, the promise, termination; deadlock is checked |
| `cloud_create` | 3 jobs, 3 TSOs, all modes, `snapshot.tso` set or not, 2 faults, all initial contents of `snapshot/` | jobs and checkpoint |
| `op_create` | 2 tables, 3 files, 2 changefeeds, 3 TSOs, all modes, `snapshot.tso` set or not, 2 faults | files loaded once, no gap, no forgotten changefeed |
| `op_gap` (violation) | the same, `snapshot.tso` may change between runs | finding 2 |
| `table_ddl` | 1 key, columns of regular and irregular names, 6 ALTER TABLEs of one or two specs, truncate, drop and rename of the table, 4 commits or DDLs, 2 faults | columns and rows through interrupted DDLs |
| `table_unsupported` (violation) | DROP PARTITION and ADD COLUMN | finding 3 |

Bounds. Two faults are a fault and one during its recovery; in the loader one
fault is enough for every pair of a lost step and its replay, and one of them may
be an ambiguous write. Two days and two files a day are what the rules about dates and
indexes compare. Two schema changes give one that is replayed and one behind it.
In the pool the channel (2) and the workers (2) hold four tasks, so
that `Submit` blocks, and the limit 5 is reached as well. A dump of two tables, one
in two files, is the least with a file too many and a file missing. Four commits and
DDLs of a table are rows, a DDL of two statements, rows after it and a second DDL. Three jobs are an export, a
changefeed and one after its deletion. No symmetry is used. Deadlock is not checked where the
system may stop: when the bounds are used up, or after a failure that repeats.

Fairness. `loader_live` assumes weak fairness of the scan (the ticker of `run`), of
each table's task (the pool), of the restart, and of the changefeed's writing and
checkpoint. `EveryChangeArrives` has one
premise: no table is `Blocked` from some time on. Three things block a table: a DDL that
is not supported; one that needs the columns of the version before while there is no watermark
(finding 4); one that was executed and is refused the second time (finding 10). With the second or the
third taken out of `Blocked` the run fails, and with them in place nothing else stops the
loader. The run has no DDL of the first kind: a table stops there at once and for good, and
the time goes to the others.
`worker_pool` assumes weak fairness of the goroutines, and that a task
returns, for its statements and requests end. Nothing assumes that faults stop other than by
their bound.

## 4. Findings

Each of the first three is a run that expects a violation.

1. `state_delete`: a delete during a create writes an old state back. The error
   "checkpoint_ts cannot move backward" guards one process only.
2. `op_gap`: an incremental-only run before the snapshot is finished creates a
   changefeed at the current TSO (`changefeedStartTSO` returns 0 where README.md:232
   says that the zero path is rejected) and only then refuses to load. A later run in mode all with an older
   `snapshot.tso` reuses it, for `EnsureChangefeed` (`source/op/runner.go:112`) checks
   only that it exists. The rows in between are lost, and the checkpoint passes them.
   The TiDB Cloud source compares start TSOs and does not have this.
3. `table_unsupported`: a spec that `genAlterTableDDLs` does not know, such as DROP
   PARTITION, is passed over (`pkg/snowflake/ddl.go:127`), as is DROP SCHEMA, and the
   watermark moves; docs/correctness-test-plan.md:85 says that unsupported DDL must fail
   without moving it. `RowsFollowUpstream` fails with such a DDL.

Met while modelling, without a run of their own:

4. `incremental/loader.go:394-397` says the baseline schema rebuilds `currentMeta`
   before the first incremental DDL; line 685 requires a watermark, so it is nil.
   A DROP, RENAME or MODIFY COLUMN that comes first fails on every scan (`RejectDDL`, `Blocked`).
   With a watermark it is the right one: `TranslatedFromVersionBefore`.
5. `pkg/workerpool/pool.go:28` says a group cancels the rest after the first error;
   errors are read in the order of submission, and later tasks start meanwhile.
   The promise of a load does not depend on it (`KeepsPromise`).
6. `docs/correctness-test-plan.md:22-23` says `snapshot_finished` means loaded; a
   fresh incremental-only run saves it at once (`FreshIncremental = TRUE` in `CloudSource`).
7. MERGE has no order for changes of one transaction (the TODO at
   `pkg/snowflake/sql.go:182`): when two rows trade their keys, each key has a
   delete and an insert with one `commit_ts`. With `Keys = {k1, k2}` and `MovedKeys <- OneMove`
   `RowsFollowUpstream` fails.
8. CHANGE COLUMN that changes only the case of a name that is not a regular
   identifier gives no RENAME (`pkg/snowflake/ddl.go:119`), while `quoteIdent` keeps
   its case. With `Alters <- CaseOnlyAlters` `ColumnsAreExplained` fails. The theorems
   exclude exactly this (`CasesKept`). DROP and RENAME COLUMN quote the name as the statement
   spells it (`ddl.go:94`, `ddl.go:104`), where TiDB takes any case, so a spelling other than the column's
   goes wrong in the same way; `Valid` leaves such statements out.
9. docs/ddl-matrix.md:27-28 and 37-38 list RENAME TABLE and DROP SCHEMA as supported;
   `GenDDLViaTiDBDDL` refuses the first and ignores the second.
10. A process that stops after ADD, DROP or RENAME COLUMN and before its watermark is
   saved leaves a table that no later process gets past: the statement (`pkg/snowflake/ddl.go:88`)
   is executed again and refused (`incremental/loader.go:821`), until the operator follows the error's
   advice. docs/correctness-test-plan.md:92-93 names the risk, so this is no disagreement:
   no row is lost (`NoLostRows`), and `EveryChangeArrives` excepts it.

## 5. Proofs

### WorkerPool

`WorkerPool_proofs` proves, for every finite set of workers and every list of groups,
with any numbers of tasks and limits, with and without a walk:

* `TypesHold`: `Spec => []TypeOK`;
* `StagesDoNotOverlap`: `Spec => []StagesInOrder`;
* `GroupsAreDrained`: `Spec => []NoneOutlivesItsGroup`;
* `LoadKeepsPromise`: `Spec => KeepsPromise`, the refinement of `StagedTasks`.

Assumption: `PoolAssumption` (there is a worker and a group), which TLC evaluates in
`worker_pool`. None of the four properties is inductive. `Inv` follows a task from its submission to the end: what is
in the channel or with a worker is there once (`OneHolder`), is of the current
group, is not answered, and its future is among those still to be read
(`FlightIsCurrent`); an answer "ok" comes with its effect (`OkIsPerformed`); what
was not submitted was not touched (`LaterUntouched`); and every submitted task of the
group is performed, or its future is unread, or an error was noted (`Accounted`). So when
`Wait` finds no future left and no error, the group is complete
(`WaitedGroupIsComplete`), which carries `EarlierComplete` to the next group and
`Ending` to the outcome, and the steps of the refinement follow (`PromisedSteps`).

### StateManager

`StateManager_proofs` proves, for every set of processes, tables, streams, jobs
and sources, every mode and all bounds:

* `TypesHold`: `Spec => []TypeOK`;
* `SavedStatesOpen`: `Spec => []SavedStateOpens`;
* `FinishedHasCheckpoint`: `Spec => []FinishedWithCheckpoint`;
* `CopiesAreSaved`: `Exclusive => (Spec => []CopyIsSaved)`;
* `CheckpointsGrow`: `Exclusive => (Spec => CheckpointNeverBackward)`;
* `FirstBackupStays`: `Exclusive => (Spec => FirstBackupKept)`.

Assumptions: `ManagerAssumption` (the bounds are naturals, flags are booleans),
which TLC evaluates in `state_manager`; for the last three, that commands do not overlap.
Run `state_delete` shows that they need it.

Argument. Lemmas about the updates come first: each call of the command keeps
tables and never takes back checkpoint or phase (`CommandCallResult`), each call
of a table keeps checkpoint and phase and moves watermark and cursors forward only
(`TableCallResult`). So every step leaves the object, creates it, or overwrites
it with a successor of an *open copy* (`StepOfManagers`). `Inv` adds to the types
that nothing is open while there is no object, which the backup needs. `AllEarned`
adds that the object and every open copy, stale ones included, have a checkpoint
once their snapshot is finished: a successor of such a copy is again one
(`EarnedByCommitted`), and a copy only stays, goes or becomes the object
(`CopyStep`). That is all that overlapping commands keep. For commands that do not overlap, `Alone` says
that at most one process is open and that its copy has the *checkpoint and
phase of the object*: `CopyIsSaved` alone is not inductive for the checkpoint, for a copy
behind the object would take it back with its next call. The copy may be behind in
watermarks and cursors, by a write that was reported as failed; this is why
`Alone` has equality for the first and `NotBeyond` for the second. The backup is decided by
the copy and taken from the object: that both have the same version is what keeps the first one.

### CloudSource

`CloudSource_proofs` proves, for every set of jobs and clusters, any values of
`snapshot.tso` and any number of faults:

* `TypesHold`: `Spec => []TypeOK`;
* `NoJobIsOrphaned`: `Spec => []NoOrphan`;
* `PrefixesHaveOneWriter`: `Spec => []OneWriterPerPrefix`;
* `CheckpointsAreReached`: `~FreshIncremental` and `MetadataAtStart` imply
  `Spec => []CheckpointReached`.

Assumptions: `IdAssumption` and `CloudAssumption`, which TLC evaluates in `cloud_create`;
what the last theorem adds are the two assumptions of that run (section 2).

Argument, in three layers. Every write of the state, whether it was reported as failed or not, is one of
a few kinds (`SavedBy`): it opens, binds, begins a creation, names its job, or marks the
snapshot. `JobInv` says at each step of the process what the marker stands for
(`CreationIsMarked`): before a POST there is no job of that name, after it there is one
of the kind that is pending. `NoOrphan` alone is not inductive: an id may be cleared or
overwritten, so `JobsAreKnown` says that a recorded id is of a job of its kind, and
`validateState` that a pending kind has no id yet. From the two follows that two running jobs of
a kind are the same (`OneLiveJob`), and `WriterInv` is then that a running export is the
only one that has written. `ProgressInv` is about rows: while the snapshot is being
loaded the dump is complete and nothing writes to it (`SnapshotIsReady`), because a dump that has
metadata and is not complete always has its export in the state (`PartialDumpIsNamed`);
and while changes are loaded, the changefeed runs and began no later than what has been
loaded (`FeedIsReady`), so that a scan up to `metadata` misses no row (`ScanFacts`).

### OPSource

`OPSource_proofs` proves, for every set of tables, files and changefeeds, any values of
`snapshot.tso` and any number of faults:

* `TypesHold`: `Spec => []TypeOK`;
* `FeedsAreNamed`: `Spec => []OnlyInterruptedFeedsAreLost`;
* `SnapshotIsLoadedOnce`: `~FreshIncremental` implies `Spec => []LoadedExactlyOnce`;
* `CheckpointsAreReached`: `~FreshIncremental` and `~ConfigChanges` imply
  `Spec => []CheckpointReached`.

Assumptions: `IdAssumption` and `OPAssumption` (a TSO bound that is not zero, modes that
exist), which TLC evaluates in `op_create`; what the last two theorems add is what
finding 6 and run `op_gap` (section 4) show to be needed.

Argument, in three layers. `FeedInv` is about the process: its copy is what is saved, an
answer is held only between the POST and its record, at which point the state names no
changefeed that the record would overwrite (`AnswerIsHeld`), and a state is cleared of an id only
after its changefeed is gone (`DeletionIsNamed`). `LoadInv` is about the dump: its files
have one TSO because a dump begins only in an empty prefix (`DumpIsWhole`); metadata is there
before a load and stays (`DumpIsThere`); and the tables are exactly what the tasks performed in
this stage made of them, whatever a failed load left before (`StageIsExact`).
`ReachInv` is about the changes. `Base` is the TSO from which the next
scan needs them: the checkpoint; before there is one, the TSO of the dump; before there is a dump,
the TSO it will have. It only grows, over crashes and changes of mode, so a changefeed
that starts at or before it (`FeedsStartByBase`) will do for ever, and what lies between
it and the TSO of metadata is in the prefix (`ChangesAreThere`). The proof does not use that no
changefeed is lost: `CheckpointReached` is restricted to that case because two
changefeeds overwrite each other's files, which the module does not model.

### IncrementalLoader

`IncrementalLoader_proofs` proves, for every set of tables, keys and partitions and every
bound on timestamps, days, versions, failures and changefeed restarts:

* `TypesHold`: `Spec => []TypeOK`;
* `NoRowIsLost`: `Spec => []NoLostRows`;
* `WatermarkIsCovered`: `Spec => []WatermarkCovered`;
* `CursorsAreCovered`: `Spec => []CursorsCovered`, if `MaxRestarts = 0`;
* `LoaderKeepsContract`: `Spec => ImplementsContract`, the refinement of
  `ReplicationContract`.

The others assume `DDLBarrier \/ MaxRestarts = 0`, what section 2 says of the changefeed: either a
schema file waits for the checkpoint or nothing is written again. `CursorsCovered` does not
hold with restarts: a file that is written again may take a row back to an older change until the next
file of the stream is loaded. It never takes it behind the checkpoint, which is `NoLostRows`. The constants satisfy
`SinkAssumption`, `LoaderAssumption` and `IdAssumption`, which TLC evaluates in the four
loader runs.

Argument. `TiCDCSink_proofs` is about the writer. `SinkInv` says that events of a table have an order in
which a schema change is alone, that what is not written yet is later than `metadata` and
than every version announced, and that every other change is in a file in which it is *settled*:
no later file of its stream holds an older change of the same key, not even after a restart has
written rows again. `StoredIsSound` is what a reader may use, `SinkNextGrows` what one step adds.

The first half of `IncrementalLoader_proofs` is about one table in plain values, so that each
lemma is about a set of files, versions, cursors and rows and not about the whole state.
`Loaded` is the core: the settled changes of every file that a cursor has reached are in
Snowflake. It is not enough. A cursor that has passed a file says nothing of another version,
so `Ordered` says that whoever has read a version has read, or crossed, the ones
before in that stream. `PastCovered` says it for the rows behind watermark and
checkpoint. While a scan runs, `Scan` says that every file is behind a cursor, of a crossed version,
in a range or a directory still to be read, or `Late`: it appeared after the walk, behind everything the scan has
found and after its target. So when nothing is left, everything up to the target is loaded
(`EmptyScanIsLoaded`), and when a schema file comes first, everything before its version
is (`WatermarkKeepsScan`). `SavedIsTrue` claims `Ordered`, `PastCovered` and the position of the
cursors of the copy in memory *and* of the object, which differ after an ambiguous write: that is
what a process needs that starts again (`NewLoaderKeeps`).

`LoaderDDL_proofs` goes on, under the same assumption, with the DDLs:

* `NoDDLIsLost`: `Spec => []NoLostDDL`;
* `DDLComesBeforeItsRows`: `Spec => []DDLBeforeItsRows`;
* `RowsFindTheirSchema`: `Spec => []RowsMeetTheirSchema`;
* `SchemasGoForward`: `Spec => SchemaNeverBackward`;
* `DDLsAreTranslatedInOrder`: `Spec => []TranslatedFromVersionBefore`.

Argument. What a process knows when it starts again is checkpoint and watermark: a version
is `Behind` them or it is not. `Applied` says that the DDLs behind are executed, and
that neither a DDL nor a row has gone beyond a version that is not. It is claimed for the
watermark in memory and for the saved one: between a DDL and its save, and after an
ambiguous save, they differ by the DDL that may be replayed. That there is only one such
DDL is `Executed`: the version of the last DDL is behind, or its file is still first in
the scan. `Complete` says that a version the scan has not found comes after all it has
found, so the first schema file of the scan is the lowest version that is not behind
(`FirstIsAhead`), and when nothing is left the target is `Reached`, which the checkpoint
needs to move. `Origin` says that rows and schema come from files and versions that
exist: one that the changefeed announces later is beyond them. `MetaInv` adds that the
columns known to the task, if any, are those of the watermark.

### SnowflakeTable

`SnowflakeTable_proofs` proves, for every set of names, types, keys and statements that TiDB
accepts, and any number of transactions, DDLs and faults:

* `MergeStopsInside`: `Spec => []MergeStopsOnlyInsideDDL`;
* `TypesStay`: `CasesKept => (Spec => []TypeOK)`;
* `ColumnsStayExplained`: `CasesKept => (Spec => []ColumnsAreExplained)`;
* `RowsEndUpEqual`: `Plain => (Spec => []RowsFollowUpstream)`.

Assumptions: `TableAssumption`, `NamesAssumption` and `AltersAssumption` (section 2), which TLC evaluates
in `table_ddl`. `CasesKept` says that no CHANGE COLUMN changes only the case of a name that
is not a regular identifier: finding 8 shows that the last needs it. The proof of the type invariant
uses it as well, for it takes the types of the columns from their place in the history. `Plain` is what
findings 3, 7 and 8 leave: `CasesKept`, no two rows that trade their keys in one transaction, no
DROP PARTITION and no DROP SCHEMA. Each of the four makes `RowsFollowUpstream` or
`ColumnsAreExplained` fail when it is dropped; the instance of `table_ddl` is plain.

Argument, in four layers.

*Folds.* What a list of statements does is a fold; the lemmas about folds (the empty list, one statement more,
two lists in a row, the types of the results) are proved by induction on the number of statements.

*Translation.* A spec of ALTER TABLE gives none, one or two statements (`SpecTranslated`).
Because no two specs touch the same column in whatever case, the look-ups in
the columns after the *whole* statement find what the spec alone would have left there. So
`AlterTranslated`: executed on the image of the columns before, the statements give the image
of the columns after, each is legal where it comes, and each is *settled* afterwards: its effect
stays visible until the last. A statement that is executed again is therefore refused or
changes nothing (`SettledChangesNothing`).

*Steps.* `UpstreamOK` says what the log is: versions ascend and each schema file comes
from the columns before by its specs. `ScanOK` says what a scan has in work, `ClockOK` where
the checkpoint is. `ColOK` is the place of the table: its columns are those of the watermark with the first *m*
statements of the next DDL executed. `ColumnsAreExplained` is not inductive, because
it forgets where the process is: `ColOK` adds that the statements to do begin at a
*d* no later than *m*, which is what a DDL that begins anew comes to. `Repair` finds the least
number of statements that explains the columns; it need not be *m*, but executing the others
leads to the same table (`RepairCol`). `ScanInv` alone, without a word about columns, gives
`MergeStopsInside`: rows are merged only when no DDL is left before them.

*Rows.* `RowsFollowUpstream` speaks of the end only. `RowInv` says where a row is on the way there. It
gives the log a *history* (`History`): the rows upstream after each of its entries. A row in
Snowflake is then that of some entry *p* of the watermark's version with the first *m* statements of
the next DDL executed on it (`RowAt`), where *m* is the place of the columns, and no file after *p* that
changes its key is done (`RowOf`): such a file is still pending, so the row will catch up. *p* differs
from key to key, and is forgotten by a crash: replaying a file leaves the row of the file. The steps:

* a merge takes the row to the current file. If columns were added already, the MERGE
  leaves them alone, as the DDL would: a row whose table still has all the columns of
  the version is that row with the new ones filled (`FitRow`), so merge and statement may change places
  (`MergedRows`);
* a statement moves the row to the next place, or leaves it when it was executed before (`RowsOne`);
* between *p* and a DDL nothing is left that changes the key, so the row after all its statements is the row upstream after the
  DDL (`UpToTheDDL`, `PassedRow`), whether the watermark is saved by the loader or by the operator;
* TRUNCATE and DROP TABLE keep no place: files may be merged after them and before they are executed again.
  `RowIn` asks for no row only when the last statement has just been executed or the table is
  gone, for that is where the watermark is saved.

When no file is pending, *p* may be taken for the end of the log and *m* is 0 (`RowsFollow`).

### Only model-checked

All liveness, which is beyond the prover, and the three runs that expect a violation. Every invariant and action
property of a passing run is a theorem.

## 6. Not modelled

* The type map, default values, nullability and quoting of strings (`pkg/snowflake/types.go`,
  `escapeString`, `buildColumn`), and parsing of `CREATE TABLE` and of file names
  (`pkg/table`, `source/storage`): conversions of text, without state. That STORED
  generated columns and tables without a key are refused is one check each.
* TiDB Cloud: the ownership check of legacy v1 jobs, detection of the plan, capacities,
  selectors and comparison of formats, retries of reads: they refuse or repeat, and change
  no state. The marker, creation, polling and deletion are in `CloudSource`.
* Configuration, flags, logging and redaction, metrics, HTTP transport, entry point,
  scripts and the end-to-end harness.
* Stages of Snowflake: `CREATE STAGE`, and `DROP STAGE` behind `Close`
  (`NoneOutlivesItsGroup` is why nothing uses a dropped one).

## 7. Order of work

The loader and its contract came first, then the state manager and its proofs, the worker
pool, the cloud source, the OP source with the snapshot load, one table with its DDL
statements, and the proofs about the pool, both sources, the loader, and the columns and rows of the table. What would
add most next: the composition of `SnowflakeTable` with the loader's scan.
