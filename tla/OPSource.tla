------------------------------ MODULE OPSource ------------------------------
(***************************************************************************)
(* The create and delete commands against a self-managed TiDB: the runner  *)
(* of src/source/op, the dump, the TiCDC client, and the snapshot load     *)
(* with every table and file a step of its own.  Unlike CloudSource, no    *)
(* marker is saved before a changefeed is created, a recorded changefeed   *)
(* is only asked whether it exists, and a deletion cannot be repeated.     *)
(*                                                                         *)
(* The pool is what StagedTasks promises of it: the tables in any order,   *)
(* then the files in any order.  The incremental loader is one action.     *)
(***************************************************************************)
EXTENDS ReplState, FiniteSets

CONSTANTS
    Files,              \* the data files of a dump
    TableOf,            \* the table of each
    Modes,              \* the modes the user runs create in
    ConfigTSOs,         \* the values of snapshot.tso; 0 when it is not set
    ConfigChanges,      \* snapshot.tso may differ from run to run
    FreshIncremental,   \* incremental-only may be run before there is a state
    MetadataAtStart,    \* a changefeed that runs has replaced increment/metadata
    MaxTS,              \* bound: the last TSO
    MaxFaults           \* bound: failures and crashes

ASSUME OPAssumption ==
    /\ TableOf \in [Files -> Tables]
    /\ Modes \subseteq {"all", "snapshot-only", "incremental-only"}
    /\ ConfigTSOs \subseteq Nat
    /\ ConfigChanges \in BOOLEAN /\ FreshIncremental \in BOOLEAN
    /\ MetadataAtStart \in BOOLEAN
    /\ MaxTS \in Nat \ {0} /\ MaxFaults \in Nat

VARIABLES
    store,      \* replication-state.json
    \* the process
    pc,         \* the step it is about to take
    mem,        \* the state manager's copy
    mode,
    conf,       \* snapshot.tso
    start,      \* the TSO the dump runs at, or the changefeed is to start from
    answered,   \* the id in the answer to the POST
    performed,  \* the tasks of the stage that the pool has executed
    \* TiCDC and upstream
    now,        \* the current TSO
    feeds,      \* per id: state, start TSO, and how far it has written
    lost,       \* the changefeeds whose creation was interrupted
    \* the storage
    dump,       \* snapshot/: the TSO in metadata, and the dump each file is of
    metadata,   \* checkpoint-ts of increment/metadata
    \* Snowflake
    created,    \* the tables that exist
    copies,     \* how often each file has been copied into its table, and its dump
    reached,    \* every row up to this TSO is there; 0 before the snapshot
    faults

processVars == <<pc, mem, mode, conf, start, answered, performed>>
warehouseVars == <<created, copies, reached>>
vars == <<store, processVars, now, feeds, lost, dump, metadata, warehouseVars, faults>>

Absent == [version |-> 0]
Closed == [version |-> -1]

NoFeedYet == [state |-> "none", tso |-> 0, upto |-> 0]
Running(j) == feeds[j].state = "running"
Exists(j) == feeds[j].state \in {"running", "stopped"}

LoadsSnapshot == mode # "incremental-only"
LoadsIncrement == mode # "snapshot-only"

\* The TSO of the dump that a file is of; 0 where there is no file.
NoFiles == [f \in Files |-> 0]
Present == {f \in Files : dump.files[f] # 0}
NoCopy == [times |-> 0, tso |-> 0]

Init ==
    /\ store = Absent
    /\ pc = "down" /\ mem = Closed /\ mode = "all" /\ conf \in ConfigTSOs
    /\ start = 0 /\ answered = NoJob /\ performed = {}
    /\ now = 1
    /\ feeds = [j \in Jobs |-> NoFeedYet]
    /\ lost = {}
    /\ dump \in {[tso |-> 0, files |-> NoFiles],
                 [tso |-> 1, files |-> [f \in Files |-> 1]]}
    /\ metadata = 0
    /\ created = {} /\ copies = [f \in Files |-> NoCopy] /\ reached = 0
    /\ faults = 0

----------------------------------------------------------------------------
(***************************************************************************)
(* The process and its state manager.                                      *)
(***************************************************************************)
At(step) == pc = step
Goto(step) == pc' = step

Stopped ==
    /\ pc' = "down" /\ mem' = Closed
    /\ start' = 0 /\ answered' = NoJob /\ performed' = {}
    /\ UNCHANGED <<mode, conf>>

Kept == UNCHANGED <<mem, mode, conf>>
Idle == UNCHANGED <<start, answered, performed>>

\* A call that the manager accepts is written, then known to the process.
Save(nexts, step) ==
    /\ \E next \in nexts : mem' = next /\ store' = next
    /\ Goto(step)

Elsewhere == UNCHANGED <<now, feeds, lost, dump, metadata, warehouseVars>>

Fault == faults < MaxFaults /\ faults' = faults + 1

(***************************************************************************)
(* The command ends: it crashes, or a request, a statement or a write of   *)
(* the state fails that had no effect.  A changefeed that was created and  *)
(* not recorded is lost.                                                   *)
(***************************************************************************)
Crash ==
    /\ ~At("down")
    /\ Fault
    /\ lost' = lost \cup ({answered} \ {NoJob})
    /\ Stopped
    /\ UNCHANGED <<store, now, feeds, dump, metadata, warehouseVars>>

\* state.Open
Create(m, tso) ==
    /\ At("down")
    /\ store = Absent /\ m = "incremental-only" => FreshIncremental
    /\ tso # conf => ConfigChanges
    /\ tso <= now
    /\ store' = IF store = Absent THEN NewState(m = "incremental-only") ELSE store
    /\ mem' = store'
    /\ mode' = m /\ conf' = tso
    /\ Goto(IF m = "incremental-only" THEN "changefeed" ELSE "snapshot")
    /\ Idle /\ Elsewhere /\ UNCHANGED faults

----------------------------------------------------------------------------
(***************************************************************************)
(* EnsureSnapshot.                                                         *)
(***************************************************************************)
AfterSnapshot == IF LoadsIncrement THEN "changefeed" ELSE "load"

HasMetadata == dump.tso # 0
SnapshotKnown == mem.finished /\ mem.checkpoint # 0

\* Metadata is taken as it is, whatever snapshot.tso says.
SkipSnapshot ==
    /\ At("snapshot")
    /\ SnapshotKnown \/ HasMetadata
    /\ Goto(AfterSnapshot)
    /\ Kept /\ Idle /\ Elsewhere /\ UNCHANGED <<store, faults>>

PrefixFree == ~HasMetadata /\ Present = {}

\* Dumpling takes the TSO of the dump when none is given.
BeginDump ==
    /\ At("snapshot")
    /\ ~SnapshotKnown /\ PrefixFree
    /\ start' = IF conf # 0 THEN conf ELSE now
    /\ Goto("dump")
    /\ Kept /\ Elsewhere /\ UNCHANGED <<store, answered, performed, faults>>

DumpFile(f) ==
    /\ At("dump")
    /\ dump.files[f] # start
    /\ dump' = [dump EXCEPT !.files[f] = start]
    /\ UNCHANGED <<store, processVars, now, feeds, lost, metadata, warehouseVars, faults>>

\* A dump has as many files of a table as it likes.  Metadata is written last,
\* and then read.
DumpEnds ==
    /\ At("dump")
    /\ \A t \in Tables : \E f \in Files : TableOf[f] = t /\ dump.files[f] = start
    /\ dump' = [dump EXCEPT !.tso = start]
    /\ start' = 0
    /\ Goto(AfterSnapshot)
    /\ Kept
    /\ UNCHANGED <<store, answered, performed, now, feeds, lost, metadata, warehouseVars, faults>>

\* "snapshot directory is not complete": the operator empties it.
EmptyPrefix ==
    /\ At("down")
    /\ ~HasMetadata /\ Present # {}
    /\ dump' = [dump EXCEPT !.files = NoFiles]
    /\ UNCHANGED <<store, processVars, now, feeds, lost, metadata, warehouseVars, faults>>

----------------------------------------------------------------------------
(***************************************************************************)
(* EnsureChangefeed.                                                       *)
(***************************************************************************)
\* Wrong on purpose: a changefeed always starts where snapshot.tso says.
StartAtConfig == IF conf # 0 THEN conf ELSE now

\* Wrong on purpose: one before, also before zero.
StartOneBefore ==
    IF mem.checkpoint # 0 THEN mem.checkpoint - 1
    ELSE IF HasMetadata THEN dump.tso - 1
    ELSE conf - 1

\* changefeedStartTSO; TiCDC takes 0 for the current TSO.
StartTSO ==
    IF mem.checkpoint # 0 THEN mem.checkpoint
    ELSE IF HasMetadata THEN dump.tso
    ELSE conf

Begun(tso) == IF tso # 0 THEN tso ELSE now

\* Any changefeed TiCDC knows will do.
ReuseFeed ==
    /\ At("changefeed")
    /\ mem.changefeed # NoJob /\ Exists(mem.changefeed)
    /\ Goto("load")
    /\ Kept /\ Idle /\ Elsewhere /\ UNCHANGED <<store, faults>>

(***************************************************************************)
(* The POST is sent once.  When it created the changefeed and the answer   *)
(* was lost, or was not one of the expected, nothing remembers it.         *)
(***************************************************************************)
Unused == {j \in Jobs : feeds[j] = NoFeedYet}

PostFeed(name, arrives) ==
    /\ At("changefeed")
    /\ mem.changefeed = NoJob
    /\ name \in Unused
    /\ feeds' = [feeds EXCEPT ![name] = [state |-> "running", tso |-> Begun(StartTSO),
                                         upto |-> Begun(StartTSO)]]
    /\ metadata' = IF MetadataAtStart THEN Begun(StartTSO) ELSE metadata
    /\ IF arrives
       THEN /\ answered' = name /\ Goto("set changefeed")
            /\ Kept /\ UNCHANGED <<start, performed, lost, faults>>
       ELSE lost' = lost \cup {name} /\ Fault /\ Stopped
    /\ UNCHANGED <<store, now, dump, warehouseVars>>

RecordFeed ==
    /\ At("set changefeed")
    /\ Save(SetChangefeedID(mem, answered), "load")
    /\ answered' = NoJob
    /\ UNCHANGED <<mode, conf, start, performed, faults>> /\ Elsewhere

----------------------------------------------------------------------------
(***************************************************************************)
(* loadIntoSnowflake, and in it snapshot.Load.                             *)
(***************************************************************************)
LoadsNow == LoadsSnapshot /\ ~mem.finished

BeginLoad ==
    /\ At("load")
    /\ \/ LoadsNow /\ Goto("tables")
       \/ ~LoadsNow /\ LoadsIncrement /\ mem.finished /\ Goto("scan")
    /\ Kept /\ Idle /\ Elsewhere /\ UNCHANGED <<store, faults>>

\* Wrong on purpose: CREATE TABLE IF NOT EXISTS.
KeptIfCreated(t) ==
    /\ created' = created \cup {t}
    /\ UNCHANGED <<copies, reached>>

\* CREATE OR REPLACE TABLE
Replaced(t) ==
    /\ created' = created \cup {t}
    /\ copies' = [f \in Files |-> IF TableOf[f] = t THEN NoCopy ELSE copies[f]]
    /\ reached' = 0

Copied(f) ==
    /\ TableOf[f] \in created
    /\ copies' = [copies EXCEPT ![f] = [times |-> @.times + 1, tso |-> dump.files[f]]]
    /\ UNCHANGED <<created, reached>>

(***************************************************************************)
(* A task of the stage takes effect; its answer may be lost, which ends    *)
(* the stage with an error.                                                *)
(***************************************************************************)
Executed(task, isLost) ==
    /\ task \notin performed
    /\ IF isLost THEN Fault /\ Stopped
       ELSE /\ performed' = performed \cup {task}
            /\ Kept /\ UNCHANGED <<pc, start, answered, faults>>
    /\ UNCHANGED <<store, now, feeds, lost, dump, metadata>>

PrepareTable(t, isLost) == At("tables") /\ Executed(t, isLost) /\ Replaced(t)

\* The walk submits the files that are there.
CopyFile(f, isLost) ==
    At("files") /\ f \in Present /\ Executed(f, isLost) /\ Copied(f)

StageEnds ==
    /\ \/ At("tables") /\ performed = Tables /\ Goto("files")
       \/ At("files") /\ performed = Present /\ Goto("mark")
    /\ performed' = {}
    /\ Kept /\ UNCHANGED <<store, start, answered, faults>> /\ Elsewhere

(***************************************************************************)
(* MarkSnapshotFinished, with the TSO that metadata has now.  With the     *)
(* files of one complete dump Snowflake has reached its TSO.               *)
(***************************************************************************)
LoadedFrom(tso) ==
    /\ created = Tables
    /\ copies = [f \in Files |->
                    IF f \in Present THEN [times |-> 1, tso |-> tso] ELSE NoCopy]

ReachedByCopies ==
    IF LoadedFrom(dump.tso) THEN dump.tso ELSE 0

MarkFinished ==
    /\ At("mark")
    /\ HasMetadata
    /\ Save(MarkSnapshotFinished(mem, dump.tso), IF LoadsIncrement THEN "scan" ELSE "done")
    /\ reached' = ReachedByCopies
    /\ UNCHANGED <<mode, conf, start, answered, performed, now, feeds, lost, dump,
                   metadata, created, copies, faults>>

\* The changes with this TSO are in the increment/ prefix.
Delivered(ts) == \E j \in Jobs : feeds[j].tso < ts /\ ts <= feeds[j].upto

Scan ==
    /\ At("scan")
    /\ metadata > mem.checkpoint
    /\ Save(SetCheckpointTS(mem, metadata), "scan")
    /\ reached' = IF reached # 0 /\ \A ts \in (reached + 1)..metadata : Delivered(ts)
                  THEN metadata ELSE reached
    /\ UNCHANGED <<mode, conf, start, answered, performed, now, feeds, lost, dump,
                   metadata, created, copies, faults>>

(***************************************************************************)
(* The command ends where none of the steps above can go on.               *)
(***************************************************************************)
GiveUp ==
    /\ \/ At("snapshot") /\ ~SnapshotKnown /\ ~HasMetadata /\ ~PrefixFree
       \/ At("changefeed") /\ mem.changefeed # NoJob /\ ~Exists(mem.changefeed)
       \/ At("load") /\ ~LoadsNow /\ ~(LoadsIncrement /\ mem.finished)
       \/ At("done")
       \/ At("scan")
    /\ Stopped
    /\ Elsewhere /\ UNCHANGED <<store, faults>>

(***************************************************************************)
(* A write of the state fails after the object was replaced.               *)
(***************************************************************************)
SaveFails ==
    /\ \/ At("set changefeed") /\ store' \in SetChangefeedID(mem, answered)
                               /\ UNCHANGED reached
       \/ At("mark") /\ HasMetadata /\ store' \in MarkSnapshotFinished(mem, dump.tso)
                     /\ reached' = ReachedByCopies
    /\ Fault
    /\ Stopped
    /\ UNCHANGED <<now, feeds, lost, dump, metadata, created, copies>>

----------------------------------------------------------------------------
(***************************************************************************)
(* The delete command.  TiCDC does not know a deleted changefeed any more, *)
(* and the client takes its 404 for a failure.                             *)
(***************************************************************************)
Delete ==
    /\ At("down")
    /\ store # Absent
    /\ store.changefeed # NoJob
    /\ mem' = store
    /\ Goto("delete")
    /\ UNCHANGED <<mode, conf>> /\ Idle /\ Elsewhere /\ UNCHANGED <<store, faults>>

DeleteFeed ==
    /\ At("delete")
    /\ Exists(mem.changefeed)
    /\ feeds' = [feeds EXCEPT ![mem.changefeed].state = "deleted"]
    /\ \/ Goto("clear") /\ Kept /\ Idle /\ UNCHANGED faults
       \/ Fault /\ Stopped
    /\ UNCHANGED <<store, now, lost, dump, metadata, warehouseVars>>

DeleteFails ==
    /\ At("delete")
    /\ ~Exists(mem.changefeed)
    /\ Stopped
    /\ Elsewhere /\ UNCHANGED <<store, faults>>

\* Wrong on purpose: the id is cleared before the changefeed is deleted.
ClearsEarly == At("delete") \/ At("clear")
Clears == At("clear")

ClearFeed ==
    /\ Clears
    /\ store' \in ClearChangefeedID(mem)
    /\ Stopped
    /\ Elsewhere /\ UNCHANGED faults

----------------------------------------------------------------------------
(***************************************************************************)
(* TiDB and TiCDC.                                                         *)
(***************************************************************************)
Outside == UNCHANGED <<processVars, store, lost, dump, warehouseVars>>

Tick ==
    /\ now < MaxTS
    /\ now' = now + 1
    /\ UNCHANGED <<feeds, metadata, faults>> /\ Outside

FeedDelivers(j) ==
    /\ Running(j)
    /\ feeds[j].upto < now
    /\ \E ts \in (feeds[j].upto + 1)..now :
          feeds' = [feeds EXCEPT ![j].upto = ts] /\ metadata' = ts
    /\ UNCHANGED <<now, faults>> /\ Outside

FeedStops(j) ==
    /\ Running(j)
    /\ Fault
    /\ feeds' = [feeds EXCEPT ![j].state = "stopped"]
    /\ UNCHANGED <<now, metadata>> /\ Outside

----------------------------------------------------------------------------
CreateNext ==
    \/ \E m \in Modes, tso \in ConfigTSOs : Create(m, tso)
    \/ SkipSnapshot \/ BeginDump \/ (\E f \in Files : DumpFile(f)) \/ DumpEnds
    \/ ReuseFeed \/ RecordFeed
    \/ \E j \in Jobs, arrives \in BOOLEAN : PostFeed(j, arrives)
    \/ BeginLoad \/ StageEnds \/ MarkFinished \/ Scan
    \/ \E isLost \in BOOLEAN : \/ \E t \in Tables : PrepareTable(t, isLost)
                               \/ \E f \in Files : CopyFile(f, isLost)
    \/ GiveUp \/ SaveFails \/ Crash

DeleteNext == Delete \/ DeleteFeed \/ DeleteFails \/ ClearFeed

OutsideNext == Tick \/ EmptyPrefix \/ \E j \in Jobs : FeedDelivers(j) \/ FeedStops(j)

Next == CreateNext \/ DeleteNext \/ OutsideNext

Spec == Init /\ [][Next]_vars

----------------------------------------------------------------------------
Stages == {"tables", "files"}

\* The types; only a process has a copy, and only a stage has tasks.
TypeOK ==
    /\ store \in State \cup {Absent}
    /\ mem \in State \cup {Closed} /\ (mem = Closed <=> pc = "down")
    /\ mode \in {"all", "snapshot-only", "incremental-only"}
    /\ conf \in Nat /\ start \in Nat /\ now \in Nat /\ metadata \in Nat
    /\ reached \in Nat /\ faults \in Nat
    /\ answered \in Jobs \cup {NoJob} /\ lost \subseteq Jobs
    /\ performed \subseteq Tables \cup Files /\ (performed # {} => pc \in Stages)
    /\ feeds \in [Jobs -> [state : {"none", "running", "stopped", "deleted"},
                           tso : Nat, upto : Nat]]
    /\ dump \in [tso : Nat, files : [Files -> Nat]]
    /\ created \subseteq Tables
    /\ copies \in [Files -> [times : Nat, tso : Nat]]

(***************************************************************************)
(* "Re-running with the same storage prefix does not duplicate or lose     *)
(* rows" (docs/correctness-test-plan.md): once the snapshot is marked      *)
(* finished every table holds every file of one dump, once, through failed *)
(* and repeated loads, lost answers of COPY and CREATE OR REPLACE, and     *)
(* dumps that broke off.                                                   *)
(***************************************************************************)
LoadedExactlyOnce ==
    store # Absent /\ store.finished => \E tso \in 1..MaxTS : LoadedFrom(tso)

(***************************************************************************)
(* Every row up to the saved checkpoint is in Snowflake: the changefeed    *)
(* starts no later than the snapshot or the checkpoint, after deletions,   *)
(* changes of mode and new changefeeds.  Two changefeeds on one prefix     *)
(* overwrite each other's files, so it is claimed while none is lost.      *)
(***************************************************************************)
CheckpointReached ==
    store # Absent /\ lost = {} =>
        /\ store.finished => reached # 0
        /\ store.checkpoint <= reached

(***************************************************************************)
(* Only an interrupted creation leaves a changefeed that nothing names:    *)
(* delete and create forget none, whatever write failed, and while none is *)
(* lost no two changefeeds write to the prefix.                            *)
(***************************************************************************)
OnlyInterruptedFeedsAreLost ==
    \A j \in Jobs : Running(j) =>
        j \in lost \cup {answered} \/ (store # Absent /\ store.changefeed = j)
=============================================================================
