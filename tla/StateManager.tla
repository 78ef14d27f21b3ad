---------------------------- MODULE StateManager ----------------------------
(***************************************************************************)
(* The state manager (src/pkg/state/manager.go): one object in S3 that is  *)
(* overwritten as a whole, and in each process that has opened it a copy   *)
(* on which all decisions are made.  A call locks the copy, computes the   *)
(* next state, writes it and, if the write succeeded, replaces the copy;   *)
(* so within a process calls are atomic, but a failed write may or may not *)
(* have replaced the object, and another process overwrites it unseen.     *)
(*                                                                         *)
(* The processes behave as src/cmd does: a create process ends at the      *)
(* first failed call, except that a failed call of one table's task lets   *)
(* the tasks of the other tables run on until the scan ends; a delete      *)
(* process only clears the changefeed.                                     *)
(***************************************************************************)
EXTENDS ReplState

CONSTANTS
    Creators,       \* processes that run the create command
    Deleters,       \* processes that run the delete command
    Exclusive,      \* processes never overlap
    IncrementalOnly,\* create runs with mode = "incremental-only"
    MaxTS,          \* bound: timestamps and table versions
    MaxIndex,       \* bound: dates and file indexes
    MaxFaults       \* bound: failed writes and crashes

ASSUME ManagerAssumption ==
    /\ Creators \cap Deleters = {}
    /\ Exclusive \in BOOLEAN /\ IncrementalOnly \in BOOLEAN
    /\ MaxTS \in Nat /\ MaxIndex \in Nat /\ MaxFaults \in Nat

VARIABLES
    store,      \* replication-state.json
    backup,     \* replication-state.v1.backup.json
    copy,       \* per process, the manager's copy of the state
    binding,    \* per process, the source that BindCloudSource is binding
    stopped,    \* per process, the tables whose task has failed
    faults

managerVars == <<store, backup, copy, binding, stopped, faults>>

Procs == Creators \cup Deleters

Absent == [version |-> 0]
Closed == [version |-> -1]
IsOpen(p) == copy[p] # Closed

Init ==
    /\ store = Absent
    /\ backup = Absent
    /\ copy = [p \in Procs |-> Closed]
    /\ binding = [p \in Procs |-> NoSource]
    /\ stopped = [p \in Procs |-> {}]
    /\ faults = 0

MayOpen(p) == ~IsOpen(p) /\ (Exclusive => \A q \in Procs : ~IsOpen(q))

(***************************************************************************)
(* Open creates the object when it is missing, in the mode the command     *)
(* runs in; OpenExisting does not.  The process keeps what it read.        *)
(***************************************************************************)
Open(p) ==
    /\ p \in Creators
    /\ MayOpen(p)
    /\ store' = IF store = Absent THEN NewState(IncrementalOnly) ELSE store
    /\ Valid(store')
    /\ copy' = [copy EXCEPT ![p] = store']
    /\ UNCHANGED <<backup, binding, stopped, faults>>

OpenFails(p) ==
    /\ p \in Creators
    /\ MayOpen(p)
    /\ store = Absent
    /\ faults < MaxFaults
    /\ faults' = faults + 1
    /\ store' = NewState(IncrementalOnly)
    /\ UNCHANGED <<backup, copy, binding, stopped>>

OpenExisting(p) ==
    /\ p \in Deleters
    /\ MayOpen(p)
    /\ store # Absent
    /\ Valid(store)
    /\ store.changefeed # NoJob
    /\ copy' = [copy EXCEPT ![p] = store]
    /\ UNCHANGED <<store, backup, binding, stopped, faults>>

\* The process is gone, with its copy.
Gone(p) ==
    /\ copy' = [copy EXCEPT ![p] = Closed]
    /\ binding' = [binding EXCEPT ![p] = NoSource]
    /\ stopped' = [stopped EXCEPT ![p] = {}]

\* The process ends, by itself or because a scan ended with a failed task.
Exit(p) ==
    /\ IsOpen(p)
    /\ Gone(p)
    /\ UNCHANGED <<store, backup, faults>>

----------------------------------------------------------------------------
\* The copy is replaced after the write.
Uploaded(p, next) ==
    /\ store' = next
    /\ copy' = [copy EXCEPT ![p] = next]
    /\ UNCHANGED <<backup, faults>>

\* Wrong on purpose: the copy is replaced before the write, and stays.
CopiedThenLost(p, next) ==
    /\ faults < MaxFaults
    /\ faults' = faults + 1
    /\ store' \in {store, next}
    /\ copy' = [copy EXCEPT ![p] = next]
    /\ UNCHANGED backup

\* The write failed, and the object was replaced or not.
UploadFailed(p, next) ==
    /\ faults < MaxFaults
    /\ faults' = faults + 1
    /\ store' \in {store, next}
    /\ copy' = copy
    /\ UNCHANGED backup

(***************************************************************************)
(* The calls of the prepare phase, of the snapshot phase and at the end of *)
(* a scan.  When one fails, the error ends the command.                    *)
(***************************************************************************)
CommandCalls(st) ==
    (UNION {SetCheckpointTS(st, ts) : ts \in 0..MaxTS})
        \cup (UNION {MarkSnapshotFinished(st, ts) : ts \in 0..MaxTS})
        \cup (UNION {SetExportID(st, id) : id \in Jobs})
        \cup (UNION {SetChangefeedID(st, id) : id \in Jobs})
        \cup (UNION {BeginCreate(st, kind) : kind \in JobKinds})
        \cup ClearPendingCreate(st)

Ready(p) == IsOpen(p) /\ binding[p] = NoSource

CommandCall(p) ==
    /\ p \in Creators
    /\ Ready(p)
    /\ stopped[p] = {}
    /\ \E next \in CommandCalls(copy[p]) : Uploaded(p, next)
    /\ UNCHANGED <<binding, stopped>>

CommandCallFails(p) ==
    /\ p \in Creators
    /\ Ready(p)
    /\ stopped[p] = {}
    /\ faults < MaxFaults
    /\ faults' = faults + 1
    /\ store' \in {store} \cup CommandCalls(copy[p])
    /\ Gone(p)
    /\ UNCHANGED backup

(***************************************************************************)
(* The calls of the task of table t: the watermark and the cursors.        *)
(***************************************************************************)
OneCursor(x, c) == [s \in {x} |-> c]
Consumable == [date : 1..MaxIndex, index : 1..MaxIndex]

TableCalls(st, t) ==
    (UNION {SetDDLTableVersionWatermark(st, t, v) : v \in 1..MaxTS})
        \cup (UNION {SetDMLCursors(st, t, OneCursor(x, c)) : x \in Streams, c \in Consumable})

TableCall(p, t) ==
    /\ p \in Creators
    /\ Ready(p)
    /\ t \notin stopped[p]
    /\ \E next \in TableCalls(copy[p], t) : Uploaded(p, next)
    /\ UNCHANGED <<binding, stopped>>

TableCallFails(p, t) ==
    /\ p \in Creators
    /\ Ready(p)
    /\ t \notin stopped[p]
    /\ \E next \in TableCalls(copy[p], t) : UploadFailed(p, next)
    /\ stopped' = [stopped EXCEPT ![p] = @ \cup {t}]
    /\ UNCHANGED binding

\* The changefeed is deleted upstream before its id is cleared.
DeleteCall(p) ==
    /\ p \in Deleters
    /\ IsOpen(p)
    /\ \E next \in ClearChangefeedID(copy[p]) : store' = next
    /\ Gone(p)
    /\ UNCHANGED <<backup, faults>>

(***************************************************************************)
(* BindCloudSource.  A version 1 state that has jobs is first copied, from *)
(* the object and not from memory, unless there is a backup already.       *)
(***************************************************************************)
HasJobs(st) == st.export # NoJob \/ st.changefeed # NoJob

\* Of a backup, the version and the jobs tell what it is good for.
BackupOf(st) ==
    [version |-> st.version, export |-> st.export, changefeed |-> st.changefeed]

\* Wrong on purpose: the backup is written again by every binding.
NeedsBackupAlways(p) == HasJobs(copy[p])

NeedsBackup(p) == copy[p].version = 1 /\ HasJobs(copy[p]) /\ backup = Absent

BeginBind(p, source) ==
    /\ p \in Creators
    /\ Ready(p)
    /\ stopped[p] = {}
    /\ copy[p].source \in {NoSource, source}
    /\ backup' = IF NeedsBackup(p) THEN BackupOf(store) ELSE backup
    /\ binding' = [binding EXCEPT ![p] = source]
    /\ UNCHANGED <<store, copy, stopped, faults>>

Bind(p) ==
    /\ IsOpen(p)
    /\ binding[p] # NoSource
    /\ \E next \in BindCloudSource(copy[p], binding[p]) : Uploaded(p, next)
    /\ binding' = [binding EXCEPT ![p] = NoSource]
    /\ UNCHANGED stopped

BindFails(p) ==
    /\ IsOpen(p)
    /\ binding[p] # NoSource
    /\ faults < MaxFaults
    /\ faults' = faults + 1
    /\ store' \in {store} \cup BindCloudSource(copy[p], binding[p])
    /\ Gone(p)
    /\ UNCHANGED backup

Next ==
    \/ \E p \in Procs :
          \/ Open(p) \/ OpenFails(p) \/ OpenExisting(p) \/ Exit(p)
          \/ CommandCall(p) \/ CommandCallFails(p)
          \/ \E t \in Tables : TableCall(p, t) \/ TableCallFails(p, t)
          \/ DeleteCall(p)
          \/ \E source \in Sources : BeginBind(p, source)
          \/ Bind(p) \/ BindFails(p)

Spec == Init /\ [][Next]_managerVars

----------------------------------------------------------------------------
\* The types; only an open process binds a source or has failed tasks.
TypeOK ==
    /\ store \in State \cup {Absent}
    /\ backup = Absent \/ backup \in [version : {1, 2}, export : Jobs \cup {NoJob},
                                       changefeed : Jobs \cup {NoJob}]
    /\ copy \in [Procs -> State \cup {Closed}]
    /\ binding \in [Procs -> Sources \cup {NoSource}]
    /\ stopped \in [Procs -> SUBSET Tables]
    /\ \A p \in Procs : ~IsOpen(p) => binding[p] = NoSource /\ stopped[p] = {}
    /\ faults \in Nat

(***************************************************************************)
(* A state that is saved can be opened again: nothing that validateState   *)
(* refuses, such as a pending creation beside the id it would give, ever   *)
(* reaches the object.                                                     *)
(***************************************************************************)
SavedStateOpens == store # Absent => Valid(store)

\* Progress a is not beyond progress b.
NotBeyond(a, b) ==
    /\ a.checkpoint <= b.checkpoint
    /\ a.finished => b.finished
    /\ \A t \in Tables :
          /\ a.tables[t].watermark <= b.tables[t].watermark
          /\ \A s \in Streams : ~CursorBefore(b.tables[t].cursors[s], a.tables[t].cursors[s])

(***************************************************************************)
(* What a running process takes for saved is saved, also after the failed  *)
(* writes of some of its tables: update replaces the copy last.            *)
(***************************************************************************)
CopyIsSaved == \A p \in Creators : IsOpen(p) => NotBeyond(copy[p], store)

(***************************************************************************)
(* The saved checkpoint never moves backward and a finished snapshot stays *)
(* finished, across failed writes, crashes, restarts and deletes.          *)
(***************************************************************************)
CheckpointNeverBackward ==
    [][store # Absent => /\ store'.checkpoint >= store.checkpoint
                         /\ store.finished => store'.finished]_store

\* A snapshot that create loaded is marked finished only with its checkpoint.
FinishedWithCheckpoint ==
    store # Absent /\ store.finished /\ ~IncrementalOnly => store.checkpoint # 0

(***************************************************************************)
(* The backup is a version 1 state that has jobs, and the first one is     *)
(* never overwritten (BindCloudSource).                                    *)
(***************************************************************************)
FirstBackupKept ==
    [][backup'.version = 1 /\ (backup # Absent => backup' = backup)]_backup
=============================================================================
