----------------------------- MODULE ReplState -----------------------------
(***************************************************************************)
(* The replication state of tidb2snowflake (src/pkg/state): one JSON       *)
(* object, replication-state.json, that holds everything a restarted       *)
(* process knows.  This module has the record and the updates of it.  An   *)
(* update is written as the set of states it may produce: one state when   *)
(* the code accepts the call, none when it returns an error.  Who calls    *)
(* them, and what happens when the object store fails, is the business of  *)
(* the modules that extend this one.                                       *)
(***************************************************************************)
EXTENDS Integers

CONSTANTS
    Tables,     \* the configured tables, <schema>.<table>
    Streams,    \* the DML streams of a table: <table version>/<partition>/CDC
    Jobs,       \* ids of export jobs and changefeeds
    NoJob,      \* the empty id
    Sources,    \* TiDB Cloud clusters, as resolved when the state is bound
    NoSource    \* no source_identity

ASSUME IdAssumption == NoJob \notin Jobs /\ NoSource \notin Sources

JobKinds == {"export", "changefeed"}
NoPending == "none"

(***************************************************************************)
(* A DML cursor: the date directory and the file index consumed last.      *)
(* NoCursor stands for a stream that has no entry in the map; it is before *)
(* every real cursor, whose date and index are positive.                   *)
(***************************************************************************)
Cursor == [date : Nat, index : Nat]
NoCursor == [date |-> 0, index |-> 0]

CursorBefore(next, current) ==
    \/ next.date < current.date
    \/ next.date = current.date /\ next.index < current.index

TableState == [watermark : Nat, cursors : [Streams -> Cursor]]

\* version is 1, or CloudVersion = 2 once a source is bound.
State ==
    [version    : {1, 2},
     source     : Sources \cup {NoSource},
     pending    : JobKinds \cup {NoPending},
     checkpoint : Nat,
     finished   : BOOLEAN,
     export     : Jobs \cup {NoJob},
     changefeed : Jobs \cup {NoJob},
     tables     : [Tables -> TableState]]

NewTableState == [watermark |-> 0, cursors |-> [s \in Streams |-> NoCursor]]

NewState(snapshotFinished) ==
    [version    |-> 1,
     source     |-> NoSource,
     pending    |-> NoPending,
     checkpoint |-> 0,
     finished   |-> snapshotFinished,
     export     |-> NoJob,
     changefeed |-> NoJob,
     tables     |-> [t \in Tables |-> NewTableState]]

\* What validateState refuses among the states the model can express.
Valid(st) ==
    /\ st.version = 1 => st.source = NoSource /\ st.pending = NoPending
    /\ st.version = 2 => st.source # NoSource
    /\ st.pending = "export" => st.export = NoJob
    /\ st.pending = "changefeed" => st.changefeed = NoJob

\* Wrong on purpose: the next state is written without validation.
UpdateUnvalidated(accepted, next) == IF accepted THEN {next} ELSE {}

\* update: the caller's function may refuse, then the result is validated.
Update(accepted, next) == IF accepted /\ Valid(next) THEN {next} ELSE {}

----------------------------------------------------------------------------
\* Wrong on purpose: the checkpoint may move backward, or be zero.
CheckpointAnyOrder(st, ts) == ts # 0
CheckpointMayBeZero(st, ts) == ts >= st.checkpoint

CheckpointAccepted(st, ts) == ts # 0 /\ ts >= st.checkpoint

SetCheckpointTS(st, ts) ==
    Update(CheckpointAccepted(st, ts), [st EXCEPT !.checkpoint = ts])

MarkSnapshotFinished(st, ts) ==
    Update(CheckpointAccepted(st, ts),
           [st EXCEPT !.checkpoint = ts, !.finished = TRUE])

\* The watermark only grows: a smaller version is accepted and ignored.
SetDDLTableVersionWatermark(st, t, version) ==
    Update(TRUE, [st EXCEPT !.tables[t].watermark =
                      IF version > @ THEN version ELSE @])

\* cursors is a function from the streams to record to their cursors.
CursorsAccepted(st, t, cursors) ==
    \A s \in DOMAIN cursors : ~CursorBefore(cursors[s], st.tables[t].cursors[s])

\* Wrong on purpose: the map of cursors is replaced, not added to.
SetOnlyTheseCursors(st, t, cursors) ==
    Update(CursorsAccepted(st, t, cursors), [st EXCEPT !.tables[t].cursors = cursors])

SetDMLCursors(st, t, cursors) ==
    Update(CursorsAccepted(st, t, cursors),
           [st EXCEPT !.tables[t].cursors =
               [s \in Streams |->
                   IF s \in DOMAIN cursors THEN cursors[s] ELSE @[s]]])

Without(pending, kind) == IF pending = kind THEN NoPending ELSE pending

SetExportID(st, id) ==
    Update(TRUE, [st EXCEPT !.export = id, !.pending = Without(@, "export")])

SetChangefeedID(st, id) ==
    Update(TRUE, [st EXCEPT !.changefeed = id,
                            !.pending = Without(@, "changefeed")])

ClearChangefeedID(st) == Update(TRUE, [st EXCEPT !.changefeed = NoJob])

\* A state bound to one cluster is never rebound to another.
BindCloudSource(st, source) ==
    Update(st.source \in {NoSource, source},
           [st EXCEPT !.version = 2, !.source = source])

\* No job is created while the outcome of an earlier creation is unknown.
BeginCreate(st, kind) ==
    Update(st.source # NoSource /\ st.pending = NoPending,
           [st EXCEPT !.pending = kind])

ClearPendingCreate(st) == Update(TRUE, [st EXCEPT !.pending = NoPending])
=============================================================================
