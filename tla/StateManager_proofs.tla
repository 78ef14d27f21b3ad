------------------------ MODULE StateManager_proofs ------------------------
(***************************************************************************)
(* Proofs about StateManager, for every set of processes, tables, streams, *)
(* jobs and sources, and every bound.                                      *)
(***************************************************************************)
EXTENDS StateManager, TLAPS

(***************************************************************************)
(* What an update keeps.  Committed(a, b): b has the same checkpoint and   *)
(* phase as a, or later ones; the phase ends only with a checkpoint.       *)
(***************************************************************************)
Committed(a, b) ==
    /\ b.checkpoint >= a.checkpoint
    /\ a.finished => b.finished
    /\ b.finished => a.finished \/ b.checkpoint # 0

SameTables(a, b) == b.tables = a.tables

\* Every result of Update is the state asked for, and validateState takes it.
LEMMA UpdateResult ==
    ASSUME NEW accepted \in BOOLEAN, NEW next, NEW r \in Update(accepted, next)
    PROVE  r = next /\ accepted /\ Valid(r)
BY DEF Update

\* The cursors of a state are ordered with themselves.
LEMMA CursorNotBeforeItself ==
    ASSUME NEW c \in Cursor
    PROVE  ~CursorBefore(c, c)
BY DEF CursorBefore, Cursor

\* A copy of its tables is not beyond a state, if it has its progress.
LEMMA SameTablesNotBeyond ==
    ASSUME NEW a \in State, NEW b \in State, Committed(a, b), SameTables(a, b)
    PROVE  NotBeyond(a, b)
<1>1. \A t \in Tables : a.tables[t].watermark \in Nat
                        /\ \A s \in Streams : a.tables[t].cursors[s] \in Cursor
  BY DEF State, TableState
<1> QED
  BY <1>1, CursorNotBeforeItself DEF NotBeyond, Committed, SameTables, State

\* A new state has the type of a state and opens.
LEMMA NewStateType ==
    ASSUME NEW b \in BOOLEAN
    PROVE  NewState(b) \in State /\ Valid(NewState(b))
BY DEF NewState, State, NewTableState, TableState, NoCursor, Cursor, Valid, JobKinds, NoPending

----------------------------------------------------------------------------
(***************************************************************************)
(* The calls of the command: they leave the tables alone and never take    *)
(* back a checkpoint or a finished snapshot.                               *)
(***************************************************************************)
LEMMA CommandCallResult ==
    ASSUME NEW st \in State, NEW next \in CommandCalls(st)
    PROVE  next \in State /\ Valid(next) /\ Committed(st, next) /\ SameTables(st, next)
<1> USE DEF State, Committed, SameTables
<1>1. CASE \E ts \in 0..MaxTS : next \in SetCheckpointTS(st, ts)
  <2>1. PICK ts \in 0..MaxTS : next \in SetCheckpointTS(st, ts)
    BY <1>1
  <2>2. next = [st EXCEPT !.checkpoint = ts] /\ ts >= st.checkpoint /\ Valid(next)
    BY <2>1 DEF SetCheckpointTS, Update, CheckpointAccepted
  <2> QED BY <2>2, ManagerAssumption DEF ManagerAssumption
<1>2. CASE \E ts \in 0..MaxTS : next \in MarkSnapshotFinished(st, ts)
  <2>1. PICK ts \in 0..MaxTS : next \in MarkSnapshotFinished(st, ts)
    BY <1>2
  <2>2. /\ next = [st EXCEPT !.checkpoint = ts, !.finished = TRUE]
        /\ ts # 0 /\ ts >= st.checkpoint /\ Valid(next)
    BY <2>1 DEF MarkSnapshotFinished, Update, CheckpointAccepted
  <2>3. ts \in Nat
    BY ManagerAssumption DEF ManagerAssumption
  <2>4. next \in State
    BY <2>2, <2>3
  <2> QED BY <2>2, <2>4
<1>3. CASE \E id \in Jobs : next \in SetExportID(st, id)
  <2>1. PICK id \in Jobs : next \in SetExportID(st, id)
    BY <1>3
  <2>2. /\ next = [st EXCEPT !.export = id, !.pending = Without(@, "export")]
        /\ Valid(next)
    BY <2>1 DEF SetExportID, Update
  <2>3. Without(st.pending, "export") \in JobKinds \cup {NoPending}
    BY DEF Without
  <2>4. next \in State
    BY <2>2, <2>3
  <2> QED BY <2>2, <2>4
<1>4. CASE \E id \in Jobs : next \in SetChangefeedID(st, id)
  <2>1. PICK id \in Jobs : next \in SetChangefeedID(st, id)
    BY <1>4
  <2>2. /\ next = [st EXCEPT !.changefeed = id, !.pending = Without(@, "changefeed")]
        /\ Valid(next)
    BY <2>1 DEF SetChangefeedID, Update
  <2>3. Without(st.pending, "changefeed") \in JobKinds \cup {NoPending}
    BY DEF Without
  <2>4. next \in State
    BY <2>2, <2>3
  <2> QED BY <2>2, <2>4
<1>5. CASE \E kind \in JobKinds : next \in BeginCreate(st, kind)
  <2>1. PICK kind \in JobKinds : next \in BeginCreate(st, kind)
    BY <1>5
  <2>2. next = [st EXCEPT !.pending = kind] /\ Valid(next)
    BY <2>1 DEF BeginCreate, Update
  <2> QED BY <2>2
<1>6. CASE next \in ClearPendingCreate(st)
  <2>1. next = [st EXCEPT !.pending = NoPending] /\ Valid(next)
    BY <1>6 DEF ClearPendingCreate, Update
  <2> QED BY <2>1
<1> QED
  BY <1>1, <1>2, <1>3, <1>4, <1>5, <1>6 DEF CommandCalls

(***************************************************************************)
(* The calls of a table's task: they keep the checkpoint and the phase,    *)
(* and the state they start from is not beyond the one they give.          *)
(***************************************************************************)
LEMMA TableCallResult ==
    ASSUME NEW st \in State, NEW t \in Tables, NEW next \in TableCalls(st, t)
    PROVE  /\ next \in State /\ Valid(next)
           /\ next.checkpoint = st.checkpoint /\ next.finished = st.finished
           /\ next.version = st.version
           /\ NotBeyond(st, next)
<1>0. /\ st.tables \in [Tables -> TableState]
      /\ \A u \in Tables : /\ st.tables[u].watermark \in Nat
                           /\ st.tables[u].cursors \in [Streams -> Cursor]
                           /\ st.tables[u] \in TableState
  BY DEF State, TableState
<1>1. CASE \E v \in 1..MaxTS : next \in SetDDLTableVersionWatermark(st, t, v)
  <2>1. PICK v \in 1..MaxTS : next \in SetDDLTableVersionWatermark(st, t, v)
    BY <1>1
  <2> DEFINE w == IF v > st.tables[t].watermark THEN v ELSE st.tables[t].watermark
  <2>2. next = [st EXCEPT !.tables[t].watermark = w] /\ Valid(next)
    BY <2>1 DEF SetDDLTableVersionWatermark, Update
  <2>3. w \in Nat /\ w >= st.tables[t].watermark
    BY <1>0, ManagerAssumption DEF ManagerAssumption
  <2> HIDE DEF w
  <2>4. [st.tables[t] EXCEPT !.watermark = w] \in TableState
    BY <1>0, <2>3 DEF TableState
  <2>5. next.tables = [st.tables EXCEPT ![t] = [@ EXCEPT !.watermark = w]]
    BY <2>2 DEF State
  <2>6. next \in State /\ next.checkpoint = st.checkpoint /\ next.finished = st.finished
    BY <2>2, <2>4, <2>5 DEF State
  <2>7. \A u \in Tables : /\ next.tables[u].watermark >= st.tables[u].watermark
                           /\ next.tables[u].cursors = st.tables[u].cursors
    <3>1. next.tables[t] = [st.tables[t] EXCEPT !.watermark = w]
      BY <1>0, <2>5
    <3>2. \A u \in Tables \ {t} : next.tables[u] = st.tables[u]
      BY <1>0, <2>5
    <3>3. /\ next.tables[t].watermark = w
          /\ next.tables[t].cursors = st.tables[t].cursors
      BY <1>0, <3>1 DEF TableState
    <3> TAKE u \in Tables
    <3>4. CASE u = t
      BY <2>3, <3>3, <3>4
    <3>5. CASE u # t
      <4>1. st.tables[u].watermark \in Nat /\ next.tables[u] = st.tables[u]
        BY <1>0, <3>2, <3>5
      <4> QED BY <4>1
    <3> QED BY <3>4, <3>5
  <2>8. NotBeyond(st, next)
    BY <1>0, <2>6, <2>7, CursorNotBeforeItself DEF NotBeyond, State
  <2> QED BY <2>2, <2>6, <2>8
<1>2. CASE \E x \in Streams, c \in Consumable : next \in SetDMLCursors(st, t, OneCursor(x, c))
  <2>1. PICK x \in Streams, c \in Consumable : next \in SetDMLCursors(st, t, OneCursor(x, c))
    BY <1>2
  <2> DEFINE moved == [s \in Streams |-> IF s = x THEN c ELSE st.tables[t].cursors[s]]
  <2>2. c \in Cursor
    BY ManagerAssumption DEF Consumable, Cursor, ManagerAssumption
  <2>3. /\ next = [st EXCEPT !.tables[t].cursors = moved]
        /\ ~CursorBefore(c, st.tables[t].cursors[x])
        /\ Valid(next)
    BY <2>1 DEF SetDMLCursors, Update, CursorsAccepted, OneCursor
  <2>4. moved \in [Streams -> Cursor]
    BY <1>0, <2>2
  <2>5. \A s \in Streams : ~CursorBefore(moved[s], st.tables[t].cursors[s])
    BY <1>0, <2>3, CursorNotBeforeItself
  <2> HIDE DEF moved
  <2>6. [st.tables[t] EXCEPT !.cursors = moved] \in TableState
    BY <1>0, <2>4 DEF TableState
  <2>7. next.tables = [st.tables EXCEPT ![t] = [@ EXCEPT !.cursors = moved]]
    BY <2>3 DEF State
  <2>8. next \in State /\ next.checkpoint = st.checkpoint /\ next.finished = st.finished
    BY <2>3, <2>6, <2>7 DEF State
  <2>9. \A u \in Tables :
           /\ next.tables[u].watermark = st.tables[u].watermark
           /\ \A s \in Streams :
                 ~CursorBefore(next.tables[u].cursors[s], st.tables[u].cursors[s])
    <3>1. next.tables[t] = [st.tables[t] EXCEPT !.cursors = moved]
      BY <1>0, <2>7
    <3>2. \A u \in Tables \ {t} : next.tables[u] = st.tables[u]
      BY <1>0, <2>7
    <3> QED
      BY <1>0, <2>5, <3>1, <3>2, CursorNotBeforeItself DEF TableState
  <2>10. NotBeyond(st, next)
    BY <1>0, <2>8, <2>9 DEF NotBeyond, State
  <2> QED BY <2>3, <2>8, <2>10
<1> QED
  BY <1>1, <1>2 DEF TableCalls

\* Binding a source keeps the progress.
LEMMA BindResult ==
    ASSUME NEW st \in State, NEW source \in Sources, NEW next \in BindCloudSource(st, source)
    PROVE  next \in State /\ Valid(next) /\ Committed(st, next) /\ SameTables(st, next)
<1>1. next = [st EXCEPT !.version = 2, !.source = source] /\ Valid(next)
  BY DEF BindCloudSource, Update
<1>2. next \in State
  BY <1>1 DEF State
<1> QED BY <1>1, <1>2 DEF State, Committed, SameTables

\* Clearing the changefeed keeps the progress.
LEMMA ClearResult ==
    ASSUME NEW st \in State, NEW next \in ClearChangefeedID(st)
    PROVE  next \in State /\ Valid(next) /\ Committed(st, next) /\ SameTables(st, next)
<1>1. next = [st EXCEPT !.changefeed = NoJob] /\ Valid(next)
  BY DEF ClearChangefeedID, Update
<1> QED BY <1>1 DEF State, Committed, SameTables

----------------------------------------------------------------------------
(***************************************************************************)
(* Types, and a saved state that opens.  The invariant is split by what    *)
(* the actions write: the object, its backup, and the processes.           *)
(***************************************************************************)
StoreOK == store \in State \cup {Absent} /\ SavedStateOpens

BackupOK ==
    backup = Absent \/ backup \in [version : {1, 2}, export : Jobs \cup {NoJob},
                                  changefeed : Jobs \cup {NoJob}]

ProcessesOK ==
    /\ copy \in [Procs -> State \cup {Closed}]
    /\ binding \in [Procs -> Sources \cup {NoSource}]
    /\ stopped \in [Procs -> SUBSET Tables]
    /\ \A p \in Procs : ~IsOpen(p) => binding[p] = NoSource /\ stopped[p] = {}

\* There is something to read before anyone has read it.
OpenNeedsStore == store = Absent => \A p \in Procs : ~IsOpen(p)

Inv == StoreOK /\ BackupOK /\ ProcessesOK /\ faults \in Nat /\ OpenNeedsStore

\* A state is neither the missing object nor the copy of a closed process.
LEMMA StateIsNeither ==
    ASSUME NEW st \in State
    PROVE  st # Absent /\ st # Closed
<1>1. st.version \in {1, 2}
  BY DEF State
<1> QED BY <1>1 DEF Absent, Closed

\* The copy of an open process is a state.
LEMMA OpenCopyIsState ==
    ASSUME ProcessesOK, NEW p \in Procs, IsOpen(p)
    PROVE  copy[p] \in State
BY DEF ProcessesOK, IsOpen

\* A process that goes away leaves the others alone.
LEMMA GoneKeepsProcesses ==
    ASSUME ProcessesOK, NEW p \in Procs, Gone(p)
    PROVE  /\ ProcessesOK'
           /\ ~IsOpen(p)'
           /\ \A q \in Procs \ {p} : copy'[q] = copy[q]
BY DEF ProcessesOK, Gone, IsOpen

\* A process that replaces its copy stays, or comes to be, open.
LEMMA CopyKeepsProcesses ==
    ASSUME ProcessesOK, NEW p \in Procs, NEW next \in State,
           copy' = [copy EXCEPT ![p] = next],
           binding' \in [Procs -> Sources \cup {NoSource}],
           \A q \in Procs \ {p} : binding'[q] = binding[q],
           stopped' = stopped
    PROVE  ProcessesOK'
<1>1. copy' \in [Procs -> State \cup {Closed}]
  BY DEF ProcessesOK
<1>2. copy'[p] # Closed /\ \A q \in Procs \ {p} : copy'[q] = copy[q]
  BY StateIsNeither DEF ProcessesOK
<1> QED
  BY <1>1, <1>2 DEF ProcessesOK, IsOpen

\* The backup is made of the jobs of a state.
LEMMA BackupType ==
    ASSUME NEW st \in State
    PROVE  BackupOf(st) \in [version : {1, 2}, export : Jobs \cup {NoJob},
                             changefeed : Jobs \cup {NoJob}]
BY DEF BackupOf, State

\* Inv has the type invariant and SavedStateOpens.
LEMMA InvHasBoth == Inv => TypeOK /\ SavedStateOpens
BY DEF Inv, StoreOK, BackupOK, ProcessesOK, TypeOK

(***************************************************************************)
(* What a step may do to the object: leave it, create it, or overwrite it  *)
(* with a successor of the copy of an open process.                        *)
(***************************************************************************)
Overwrites(p) ==
    IsOpen(p) /\ store' \in State /\ Valid(store') /\ Committed(copy[p], store')

Creates == store = Absent /\ store' \in State /\ Valid(store')

StoreStep == store' = store \/ Creates \/ \E p \in Procs : Overwrites(p)

LEMMA StoreStepKeepsStore ==
    ASSUME StoreOK, StoreStep
    PROVE  StoreOK'
<1>1. CASE store' = store
  BY <1>1 DEF StoreOK, SavedStateOpens
<1>2. CASE store' # store
  BY <1>2 DEF StoreOK, SavedStateOpens, StoreStep, Creates, Overwrites
<1> QED BY <1>1, <1>2

\* Every step of the managers is a StoreStep that keeps the other types.
LEMMA StepOfManagers ==
    ASSUME Inv, Next
    PROVE  StoreStep /\ BackupOK' /\ ProcessesOK' /\ faults' \in Nat
<1> USE DEF Inv
<1>1. NewState(IncrementalOnly) \in State /\ Valid(NewState(IncrementalOnly))
  BY NewStateType, ManagerAssumption DEF ManagerAssumption
<1>2. ASSUME NEW p \in Procs, Open(p)
      PROVE  StoreStep /\ BackupOK' /\ ProcessesOK' /\ faults' \in Nat
  <2>1. store' = store \/ Creates
    BY <1>1, <1>2 DEF Open, Creates
  <2>2. store' \in State /\ Valid(store')
    BY <1>1, <1>2 DEF Open, StoreOK
  <2>3. ProcessesOK'
    BY <1>2, <2>2, CopyKeepsProcesses DEF Open, ProcessesOK
  <2> QED BY <1>2, <2>1, <2>3 DEF Open, StoreStep, BackupOK
<1>3. ASSUME NEW p \in Procs, OpenFails(p)
      PROVE  StoreStep /\ BackupOK' /\ ProcessesOK' /\ faults' \in Nat
  BY <1>1, <1>3 DEF OpenFails, StoreStep, Creates, BackupOK, ProcessesOK, IsOpen
<1>4. ASSUME NEW p \in Procs, OpenExisting(p)
      PROVE  StoreStep /\ BackupOK' /\ ProcessesOK' /\ faults' \in Nat
  <2>1. ProcessesOK'
    BY <1>4, CopyKeepsProcesses DEF OpenExisting, ProcessesOK, StoreOK
  <2> QED BY <1>4, <2>1 DEF OpenExisting, StoreStep, BackupOK
<1>5. ASSUME NEW p \in Procs, Exit(p)
      PROVE  StoreStep /\ BackupOK' /\ ProcessesOK' /\ faults' \in Nat
  BY <1>5, GoneKeepsProcesses DEF Exit, StoreStep, BackupOK
<1>6. ASSUME NEW p \in Procs, CommandCall(p)
      PROVE  StoreStep /\ BackupOK' /\ ProcessesOK' /\ faults' \in Nat
  <2>1. PICK next \in CommandCalls(copy[p]) : Uploaded(p, next)
    BY <1>6 DEF CommandCall
  <2>2. next \in State /\ Valid(next) /\ Committed(copy[p], next)
    BY <1>6, CommandCallResult, OpenCopyIsState DEF CommandCall, Ready
  <2>3. ProcessesOK'
    BY <1>6, <2>1, <2>2, CopyKeepsProcesses DEF CommandCall, Uploaded, ProcessesOK
  <2> QED
    BY <1>6, <2>1, <2>2, <2>3
       DEF CommandCall, Ready, Uploaded, StoreStep, Overwrites, BackupOK
<1>7. ASSUME NEW p \in Procs, CommandCallFails(p)
      PROVE  StoreStep /\ BackupOK' /\ ProcessesOK' /\ faults' \in Nat
  <2>1. \A next \in CommandCalls(copy[p]) :
           next \in State /\ Valid(next) /\ Committed(copy[p], next)
    BY <1>7, CommandCallResult, OpenCopyIsState DEF CommandCallFails, Ready
  <2>2. StoreStep
    BY <1>7, <2>1 DEF CommandCallFails, Ready, StoreStep, Overwrites
  <2> QED
    BY <1>7, <2>2, GoneKeepsProcesses DEF CommandCallFails, BackupOK
<1>8. ASSUME NEW p \in Procs, NEW t \in Tables, TableCall(p, t)
      PROVE  StoreStep /\ BackupOK' /\ ProcessesOK' /\ faults' \in Nat
  <2>1. PICK next \in TableCalls(copy[p], t) : Uploaded(p, next)
    BY <1>8 DEF TableCall
  <2>2. copy[p] \in State
    BY <1>8, OpenCopyIsState DEF TableCall, Ready
  <2>3. /\ next \in State /\ Valid(next)
        /\ next.checkpoint = copy[p].checkpoint /\ next.finished = copy[p].finished
    BY <2>2, TableCallResult
  <2>4. Committed(copy[p], next)
    BY <2>2, <2>3 DEF Committed, State
  <2>5. ProcessesOK'
    BY <1>8, <2>1, <2>3, CopyKeepsProcesses DEF TableCall, Uploaded, ProcessesOK
  <2> QED
    BY <1>8, <2>1, <2>3, <2>4, <2>5
       DEF TableCall, Ready, Uploaded, StoreStep, Overwrites, BackupOK
<1>9. ASSUME NEW p \in Procs, NEW t \in Tables, TableCallFails(p, t)
      PROVE  StoreStep /\ BackupOK' /\ ProcessesOK' /\ faults' \in Nat
  <2>1. PICK next \in TableCalls(copy[p], t) : UploadFailed(p, next)
    BY <1>9 DEF TableCallFails
  <2>2. copy[p] \in State
    BY <1>9, OpenCopyIsState DEF TableCallFails, Ready
  <2>3. /\ next \in State /\ Valid(next)
        /\ next.checkpoint = copy[p].checkpoint /\ next.finished = copy[p].finished
    BY <2>2, TableCallResult
  <2>4. Committed(copy[p], next)
    BY <2>2, <2>3 DEF Committed, State
  <2>5. StoreStep
    BY <1>9, <2>1, <2>3, <2>4
       DEF TableCallFails, Ready, UploadFailed, StoreStep, Overwrites
  <2>6. ProcessesOK'
    BY <1>9, <2>1 DEF TableCallFails, Ready, UploadFailed, ProcessesOK, IsOpen
  <2> QED
    BY <1>9, <2>1, <2>5, <2>6 DEF TableCallFails, UploadFailed, BackupOK
<1>10. ASSUME NEW p \in Procs, DeleteCall(p)
       PROVE  StoreStep /\ BackupOK' /\ ProcessesOK' /\ faults' \in Nat
  <2>1. store' \in State /\ Valid(store') /\ Committed(copy[p], store')
    BY <1>10, ClearResult, OpenCopyIsState DEF DeleteCall
  <2> QED
    BY <1>10, <2>1, GoneKeepsProcesses DEF DeleteCall, StoreStep, Overwrites, BackupOK
<1>11. ASSUME NEW p \in Procs, NEW source \in Sources, BeginBind(p, source)
       PROVE  StoreStep /\ BackupOK' /\ ProcessesOK' /\ faults' \in Nat
  <2>1. BackupOK'
    <3>1. CASE NeedsBackup(p)
      <4>1. store \in State
        BY <1>11 DEF BeginBind, Ready, StoreOK, OpenNeedsStore
      <4> QED BY <1>11, <3>1, <4>1, BackupType DEF BeginBind, BackupOK
    <3>2. CASE ~NeedsBackup(p)
      BY <1>11, <3>2 DEF BeginBind, BackupOK
    <3> QED BY <3>1, <3>2
  <2>2. ProcessesOK'
    BY <1>11 DEF BeginBind, Ready, ProcessesOK, IsOpen
  <2> QED BY <1>11, <2>1, <2>2 DEF BeginBind, StoreStep
<1>12. ASSUME NEW p \in Procs, Bind(p)
       PROVE  StoreStep /\ BackupOK' /\ ProcessesOK' /\ faults' \in Nat
  <2>1. PICK next \in BindCloudSource(copy[p], binding[p]) : Uploaded(p, next)
    BY <1>12 DEF Bind
  <2>2. binding[p] \in Sources
    BY <1>12 DEF Bind, ProcessesOK
  <2>3. next \in State /\ Valid(next) /\ Committed(copy[p], next)
    BY <1>12, <2>2, BindResult, OpenCopyIsState DEF Bind
  <2>4. ProcessesOK'
    BY <1>12, <2>1, <2>3, CopyKeepsProcesses DEF Bind, Uploaded, ProcessesOK
  <2> QED
    BY <1>12, <2>1, <2>3, <2>4 DEF Bind, Uploaded, StoreStep, Overwrites, BackupOK
<1>13. ASSUME NEW p \in Procs, BindFails(p)
       PROVE  StoreStep /\ BackupOK' /\ ProcessesOK' /\ faults' \in Nat
  <2>1. binding[p] \in Sources
    BY <1>13 DEF BindFails, ProcessesOK
  <2>2. \A next \in BindCloudSource(copy[p], binding[p]) :
           next \in State /\ Valid(next) /\ Committed(copy[p], next)
    BY <1>13, <2>1, BindResult, OpenCopyIsState DEF BindFails
  <2>3. StoreStep
    BY <1>13, <2>2 DEF BindFails, StoreStep, Overwrites
  <2> QED
    BY <1>13, <2>3, GoneKeepsProcesses DEF BindFails, BackupOK
<1> QED
  BY <1>2, <1>3, <1>4, <1>5, <1>6, <1>7, <1>8, <1>9, <1>10, <1>11, <1>12, <1>13
     DEF Next

\* While there is no object, a step that leaves one leaves a new state.
LEMMA NewObject ==
    ASSUME Inv, Next, store = Absent
    PROVE  store' = NewState(IncrementalOnly)
<1>1. \A p \in Procs : ~IsOpen(p)
  BY DEF Inv, OpenNeedsStore
<1>2. PICK p \in Procs : Open(p) \/ OpenFails(p)
  BY <1>1 DEF Next, OpenExisting, Exit, CommandCall, CommandCallFails, TableCall,
              TableCallFails, DeleteCall, BeginBind, Bind, BindFails, Ready
<1> QED BY <1>2 DEF Open, OpenFails

LEMMA FirstStepCreates ==
    ASSUME Inv, Next, store = Absent
    PROVE  Creates
BY NewObject, NewStateType, ManagerAssumption DEF ManagerAssumption, Creates

LEMMA InitInv == Init => Inv
<1> SUFFICES ASSUME Init PROVE Inv
  OBVIOUS
<1>1. ProcessesOK
  BY DEF Init, ProcessesOK
<1> QED
  BY <1>1 DEF Init, Inv, StoreOK, SavedStateOpens, BackupOK, OpenNeedsStore, IsOpen

LEMMA NextInv == Inv /\ [Next]_managerVars => Inv'
<1> SUFFICES ASSUME Inv, [Next]_managerVars PROVE Inv'
  OBVIOUS
<1>1. CASE Next
  <2>1. StoreStep /\ BackupOK' /\ ProcessesOK' /\ faults' \in Nat
    BY <1>1, StepOfManagers
  <2>2. StoreOK'
    BY <2>1, StoreStepKeepsStore DEF Inv
  <2>3. store' # Absent
    <3>1. store' \in State \/ (store' = store /\ store # Absent)
      BY <1>1, <2>1, FirstStepCreates DEF StoreStep, Creates, Overwrites
    <3> QED BY <3>1, StateIsNeither
  <2> QED BY <2>1, <2>2, <2>3 DEF Inv, OpenNeedsStore
<1>2. CASE UNCHANGED managerVars
  BY <1>2 DEF managerVars, Inv, StoreOK, SavedStateOpens, BackupOK, ProcessesOK,
              OpenNeedsStore, IsOpen
<1> QED BY <1>1, <1>2

(***************************************************************************)
(* For every number of processes, overlapping or not, and with any failed  *)
(* write: the object, its backup and the managers' copies have their types *)
(* (pkg/state/state.go, manager.go).                                       *)
(***************************************************************************)
THEOREM TypesHold == Spec => []TypeOK
<1>1. Spec => []Inv
  BY InitInv, NextInv, PTL DEF Spec
<1> QED BY <1>1, InvHasBoth, PTL

(***************************************************************************)
(* A state that was saved passes validateState, so that the next command   *)
(* can open it (update validates before it writes).                        *)
(***************************************************************************)
THEOREM SavedStatesOpen == Spec => []SavedStateOpens
<1>1. Spec => []Inv
  BY InitInv, NextInv, PTL DEF Spec
<1> QED BY <1>1, InvHasBoth, PTL

----------------------------------------------------------------------------
(***************************************************************************)
(* Commands that do not overlap.  At most one process is open, and its     *)
(* copy has the version, the checkpoint and the phase of the object; of a table the     *)
(* object may be ahead, by a write that was reported as failed.            *)
(***************************************************************************)
OneOpen == \A p, q \in Procs : IsOpen(p) /\ IsOpen(q) => p = q

Synced(p) ==
    IsOpen(p) => /\ copy[p].version = store.version
                 /\ copy[p].checkpoint = store.checkpoint
                 /\ copy[p].finished = store.finished
                 /\ NotBeyond(copy[p], store)

Alone == OneOpen /\ \A p \in Procs : Synced(p)

\* When the others are closed, one process decides.
LEMMA AloneFromOne ==
    ASSUME NEW p \in Procs, \A q \in Procs \ {p} : ~IsOpen(q)', Synced(p)'
    PROVE  Alone'
BY DEF Alone, OneOpen, Synced

\* What a state is not beyond.
LEMMA NotBeyondItself ==
    ASSUME NEW st \in State
    PROVE  NotBeyond(st, st) /\ Committed(st, st)
<1>1. Committed(st, st)
  BY DEF Committed, State
<1> QED BY <1>1, SameTablesNotBeyond DEF SameTables

(***************************************************************************)
(* One step of non-overlapping commands, action by action.  The checkpoint *)
(* cannot go back because the copy a call starts from has the checkpoint   *)
(* of the object.                                                          *)
(***************************************************************************)
LEMMA AloneStep ==
    ASSUME Exclusive, Inv, Alone, Next
    PROVE  Alone'
<1> USE DEF Inv
<1>1. Inv'
  BY NextInv
<1>2. ASSUME NEW p \in Procs, IsOpen(p)
      PROVE  \A q \in Procs \ {p} : ~IsOpen(q)
  BY <1>2 DEF Alone, OneOpen
<1>3. ASSUME NEW p \in Procs, Gone(p), \A q \in Procs \ {p} : ~IsOpen(q)
      PROVE  Alone'
  <2>1. \A q \in Procs \ {p} : ~IsOpen(q)'
    BY <1>3, GoneKeepsProcesses DEF IsOpen
  <2> QED
    BY <1>3, <2>1, GoneKeepsProcesses, AloneFromOne DEF Synced
<1>4. ASSUME NEW p \in Procs, store' \in State, copy' = [copy EXCEPT ![p] = store'],
             \A q \in Procs \ {p} : ~IsOpen(q)
      PROVE  Alone'
  <2>1. copy'[p] = store' /\ \A q \in Procs \ {p} : copy'[q] = copy[q]
    BY <1>4 DEF ProcessesOK
  <2>2. Synced(p)'
    BY <1>4, <2>1, NotBeyondItself DEF Synced
  <2>3. \A q \in Procs \ {p} : ~IsOpen(q)'
    BY <1>4, <2>1 DEF IsOpen
  <2> QED BY <2>2, <2>3, AloneFromOne
<1>5. ASSUME NEW p \in Procs, Open(p)
      PROVE  Alone'
  <2>1. store' \in State
    BY <1>5, NewStateType, ManagerAssumption DEF Open, StoreOK, ManagerAssumption
  <2> QED BY <1>4, <1>5, <2>1 DEF Open, MayOpen
<1>6. ASSUME NEW p \in Procs, OpenFails(p)
      PROVE  Alone'
  <2>1. \A q \in Procs : ~IsOpen(q)'
    BY <1>6 DEF OpenFails, MayOpen, IsOpen
  <2> QED BY <2>1 DEF Alone, OneOpen, Synced
<1>7. ASSUME NEW p \in Procs, OpenExisting(p)
      PROVE  Alone'
  <2>1. store' \in State /\ store' = store
    BY <1>7 DEF OpenExisting, StoreOK
  <2> QED BY <1>4, <1>7, <2>1 DEF OpenExisting, MayOpen
<1>8. ASSUME NEW p \in Procs, Exit(p)
      PROVE  Alone'
  BY <1>2, <1>3, <1>8 DEF Exit
<1>9. ASSUME NEW p \in Procs, CommandCall(p)
      PROVE  Alone'
  <2>1. PICK next \in CommandCalls(copy[p]) : Uploaded(p, next)
    BY <1>9 DEF CommandCall
  <2>2. next \in State
    BY <1>9, CommandCallResult, OpenCopyIsState DEF CommandCall, Ready
  <2> QED BY <1>2, <1>4, <1>9, <2>1, <2>2 DEF CommandCall, Ready, Uploaded
<1>10. ASSUME NEW p \in Procs, CommandCallFails(p)
       PROVE  Alone'
  BY <1>2, <1>3, <1>10 DEF CommandCallFails, Ready
<1>11. ASSUME NEW p \in Procs, NEW t \in Tables, TableCall(p, t)
       PROVE  Alone'
  <2>1. PICK next \in TableCalls(copy[p], t) : Uploaded(p, next)
    BY <1>11 DEF TableCall
  <2>2. next \in State
    BY <1>11, TableCallResult, OpenCopyIsState DEF TableCall, Ready
  <2> QED BY <1>2, <1>4, <1>11, <2>1, <2>2 DEF TableCall, Ready, Uploaded
<1>12. ASSUME NEW p \in Procs, NEW t \in Tables, TableCallFails(p, t)
       PROVE  Alone'
  <2>1. PICK next \in TableCalls(copy[p], t) : UploadFailed(p, next)
    BY <1>12 DEF TableCallFails
  <2>2. IsOpen(p) /\ copy[p] \in State
    BY <1>12, OpenCopyIsState DEF TableCallFails, Ready
  <2>3. copy' = copy /\ store' \in {store, next}
    BY <2>1 DEF UploadFailed
  <2>4. Synced(p)'
    <3>1. CASE store' = store
      BY <2>3, <3>1 DEF Alone, Synced, IsOpen
    <3>2. CASE store' = next
      BY <2>2, <2>3, <3>2, TableCallResult DEF Synced
    <3> QED BY <2>3, <3>1, <3>2
  <2>5. \A q \in Procs \ {p} : ~IsOpen(q)'
    BY <1>2, <2>2, <2>3 DEF IsOpen
  <2> QED BY <2>4, <2>5, AloneFromOne
<1>13. ASSUME NEW p \in Procs, DeleteCall(p)
       PROVE  Alone'
  BY <1>2, <1>3, <1>13 DEF DeleteCall
<1>14. ASSUME NEW p \in Procs, NEW source \in Sources, BeginBind(p, source)
       PROVE  Alone'
  BY <1>14 DEF BeginBind, Alone, OneOpen, Synced, IsOpen
<1>15. ASSUME NEW p \in Procs, Bind(p)
       PROVE  Alone'
  <2>1. PICK next \in BindCloudSource(copy[p], binding[p]) : Uploaded(p, next)
    BY <1>15 DEF Bind
  <2>2. binding[p] \in Sources
    BY <1>15 DEF Bind, ProcessesOK
  <2>3. next \in State
    BY <1>15, <2>2, BindResult, OpenCopyIsState DEF Bind
  <2> QED BY <1>2, <1>4, <1>15, <2>1, <2>3 DEF Bind, Uploaded
<1>16. ASSUME NEW p \in Procs, BindFails(p)
       PROVE  Alone'
  BY <1>2, <1>3, <1>16 DEF BindFails
<1> QED
  BY <1>5, <1>6, <1>7, <1>8, <1>9, <1>10, <1>11, <1>12, <1>13, <1>14, <1>15, <1>16
     DEF Next

LEMMA AloneInductive ==
    ASSUME Exclusive
    PROVE  Inv /\ Alone /\ [Next]_managerVars => Alone'
<1> SUFFICES ASSUME Inv, Alone, [Next]_managerVars PROVE Alone'
  OBVIOUS
<1>1. CASE Next
  BY <1>1, AloneStep
<1>2. CASE UNCHANGED managerVars
  BY <1>2 DEF managerVars, Alone, OneOpen, Synced, IsOpen
<1> QED BY <1>1, <1>2

\* A step from there keeps what is committed.
LEMMA StepKeepsCommitted ==
    ASSUME Inv, Alone, [Next]_managerVars, store # Absent
    PROVE  Committed(store, store')
<1>1. store \in State
  BY DEF Inv, StoreOK
<1>2. CASE store' = store
  BY <1>1, <1>2, NotBeyondItself
<1>3. CASE store' # store
  <2>1. Next
    BY <1>3 DEF managerVars
  <2>2. PICK p \in Procs : Overwrites(p)
    BY <1>3, <2>1, StepOfManagers DEF StoreStep, Creates
  <2> QED BY <2>2 DEF Overwrites, Alone, Synced, Committed
<1> QED BY <1>2, <1>3

(***************************************************************************)
(* Of commands that do not overlap, what the running create takes for      *)
(* saved is saved, whichever of its writes fail (update, manager.go).      *)
(***************************************************************************)
THEOREM CopiesAreSaved == Exclusive => (Spec => []CopyIsSaved)
<1> SUFFICES ASSUME Exclusive PROVE Spec => []CopyIsSaved
  OBVIOUS
<1>1. Init => Alone
  BY DEF Init, Alone, OneOpen, Synced, IsOpen
<1>2. Inv /\ Alone /\ [Next]_managerVars => Alone'
  BY AloneInductive
<1>3. Alone => CopyIsSaved
  BY DEF Alone, Synced, CopyIsSaved, Procs
<1> QED BY <1>1, <1>2, <1>3, InitInv, NextInv, PTL DEF Spec

(***************************************************************************)
(* Of commands that do not overlap, none takes back a saved checkpoint or  *)
(* a finished snapshot, whatever fails or is restarted (SetCheckpointTS,   *)
(* MarkSnapshotFinished).  Overlapping commands do: run state_delete.      *)
(***************************************************************************)
THEOREM CheckpointsGrow == Exclusive => (Spec => CheckpointNeverBackward)
<1> SUFFICES ASSUME Exclusive PROVE Spec => CheckpointNeverBackward
  OBVIOUS
<1> DEFINE Kept == store # Absent => /\ store'.checkpoint >= store.checkpoint
                                     /\ store.finished => store'.finished
<1>1. Init => Alone
  BY DEF Init, Alone, OneOpen, Synced, IsOpen
<1>2. Inv /\ Alone /\ [Next]_managerVars => Alone'
  BY AloneInductive
<1>3. Inv /\ Alone /\ [Next]_managerVars => [Kept]_store
  BY StepKeepsCommitted DEF Committed
<1> QED BY <1>1, <1>2, <1>3, InitInv, NextInv, PTL DEF Spec, CheckpointNeverBackward

(***************************************************************************)
(* Of commands that do not overlap, the backup is made once, of a version  *)
(* 1 object, and stays as it is (BindCloudSource): the copy that decides   *)
(* has the version of the object that is copied.                           *)
(***************************************************************************)
THEOREM FirstBackupStays == Exclusive => (Spec => FirstBackupKept)
<1> SUFFICES ASSUME Exclusive PROVE Spec => FirstBackupKept
  OBVIOUS
<1> DEFINE Kept == /\ backup'.version = 1
                   /\ backup # Absent => backup' = backup
<1>1. Init => Alone
  BY DEF Init, Alone, OneOpen, Synced, IsOpen
<1>2. Inv /\ Alone /\ [Next]_managerVars => Alone'
  BY AloneInductive
<1>3. Inv /\ Alone /\ [Next]_managerVars => [Kept]_backup
  <2> SUFFICES ASSUME Inv, Alone, [Next]_managerVars, backup' # backup PROVE Kept
    OBVIOUS
  <2>1. Next
    BY DEF managerVars
  <2>2. PICK p \in Procs, source \in Sources : BeginBind(p, source)
    BY <2>1 DEF Next, Open, OpenFails, OpenExisting, Exit, CommandCall,
       CommandCallFails, TableCall, TableCallFails, DeleteCall, Bind, BindFails,
       Uploaded, UploadFailed
  <2>3. NeedsBackup(p) /\ backup' = BackupOf(store)
    BY <2>2 DEF BeginBind
  <2>4. store.version = 1
    BY <2>2, <2>3 DEF BeginBind, Ready, NeedsBackup, Alone, Synced
  <2> QED BY <2>3, <2>4 DEF NeedsBackup, BackupOf
<1> QED BY <1>1, <1>2, <1>3, InitInv, NextInv, PTL DEF Spec, FirstBackupKept

----------------------------------------------------------------------------
(***************************************************************************)
(* The phase and the checkpoint.                                           *)
(***************************************************************************)
Earned(st) == st.finished /\ ~IncrementalOnly => st.checkpoint # 0

AllEarned ==
    /\ store # Absent => Earned(store)
    /\ \A p \in Procs : IsOpen(p) => Earned(copy[p])

\* A copy stays, goes with its process, or becomes what is saved.
LEMMA CopyStep ==
    ASSUME ProcessesOK, Next, NEW p \in Procs
    PROVE  copy'[p] \in {copy[p], Closed, store'}
<1>1. ASSUME NEW q \in Procs, NEW c, c \in {Closed, store'}, copy' = [copy EXCEPT ![q] = c]
      PROVE  copy'[p] \in {copy[p], Closed, store'}
  BY <1>1 DEF ProcessesOK
<1>2. PICK q \in Procs :
          \/ Open(q) \/ OpenFails(q) \/ OpenExisting(q) \/ Exit(q)
          \/ CommandCall(q) \/ CommandCallFails(q)
          \/ \E t \in Tables : TableCall(q, t) \/ TableCallFails(q, t)
          \/ DeleteCall(q)
          \/ \E source \in Sources : BeginBind(q, source)
          \/ Bind(q) \/ BindFails(q)
  BY DEF Next
<1>3. CASE Open(q) \/ OpenExisting(q)
  BY <1>1, <1>3 DEF Open, OpenExisting
<1>4. CASE Exit(q) \/ CommandCallFails(q) \/ DeleteCall(q) \/ BindFails(q)
  BY <1>1, <1>4 DEF Exit, CommandCallFails, DeleteCall, BindFails, Gone
<1>5. CASE CommandCall(q) \/ (\E t \in Tables : TableCall(q, t)) \/ Bind(q)
  BY <1>1, <1>5 DEF CommandCall, TableCall, Bind, Uploaded
<1>6. CASE OpenFails(q) \/ (\E t \in Tables : TableCallFails(q, t))
               \/ \E source \in Sources : BeginBind(q, source)
  BY <1>6 DEF OpenFails, TableCallFails, BeginBind, UploadFailed
<1> QED BY <1>2, <1>3, <1>4, <1>5, <1>6

\* A successor of a state that has earned its phase has earned it.
LEMMA EarnedByCommitted ==
    ASSUME NEW a \in State, NEW b \in State, Committed(a, b), Earned(a)
    PROVE  Earned(b)
BY DEF Committed, Earned, State

LEMMA AllEarnedInductive == Inv /\ AllEarned /\ [Next]_managerVars => AllEarned'
<1> SUFFICES ASSUME Inv, AllEarned, [Next]_managerVars PROVE AllEarned'
  OBVIOUS
<1>1. CASE Next
  <2>1. store' # Absent => Earned(store')
    <3>1. StoreStep
      BY <1>1, StepOfManagers
    <3>2. CASE store' = store
      BY <3>2 DEF AllEarned
    <3>3. CASE Creates
      <4>1. store' = NewState(IncrementalOnly)
        BY <1>1, <3>3, NewObject DEF Creates
      <4> QED BY <4>1 DEF Earned, NewState
    <3>4. ASSUME NEW p \in Procs, Overwrites(p)
          PROVE  Earned(store')
      <4>1. copy[p] \in State
        BY <3>4, OpenCopyIsState DEF Overwrites, Inv
      <4> QED BY <3>4, <4>1, EarnedByCommitted DEF Overwrites, AllEarned
    <3> QED BY <3>1, <3>2, <3>3, <3>4 DEF StoreStep
  <2>2. ASSUME NEW p \in Procs, IsOpen(p)'
        PROVE  Earned(copy'[p])
    <3>1. copy'[p] \in {copy[p], store'} /\ copy'[p] # Closed
      BY <1>1, <2>2, CopyStep DEF Inv, IsOpen
    <3>2. CASE copy'[p] = copy[p]
      BY <3>1, <3>2 DEF AllEarned, IsOpen
    <3>3. CASE copy'[p] = store'
      <4>1. store' # Absent
        BY <1>1, <2>2, NextInv DEF Inv, OpenNeedsStore
      <4> QED BY <2>1, <3>3, <4>1
    <3> QED BY <3>1, <3>2, <3>3
  <2> QED BY <2>1, <2>2 DEF AllEarned, Earned
<1>2. CASE UNCHANGED managerVars
  BY <1>2 DEF managerVars, AllEarned, Earned, IsOpen
<1> QED BY <1>1, <1>2

(***************************************************************************)
(* Unless create was told that there is no snapshot to load, a state that  *)
(* says the snapshot is finished has its checkpoint, overlapping commands  *)
(* or not (MarkSnapshotFinished saves both in one object).                 *)
(***************************************************************************)
THEOREM FinishedHasCheckpoint == Spec => []FinishedWithCheckpoint
<1>1. Init => AllEarned
  BY DEF Init, AllEarned, IsOpen
<1>2. AllEarned => FinishedWithCheckpoint
  BY DEF AllEarned, Earned, FinishedWithCheckpoint
<1> QED BY <1>1, <1>2, AllEarnedInductive, InitInv, NextInv, PTL DEF Spec
=============================================================================
