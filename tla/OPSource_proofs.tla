-------------------------- MODULE OPSource_proofs --------------------------
(***************************************************************************)
(* Proofs about OPSource, for every set of tables, files and changefeeds,  *)
(* and every bound: the types, that only an interrupted creation leaves a  *)
(* changefeed nothing names, that a finished snapshot holds every file of  *)
(* one dump once, and that Snowflake has every row up to the checkpoint.   *)
(***************************************************************************)
EXTENDS OPSource, TLAPS

(***************************************************************************)
(* What the calls on the state change.                                     *)
(***************************************************************************)
Same(a, b) ==
    /\ a.changefeed = b.changefeed /\ a.finished = b.finished
    /\ a.checkpoint = b.checkpoint

LEMMA NewStateFacts ==
    ASSUME NEW b \in BOOLEAN
    PROVE  /\ NewState(b) \in State
           /\ NewState(b).changefeed = NoJob /\ NewState(b).finished = b
           /\ NewState(b).checkpoint = 0
BY DEF NewState, State, NewTableState, TableState, NoCursor, Cursor, JobKinds, NoPending

LEMMA NotAState == Absent \notin State /\ Closed \notin State
BY DEF Absent, Closed, State

LEMMA SetCheckpointFacts ==
    ASSUME NEW st \in State, NEW ts \in Nat, NEW r \in SetCheckpointTS(st, ts)
    PROVE  /\ r \in State /\ r.checkpoint = ts
           /\ r.changefeed = st.changefeed /\ r.finished = st.finished
<1>1. r = [st EXCEPT !.checkpoint = ts]
  BY DEF SetCheckpointTS, Update
<1> QED BY <1>1 DEF State

LEMMA MarkFacts ==
    ASSUME NEW st \in State, NEW ts \in Nat, NEW r \in MarkSnapshotFinished(st, ts)
    PROVE  /\ r \in State /\ r.checkpoint = ts /\ ts # 0
           /\ r.changefeed = st.changefeed /\ r.finished
<1>1. r = [st EXCEPT !.checkpoint = ts, !.finished = TRUE] /\ ts # 0
  BY DEF MarkSnapshotFinished, Update, CheckpointAccepted
<1>2. r \in State
  BY <1>1 DEF State
<1> QED BY <1>1, <1>2 DEF State

LEMMA SetFeedFacts ==
    ASSUME NEW st \in State, NEW id \in Jobs, NEW r \in SetChangefeedID(st, id)
    PROVE  /\ r \in State /\ r.changefeed = id
           /\ r.checkpoint = st.checkpoint /\ r.finished = st.finished
<1>1. r = [st EXCEPT !.changefeed = id, !.pending = Without(@, "changefeed")]
  BY DEF SetChangefeedID, Update
<1>2. Without(st.pending, "changefeed") \in JobKinds \cup {NoPending}
  BY DEF Without, State
<1> QED BY <1>1, <1>2 DEF State

LEMMA ClearFeedFacts ==
    ASSUME NEW st \in State, NEW r \in ClearChangefeedID(st)
    PROVE  /\ r \in State /\ r.changefeed = NoJob
           /\ r.checkpoint = st.checkpoint /\ r.finished = st.finished
<1>1. r = [st EXCEPT !.changefeed = NoJob]
  BY DEF ClearChangefeedID, Update
<1> QED BY <1>1 DEF State

----------------------------------------------------------------------------
(***************************************************************************)
(* The process: its copy is what is saved, an answer is held only until it *)
(* is recorded, and what is to be deleted is named until it is gone.       *)
(***************************************************************************)
CopyIsStored == pc # "down" => mem \in State /\ store = mem

AnswerIsHeld ==
    /\ pc = "set changefeed" => mem.changefeed = NoJob /\ answered \in Jobs
    /\ answered # NoJob => pc = "set changefeed"

DeletionIsNamed ==
    /\ pc \in {"delete", "clear"} => mem.changefeed \in Jobs
    /\ pc = "clear" => feeds[mem.changefeed].state = "deleted"

FeedInv ==
    /\ TypeOK /\ CopyIsStored /\ AnswerIsHeld /\ DeletionIsNamed
    /\ OnlyInterruptedFeedsAreLost

LEMMA InitFeedInv == Init => FeedInv
<1> SUFFICES ASSUME Init PROVE FeedInv
  OBVIOUS
<1> USE OPAssumption, IdAssumption DEF OPAssumption, IdAssumption
<1>1. /\ store = Absent /\ pc = "down" /\ mem = Closed /\ mode = "all"
      /\ conf \in Nat /\ start = 0 /\ answered = NoJob /\ performed = {} /\ now = 1
      /\ lost = {} /\ metadata = 0 /\ created = {} /\ reached = 0 /\ faults = 0
  BY DEF Init
<1>2. feeds \in [Jobs -> [state : {"none", "running", "stopped", "deleted"},
                          tso : Nat, upto : Nat]]
      /\ \A j \in Jobs : feeds[j].state = "none"
  BY DEF Init, NoFeedYet
<1>3. dump \in [tso : Nat, files : [Files -> Nat]]
  BY DEF Init, NoFiles
<1>4. copies \in [Files -> [times : Nat, tso : Nat]]
  BY DEF Init, NoCopy
<1>5. TypeOK
  BY <1>1, <1>2, <1>3, <1>4 DEF TypeOK
<1>6. OnlyInterruptedFeedsAreLost
  BY <1>2 DEF OnlyInterruptedFeedsAreLost, Running
<1> QED BY <1>1, <1>5, <1>6 DEF FeedInv, CopyIsStored, AnswerIsHeld, DeletionIsNamed

LEMMA StepType == FeedInv /\ Next => TypeOK'
<1> SUFFICES ASSUME FeedInv, Next PROVE TypeOK'
  OBVIOUS
<1> USE OPAssumption, IdAssumption, NotAState DEF OPAssumption
<1>t. TypeOK /\ CopyIsStored /\ AnswerIsHeld /\ DeletionIsNamed
  BY DEF FeedInv
<1> USE <1>t DEF Goto, At
<1>1. CASE Crash
  BY <1>1 DEF Crash, Stopped, Fault, warehouseVars, TypeOK, CopyIsStored, Stages
<1>2. CASE SkipSnapshot
  BY <1>2 DEF SkipSnapshot, Kept, Idle, Elsewhere, AfterSnapshot, warehouseVars, TypeOK, CopyIsStored, Stages
<1>3. CASE BeginDump
  BY <1>3 DEF BeginDump, Kept, Elsewhere, warehouseVars, TypeOK, CopyIsStored, Stages
<1>4. CASE DumpEnds
  BY <1>4 DEF DumpEnds, Kept, AfterSnapshot, warehouseVars, TypeOK, CopyIsStored, Stages
<1>5. CASE ReuseFeed
  BY <1>5 DEF ReuseFeed, Kept, Idle, Elsewhere, warehouseVars, TypeOK, CopyIsStored, Stages
<1>6. CASE BeginLoad
  BY <1>6 DEF BeginLoad, Kept, Idle, Elsewhere, warehouseVars, TypeOK, CopyIsStored, Stages
<1>7. CASE StageEnds
  BY <1>7 DEF StageEnds, Kept, Elsewhere, warehouseVars, TypeOK, CopyIsStored, Stages
<1>8. CASE GiveUp
  BY <1>8 DEF GiveUp, Stopped, Elsewhere, warehouseVars, TypeOK, CopyIsStored, Stages
<1>9. CASE Delete
  BY <1>9 DEF Delete, Idle, Elsewhere, warehouseVars, TypeOK, CopyIsStored, Stages
<1>10. CASE DeleteFeed
  <2>1. feeds' \in [Jobs -> [state : {"none", "running", "stopped", "deleted"},
                             tso : Nat, upto : Nat]]
    BY <1>10 DEF DeleteFeed, DeletionIsNamed, TypeOK
  <2>2. \/ pc' = "clear" /\ Kept /\ Idle /\ UNCHANGED faults
        \/ Fault /\ Stopped
    BY <1>10 DEF DeleteFeed
  <2> QED
    BY <1>10, <2>1, <2>2 DEF DeleteFeed, Kept, Idle, Fault, Stopped, warehouseVars, TypeOK, CopyIsStored, Stages
<1>11. CASE DeleteFails
  BY <1>11 DEF DeleteFails, Stopped, Elsewhere, warehouseVars, TypeOK, CopyIsStored, Stages
<1>12. CASE Tick
  BY <1>12 DEF Tick, Outside, processVars, warehouseVars, TypeOK, CopyIsStored, Stages
<1>13. CASE EmptyPrefix
  BY <1>13 DEF EmptyPrefix, NoFiles, processVars, warehouseVars, TypeOK, CopyIsStored, Stages
<1>14. CASE \E m \in Modes, tso \in ConfigTSOs : Create(m, tso)
  <2>1. PICK m \in Modes, tso \in ConfigTSOs : Create(m, tso)
    BY <1>14
  <2>2. store' \in State /\ mem' = store' /\ pc' \in {"changefeed", "snapshot"}
    BY <2>1, NewStateFacts DEF Create, TypeOK
  <2> QED BY <2>1, <2>2 DEF Create, Idle, Elsewhere, warehouseVars, TypeOK, CopyIsStored, Stages
<1>15. ASSUME NEW f \in Files, DumpFile(f) PROVE TypeOK'
  <2>1. dump' \in [tso : Nat, files : [Files -> Nat]]
    BY <1>15 DEF DumpFile, TypeOK
  <2> QED BY <1>15, <2>1 DEF DumpFile, processVars, warehouseVars, TypeOK, CopyIsStored, Stages
<1>16. ASSUME NEW j \in Jobs, NEW arrives \in BOOLEAN, PostFeed(j, arrives) PROVE TypeOK'
  <2>1. Begun(StartTSO) \in Nat
    BY <1>16 DEF PostFeed, Begun, StartTSO, State, TypeOK, CopyIsStored, Stages
  <2>2. feeds' \in [Jobs -> [state : {"none", "running", "stopped", "deleted"},
                             tso : Nat, upto : Nat]]
    BY <1>16, <2>1 DEF PostFeed, TypeOK
  <2>3. metadata' \in Nat
    BY <1>16, <2>1 DEF PostFeed, TypeOK
  <2>4. CASE arrives
    BY <1>16, <2>2, <2>3, <2>4 DEF PostFeed, Kept, warehouseVars, TypeOK, CopyIsStored, Stages
  <2>5. CASE ~arrives
    BY <1>16, <2>2, <2>3, <2>5 DEF PostFeed, Fault, Stopped, warehouseVars, TypeOK, CopyIsStored, Stages
  <2> QED BY <2>4, <2>5
<1>17. CASE RecordFeed
  <2>1. store' \in State /\ mem' = store' /\ pc' = "load"
    <3>1. mem \in State /\ answered \in Jobs
      BY <1>17 DEF RecordFeed, CopyIsStored, AnswerIsHeld
    <3>2. PICK next \in SetChangefeedID(mem, answered) : mem' = next /\ store' = next
      BY <1>17 DEF RecordFeed, Save
    <3>3. next \in State
      BY <3>1, <3>2, SetFeedFacts
    <3> QED BY <1>17, <3>2, <3>3 DEF RecordFeed, Save
  <2> QED BY <1>17, <2>1 DEF RecordFeed, Elsewhere, warehouseVars, TypeOK, CopyIsStored, Stages
<1>18. CASE MarkFinished
  <2>1. store' \in State /\ mem' = store' /\ pc' \in {"scan", "done"}
    BY <1>18, MarkFacts DEF MarkFinished, Save, CopyIsStored, TypeOK
  <2>2. reached' \in Nat
    BY <1>18 DEF MarkFinished, ReachedByCopies, TypeOK
  <2> QED BY <1>18, <2>1, <2>2 DEF MarkFinished, TypeOK, CopyIsStored, Stages
<1>19. CASE Scan
  <2>1. store' \in State /\ mem' = store' /\ pc' = "scan"
    BY <1>19, SetCheckpointFacts DEF Scan, Save, CopyIsStored, TypeOK
  <2>2. reached' \in Nat
    BY <1>19 DEF Scan, TypeOK
  <2> QED BY <1>19, <2>1, <2>2 DEF Scan, TypeOK, CopyIsStored, Stages
<1>20. ASSUME NEW t \in Tables, NEW isLost \in BOOLEAN, PrepareTable(t, isLost) PROVE TypeOK'
  <2>1. /\ copies' \in [Files -> [times : Nat, tso : Nat]]
        /\ created' \subseteq Tables /\ reached' \in Nat
    BY <1>20 DEF PrepareTable, Replaced, NoCopy, TypeOK
  <2> QED BY <1>20, <2>1 DEF PrepareTable, Executed, Fault, Stopped, Kept, TypeOK, CopyIsStored, Stages
<1>21. ASSUME NEW f \in Files, NEW isLost \in BOOLEAN, CopyFile(f, isLost) PROVE TypeOK'
  <2>1. /\ copies' \in [Files -> [times : Nat, tso : Nat]]
        /\ created' \subseteq Tables /\ reached' \in Nat
    BY <1>21 DEF CopyFile, Copied, TypeOK
  <2> QED BY <1>21, <2>1 DEF CopyFile, Executed, Fault, Stopped, Kept, TypeOK, CopyIsStored, Stages
<1>22. CASE SaveFails
  <2>0. Fault /\ Stopped /\ UNCHANGED <<now, feeds, lost, dump, metadata, created, copies>>
    BY <1>22 DEF SaveFails
  <2>1. CASE pc = "set changefeed" /\ store' \in SetChangefeedID(mem, answered) /\ reached' = reached
    <3>1. mem \in State /\ answered \in Jobs
      BY <2>1 DEF CopyIsStored, AnswerIsHeld
    <3>2. store' \in State
      BY <2>1, <3>1, SetFeedFacts
    <3>3. reached' \in Nat
      BY <2>1 DEF TypeOK
    <3> QED BY <2>0, <3>2, <3>3 DEF Fault, Stopped, TypeOK, CopyIsStored, Stages
  <2>2. CASE /\ pc = "mark" /\ store' \in MarkSnapshotFinished(mem, dump.tso)
             /\ reached' = ReachedByCopies
    <3>1. dump.tso \in Nat /\ mem \in State
      BY <2>2 DEF CopyIsStored, TypeOK
    <3>2. store' \in State
      BY <2>2, <3>1, MarkFacts
    <3>3. reached' \in Nat
      BY <2>2, <3>1 DEF ReachedByCopies
    <3> QED BY <2>0, <3>2, <3>3 DEF Fault, Stopped, TypeOK, CopyIsStored, Stages
  <2> QED BY <1>22, <2>1, <2>2 DEF SaveFails
<1>23. CASE ClearFeed
  <2>1. store' \in State
    BY <1>23, ClearFeedFacts DEF ClearFeed, Clears, CopyIsStored
  <2> QED BY <1>23, <2>1 DEF ClearFeed, Stopped, Elsewhere, warehouseVars, TypeOK, CopyIsStored, Stages
<1>24. ASSUME NEW j \in Jobs, FeedDelivers(j) PROVE TypeOK'
  <2>1. PICK ts \in (feeds[j].upto + 1)..now :
            feeds' = [feeds EXCEPT ![j].upto = ts] /\ metadata' = ts
    BY <1>24 DEF FeedDelivers
  <2>2. ts \in Nat /\ feeds' \in [Jobs -> [state : {"none", "running", "stopped", "deleted"},
                                          tso : Nat, upto : Nat]]
    BY <2>1 DEF TypeOK
  <2> QED BY <1>24, <2>1, <2>2 DEF FeedDelivers, Outside, processVars, warehouseVars, TypeOK, CopyIsStored, Stages
<1>25. ASSUME NEW j \in Jobs, FeedStops(j) PROVE TypeOK'
  BY <1>25 DEF FeedStops, Fault, Outside, processVars, warehouseVars, TypeOK, CopyIsStored, Stages
<1> QED
  BY <1>1, <1>2, <1>3, <1>4, <1>5, <1>6, <1>7, <1>8, <1>9, <1>10, <1>11, <1>12, <1>13,
     <1>14, <1>15, <1>16, <1>17, <1>18, <1>19, <1>20, <1>21, <1>22, <1>23, <1>24, <1>25
  DEF Next, CreateNext, DeleteNext, OutsideNext

LEMMA StepFeed ==
    FeedInv /\ Next =>
        /\ CopyIsStored' /\ AnswerIsHeld' /\ DeletionIsNamed'
        /\ OnlyInterruptedFeedsAreLost'
<1> DEFINE Kind == {"none", "running", "stopped", "deleted"}
           Goal == /\ CopyIsStored' /\ AnswerIsHeld' /\ DeletionIsNamed'
                   /\ OnlyInterruptedFeedsAreLost'
<1> SUFFICES ASSUME FeedInv, Next PROVE Goal
  OBVIOUS
<1> HIDE DEF Goal
<1>t. /\ CopyIsStored /\ AnswerIsHeld /\ DeletionIsNamed
      /\ OnlyInterruptedFeedsAreLost
  BY DEF FeedInv
<1>y. /\ answered \in Jobs \cup {NoJob} /\ dump.tso \in Nat /\ metadata \in Nat
      /\ feeds \in [Jobs -> [state : Kind, tso : Nat, upto : Nat]]
  BY DEF FeedInv, TypeOK
<1> USE <1>t, IdAssumption DEF Goto, At
<1>1. CASE Crash
  BY <1>1 DEF Goal, Crash, Stopped, CopyIsStored, AnswerIsHeld, DeletionIsNamed, OnlyInterruptedFeedsAreLost, Running
<1>2. CASE SkipSnapshot
  BY <1>2 DEF Goal, SkipSnapshot, Kept, Idle, Elsewhere, AfterSnapshot, CopyIsStored, AnswerIsHeld, DeletionIsNamed, OnlyInterruptedFeedsAreLost, Running
<1>3. CASE BeginDump
  BY <1>3 DEF Goal, BeginDump, Kept, Elsewhere, CopyIsStored, AnswerIsHeld, DeletionIsNamed, OnlyInterruptedFeedsAreLost, Running
<1>4. CASE DumpEnds
  BY <1>4 DEF Goal, DumpEnds, Kept, AfterSnapshot, CopyIsStored, AnswerIsHeld, DeletionIsNamed, OnlyInterruptedFeedsAreLost, Running
<1>5. CASE ReuseFeed
  BY <1>5 DEF Goal, ReuseFeed, Kept, Idle, Elsewhere, CopyIsStored, AnswerIsHeld, DeletionIsNamed, OnlyInterruptedFeedsAreLost, Running
<1>6. CASE BeginLoad
  BY <1>6 DEF Goal, BeginLoad, Kept, Idle, Elsewhere, CopyIsStored, AnswerIsHeld, DeletionIsNamed, OnlyInterruptedFeedsAreLost, Running
<1>7. CASE StageEnds
  BY <1>7 DEF Goal, StageEnds, Kept, Elsewhere, CopyIsStored, AnswerIsHeld, DeletionIsNamed, OnlyInterruptedFeedsAreLost, Running
<1>8. CASE GiveUp
  BY <1>8 DEF Goal, GiveUp, Stopped, Elsewhere, CopyIsStored, AnswerIsHeld, DeletionIsNamed, OnlyInterruptedFeedsAreLost, Running
<1>9. CASE DeleteFails
  BY <1>9 DEF Goal, DeleteFails, Stopped, Elsewhere, CopyIsStored, AnswerIsHeld, DeletionIsNamed, OnlyInterruptedFeedsAreLost, Running
<1>10. CASE Tick
  BY <1>10 DEF Goal, Tick, Outside, processVars, CopyIsStored, AnswerIsHeld, DeletionIsNamed, OnlyInterruptedFeedsAreLost, Running
<1>11. CASE EmptyPrefix
  BY <1>11 DEF Goal, EmptyPrefix, processVars, CopyIsStored, AnswerIsHeld, DeletionIsNamed, OnlyInterruptedFeedsAreLost, Running
<1>12. CASE \E m \in Modes, tso \in ConfigTSOs : Create(m, tso)
  <2>1. PICK m \in Modes, tso \in ConfigTSOs : Create(m, tso)
    BY <1>12
  <2>2. /\ store' \in State /\ mem' = store'
        /\ pc = "down" /\ pc' \in {"changefeed", "snapshot"}
        /\ store # Absent => store' = store
    BY <2>1, NewStateFacts DEF Create, FeedInv, TypeOK
  <2>3. answered' = answered /\ feeds' = feeds /\ lost' = lost
    BY <2>1 DEF Create, Idle, Elsewhere
  <2> QED BY <2>2, <2>3, NotAState DEF Goal, CopyIsStored, AnswerIsHeld, DeletionIsNamed, OnlyInterruptedFeedsAreLost, Running
<1>13. ASSUME NEW f \in Files, DumpFile(f) PROVE Goal
  BY <1>13 DEF Goal, DumpFile, processVars, CopyIsStored, AnswerIsHeld, DeletionIsNamed, OnlyInterruptedFeedsAreLost, Running
<1>14. ASSUME NEW j \in Jobs, NEW arrives \in BOOLEAN, PostFeed(j, arrives) PROVE Goal
  <2>1. /\ pc = "changefeed" /\ store' = store /\ mem.changefeed = NoJob
        /\ \A k \in Jobs \ {j} : feeds'[k] = feeds[k]
    BY <1>14, <1>y DEF PostFeed
  <2>2. CASE arrives
    <3>1. answered' = j /\ pc' = "set changefeed" /\ lost' = lost /\ mem' = mem
      BY <1>14, <2>2 DEF PostFeed, Kept
    <3> QED BY <2>1, <3>1 DEF Goal, CopyIsStored, AnswerIsHeld, DeletionIsNamed, OnlyInterruptedFeedsAreLost, Running
  <2>3. CASE ~arrives
    <3>1. answered' = NoJob /\ pc' = "down" /\ lost' = lost \cup {j}
      BY <1>14, <2>3 DEF PostFeed, Stopped
    <3> QED BY <2>1, <3>1 DEF Goal, CopyIsStored, AnswerIsHeld, DeletionIsNamed, OnlyInterruptedFeedsAreLost, Running
  <2> QED BY <2>2, <2>3
<1>15. CASE RecordFeed
  <2>1. mem \in State /\ answered \in Jobs /\ mem.changefeed = NoJob /\ store = mem
    BY <1>15 DEF RecordFeed, CopyIsStored, AnswerIsHeld
  <2>2. PICK next \in SetChangefeedID(mem, answered) :
            mem' = next /\ store' = next /\ pc' = "load"
    BY <1>15 DEF RecordFeed, Save
  <2>3. next \in State /\ next.changefeed = answered
    BY <2>1, <2>2, SetFeedFacts
  <2>4. answered' = NoJob /\ lost' = lost /\ feeds' = feeds
    BY <1>15 DEF RecordFeed, Elsewhere
  <2> QED BY <2>1, <2>2, <2>3, <2>4, NotAState DEF Goal, CopyIsStored, AnswerIsHeld, DeletionIsNamed, OnlyInterruptedFeedsAreLost, Running
<1>16. CASE MarkFinished
  <2>1. mem \in State /\ store = mem /\ pc = "mark"
    BY <1>16 DEF MarkFinished, CopyIsStored
  <2>2. PICK next \in MarkSnapshotFinished(mem, dump.tso) :
            mem' = next /\ store' = next /\ pc' \in {"scan", "done"}
    BY <1>16 DEF MarkFinished, Save
  <2>3. next \in State /\ next.changefeed = mem.changefeed
    BY <1>y, <2>1, <2>2, MarkFacts
  <2>4. answered' = answered /\ lost' = lost /\ feeds' = feeds
    BY <1>16 DEF MarkFinished
  <2> QED BY <2>1, <2>2, <2>3, <2>4, NotAState DEF Goal, CopyIsStored, AnswerIsHeld, DeletionIsNamed, OnlyInterruptedFeedsAreLost, Running
<1>17. CASE Scan
  <2>1. mem \in State /\ store = mem /\ pc = "scan"
    BY <1>17 DEF Scan, CopyIsStored
  <2>2. PICK next \in SetCheckpointTS(mem, metadata) :
            mem' = next /\ store' = next /\ pc' = "scan"
    BY <1>17 DEF Scan, Save
  <2>3. next \in State /\ next.changefeed = mem.changefeed
    BY <1>y, <2>1, <2>2, SetCheckpointFacts
  <2>4. answered' = answered /\ lost' = lost /\ feeds' = feeds
    BY <1>17 DEF Scan
  <2> QED BY <2>1, <2>2, <2>3, <2>4, NotAState DEF Goal, CopyIsStored, AnswerIsHeld, DeletionIsNamed, OnlyInterruptedFeedsAreLost, Running
<1>18. ASSUME NEW t \in Tables, NEW isLost \in BOOLEAN, PrepareTable(t, isLost) PROVE Goal
  BY <1>18 DEF Goal, PrepareTable, Executed, Stopped, Kept, CopyIsStored, AnswerIsHeld, DeletionIsNamed, OnlyInterruptedFeedsAreLost, Running
<1>19. ASSUME NEW f \in Files, NEW isLost \in BOOLEAN, CopyFile(f, isLost) PROVE Goal
  BY <1>19 DEF Goal, CopyFile, Executed, Stopped, Kept, CopyIsStored, AnswerIsHeld, DeletionIsNamed, OnlyInterruptedFeedsAreLost, Running
<1>20. CASE SaveFails
  <2>0. Stopped /\ UNCHANGED <<feeds, lost>>
    BY <1>20 DEF SaveFails
  <2>1. CASE pc = "set changefeed" /\ store' \in SetChangefeedID(mem, answered)
    <3>1. mem \in State /\ answered \in Jobs /\ mem.changefeed = NoJob /\ store = mem
      BY <2>1 DEF CopyIsStored, AnswerIsHeld
    <3>2. store' \in State /\ store'.changefeed = answered
      BY <2>1, <3>1, SetFeedFacts
    <3> QED BY <2>0, <3>1, <3>2, NotAState DEF Goal, Stopped, CopyIsStored, AnswerIsHeld, DeletionIsNamed, OnlyInterruptedFeedsAreLost, Running
  <2>2. CASE pc = "mark" /\ store' \in MarkSnapshotFinished(mem, dump.tso)
    <3>1. mem \in State /\ store = mem /\ answered = NoJob
      BY <2>2 DEF CopyIsStored, AnswerIsHeld
    <3>2. store' \in State /\ store'.changefeed = mem.changefeed
      BY <1>y, <2>2, <3>1, MarkFacts
    <3> QED BY <2>0, <3>1, <3>2, NotAState DEF Goal, Stopped, CopyIsStored, AnswerIsHeld, DeletionIsNamed, OnlyInterruptedFeedsAreLost, Running
  <2> QED BY <1>20, <2>1, <2>2 DEF SaveFails
<1>21. CASE Delete
  <2>1. /\ pc = "down" /\ pc' = "delete" /\ store \in State /\ store' = store
        /\ mem' = store /\ store.changefeed \in Jobs
        /\ answered' = answered /\ feeds' = feeds /\ lost' = lost
    BY <1>21 DEF Delete, Idle, Elsewhere, FeedInv, TypeOK, State
  <2> QED BY <2>1 DEF Goal, CopyIsStored, AnswerIsHeld, DeletionIsNamed, OnlyInterruptedFeedsAreLost, Running
<1>22. CASE DeleteFeed
  <2>1. /\ pc = "delete" /\ mem \in State /\ store = mem /\ store' = store
        /\ mem.changefeed \in Jobs /\ lost' = lost /\ answered = NoJob
    BY <1>22 DEF DeleteFeed, CopyIsStored, DeletionIsNamed, AnswerIsHeld
  <2>2. /\ feeds'[mem.changefeed].state = "deleted"
        /\ \A j \in Jobs \ {mem.changefeed} : feeds'[j] = feeds[j]
    BY <1>y, <1>22, <2>1 DEF DeleteFeed
  <2>3. CASE pc' = "clear" /\ Kept /\ Idle
    BY <2>1, <2>2, <2>3 DEF Goal, Kept, Idle, CopyIsStored, AnswerIsHeld, DeletionIsNamed, OnlyInterruptedFeedsAreLost, Running
  <2>4. CASE Stopped
    BY <2>1, <2>2, <2>4 DEF Goal, Stopped, CopyIsStored, AnswerIsHeld, DeletionIsNamed, OnlyInterruptedFeedsAreLost, Running
  <2> QED BY <1>22, <2>3, <2>4 DEF DeleteFeed
<1>23. CASE ClearFeed
  <2>1. /\ pc = "clear" /\ mem \in State /\ store = mem /\ answered = NoJob
        /\ mem.changefeed \in Jobs /\ feeds[mem.changefeed].state = "deleted"
    BY <1>23 DEF ClearFeed, Clears, CopyIsStored, DeletionIsNamed, AnswerIsHeld
  <2>2. Stopped /\ feeds' = feeds /\ lost' = lost
    BY <1>23 DEF ClearFeed, Elsewhere
  <2> QED BY <2>1, <2>2 DEF Goal, Stopped, CopyIsStored, AnswerIsHeld, DeletionIsNamed, OnlyInterruptedFeedsAreLost, Running
<1>24. ASSUME NEW j \in Jobs, FeedDelivers(j) PROVE Goal
  <2>1. PICK ts \in (feeds[j].upto + 1)..now : feeds' = [feeds EXCEPT ![j].upto = ts]
    BY <1>24 DEF FeedDelivers
  <2>2. \A k \in Jobs : feeds'[k].state = feeds[k].state
    BY <1>y, <2>1
  <2> QED BY <1>24, <2>2 DEF Goal, FeedDelivers, Outside, processVars, CopyIsStored, AnswerIsHeld, DeletionIsNamed, OnlyInterruptedFeedsAreLost, Running
<1>25. ASSUME NEW j \in Jobs, FeedStops(j) PROVE Goal
  <2>1. /\ feeds[j].state = "running" /\ feeds'[j].state = "stopped"
        /\ \A k \in Jobs \ {j} : feeds'[k] = feeds[k]
    BY <1>y, <1>25 DEF FeedStops, Running
  <2> QED BY <1>25, <2>1 DEF Goal, FeedStops, Outside, processVars, CopyIsStored, AnswerIsHeld, DeletionIsNamed, OnlyInterruptedFeedsAreLost, Running
<1> QED
  BY <1>1, <1>2, <1>3, <1>4, <1>5, <1>6, <1>7, <1>8, <1>9, <1>10, <1>11, <1>12, <1>13,
     <1>14, <1>15, <1>16, <1>17, <1>18, <1>19, <1>20, <1>21, <1>22, <1>23, <1>24, <1>25
  DEF Next, CreateNext, DeleteNext, OutsideNext

LEMMA FeedInvariant == Spec => []FeedInv
<1>1. FeedInv /\ [Next]_vars => FeedInv'
  <2>1. FeedInv /\ Next => FeedInv'
    BY StepType, StepFeed DEF FeedInv
  <2>2. FeedInv /\ UNCHANGED vars => FeedInv'
    BY DEF FeedInv, TypeOK, CopyIsStored, AnswerIsHeld, DeletionIsNamed,
           OnlyInterruptedFeedsAreLost, Running, vars, processVars, warehouseVars
  <2> QED BY <2>1, <2>2
<1> QED BY <1>1, InitFeedInv, PTL DEF Spec

(***************************************************************************)
(* The types, and that only a stage has tasks and only a process a copy.   *)
(***************************************************************************)
THEOREM TypesHold == Spec => []TypeOK
<1>1. FeedInv => TypeOK
  BY DEF FeedInv
<1> QED BY <1>1, FeedInvariant, PTL

(***************************************************************************)
(* However often create and delete are run, crash or fail to save, only an *)
(* interrupted creation leaves a changefeed that the state does not name   *)
(* (EnsureChangefeed, runDeleteOP).                                        *)
(***************************************************************************)
THEOREM FeedsAreNamed == Spec => []OnlyInterruptedFeedsAreLost
<1>1. FeedInv => OnlyInterruptedFeedsAreLost
  BY DEF FeedInv
<1> QED BY <1>1, FeedInvariant, PTL

----------------------------------------------------------------------------
(***************************************************************************)
(* The load: the files of snapshot/ are of one dump, which is there before *)
(* anything is loaded and stays, and a stage has done to the tables what   *)
(* the tasks it has performed say.                                         *)
(***************************************************************************)
FilesAreOf(tso) == \A f \in Files : dump.files[f] \in {0, tso}

DumpIsWhole ==
    /\ now \in 1..MaxTS /\ dump.tso \in 0..MaxTS
    /\ pc = "snapshot" => conf <= now
    /\ HasMetadata => FilesAreOf(dump.tso)
    /\ pc = "dump" => ~HasMetadata /\ start \in 1..now /\ FilesAreOf(start)

FinishedIsLoaded ==
    store # Absent /\ store.finished =>
        HasMetadata /\ \E tso \in 1..MaxTS : LoadedFrom(tso)

DumpIsThere ==
    /\ pc \in {"changefeed", "set changefeed", "load"} /\ LoadsNow => HasMetadata
    /\ pc \in {"tables", "files", "mark"} => HasMetadata /\ ~mem.finished

StageIsExact ==
    /\ pc = "tables" =>
           /\ performed \subseteq created
           /\ \A f \in Files : TableOf[f] \in performed => copies[f] = NoCopy
    /\ pc = "files" =>
           /\ created = Tables
           /\ \A f \in Files : copies[f] = IF f \in performed
                                            THEN [times |-> 1, tso |-> dump.tso]
                                            ELSE NoCopy
    /\ pc = "mark" => LoadedFrom(dump.tso)

LoadInv == DumpIsWhole /\ FinishedIsLoaded /\ DumpIsThere /\ StageIsExact

LEMMA InitLoadInv == Init => LoadInv
<1> SUFFICES ASSUME Init PROVE LoadInv
  OBVIOUS
<1>1. pc = "down" /\ store = Absent /\ now = 1
  BY DEF Init
<1>2. \/ dump = [tso |-> 0, files |-> NoFiles]
      \/ dump = [tso |-> 1, files |-> [f \in Files |-> 1]]
  BY DEF Init
<1>3. dump.tso \in {0, 1} /\ (dump.tso = 1 => FilesAreOf(1))
  BY <1>2 DEF FilesAreOf, NoFiles
<1>4. 1 \in 1..MaxTS /\ dump.tso \in 0..MaxTS
  BY <1>3, OPAssumption DEF OPAssumption
<1> QED
  BY <1>1, <1>3, <1>4
  DEF LoadInv, DumpIsWhole, HasMetadata, FinishedIsLoaded, DumpIsThere, StageIsExact

\* What was loaded is so as long as the dump and the tables stay.
LEMMA LoadedStays ==
    ASSUME UNCHANGED <<dump, created, copies>>, NEW tso
    PROVE  LoadedFrom(tso)' <=> LoadedFrom(tso)
BY DEF LoadedFrom, Present

(***************************************************************************)
(* A step that leaves the dump, the tables and the snapshot's phase alone, *)
(* and does not enter or go on with a stage or a dump.                     *)
(***************************************************************************)
Between == {"changefeed", "set changefeed", "load"}
Elsewhen == {"down", "snapshot", "scan", "done", "delete", "clear"} \cup Between

LEMMA OutsideLoad ==
    ASSUME LoadInv, UNCHANGED <<dump, created, copies>>,
           pc' \in Elsewhen, now' \in now..MaxTS, pc' = "snapshot" => conf' <= now',
           store' # Absent /\ store'.finished => store # Absent /\ store.finished,
           pc' \in Between /\ LoadsNow' => HasMetadata
    PROVE  LoadInv'
<1>1. DumpIsWhole'
  <2>1. MaxTS \in Nat /\ now \in 1..MaxTS /\ dump' = dump
    BY OPAssumption DEF OPAssumption, LoadInv, DumpIsWhole
  <2>2. now' \in 1..MaxTS
    BY <2>1
  <2>3. HasMetadata' => FilesAreOf(dump.tso)'
    BY <2>1 DEF LoadInv, DumpIsWhole, HasMetadata, FilesAreOf
  <2> QED BY <2>1, <2>2, <2>3 DEF LoadInv, DumpIsWhole, Elsewhen, Between
<1>2. FinishedIsLoaded'
  BY LoadedStays DEF LoadInv, FinishedIsLoaded, HasMetadata
<1>3. DumpIsThere' /\ StageIsExact'
  BY DEF DumpIsThere, StageIsExact, Elsewhen, Between, HasMetadata
<1> QED BY <1>1, <1>2, <1>3 DEF LoadInv

\* A step of TiDB or TiCDC.
LEMMA LoadUntouched ==
    ASSUME FeedInv, LoadInv, now' \in now..MaxTS,
           UNCHANGED <<store, pc, mem, mode, conf, start, performed, dump, created, copies>>
    PROVE  LoadInv'
<1>1. DumpIsWhole'
  <2>1. /\ MaxTS \in Nat /\ now \in 1..MaxTS /\ UNCHANGED <<dump, pc, conf, start>>
        /\ conf \in Nat
    BY OPAssumption DEF OPAssumption, FeedInv, TypeOK, LoadInv, DumpIsWhole
  <2>2. now' \in 1..MaxTS /\ now <= now'
    BY <2>1
  <2>3. (HasMetadata <=> HasMetadata') /\ (FilesAreOf(dump.tso) <=> FilesAreOf(dump.tso)')
        /\ (FilesAreOf(start) <=> FilesAreOf(start)')
    BY <2>1 DEF HasMetadata, FilesAreOf
  <2>4. pc' = "dump" => start' \in 1..now'
    BY <2>1, <2>2 DEF LoadInv, DumpIsWhole
  <2>5. pc' = "snapshot" => conf' <= now'
    BY <2>1, <2>2 DEF LoadInv, DumpIsWhole
  <2> QED BY <2>1, <2>2, <2>3, <2>4, <2>5 DEF LoadInv, DumpIsWhole
<1>2. FinishedIsLoaded'
  BY LoadedStays DEF LoadInv, FinishedIsLoaded, HasMetadata
<1>3. DumpIsThere'
  BY DEF LoadInv, DumpIsThere, HasMetadata, LoadsNow, LoadsSnapshot
<1>4. StageIsExact'
  BY LoadedStays DEF LoadInv, StageIsExact
<1> QED BY <1>1, <1>2, <1>3, <1>4 DEF LoadInv

LEMMA StepLoad ==
    ASSUME ~FreshIncremental, FeedInv, LoadInv, Next
    PROVE  LoadInv'
<1>t. /\ CopyIsStored /\ DumpIsWhole /\ FinishedIsLoaded /\ DumpIsThere /\ StageIsExact
      /\ store \in State \cup {Absent} /\ now \in 1..MaxTS /\ now \in now..MaxTS
  BY DEF FeedInv, TypeOK, LoadInv, DumpIsWhole
<1>u. dump \in [tso : Nat, files : [Files -> Nat]] /\ conf \in Nat
      /\ created \subseteq Tables /\ copies \in [Files -> [times : Nat, tso : Nat]]
      /\ MaxTS \in Nat
  BY OPAssumption DEF FeedInv, TypeOK, OPAssumption
<1> USE <1>t DEF Goto, At
<1>1. CASE Crash
  BY <1>1, OutsideLoad DEF Elsewhen, Between, CopyIsStored, DumpIsWhole, Crash, Stopped, warehouseVars
<1>2. CASE GiveUp
  BY <1>2, OutsideLoad DEF Elsewhen, Between, CopyIsStored, DumpIsWhole, GiveUp, Stopped, Elsewhere, warehouseVars
<1>3. CASE DeleteFails
  BY <1>3, OutsideLoad DEF Elsewhen, Between, CopyIsStored, DumpIsWhole, DeleteFails, Stopped, Elsewhere, warehouseVars
<1>4. CASE Delete
  <2>1. pc' = "delete" /\ UNCHANGED <<dump, created, copies, store, now>>
    BY <1>4 DEF Delete, Elsewhere, warehouseVars
  <2> QED BY <2>1, OutsideLoad DEF Elsewhen, Between
<1>5. CASE DeleteFeed
  <2>1. pc' \in {"down", "clear"} /\ UNCHANGED <<dump, created, copies, store, now, conf>>
        /\ pc = "delete"
    BY <1>5 DEF DeleteFeed, Kept, Stopped, warehouseVars
  <2> QED BY <2>1, OutsideLoad DEF Elsewhen, Between, CopyIsStored, DumpIsWhole
<1>6. CASE ClearFeed
  <2>1. pc = "clear" /\ store \in State /\ store = mem
    BY <1>6 DEF ClearFeed, Clears, CopyIsStored
  <2>2. store'.finished = store.finished /\ store # Absent
    BY <1>6, <2>1, ClearFeedFacts, NotAState DEF ClearFeed
  <2>3. pc' = "down" /\ UNCHANGED <<dump, created, copies, now>>
    BY <1>6 DEF ClearFeed, Stopped, Elsewhere, warehouseVars
  <2> QED BY <2>2, <2>3, OutsideLoad DEF Elsewhen, Between, CopyIsStored, DumpIsWhole
<1>7. CASE Tick
  BY <1>7, <1>u, LoadUntouched DEF Tick, Outside, processVars, warehouseVars
<1>8. ASSUME NEW j \in Jobs, FeedDelivers(j) PROVE LoadInv'
  BY <1>8, LoadUntouched DEF FeedDelivers, Outside, processVars, warehouseVars
<1>9. ASSUME NEW j \in Jobs, FeedStops(j) PROVE LoadInv'
  BY <1>9, LoadUntouched DEF FeedStops, Outside, processVars, warehouseVars
<1>10. CASE \E m \in Modes, tso \in ConfigTSOs : Create(m, tso)
  <2>1. PICK m \in Modes, tso \in ConfigTSOs : Create(m, tso)
    BY <1>10
  <2>2. /\ mode' = m /\ mem' = store' /\ conf' <= now'
        /\ UNCHANGED <<dump, created, copies, now>>
        /\ pc' = IF m = "incremental-only" THEN "changefeed" ELSE "snapshot"
    BY <2>1 DEF Create, Elsewhere, warehouseVars
  <2>3. store' # Absent /\ store'.finished => store # Absent /\ store.finished
    <3>1. CASE store = Absent
      <4>1. store' = NewState(FALSE)
        BY <2>1, <3>1 DEF Create
      <4> QED BY <4>1, NewStateFacts
    <3>2. CASE store # Absent
      BY <2>1, <3>2 DEF Create
    <3> QED BY <3>1, <3>2
  <2>4. pc' \in Between => ~LoadsNow'
    BY <2>2 DEF Between, LoadsNow, LoadsSnapshot
  <2> QED BY <2>2, <2>3, <2>4, OutsideLoad DEF Elsewhen, Between, DumpIsWhole
<1>11. CASE SkipSnapshot
  <2>1. /\ pc' \in {"changefeed", "load"}
        /\ UNCHANGED <<store, mem, mode, conf, now, dump, created, copies>>
        /\ mem.finished \/ HasMetadata
    BY <1>11 DEF SkipSnapshot, AfterSnapshot, SnapshotKnown, Kept, Elsewhere, warehouseVars
  <2>2. LoadsNow' => HasMetadata
    BY <2>1 DEF LoadsNow
  <2> QED BY <2>1, <2>2, OutsideLoad DEF Elsewhen, Between, DumpIsWhole
<1>12. CASE BeginDump
  <2>1. /\ pc = "snapshot" /\ pc' = "dump" /\ ~HasMetadata /\ Present = {}
        /\ UNCHANGED <<store, now, dump, created, copies>>
        /\ start' = IF conf # 0 THEN conf ELSE now
    BY <1>12 DEF BeginDump, PrefixFree, Kept, Elsewhere, warehouseVars
  <2>2. start' \in 1..now /\ \A f \in Files : dump.files[f] = 0
    BY <1>u, <2>1 DEF DumpIsWhole, Present
  <2>3. DumpIsWhole'
    BY <2>1, <2>2 DEF DumpIsWhole, HasMetadata, FilesAreOf
  <2>4. FinishedIsLoaded'
    BY <2>1, LoadedStays DEF FinishedIsLoaded, HasMetadata
  <2> QED BY <2>1, <2>3, <2>4 DEF LoadInv, DumpIsThere, StageIsExact
<1>13. ASSUME NEW f \in Files, DumpFile(f) PROVE LoadInv'
  <2>1. /\ pc = "dump" /\ pc' = "dump" /\ dump' = [dump EXCEPT !.files[f] = start]
        /\ UNCHANGED <<store, start, now>>
    BY <1>13 DEF DumpFile, processVars
  <2>2. dump'.tso = dump.tso /\ dump'.files = [dump.files EXCEPT ![f] = start]
    BY <1>u, <2>1
  <2>3. DumpIsWhole'
    BY <1>u, <2>1, <2>2 DEF DumpIsWhole, HasMetadata, FilesAreOf
  <2>4. FinishedIsLoaded'
    BY <2>1 DEF DumpIsWhole, FinishedIsLoaded
  <2> QED BY <2>1, <2>3, <2>4 DEF LoadInv, DumpIsThere, StageIsExact
<1>14. CASE DumpEnds
  <2>1. /\ pc = "dump" /\ pc' \in {"changefeed", "load"}
        /\ dump' = [dump EXCEPT !.tso = start]
        /\ UNCHANGED <<store, now>>
    BY <1>14 DEF DumpEnds, AfterSnapshot, Kept
  <2>2. dump'.tso = start /\ dump'.files = dump.files /\ start \in 1..now
    BY <1>u, <2>1 DEF DumpIsWhole
  <2>3. DumpIsWhole' /\ HasMetadata'
    BY <1>u, <2>1, <2>2 DEF DumpIsWhole, HasMetadata, FilesAreOf
  <2>4. FinishedIsLoaded'
    BY <2>1 DEF DumpIsWhole, FinishedIsLoaded
  <2> QED BY <2>1, <2>3, <2>4 DEF LoadInv, DumpIsThere, StageIsExact
<1>15. CASE EmptyPrefix
  <2>1. /\ pc = "down" /\ pc' = "down" /\ dump' = [dump EXCEPT !.files = NoFiles]
        /\ ~HasMetadata /\ UNCHANGED <<store, now>>
    BY <1>15 DEF EmptyPrefix, processVars
  <2>2. dump'.tso = dump.tso
    BY <1>u, <2>1
  <2>3. DumpIsWhole'
    BY <2>1, <2>2 DEF DumpIsWhole, HasMetadata
  <2>4. FinishedIsLoaded'
    BY <2>1 DEF FinishedIsLoaded
  <2> QED BY <2>1, <2>3, <2>4 DEF LoadInv, DumpIsThere, StageIsExact
<1>16. CASE ReuseFeed
  <2>1. /\ pc = "changefeed" /\ pc' = "load"
        /\ UNCHANGED <<store, mem, mode, conf, now, dump, created, copies>>
    BY <1>16 DEF ReuseFeed, Kept, Elsewhere, warehouseVars
  <2>2. LoadsNow' => HasMetadata
    BY <2>1 DEF DumpIsThere, LoadsNow, LoadsSnapshot
  <2> QED BY <2>1, <2>2, OutsideLoad DEF Elsewhen, Between, DumpIsWhole
<1>17. ASSUME NEW j \in Jobs, NEW arrives \in BOOLEAN, PostFeed(j, arrives) PROVE LoadInv'
  <2>1. /\ pc = "changefeed" /\ pc' \in {"set changefeed", "down"}
        /\ UNCHANGED <<store, mode, now, dump, created, copies>>
        /\ pc' = "down" \/ mem' = mem
    BY <1>17 DEF PostFeed, Kept, Stopped, warehouseVars
  <2>2. pc' # "down" => (LoadsNow' => HasMetadata)
    BY <2>1 DEF DumpIsThere, LoadsNow, LoadsSnapshot
  <2> QED BY <2>1, <2>2, OutsideLoad DEF Elsewhen, Between, DumpIsWhole
<1>18. CASE RecordFeed
  <2>1. mem \in State /\ answered \in Jobs /\ store = mem /\ pc = "set changefeed"
    BY <1>18 DEF FeedInv, AnswerIsHeld, RecordFeed, CopyIsStored
  <2>2. PICK next \in SetChangefeedID(mem, answered) :
            mem' = next /\ store' = next /\ pc' = "load"
    BY <1>18 DEF RecordFeed, Save
  <2>3. next.finished = mem.finished
    BY <2>1, <2>2, SetFeedFacts
  <2>4. UNCHANGED <<mode, now, dump, created, copies>>
    BY <1>18 DEF RecordFeed, Elsewhere, warehouseVars
  <2>5. LoadsNow' => HasMetadata
    BY <2>1, <2>2, <2>3, <2>4 DEF DumpIsThere, LoadsNow, LoadsSnapshot
  <2> QED BY <2>1, <2>2, <2>3, <2>4, <2>5, NotAState, OutsideLoad DEF Elsewhen, Between, DumpIsWhole
<1>19. CASE BeginLoad
  <2>1. UNCHANGED <<store, mem, mode, now, dump, created, copies>> /\ pc = "load"
        /\ performed' = performed
    BY <1>19 DEF BeginLoad, Kept, Idle, Elsewhere, warehouseVars
  <2>2. CASE LoadsNow /\ pc' = "tables"
    <3>1. performed' = {} /\ HasMetadata' /\ ~mem'.finished
      BY <2>1, <2>2 DEF DumpIsThere, LoadsNow, HasMetadata, FeedInv, TypeOK, Stages
    <3>2. DumpIsWhole'
      BY <2>1, <2>2 DEF DumpIsWhole, HasMetadata, FilesAreOf
    <3>3. FinishedIsLoaded'
      BY <2>1, LoadedStays DEF FinishedIsLoaded, HasMetadata
    <3> QED BY <2>2, <3>1, <3>2, <3>3 DEF LoadInv, DumpIsThere, StageIsExact
  <2>3. CASE pc' = "scan"
    BY <2>1, <2>3, OutsideLoad DEF Elsewhen, Between, DumpIsWhole
  <2> QED BY <1>19, <2>2, <2>3 DEF BeginLoad
<1>20. ASSUME NEW t \in Tables, NEW isLost \in BOOLEAN, PrepareTable(t, isLost) PROVE LoadInv'
  <2>1. /\ pc = "tables" /\ created' = created \cup {t}
        /\ copies' = [f \in Files |-> IF TableOf[f] = t THEN NoCopy ELSE copies[f]]
        /\ UNCHANGED <<store, now, dump>>
        /\ \/ pc' = "down"
           \/ pc' = pc /\ mem' = mem /\ performed' = performed \cup {t}
    BY <1>20 DEF PrepareTable, Replaced, Executed, Stopped, Kept
  <2>2. DumpIsWhole'
    BY <2>1 DEF DumpIsWhole, HasMetadata, FilesAreOf
  <2>3. store = mem /\ ~mem.finished /\ HasMetadata
    BY <2>1 DEF CopyIsStored, DumpIsThere
  <2>4. FinishedIsLoaded' /\ DumpIsThere'
    BY <2>1, <2>3 DEF FinishedIsLoaded, DumpIsThere, HasMetadata
  <2>5. pc' = "tables" => /\ performed' \subseteq created'
                          /\ \A f \in Files : TableOf[f] \in performed' => copies'[f] = NoCopy
    BY <2>1 DEF StageIsExact
  <2>6. StageIsExact'
    BY <2>1, <2>5 DEF StageIsExact, NoCopy
  <2> QED BY <2>2, <2>4, <2>6 DEF LoadInv
<1>21. ASSUME NEW f \in Files, NEW isLost \in BOOLEAN, CopyFile(f, isLost) PROVE LoadInv'
  <2>1. /\ pc = "files" /\ created' = created /\ f \notin performed
        /\ copies' = [copies EXCEPT ![f] = [times |-> @.times + 1, tso |-> dump.files[f]]]
        /\ UNCHANGED <<store, now, dump>> /\ dump.files[f] # 0
        /\ \/ pc' = "down"
           \/ pc' = pc /\ mem' = mem /\ performed' = performed \cup {f}
    BY <1>21 DEF CopyFile, Present, Copied, Executed, Stopped, Kept
  <2>2. DumpIsWhole'
    BY <2>1 DEF DumpIsWhole, HasMetadata, FilesAreOf
  <2>3. store = mem /\ ~mem.finished /\ HasMetadata
    BY <2>1 DEF CopyIsStored, DumpIsThere
  <2>4. FinishedIsLoaded' /\ DumpIsThere'
    BY <2>1, <2>3 DEF FinishedIsLoaded, DumpIsThere, HasMetadata
  <2>5. dump.files[f] = dump.tso /\ copies[f].times = 0
    BY <2>1, <2>3 DEF DumpIsWhole, FilesAreOf, StageIsExact, NoCopy
  <2>6. copies'[f] = [times |-> 1, tso |-> dump.tso]
        /\ \A g \in Files \ {f} : copies'[g] = copies[g]
    BY <1>u, <2>1, <2>5
  <2>7. pc' = "files" =>
            \A g \in Files : copies'[g] = IF g \in performed' THEN [times |-> 1, tso |-> dump.tso]
                                                            ELSE NoCopy
    BY <2>1, <2>6 DEF StageIsExact
  <2>8. StageIsExact'
    BY <2>1, <2>7 DEF StageIsExact, NoCopy
  <2> QED BY <2>2, <2>4, <2>8 DEF LoadInv
<1>22. CASE StageEnds
  <2>1. /\ UNCHANGED <<store, mem, mode, now, dump, created, copies>>
        /\ performed' = {} /\ pc \in {"tables", "files"} /\ pc' \in {"files", "mark"}
    BY <1>22 DEF StageEnds, Kept, Elsewhere, warehouseVars
  <2>2. DumpIsWhole'
    BY <2>1 DEF DumpIsWhole, HasMetadata, FilesAreOf
  <2>3. FinishedIsLoaded'
    BY <2>1, LoadedStays DEF FinishedIsLoaded, HasMetadata
  <2>4. DumpIsThere'
    BY <2>1 DEF DumpIsThere, HasMetadata
  <2>5. CASE pc = "tables" /\ performed = Tables /\ pc' = "files"
    <3>1. created = Tables /\ \A f \in Files : copies[f] = NoCopy
      BY <1>u, <2>5, OPAssumption DEF OPAssumption, StageIsExact
    <3>2. StageIsExact'
      BY <2>1, <2>5, <3>1 DEF StageIsExact, NoCopy
    <3> QED BY <2>2, <2>3, <2>4, <3>2 DEF LoadInv
  <2>6. CASE pc = "files" /\ performed = Present /\ pc' = "mark"
    <3>1. created = Tables
          /\ \A f \in Files : copies[f] = IF f \in Present THEN [times |-> 1, tso |-> dump.tso]
                                                            ELSE NoCopy
      BY <2>6 DEF StageIsExact
    <3>2. copies = [f \in Files |-> copies[f]]
      BY <1>u
    <3>3. LoadedFrom(dump.tso)
      BY <3>1, <3>2 DEF LoadedFrom
    <3>4. LoadedFrom(dump.tso)'
      BY <2>1, <3>3 DEF LoadedFrom, Present
    <3>5. StageIsExact'
      BY <2>6, <3>4 DEF StageIsExact
    <3> QED BY <2>2, <2>3, <2>4, <3>5 DEF LoadInv
  <2> QED BY <1>22, <2>5, <2>6 DEF StageEnds
<1>23. CASE MarkFinished \/ SaveFails
  <2>1. CASE pc = "mark"
    <3>1. pc' \in {"scan", "done", "down"} /\ UNCHANGED <<now, dump, created, copies>>
      BY <1>23, <2>1 DEF MarkFinished, SaveFails, Save, Stopped
    <3>2. HasMetadata /\ LoadedFrom(dump.tso) /\ dump.tso \in 1..MaxTS
      BY <1>u, <2>1 DEF StageIsExact, DumpIsThere, DumpIsWhole, HasMetadata
    <3>3. FinishedIsLoaded'
      BY <3>1, <3>2, LoadedStays DEF FinishedIsLoaded, HasMetadata
    <3>4. DumpIsWhole'
      BY <3>1 DEF DumpIsWhole, HasMetadata, FilesAreOf
    <3> QED BY <3>1, <3>3, <3>4 DEF LoadInv, DumpIsThere, StageIsExact
  <2>2. CASE pc # "mark"
    <3>1. /\ pc = "set changefeed" /\ store' \in SetChangefeedID(mem, answered)
          /\ pc' = "down" /\ UNCHANGED <<now, dump, created, copies>>
      BY <1>23, <2>2 DEF MarkFinished, SaveFails, Stopped
    <3>2. mem \in State /\ answered \in Jobs /\ store = mem
      BY <3>1 DEF FeedInv, AnswerIsHeld, CopyIsStored
    <3>3. store'.finished = store.finished
      BY <3>1, <3>2, SetFeedFacts
    <3> QED BY <3>1, <3>2, <3>3, NotAState, OutsideLoad DEF Elsewhen, Between, DumpIsWhole
  <2> QED BY <2>1, <2>2
<1>24. CASE Scan
  <2>1. /\ pc = "scan" /\ mem \in State /\ store = mem
        /\ UNCHANGED <<now, dump, created, copies>>
    BY <1>24 DEF Scan, CopyIsStored
  <2>2. PICK next \in SetCheckpointTS(mem, metadata) : store' = next /\ pc' = "scan"
    BY <1>24 DEF Scan, Save
  <2>3. store'.finished = store.finished
    BY <2>1, <2>2, SetCheckpointFacts DEF FeedInv, TypeOK
  <2> QED BY <2>1, <2>2, <2>3, NotAState, OutsideLoad DEF Elsewhen, Between, DumpIsWhole
<1> QED
  BY <1>1, <1>2, <1>3, <1>4, <1>5, <1>6, <1>7, <1>8, <1>9, <1>10, <1>11, <1>12, <1>13,
     <1>14, <1>15, <1>16, <1>17, <1>18, <1>19, <1>20, <1>21, <1>22, <1>23, <1>24
  DEF Next, CreateNext, DeleteNext, OutsideNext

LEMMA LoadInvariant ==
    ASSUME ~FreshIncremental
    PROVE  Spec => []LoadInv
<1>1. FeedInv /\ LoadInv /\ [Next]_vars => LoadInv'
  <2> SUFFICES ASSUME FeedInv, LoadInv, [Next]_vars PROVE LoadInv'
    OBVIOUS
  <2>1. CASE Next
    BY <2>1, StepLoad
  <2>2. CASE UNCHANGED vars
    <3>1. now \in now..MaxTS
      BY OPAssumption DEF OPAssumption, LoadInv, DumpIsWhole
    <3> QED BY <2>2, <3>1, LoadUntouched DEF vars, processVars, warehouseVars
  <2> QED BY <2>1, <2>2
<1> QED BY <1>1, InitLoadInv, FeedInvariant, PTL DEF Spec

(***************************************************************************)
(* When the snapshot is marked finished every table holds every file of    *)
(* one dump, once, however many loads failed before (snapshot.Load and     *)
(* MarkSnapshotFinished).  Incremental-only must not come first: it says   *)
(* that the snapshot is finished.                                          *)
(***************************************************************************)
THEOREM SnapshotIsLoadedOnce ==
    ASSUME ~FreshIncremental
    PROVE  Spec => []LoadedExactlyOnce
<1>1. LoadInv => LoadedExactlyOnce
  BY DEF LoadInv, FinishedIsLoaded, LoadedExactlyOnce
<1> QED BY <1>1, LoadInvariant, PTL

----------------------------------------------------------------------------
(***************************************************************************)
(* The changes.  Base is the TSO from which the next scan has to find all  *)
(* of them: the checkpoint, or that of the snapshot there is, or that of   *)
(* the snapshot there will be.  It never goes back, so a changefeed that   *)
(* starts at or before it will do for ever.                                *)
(***************************************************************************)
Finished == store # Absent /\ store.finished

Base ==
    IF Finished THEN store.checkpoint
    ELSE IF HasMetadata THEN dump.tso
    ELSE IF pc = "dump" THEN start
    ELSE IF conf # 0 THEN conf
    ELSE now

CheckpointIsReached ==
    store # Absent =>
        IF store.finished THEN store.checkpoint # 0 /\ reached = store.checkpoint
        ELSE store.checkpoint = 0

FeedsStartByBase == \A j \in Jobs : feeds[j].tso <= Base

ChangesAreThere == \A ts \in Nat : Base < ts /\ ts <= metadata => Delivered(ts)

ReachInv ==
    /\ CheckpointIsReached /\ FeedsStartByBase /\ ChangesAreThere
    /\ pc = "scan" => mem.finished
    /\ pc = "dump" /\ conf # 0 => start = conf

LEMMA InitReachInv == Init => ReachInv
<1> SUFFICES ASSUME Init PROVE ReachInv
  OBVIOUS
<1>1. /\ store = Absent /\ pc = "down" /\ conf \in ConfigTSOs /\ now = 1 /\ metadata = 0
      /\ \A j \in Jobs : feeds[j].tso = 0
      /\ dump.tso \in {0, 1}
  BY DEF Init, NoFeedYet
<1>2. Base \in Nat
  BY <1>1, OPAssumption DEF OPAssumption, Base, Finished
<1> QED BY <1>1, <1>2 DEF ReachInv, CheckpointIsReached, FeedsStartByBase, ChangesAreThere

LEMMA BaseType == FeedInv => Base \in Nat
BY DEF FeedInv, TypeOK, Base, Finished, State

(***************************************************************************)
(* A step that creates no changefeed and writes no metadata keeps the      *)
(* changes if Base does not go back.                                       *)
(***************************************************************************)
LEMMA ChangesStay ==
    ASSUME FeedInv, ReachInv, metadata' = metadata, Base <= Base',
           Base' \in Nat,
           \A j \in Jobs : feeds'[j].tso = feeds[j].tso /\ feeds'[j].upto = feeds[j].upto
    PROVE  FeedsStartByBase' /\ ChangesAreThere'
<1>1. /\ Base \in Nat /\ metadata \in Nat
      /\ \A j \in Jobs : feeds[j].tso \in Nat
  BY BaseType DEF FeedInv, TypeOK
<1>2. FeedsStartByBase'
  BY <1>1 DEF ReachInv, FeedsStartByBase
<1>3. ChangesAreThere'
  BY <1>1 DEF ReachInv, ChangesAreThere, Delivered
<1> QED BY <1>2, <1>3

SameProgress ==
    /\ store # Absent <=> store' # Absent
    /\ store # Absent => /\ store'.finished = store.finished
                         /\ store'.checkpoint = store.checkpoint

SameChanges ==
    /\ metadata' = metadata
    /\ \A j \in Jobs : feeds'[j].tso = feeds[j].tso /\ feeds'[j].upto = feeds[j].upto

LEMMA ReachStays ==
    ASSUME FeedInv, LoadInv, ReachInv, SameProgress, SameChanges,
           dump'.tso = dump.tso, conf' = conf, reached' = reached,
           now' \in Nat, now <= now',
           pc' = "dump" => pc = "dump" /\ start' = start,
           pc' = "scan" => mem'.finished
    PROVE  ReachInv'
<1>1. conf \in Nat /\ start \in Nat /\ now \in Nat /\ dump.tso \in Nat
      /\ (Finished => store.checkpoint \in Nat)
  BY DEF FeedInv, TypeOK, Finished, State
<1>2. (Finished' <=> Finished) /\ (HasMetadata' <=> HasMetadata)
      /\ (Finished => store'.checkpoint = store.checkpoint)
  BY DEF SameProgress, Finished, HasMetadata
<1>3. pc = "dump" => (IF conf # 0 THEN start = conf ELSE start <= now)
  BY <1>1 DEF ReachInv, LoadInv, DumpIsWhole
<1>4. Base' \in Nat /\ Base <= Base'
  <2>1. CASE Finished \/ HasMetadata
    BY <1>1, <1>2, <2>1 DEF Base
  <2>2. CASE ~Finished /\ ~HasMetadata /\ pc' = "dump"
    BY <1>1, <1>2, <2>2 DEF Base
  <2>3. CASE ~Finished /\ ~HasMetadata /\ pc' # "dump"
    <3>1. Base' = IF conf # 0 THEN conf ELSE now'
      BY <1>2, <2>3 DEF Base
    <3>2. Base = IF pc = "dump" THEN start ELSE IF conf # 0 THEN conf ELSE now
      BY <2>3 DEF Base
    <3> QED BY <1>1, <1>3, <3>1, <3>2
  <2> QED BY <2>1, <2>2, <2>3
<1>5. FeedsStartByBase' /\ ChangesAreThere'
  BY <1>4, ChangesStay DEF SameChanges
<1>6. CheckpointIsReached'
  BY DEF ReachInv, CheckpointIsReached, SameProgress
<1>7. pc' = "dump" /\ conf' # 0 => start' = conf'
  BY DEF ReachInv
<1> QED BY <1>5, <1>6, <1>7 DEF ReachInv

LEMMA StepReach ==
    ASSUME ~FreshIncremental, ~ConfigChanges, FeedInv, FeedInv', LoadInv, LoadInv', ReachInv, Next
    PROVE  ReachInv'
<1>t. /\ CopyIsStored /\ CheckpointIsReached
      /\ store \in State \cup {Absent} /\ now \in Nat /\ now' \in Nat /\ conf \in Nat
      /\ start \in Nat /\ metadata \in Nat /\ reached \in Nat
      /\ dump \in [tso : Nat, files : [Files -> Nat]]
      /\ feeds \in [Jobs -> [state : {"none", "running", "stopped", "deleted"},
                             tso : Nat, upto : Nat]]
  BY DEF FeedInv, TypeOK, ReachInv
<1>b. Base \in Nat
  BY BaseType
<1> USE <1>t DEF Goto, At
<1>1. CASE Crash
  BY <1>1, ReachStays DEF SameProgress, SameChanges, Crash, Stopped, warehouseVars
<1>2. CASE GiveUp
  BY <1>2, ReachStays DEF SameProgress, SameChanges, GiveUp, Stopped, Elsewhere, warehouseVars
<1>3. CASE DeleteFails
  BY <1>3, ReachStays DEF SameProgress, SameChanges, DeleteFails, Stopped, Elsewhere, warehouseVars
<1>4. CASE Delete
  BY <1>4, ReachStays DEF SameProgress, SameChanges, Delete, Elsewhere, warehouseVars
<1>5. CASE SkipSnapshot
  BY <1>5, ReachStays DEF SameProgress, SameChanges, SkipSnapshot, AfterSnapshot, Kept, Elsewhere, warehouseVars
<1>6. CASE ReuseFeed
  BY <1>6, ReachStays DEF SameProgress, SameChanges, ReuseFeed, Kept, Elsewhere, warehouseVars
<1>7. CASE BeginLoad
  BY <1>7, ReachStays DEF SameProgress, SameChanges, BeginLoad, Kept, Elsewhere, warehouseVars
<1>8. CASE StageEnds
  BY <1>8, ReachStays DEF SameProgress, SameChanges, StageEnds, Kept, Elsewhere, warehouseVars
<1>9. CASE DeleteFeed
  <2>1. /\ feeds' = [feeds EXCEPT ![mem.changefeed].state = "deleted"]
        /\ UNCHANGED <<store, now, dump, metadata, reached, conf>>
        /\ pc' \in {"clear", "down"}
    BY <1>9 DEF DeleteFeed, Kept, Stopped, warehouseVars
  <2>2. \A j \in Jobs : feeds'[j].tso = feeds[j].tso /\ feeds'[j].upto = feeds[j].upto
    BY <2>1
  <2> QED BY <2>1, <2>2, ReachStays DEF SameProgress, SameChanges
<1>10. CASE ClearFeed
  <2>1. mem \in State /\ store = mem /\ store' \in ClearChangefeedID(mem)
    BY <1>10 DEF ClearFeed, Clears, CopyIsStored
  <2>2. SameProgress
    BY <2>1, ClearFeedFacts, NotAState DEF SameProgress
  <2>3. pc' = "down" /\ UNCHANGED <<feeds, now, dump, metadata, reached, conf>>
    BY <1>10 DEF ClearFeed, Stopped, Elsewhere, warehouseVars
  <2> QED BY <2>2, <2>3, ReachStays DEF SameChanges
<1>11. CASE RecordFeed
  <2>1. mem \in State /\ answered \in Jobs /\ store = mem
    BY <1>11 DEF FeedInv, AnswerIsHeld, RecordFeed, CopyIsStored
  <2>2. PICK next \in SetChangefeedID(mem, answered) : store' = next /\ pc' = "load"
    BY <1>11 DEF RecordFeed, Save
  <2>3. SameProgress
    BY <2>1, <2>2, SetFeedFacts, NotAState DEF SameProgress
  <2>4. UNCHANGED <<feeds, now, dump, metadata, reached, conf>>
    BY <1>11 DEF RecordFeed, Elsewhere, warehouseVars
  <2> QED BY <2>2, <2>3, <2>4, ReachStays DEF SameChanges
<1>12. CASE EmptyPrefix
  BY <1>12, ReachStays DEF SameProgress, SameChanges, EmptyPrefix, processVars, warehouseVars, ReachInv
<1>13. ASSUME NEW f \in Files, DumpFile(f) PROVE ReachInv'
  BY <1>13, ReachStays DEF SameProgress, SameChanges, DumpFile, processVars, warehouseVars, ReachInv
<1>14. CASE Tick
  BY <1>14, ReachStays DEF SameProgress, SameChanges, Tick, Outside, processVars, warehouseVars, ReachInv
<1>15. ASSUME NEW j \in Jobs, FeedStops(j) PROVE ReachInv'
  <2>1. \A k \in Jobs : feeds'[k].tso = feeds[k].tso /\ feeds'[k].upto = feeds[k].upto
    BY <1>15 DEF FeedStops
  <2> QED BY <1>15, <2>1, ReachStays DEF SameProgress, SameChanges, FeedStops, Outside, processVars, warehouseVars, ReachInv
<1>16. ASSUME NEW f \in Files, NEW isLost \in BOOLEAN, CopyFile(f, isLost) PROVE ReachInv'
  BY <1>16, ReachStays DEF SameProgress, SameChanges, CopyFile, Copied, Executed, Stopped, Kept, ReachInv
<1>17. CASE \E m \in Modes, tso \in ConfigTSOs : Create(m, tso)
  <2>1. PICK m \in Modes, tso \in ConfigTSOs : Create(m, tso)
    BY <1>17
  <2>2. /\ pc = "down" /\ pc' \in {"changefeed", "snapshot"} /\ conf' = conf
        /\ UNCHANGED <<feeds, now, dump, metadata, reached>>
    BY <2>1 DEF Create, Elsewhere, warehouseVars
  <2>3. CASE store = Absent
    <3>1. store' = NewState(FALSE)
      BY <2>1, <2>3 DEF Create
    <3>2. store' \in State /\ ~store'.finished /\ store'.checkpoint = 0
      BY <3>1, NewStateFacts
    <3>3. Base' = Base
      BY <2>2, <2>3, <3>2 DEF Base, Finished, HasMetadata
    <3>4. FeedsStartByBase' /\ ChangesAreThere'
      BY <1>b, <2>2, <3>3, ChangesStay
    <3> QED BY <2>2, <3>2, <3>4 DEF ReachInv, CheckpointIsReached
  <2>4. CASE store # Absent
    <3>1. store' = store
      BY <2>1, <2>4 DEF Create
    <3> QED BY <2>2, <3>1, ReachStays DEF SameProgress, SameChanges
  <2> QED BY <2>3, <2>4
<1>18. CASE BeginDump
  <2>1. /\ pc = "snapshot" /\ pc' = "dump" /\ ~HasMetadata
        /\ UNCHANGED <<store, conf, now, dump, metadata, reached, feeds>>
        /\ start' = IF conf # 0 THEN conf ELSE now
    BY <1>18 DEF BeginDump, PrefixFree, Kept, Elsewhere, warehouseVars
  <2>2. ~Finished
    BY <2>1 DEF LoadInv, FinishedIsLoaded, Finished
  <2>3. Base' = Base
    BY <2>1, <2>2 DEF Base, Finished, HasMetadata
  <2>4. FeedsStartByBase' /\ ChangesAreThere'
    BY <1>b, <2>1, <2>3, ChangesStay
  <2> QED BY <2>1, <2>4 DEF ReachInv, CheckpointIsReached
<1>19. CASE DumpEnds
  <2>1. /\ pc = "dump" /\ pc' \in {"changefeed", "load"}
        /\ dump' = [dump EXCEPT !.tso = start]
        /\ UNCHANGED <<store, conf, now, metadata, reached, feeds>>
    BY <1>19 DEF DumpEnds, AfterSnapshot, Kept, warehouseVars
  <2>2. ~HasMetadata /\ start # 0 /\ dump'.tso = start
    BY <2>1 DEF LoadInv, DumpIsWhole
  <2>3. ~Finished
    BY <2>2 DEF LoadInv, FinishedIsLoaded, Finished
  <2>4. Base' = Base
    BY <2>1, <2>2, <2>3 DEF Base, Finished, HasMetadata
  <2>5. FeedsStartByBase' /\ ChangesAreThere'
    BY <1>b, <2>1, <2>4, ChangesStay
  <2> QED BY <2>1, <2>5 DEF ReachInv, CheckpointIsReached
<1>20. ASSUME NEW t \in Tables, NEW isLost \in BOOLEAN, PrepareTable(t, isLost) PROVE ReachInv'
  <2>1. /\ pc = "tables" /\ pc' \in {"tables", "down"} /\ reached' = 0
        /\ UNCHANGED <<store, conf, now, dump, metadata, feeds>>
    BY <1>20 DEF PrepareTable, Replaced, Executed, Stopped, Kept
  <2>2. ~Finished
    BY <2>1 DEF LoadInv, DumpIsThere, CopyIsStored, Finished
  <2>3. Base' = Base
    BY <2>1, <2>2 DEF Base, Finished, HasMetadata
  <2>4. FeedsStartByBase' /\ ChangesAreThere'
    BY <1>b, <2>1, <2>3, ChangesStay
  <2>5. CheckpointIsReached'
    BY <2>1, <2>2 DEF CheckpointIsReached, Finished
  <2> QED BY <2>1, <2>4, <2>5 DEF ReachInv
<1>21. CASE MarkFinished \/ SaveFails
  <2>1. CASE pc = "mark"
    <3>1. /\ mem \in State /\ store = mem /\ store' \in MarkSnapshotFinished(mem, dump.tso)
          /\ reached' = ReachedByCopies
      BY <1>21, <2>1 DEF MarkFinished, SaveFails, Save, CopyIsStored
    <3>2. UNCHANGED <<conf, now, dump, metadata, feeds>>
      BY <1>21, <2>1 DEF MarkFinished, SaveFails, Stopped
    <3>3. pc' \in {"scan", "done", "down"} /\ (pc' = "scan" => mem' = store')
      BY <1>21, <2>1 DEF MarkFinished, SaveFails, Save, Stopped
    <3>4. /\ store' \in State /\ store'.finished /\ store'.checkpoint = dump.tso
          /\ dump.tso # 0
      BY <3>1, MarkFacts
    <3>5. reached' = dump.tso /\ ~mem.finished /\ HasMetadata
      BY <2>1, <3>1 DEF LoadInv, StageIsExact, DumpIsThere, ReachedByCopies
    <3>6. Base' = Base
      BY <3>1, <3>2, <3>4, <3>5, NotAState DEF Base, Finished
    <3>7. FeedsStartByBase' /\ ChangesAreThere'
      BY <1>b, <3>2, <3>6, ChangesStay
    <3> QED BY <3>3, <3>4, <3>5, <3>7 DEF ReachInv, CheckpointIsReached
  <2>2. CASE pc # "mark"
    <3>1. /\ pc = "set changefeed" /\ store' \in SetChangefeedID(mem, answered)
          /\ pc' = "down" /\ UNCHANGED <<conf, now, dump, metadata, feeds, reached>>
      BY <1>21, <2>2 DEF MarkFinished, SaveFails, Stopped
    <3>2. mem \in State /\ answered \in Jobs /\ store = mem
      BY <3>1 DEF FeedInv, AnswerIsHeld, CopyIsStored
    <3>3. /\ store' \in State /\ store'.finished = store.finished
          /\ store'.checkpoint = store.checkpoint
      BY <3>1, <3>2, SetFeedFacts
    <3>4. SameProgress
      BY <3>2, <3>3, NotAState DEF SameProgress
    <3>5. SameChanges /\ dump'.tso = dump.tso /\ conf' = conf /\ reached' = reached
          /\ now' = now /\ pc' = "down"
      BY <3>1 DEF SameChanges
    <3> QED BY <3>4, <3>5, ReachStays
  <2> QED BY <2>1, <2>2
<1>22. CASE Scan
  <2>1. /\ pc = "scan" /\ mem \in State /\ store = mem /\ metadata > mem.checkpoint
        /\ mem.finished
    BY <1>22 DEF Scan, CopyIsStored, ReachInv
  <2>2. PICK next \in SetCheckpointTS(mem, metadata) :
            mem' = next /\ store' = next /\ pc' = "scan"
    BY <1>22 DEF Scan, Save
  <2>3. UNCHANGED <<conf, now, dump, metadata, feeds>>
    BY <1>22 DEF Scan
  <2>4. store' \in State /\ store'.finished /\ store'.checkpoint = metadata
    BY <2>1, <2>2, SetCheckpointFacts
  <2>5. /\ reached # 0 /\ reached = Base /\ Base < metadata
    BY <2>1, NotAState DEF Base, Finished, CheckpointIsReached
  <2>6. reached' = metadata
    <3>1. \A ts \in (reached + 1)..metadata : Delivered(ts)
      BY <2>5 DEF ReachInv, ChangesAreThere
    <3> QED BY <1>22, <2>5, <3>1 DEF Scan
  <2>7. Base' = metadata
    BY <2>4, NotAState DEF Base, Finished
  <2>8. FeedsStartByBase' /\ ChangesAreThere'
    BY <1>b, <2>3, <2>5, <2>7, ChangesStay
  <2> QED BY <2>2, <2>4, <2>5, <2>6, <2>8 DEF ReachInv, CheckpointIsReached
<1>23. ASSUME NEW j \in Jobs, NEW arrives \in BOOLEAN, PostFeed(j, arrives) PROVE ReachInv'
  <2> DEFINE first == Begun(StartTSO)
  <2>1. /\ pc = "changefeed" /\ pc' \in {"set changefeed", "down"}
        /\ UNCHANGED <<store, now, dump, reached, conf>>
        /\ feeds' = [feeds EXCEPT ![j] = [state |-> "running", tso |-> first, upto |-> first]]
        /\ metadata' \in {first, metadata}
    BY <1>23 DEF PostFeed, Unused, Kept, Stopped, warehouseVars
  <2>2. Base' = Base
    BY <2>1 DEF Base, Finished, HasMetadata
  <2>3. first = Base
    <3>1. mem \in State /\ store = mem
      BY <2>1 DEF CopyIsStored
    <3>2. CASE mem.finished
      BY <3>1, <3>2, NotAState DEF Begun, StartTSO, Base, Finished, CheckpointIsReached
    <3>3. CASE ~mem.finished
      BY <2>1, <3>1, <3>3, NotAState
      DEF Begun, StartTSO, Base, Finished, CheckpointIsReached, HasMetadata
    <3> QED BY <3>2, <3>3
  <2> HIDE DEF first
  <2>4. /\ feeds'[j].tso = first /\ \A k \in Jobs \ {j} : feeds'[k] = feeds[k]
    BY <2>1
  <2>5. feeds[j].tso = 0 /\ feeds[j].upto = 0
    <3>1. feeds[j] = NoFeedYet
      BY <1>23 DEF PostFeed, Unused
    <3> QED BY <3>1 DEF NoFeedYet
  <2>6. FeedsStartByBase'
    BY <1>b, <2>2, <2>3, <2>4 DEF ReachInv, FeedsStartByBase
  <2>7. ChangesAreThere'
    <3> SUFFICES ASSUME NEW ts \in Nat, Base' < ts, ts <= metadata' PROVE Delivered(ts)'
      BY DEF ChangesAreThere
    <3>1. metadata' = Base \/ metadata' = metadata
      BY <2>1, <2>3
    <3>2. Base < ts /\ ts <= metadata
      BY <1>b, <2>2, <3>1
    <3>3. PICK k \in Jobs : feeds[k].tso < ts /\ ts <= feeds[k].upto
      BY <3>2 DEF ReachInv, ChangesAreThere, Delivered
    <3>4. k # j
      BY <2>5, <3>3
    <3> QED BY <2>4, <3>3, <3>4 DEF Delivered
  <2>8. CheckpointIsReached'
    BY <2>1 DEF CheckpointIsReached
  <2> QED BY <2>1, <2>6, <2>7, <2>8 DEF ReachInv
<1>24. ASSUME NEW j \in Jobs, FeedDelivers(j) PROVE ReachInv'
  <2>1. PICK ts \in (feeds[j].upto + 1)..now :
            feeds' = [feeds EXCEPT ![j].upto = ts] /\ metadata' = ts
    BY <1>24 DEF FeedDelivers
  <2>2. UNCHANGED <<store, pc, mem, start, now, dump, reached, conf>>
    BY <1>24 DEF FeedDelivers, Outside, processVars, warehouseVars
  <2>3. Base' = Base
    BY <2>2 DEF Base, Finished, HasMetadata
  <2>4. /\ \A k \in Jobs : feeds'[k].tso = feeds[k].tso
        /\ feeds'[j].upto = metadata'
    BY <2>1
  <2>5. FeedsStartByBase'
    BY <2>3, <2>4 DEF ReachInv, FeedsStartByBase
  <2>6. ChangesAreThere'
    BY <1>b, <2>3, <2>4 DEF ReachInv, FeedsStartByBase, ChangesAreThere, Delivered
  <2> QED BY <2>2, <2>5, <2>6 DEF ReachInv, CheckpointIsReached
<1> QED
  BY <1>1, <1>2, <1>3, <1>4, <1>5, <1>6, <1>7, <1>8, <1>9, <1>10, <1>11, <1>12, <1>13,
     <1>14, <1>15, <1>16, <1>17, <1>18, <1>19, <1>20, <1>21, <1>22, <1>23, <1>24
  DEF Next, CreateNext, DeleteNext, OutsideNext

(***************************************************************************)
(* Snowflake has every row up to the saved checkpoint: a changefeed starts *)
(* at the checkpoint or at the snapshot, the deletion of one and the       *)
(* creation of the next leave no gap (changefeedStartTSO, saveCheckpoint). *)
(* It needs a snapshot.tso that is not changed, and no incremental-only    *)
(* before there is a state.                                                *)
(***************************************************************************)
THEOREM CheckpointsAreReached ==
    ASSUME ~FreshIncremental, ~ConfigChanges
    PROVE  Spec => []CheckpointReached
<1>1. FeedInv /\ FeedInv' /\ LoadInv /\ LoadInv' /\ ReachInv /\ [Next]_vars => ReachInv'
  <2> SUFFICES ASSUME FeedInv, FeedInv', LoadInv, LoadInv', ReachInv, [Next]_vars
               PROVE  ReachInv'
    OBVIOUS
  <2>1. CASE Next
    BY <2>1, StepReach
  <2>2. CASE UNCHANGED vars
    <3>1. now' \in Nat /\ now <= now'
      BY <2>2 DEF vars, FeedInv, TypeOK
    <3> QED
      BY <2>2, <3>1, ReachStays
      DEF SameProgress, SameChanges, vars, processVars, warehouseVars, ReachInv
  <2> QED BY <2>1, <2>2
<1>2. FeedInv /\ ReachInv => CheckpointReached
  BY DEF FeedInv, TypeOK, State, ReachInv, CheckpointIsReached, CheckpointReached
<1> QED BY <1>1, <1>2, InitReachInv, FeedInvariant, LoadInvariant, PTL DEF Spec
=============================================================================
