------------------------- MODULE CloudSource_proofs -------------------------
(***************************************************************************)
(* Proofs about CloudSource, for every set of jobs and clusters, and every *)
(* bound: the types, that no job is orphaned, that no two jobs write to    *)
(* one prefix, and that Snowflake has every row up to the checkpoint.      *)
(***************************************************************************)
EXTENDS CloudSource, FiniteSetTheorems, TLAPS

(***************************************************************************)
(* What the calls on the state change.  Ids, Pending and Progress are the  *)
(* parts of it that this module's properties speak of.                     *)
(***************************************************************************)
Good(st) == st \in State /\ Valid(st)
SameIds(a, b) == a.export = b.export /\ a.changefeed = b.changefeed
SameProgress(a, b) == a.finished = b.finished /\ a.checkpoint = b.checkpoint

LEMMA StateParts ==
    ASSUME NEW st \in State
    PROVE  /\ st.export \in Jobs \cup {NoJob} /\ st.changefeed \in Jobs \cup {NoJob}
           /\ st.pending \in JobKinds \cup {NoPending}
           /\ st.checkpoint \in Nat /\ st.finished \in BOOLEAN
BY DEF State

LEMMA NewStateFacts ==
    ASSUME NEW b \in BOOLEAN
    PROVE  /\ Good(NewState(b)) /\ NewState(b).pending = NoPending
           /\ NewState(b).export = NoJob /\ NewState(b).changefeed = NoJob
           /\ NewState(b).finished = b /\ NewState(b).checkpoint = 0
BY DEF NewState, State, NewTableState, TableState, NoCursor, Cursor, JobKinds, NoPending,
       Good, Valid

LEMMA NotAState == Absent \notin State /\ Closed \notin State
BY DEF Absent, Closed, State

LEMMA BindFacts ==
    ASSUME NEW st \in State, NEW source \in Sources, NEW r \in BindCloudSource(st, source)
    PROVE  Good(r) /\ SameIds(r, st) /\ SameProgress(r, st) /\ r.pending = st.pending
<1>1. r = [st EXCEPT !.version = 2, !.source = source] /\ Valid(r)
  BY DEF BindCloudSource, Update
<1> QED BY <1>1 DEF State, Good, SameIds, SameProgress

LEMMA BeginFacts ==
    ASSUME NEW st \in State, NEW kind \in JobKinds, NEW r \in BeginCreate(st, kind)
    PROVE  /\ Good(r) /\ SameIds(r, st) /\ SameProgress(r, st)
           /\ r.pending = kind /\ st.pending = NoPending
<1>1. r = [st EXCEPT !.pending = kind] /\ Valid(r) /\ st.pending = NoPending
  BY DEF BeginCreate, Update
<1> QED BY <1>1 DEF State, Good, SameIds, SameProgress

LEMMA ExportBegunFacts ==
    ASSUME mem \in State, Valid(mem), NEW r \in ExportBegun
    PROVE  /\ Good(r) /\ SameIds(r, mem) /\ SameProgress(r, mem)
           /\ r.pending = "export" /\ mem.pending = NoPending
<1>1. PICK st \in Bound(mem) : r \in BeginCreate(st, "export")
  BY DEF ExportBegun
<1>2. /\ Good(st) /\ SameIds(st, mem) /\ SameProgress(st, mem) /\ st.pending = mem.pending
  <2>1. CASE st = mem
    BY <2>1 DEF Good, SameIds, SameProgress
  <2>2. CASE \E source \in Sources : st \in BindCloudSource(mem, source)
    BY <2>2, BindFacts
  <2> QED BY <1>1, <2>1, <2>2 DEF Bound
<1>3. /\ Good(r) /\ SameIds(r, st) /\ SameProgress(r, st)
      /\ r.pending = "export" /\ st.pending = NoPending
  BY <1>1, <1>2, BeginFacts DEF Good, JobKinds
<1> QED BY <1>2, <1>3 DEF SameIds, SameProgress

LEMMA ClearPendingFacts ==
    ASSUME NEW st \in State, NEW r \in ClearPendingCreate(st)
    PROVE  Good(r) /\ SameIds(r, st) /\ SameProgress(r, st) /\ r.pending = NoPending
<1>1. r = [st EXCEPT !.pending = NoPending] /\ Valid(r)
  BY DEF ClearPendingCreate, Update
<1> QED BY <1>1 DEF State, Good, SameIds, SameProgress

LEMMA SetExportFacts ==
    ASSUME NEW st \in State, NEW id \in Jobs, NEW r \in SetExportID(st, id),
           st.pending = "export"
    PROVE  /\ Good(r) /\ SameProgress(r, st) /\ r.pending = NoPending
           /\ r.export = id /\ r.changefeed = st.changefeed
<1>1. r = [st EXCEPT !.export = id, !.pending = NoPending] /\ Valid(r)
  BY DEF SetExportID, Update, Without
<1> QED BY <1>1 DEF State, Good, SameProgress

LEMMA SetFeedFacts ==
    ASSUME NEW st \in State, NEW id \in Jobs, NEW r \in SetChangefeedID(st, id),
           st.pending = "changefeed"
    PROVE  /\ Good(r) /\ SameProgress(r, st) /\ r.pending = NoPending
           /\ r.changefeed = id /\ r.export = st.export
<1>1. r = [st EXCEPT !.changefeed = id, !.pending = NoPending] /\ Valid(r)
  BY DEF SetChangefeedID, Update, Without
<1> QED BY <1>1 DEF State, Good, SameProgress

LEMMA ClearFeedFacts ==
    ASSUME NEW st \in State, NEW r \in ClearChangefeedID(st)
    PROVE  /\ Good(r) /\ SameProgress(r, st) /\ r.pending = st.pending
           /\ r.changefeed = NoJob /\ r.export = st.export
<1>1. r = [st EXCEPT !.changefeed = NoJob] /\ Valid(r)
  BY DEF ClearChangefeedID, Update
<1> QED BY <1>1 DEF State, Good, SameProgress

LEMMA SetCheckpointFacts ==
    ASSUME NEW st \in State, NEW ts \in Nat, NEW r \in SetCheckpointTS(st, ts)
    PROVE  /\ Good(r) /\ SameIds(r, st) /\ r.pending = st.pending
           /\ r.checkpoint = ts /\ r.finished = st.finished
<1>1. r = [st EXCEPT !.checkpoint = ts] /\ Valid(r)
  BY DEF SetCheckpointTS, Update
<1> QED BY <1>1 DEF State, Good, SameIds

LEMMA MarkFacts ==
    ASSUME NEW st \in State, NEW ts \in Nat, NEW r \in MarkSnapshotFinished(st, ts)
    PROVE  /\ Good(r) /\ SameIds(r, st) /\ r.pending = st.pending
           /\ r.checkpoint = ts /\ ts # 0 /\ r.finished
<1>1. r = [st EXCEPT !.checkpoint = ts, !.finished = TRUE] /\ Valid(r) /\ ts # 0
  BY DEF MarkSnapshotFinished, Update, CheckpointAccepted
<1>2. r \in State
  BY <1>1 DEF State
<1> QED BY <1>1, <1>2 DEF State, Good, SameIds

\* What the operator makes of a pending creation.
Cleared(st) == [st EXCEPT !.pending = NoPending]
WithExport(st, id) == [st EXCEPT !.pending = NoPending, !.export = id]
WithFeed(st, id) == [st EXCEPT !.pending = NoPending, !.changefeed = id]

LEMMA RepairClears ==
    ASSUME NEW st \in State, Valid(st), NEW r, r = Cleared(st)
    PROVE  Good(r) /\ SameProgress(r, st) /\ r.pending = NoPending /\ SameIds(r, st)
BY DEF Cleared, State, Valid, Good, SameIds, SameProgress, NoPending

LEMMA RepairExport ==
    ASSUME NEW st \in State, Valid(st), NEW id \in Jobs, NEW r, r = WithExport(st, id)
    PROVE  /\ Good(r) /\ SameProgress(r, st) /\ r.pending = NoPending
           /\ r.export = id /\ r.changefeed = st.changefeed
BY DEF WithExport, State, Valid, Good, SameProgress, NoPending

LEMMA RepairFeed ==
    ASSUME NEW st \in State, Valid(st), NEW id \in Jobs, NEW r, r = WithFeed(st, id)
    PROVE  /\ Good(r) /\ SameProgress(r, st) /\ r.pending = NoPending
           /\ r.changefeed = id /\ r.export = st.export
BY DEF WithFeed, State, Valid, Good, SameProgress, NoPending

----------------------------------------------------------------------------
(***************************************************************************)
(* The jobs: the process has the saved state, whose ids are of jobs of     *)
(* their kind; a creation that is pending has a marker, and the job of     *)
(* that name does not exist yet or is of that kind.                        *)
(***************************************************************************)
CopyIsStored == pc # "down" => mem \in State /\ store = mem

StateIsValid == store # Absent => Valid(store)

Settled == {"snapshot", "wait export", "changefeed", "wait changefeed", "load",
            "tables", "files", "mark", "scan", "done"}

CreationIsMarked ==
    /\ store # Absent /\ store.pending # NoPending =>
           marker \in Jobs /\ jobs[marker].kind \in {NoPending, store.pending}
    /\ pc \in {"post export", "set export"} => mem.pending = "export"
    /\ pc \in {"post changefeed", "set changefeed"} => mem.pending = "changefeed"
    /\ pc = "clear pending" => mem.pending # NoPending
    /\ pc \in {"post export", "post changefeed", "clear pending"} => jobs[marker] = NoJobYet
    /\ pc \in {"set export", "set changefeed"} => jobs[marker].kind = mem.pending
    /\ pc \in Settled => mem.pending = NoPending
    /\ pc = "delete" => mem.changefeed # NoJob

JobsAreKnown ==
    /\ \A j \in Jobs : jobs[j].kind = NoPending => jobs[j] = NoJobYet
    /\ store = Absent => \A j \in Jobs : jobs[j] = NoJobYet
    /\ store # Absent => /\ store.export # NoJob => jobs[store.export].kind = "export"
                         /\ store.changefeed # NoJob =>
                                jobs[store.changefeed].kind = "changefeed"

JobInv ==
    /\ TypeOK /\ CopyIsStored /\ StateIsValid /\ CreationIsMarked /\ JobsAreKnown
    /\ NoOrphan

JobStates == {"none", "creating", "running", "succeeded", "failed", "deleted"}
JobTable == [Jobs -> [kind : JobKinds \cup {NoPending}, tso : Nat, upto : Nat,
                      state : JobStates]]
Dumps == [tso : Nat, complete : BOOLEAN, writers : SUBSET (Jobs \cup {External})]

LEMMA InitJobInv == Init => JobInv
<1> SUFFICES ASSUME Init PROVE JobInv
  OBVIOUS
<1>1. /\ store = Absent /\ marker = NoJob /\ pc = "down" /\ mem = Closed /\ mode = "all"
      /\ conf = 0 /\ start = 0 /\ now = 1 /\ metadata = 0 /\ reached = 0 /\ faults = 0
  BY DEF Init
<1>2. jobs = [j \in Jobs |-> NoJobYet]
  BY DEF Init
<1>3. jobs \in JobTable /\ \A j \in Jobs : jobs[j] = NoJobYet /\ ~Live(j)
  <2>1. NoJobYet \in [kind : JobKinds \cup {NoPending}, tso : Nat, upto : Nat,
                      state : JobStates]
    BY DEF NoJobYet, JobStates
  <2>2. NoJobYet.state = "none"
    BY DEF NoJobYet
  <2>3. jobs \in JobTable
    BY <1>2, <2>1 DEF JobTable
  <2>4. \A j \in Jobs : jobs[j] = NoJobYet
    BY <1>2
  <2> QED BY <2>2, <2>3, <2>4 DEF Live
<1>4. dump \in Dumps
  <2>1. /\ Empty \in Dumps /\ ExternalSnapshot \in Dumps
        /\ {External} \in SUBSET (Jobs \cup {External})
    BY DEF Empty, ExternalSnapshot, Dumps
  <2>2. ExternalPartial \in Dumps
    BY <2>1 DEF ExternalPartial, Dumps
  <2> QED BY <2>1, <2>2 DEF Init
<1>5. TypeOK
  BY <1>1, <1>3, <1>4 DEF TypeOK, AllModes, JobTable, JobStates, Dumps
<1>6. NoOrphan
  BY <1>3 DEF NoOrphan
<1> QED
  BY <1>1, <1>3, <1>5, <1>6
  DEF JobInv, CopyIsStored, StateIsValid, CreationIsMarked, JobsAreKnown, Settled

(***************************************************************************)
(* What a write of the state may change, whether it succeeded or was       *)
(* reported as failed: the object is created, the cluster bound, a         *)
(* creation announced, its job named, or the snapshot marked finished.     *)
(***************************************************************************)
Opens ==
    /\ store = Absent /\ marker' \in {marker, NoJob}
    /\ \E b \in BOOLEAN : store' = NewState(b) /\ (b => FreshIncremental)

Binds ==
    /\ SameIds(store', store) /\ SameProgress(store', store)
    /\ store'.pending = store.pending /\ marker' = marker

Begins ==
    /\ SameIds(store', store) /\ SameProgress(store', store)
    /\ store.pending = NoPending /\ store'.pending \in JobKinds /\ marker' \in Unused

NamesExport ==
    /\ pc = "set export" /\ marker \in Jobs /\ store.pending = "export"
    /\ store'.export = marker /\ store'.changefeed = store.changefeed
    /\ SameProgress(store', store) /\ store'.pending = NoPending /\ marker' = NoJob

NamesFeed ==
    /\ pc = "set changefeed" /\ marker \in Jobs /\ store.pending = "changefeed"
    /\ store'.changefeed = marker /\ store'.export = store.export
    /\ SameProgress(store', store) /\ store'.pending = NoPending /\ marker' = NoJob

Marks ==
    /\ pc = "mark" /\ SameIds(store', store) /\ store'.pending = store.pending
    /\ store'.finished /\ store'.checkpoint = dump.tso /\ dump.tso # 0 /\ marker' = marker

SavedBy ==
    /\ Good(store')
    /\ \/ Opens
       \/ store \in State /\ (Binds \/ Begins \/ NamesExport \/ NamesFeed \/ Marks)

Calls ==
    \/ \E source \in Sources : store' \in BindCloudSource(mem, source) /\ marker' = marker
    \/ store' \in ExportBegun /\ marker' \in Unused
    \/ store' \in BeginCreate(mem, "changefeed") /\ marker' \in Unused
    \/ pc = "set export" /\ store' \in SetExportID(mem, marker) /\ marker' = NoJob
    \/ pc = "set changefeed" /\ store' \in SetChangefeedID(mem, marker) /\ marker' = NoJob
    \/ pc = "mark" /\ store' \in MarkSnapshotFinished(mem, dump.tso) /\ marker' = marker

LEMMA CallSaves == JobInv /\ pc # "down" /\ Calls => SavedBy
<1> SUFFICES ASSUME JobInv, pc # "down", Calls PROVE SavedBy
  OBVIOUS
<1>1. mem \in State /\ store = mem /\ Valid(mem) /\ dump.tso \in Nat
  BY NotAState DEF JobInv, CopyIsStored, StateIsValid, TypeOK
<1>2. /\ pc = "set export" => mem.pending = "export" /\ marker \in Jobs
      /\ pc = "set changefeed" => mem.pending = "changefeed" /\ marker \in Jobs
  BY <1>1, NotAState DEF JobInv, CreationIsMarked, NoPending
<1>3. CASE \E source \in Sources : store' \in BindCloudSource(mem, source) /\ marker' = marker
  <2>1. Good(store') /\ Binds
    BY <1>1, <1>3, BindFacts DEF Binds
  <2> QED BY <1>1, <2>1 DEF SavedBy
<1>4. CASE store' \in ExportBegun /\ marker' \in Unused
  <2>1. Good(store') /\ Begins
    BY <1>1, <1>4, ExportBegunFacts DEF Begins, JobKinds
  <2> QED BY <1>1, <2>1 DEF SavedBy
<1>5. CASE store' \in BeginCreate(mem, "changefeed") /\ marker' \in Unused
  <2>1. "changefeed" \in JobKinds
    BY DEF JobKinds
  <2>2. Good(store') /\ Begins
    BY <1>1, <1>5, <2>1, BeginFacts DEF Begins
  <2> QED BY <1>1, <2>2 DEF SavedBy
<1>6. CASE pc = "set export" /\ store' \in SetExportID(mem, marker) /\ marker' = NoJob
  <2>1. Good(store') /\ NamesExport
    BY <1>1, <1>2, <1>6, SetExportFacts DEF NamesExport
  <2> QED BY <1>1, <2>1 DEF SavedBy
<1>7. CASE pc = "set changefeed" /\ store' \in SetChangefeedID(mem, marker) /\ marker' = NoJob
  <2>1. Good(store') /\ NamesFeed
    BY <1>1, <1>2, <1>7, SetFeedFacts DEF NamesFeed
  <2> QED BY <1>1, <2>1 DEF SavedBy
<1>8. CASE pc = "mark" /\ store' \in MarkSnapshotFinished(mem, dump.tso) /\ marker' = marker
  <2>1. Good(store') /\ Marks
    BY <1>1, <1>8, MarkFacts DEF Marks
  <2> QED BY <1>1, <2>1 DEF SavedBy
<1> QED BY <1>3, <1>4, <1>5, <1>6, <1>7, <1>8 DEF Calls

\* The steps that save, with what they do to the process.
SavingStep ==
    \/ \E source \in Sources : Preflight(source)
    \/ \E name \in Jobs : BeginExport(name) \/ BeginFeed(name)
    \/ RecordExport \/ RecordFeed \/ MarkFinished

NextStepOf(step, nextStep) ==
    \/ step = "preflight" /\ nextStep \in {"snapshot", "changefeed"}
    \/ step = "snapshot" /\ nextStep = "post export"
    \/ step = "changefeed" /\ nextStep = "post changefeed"
    \/ step = "set export" /\ nextStep = "wait export"
    \/ step = "set changefeed" /\ nextStep = "wait changefeed"
    \/ step = "mark" /\ nextStep \in {"scan", "done"}

LEMMA StepSaves ==
    JobInv /\ SavingStep =>
        /\ SavedBy /\ mem' = store' /\ NextStepOf(pc, pc')
        /\ UNCHANGED <<mode, conf>> /\ Elsewhere
<1> SUFFICES ASSUME JobInv, SavingStep
             PROVE  /\ Calls /\ mem' = store' /\ NextStepOf(pc, pc')
                    /\ UNCHANGED <<mode, conf>> /\ Elsewhere
  BY CallSaves DEF NextStepOf
<1> USE DEF At, Goto
<1>1. ASSUME NEW source \in Sources, Preflight(source)
      PROVE  /\ Calls /\ mem' = store' /\ NextStepOf(pc, pc')
             /\ UNCHANGED <<mode, conf>> /\ Elsewhere
  BY <1>1 DEF Preflight, Save, FirstStep, Calls, NextStepOf
<1>2. ASSUME NEW name \in Jobs, BeginExport(name)
      PROVE  /\ Calls /\ mem' = store' /\ NextStepOf(pc, pc')
             /\ UNCHANGED <<mode, conf>> /\ Elsewhere
  BY <1>2 DEF BeginExport, Save, Calls, NextStepOf
<1>3. ASSUME NEW name \in Jobs, BeginFeed(name)
      PROVE  /\ Calls /\ mem' = store' /\ NextStepOf(pc, pc')
             /\ UNCHANGED <<mode, conf>> /\ Elsewhere
  BY <1>3 DEF BeginFeed, Save, Calls, NextStepOf
<1>4. CASE RecordExport
  BY <1>4 DEF RecordExport, Save, Calls, NextStepOf
<1>5. CASE RecordFeed
  BY <1>5 DEF RecordFeed, Save, Calls, NextStepOf
<1>6. CASE MarkFinished
  BY <1>6 DEF MarkFinished, Save, Calls, NextStepOf
<1> QED BY <1>1, <1>2, <1>3, <1>4, <1>5, <1>6 DEF SavingStep

LEMMA FailureSaves ==
    JobInv /\ SaveFails =>
        /\ SavedBy /\ Stopped /\ Fault
        /\ UNCHANGED <<now, jobs, dump, metadata, reached>>
<1> SUFFICES ASSUME JobInv, SaveFails PROVE SavedBy
  BY DEF SaveFails, Written
<1> USE DEF At, Written
<1>1. CASE /\ pc = "down" /\ store = Absent
           /\ \E m \in Modes : /\ m = "incremental-only" => FreshIncremental
                               /\ Written({NewState(m = "incremental-only")}, NoJob)
  <2>1. Opens
    BY <1>1 DEF Opens
  <2>2. Good(store')
    BY <2>1, NewStateFacts DEF Opens
  <2> QED BY <2>1, <2>2 DEF SavedBy
<1>2. CASE pc # "down" /\ Calls
  BY <1>2, CallSaves
<1> QED BY <1>1, <1>2 DEF SaveFails, Calls

\* What the answer to a POST does to the process.
LEMMA OutcomeFacts ==
    ASSUME TypeOK, NEW response, NEW created \in BOOLEAN, NEW step, step # "down",
           Outcome(response, created, step)
    PROVE  /\ faults' \in Nat /\ mode' = mode /\ conf' = conf /\ start' \in {start, 0}
           /\ \/ pc' = "down" /\ mem' = Closed
              \/ pc' = step /\ mem' = mem /\ created
              \/ pc' = "clear pending" /\ mem' = mem /\ ~created
<1>1. faults' \in Nat
  <2>1. faults \in Nat
    BY DEF TypeOK
  <2>2. faults' = faults \/ faults' = faults + 1
    BY DEF Outcome, Fault
  <2> QED BY <2>1, <2>2
<1>2. CASE response = "id"
  BY <1>1, <1>2 DEF Outcome, HasCreated, Goto
<1>3. CASE response # "id" /\ DefinitelyRejected(response)
  BY <1>1, <1>3 DEF Outcome, DefinitelyRejected, MayHaveCreated, Goto
<1>4. CASE response # "id" /\ ~DefinitelyRejected(response)
  BY <1>1, <1>4 DEF Outcome, Stopped
<1> QED BY <1>2, <1>3, <1>4

LEMMA StepType == JobInv /\ Next => TypeOK'
<1> SUFFICES ASSUME JobInv, Next PROVE TypeOK'
  OBVIOUS
<1>t. /\ TypeOK /\ CopyIsStored /\ StateIsValid /\ CreationIsMarked
      /\ jobs \in JobTable /\ dump \in Dumps
      /\ store \in State \cup {Absent}
      /\ mem \in State \cup {Closed} /\ (mem = Closed <=> pc = "down")
      /\ marker \in Jobs \cup {NoJob}
      /\ mode \in AllModes /\ conf \in Nat /\ start \in Nat
      /\ now \in Nat /\ metadata \in Nat /\ reached \in Nat /\ faults \in Nat
  BY DEF JobInv, TypeOK, JobTable, JobStates, Dumps
<1> DEFINE Goal ==
      /\ jobs' \in JobTable /\ dump' \in Dumps
      /\ store' \in State \cup {Absent}
      /\ mem' \in State \cup {Closed} /\ (mem' = Closed <=> pc' = "down")
      /\ marker' \in Jobs \cup {NoJob}
      /\ mode' \in AllModes /\ conf' \in Nat /\ start' \in Nat
      /\ now' \in Nat /\ metadata' \in Nat /\ reached' \in Nat /\ faults' \in Nat
<1> SUFFICES Goal
  BY DEF TypeOK, JobTable, JobStates, Dumps
<1>o. Modes \subseteq AllModes /\ ConfigTSOs \subseteq Nat
  BY CloudAssumption DEF CloudAssumption
<1> USE <1>t, NotAState DEF Goto, At
<1>1. CASE Crash
  BY <1>1 DEF Crash, Stopped, Unsaved, Fault
<1>2. CASE PreflightSkipped
  BY <1>2 DEF PreflightSkipped, Unsaved, Elsewhere
<1>3. CASE SkipSnapshot
  BY <1>3 DEF SkipSnapshot, AfterPrepare, Unsaved, Elsewhere
<1>4. CASE ResumeExport
  BY <1>4 DEF ResumeExport, Unsaved, Elsewhere
<1>5. CASE WaitExport
  BY <1>5 DEF WaitExport, AfterPrepare, Unsaved, Elsewhere
<1>6. CASE ReuseFeed
  BY <1>6 DEF ReuseFeed, Unsaved, Elsewhere
<1>7. CASE WaitFeed
  BY <1>7 DEF WaitFeed, Unsaved, Elsewhere
<1>8. CASE BeginLoad
  BY <1>8 DEF BeginLoad, Unsaved, Elsewhere
<1>9. CASE PrepareTables
  BY <1>9 DEF PrepareTables, Unsaved
<1>10. CASE LoadFiles
  BY <1>10 DEF LoadFiles, Unsaved, Dumps
<1>11. CASE GiveUp
  BY <1>11 DEF GiveUp, Return, Stopped, Unsaved, Elsewhere
<1>12. CASE Delete
  BY <1>12 DEF Delete, Unsaved, Elsewhere
<1>13. CASE Tick
  BY <1>13 DEF Tick, Outside, processVars
<1>14. CASE \E m \in Modes, tso \in ConfigTSOs : Create(m, tso)
  <2>1. PICK m \in Modes, tso \in ConfigTSOs : Create(m, tso)
    BY <1>14
  <2>2. store' \in State /\ mem' = store' /\ pc' = "preflight"
    BY <2>1, NewStateFacts DEF Create, Good
  <2> QED BY <1>o, <2>1, <2>2 DEF Create, Elsewhere
<1>15. CASE SavingStep
  <2>1. /\ SavedBy /\ mem' = store' /\ NextStepOf(pc, pc')
        /\ UNCHANGED <<mode, conf, now, jobs, dump, metadata, reached, faults>>
    BY <1>15, StepSaves DEF Elsewhere
  <2>2. store' \in State /\ marker' \in Jobs \cup {NoJob} /\ pc' # "down"
    BY <2>1 DEF SavedBy, Good, Opens, Binds, Begins, NamesExport, NamesFeed, Marks, Unused,
                NextStepOf
  <2>3. start' \in Nat
    <3>1. ASSUME NEW name \in Jobs, BeginFeed(name) PROVE start' \in Nat
      <4>1. mem \in State
        BY <3>1 DEF BeginFeed, CopyIsStored
      <4> QED BY <3>1, <4>1, StateParts DEF BeginFeed, StartTSO, Dumps
    <3> QED
      BY <1>15, <3>1 DEF SavingStep, Preflight, BeginExport, RecordExport, RecordFeed, MarkFinished
  <2> QED BY <2>1, <2>2, <2>3
<1>16. CASE SaveFails
  <2>1. SavedBy /\ Stopped /\ Fault /\ UNCHANGED <<now, jobs, dump, metadata, reached>>
    BY <1>16, FailureSaves
  <2>2. store' \in State /\ marker' \in Jobs \cup {NoJob}
    BY <2>1 DEF SavedBy, Good, Opens, Binds, Begins, NamesExport, NamesFeed, Marks, Unused
  <2> QED BY <2>1, <2>2 DEF Stopped, Fault
<1>17. ASSUME NEW response \in Responses, NEW created \in BOOLEAN, PostExport(response, created)
       PROVE  Goal
  <2>1. Outcome(response, created, "set export") /\ pc = "post export"
    BY <1>17 DEF PostExport
  <2>2. UNCHANGED <<store, marker, now, dump, metadata, reached>>
    BY <1>17 DEF PostExport, Unsaved
  <2>3. jobs' \in JobTable
    BY <1>17 DEF PostExport, JobTable, JobStates, JobKinds
  <2>4. /\ faults' \in Nat /\ mode' = mode /\ conf' = conf /\ start' \in {start, 0}
        /\ \/ pc' = "down" /\ mem' = Closed
           \/ pc' # "down" /\ mem' = mem
    BY <2>1, OutcomeFacts
  <2>5. mem' \in State \cup {Closed} /\ (mem' = Closed <=> pc' = "down") /\ start' \in Nat
    <3>1. mem # Closed
      BY <1>17 DEF PostExport
    <3> QED BY <2>4, <3>1
  <2> QED BY <2>2, <2>3, <2>4, <2>5
<1>18. ASSUME NEW response \in Responses, NEW created \in BOOLEAN, PostFeed(response, created)
       PROVE  Goal
  <2>1. Outcome(response, created, "set changefeed") /\ pc = "post changefeed"
    BY <1>18 DEF PostFeed
  <2>2. UNCHANGED <<store, marker, now, dump, metadata, reached>>
    BY <1>18 DEF PostFeed, Unsaved
  <2>3. jobs' \in JobTable
    BY <1>18 DEF PostFeed, JobTable, JobStates, JobKinds
  <2>4. /\ faults' \in Nat /\ mode' = mode /\ conf' = conf /\ start' \in {start, 0}
        /\ \/ pc' = "down" /\ mem' = Closed
           \/ pc' # "down" /\ mem' = mem
    BY <2>1, OutcomeFacts
  <2>5. mem' \in State \cup {Closed} /\ (mem' = Closed <=> pc' = "down") /\ start' \in Nat
    <3>1. mem # Closed
      BY <1>18 DEF PostFeed
    <3> QED BY <2>4, <3>1
  <2> QED BY <2>2, <2>3, <2>4, <2>5
<1>19. CASE ClearPending
  <2>1. store' \in State
    BY <1>19, ClearPendingFacts DEF ClearPending, CopyIsStored, Good
  <2> QED BY <1>19, <2>1 DEF ClearPending, Stopped, Elsewhere
<1>20. CASE Scan
  <2>1. mem \in State
    BY <1>20 DEF Scan, CopyIsStored
  <2>2. PICK next \in SetCheckpointTS(mem, metadata) :
            mem' = next /\ store' = next /\ pc' = "scan"
    BY <1>20 DEF Scan, Save
  <2>3. next \in State
    BY <2>1, <2>2, SetCheckpointFacts DEF Good
  <2>4. reached' \in Nat
    BY <1>20 DEF Scan
  <2> QED BY <1>20, <2>2, <2>3, <2>4 DEF Scan
<1>21. CASE DeleteFeed
  <2>1. jobs' = [jobs EXCEPT ![mem.changefeed].state = "deleted"]
    BY <1>21 DEF DeleteFeed
  <2>2. jobs' \in JobTable
    BY <2>1 DEF JobTable, JobStates
  <2> QED BY <1>21, <2>2 DEF DeleteFeed, processVars, Unsaved
<1>22. CASE ClearFeed
  <2>1. store' \in State
    BY <1>22, ClearFeedFacts DEF ClearFeed, CopyIsStored, Good
  <2> QED BY <1>22, <2>1 DEF ClearFeed, Stopped, Elsewhere
<1>23. ASSUME NEW j \in Jobs, ExportWrites(j) PROVE Goal
  <2>1. dump' \in Dumps
    <3>1. jobs[j].tso \in Nat /\ dump.writers \cup {j} \in SUBSET (Jobs \cup {External})
      BY DEF JobTable, Dumps
    <3> DEFINE both == dump.writers \cup {j}
    <3>2. \/ dump' = [dump EXCEPT !.tso = jobs[j].tso, !.writers = both]
          \/ dump' = [dump EXCEPT !.complete = TRUE, !.writers = both]
      BY <1>23 DEF ExportWrites
    <3> HIDE DEF both
    <3>3. both \in SUBSET (Jobs \cup {External})
      BY <3>1 DEF both
    <3> QED BY <3>1, <3>2, <3>3 DEF Dumps
  <2> QED BY <1>23, <2>1 DEF ExportWrites, Outside, processVars
<1>24. ASSUME NEW j \in Jobs, ExportEnds(j) PROVE Goal
  <2>1. jobs' \in JobTable
    BY <1>24 DEF ExportEnds, JobTable, JobStates
  <2>2. faults' \in Nat
    BY <1>24 DEF ExportEnds, Fault
  <2> QED BY <1>24, <2>1, <2>2 DEF ExportEnds, processVars
<1>25. ASSUME NEW j \in Jobs, FeedStarts(j) PROVE Goal
  <2>1. jobs' \in JobTable
    BY <1>25 DEF FeedStarts, JobTable, JobStates
  <2>2. metadata' \in Nat
    BY <1>25 DEF FeedStarts, JobTable
  <2> QED BY <1>25, <2>1, <2>2 DEF FeedStarts, Outside, processVars
<1>26. ASSUME NEW j \in Jobs, FeedDelivers(j) PROVE Goal
  <2>1. PICK ts \in (jobs[j].upto + 1)..now :
            jobs' = [jobs EXCEPT ![j].upto = ts] /\ metadata' = ts
    BY <1>26 DEF FeedDelivers
  <2>2. ts \in Nat /\ jobs' \in JobTable
    BY <2>1 DEF JobTable
  <2> QED BY <1>26, <2>1, <2>2 DEF FeedDelivers, Outside, processVars
<1>27. CASE Repair
  <2>1. store \in State /\ Valid(store) /\ marker \in Jobs
    BY <1>27 DEF Repair, StateIsValid, CreationIsMarked
  <2>2. store' \in State
    BY <1>27, <2>1, RepairClears, RepairExport, RepairFeed
    DEF Repair, Good, Cleared, WithExport, WithFeed
  <2> QED BY <1>27, <2>2 DEF Repair, processVars, Elsewhere
<1> QED
  BY <1>1, <1>2, <1>3, <1>4, <1>5, <1>6, <1>7, <1>8, <1>9, <1>10, <1>11, <1>12, <1>13,
     <1>14, <1>15, <1>16, <1>17, <1>18, <1>19, <1>20, <1>21, <1>22, <1>23, <1>24, <1>25,
     <1>26, <1>27
  DEF Next, CreateNext, DeleteNext, CloudNext, SavingStep

----------------------------------------------------------------------------
(***************************************************************************)
(* The jobs, step by step.                                                 *)
(***************************************************************************)
JobsKept ==
    CopyIsStored /\ StateIsValid /\ CreationIsMarked /\ JobsAreKnown /\ NoOrphan

LEMMA NoJobYetFacts ==
    NoJobYet.kind = NoPending /\ NoJobYet.state = "none" /\ NoJobYet.upto = 0
BY DEF NoJobYet

LEMMA Kinds == NoPending \notin JobKinds /\ "export" \in JobKinds /\ "changefeed" \in JobKinds
BY DEF JobKinds, NoPending

LEMMA JobInvParts ==
    ASSUME JobInv
    PROVE  /\ JobsKept /\ jobs \in JobTable
           /\ store \in State \cup {Absent} /\ marker \in Jobs \cup {NoJob}
           /\ \A j \in Jobs : Live(j) => jobs[j] # NoJobYet /\ jobs[j].kind # NoPending
           /\ store # Absent => /\ store.pending = "export" => store.export = NoJob
                                /\ store.pending = "changefeed" => store.changefeed = NoJob
<1>1. JobsKept /\ jobs \in JobTable
      /\ store \in State \cup {Absent} /\ marker \in Jobs \cup {NoJob}
  BY DEF JobInv, JobsKept, TypeOK, JobTable, JobStates
<1>2. \A j \in Jobs : Live(j) => jobs[j] # NoJobYet
  BY NoJobYetFacts DEF Live
<1>3. \A j \in Jobs : Live(j) => jobs[j].kind # NoPending
  BY <1>1, <1>2 DEF JobsKept, JobsAreKnown
<1>4. store # Absent => Valid(store)
  BY <1>1 DEF JobsKept, StateIsValid
<1> QED BY <1>1, <1>2, <1>3, <1>4 DEF Valid

\* Nothing is saved and no job changes.
LEMMA JobsStay ==
    ASSUME JobInv, UNCHANGED <<store, marker, jobs>>,
           \/ pc' = "down"
           \/ /\ mem' = store /\ store \in State
              /\ \/ pc' = "preflight"
                 \/ pc' \in Settled /\ store.pending = NoPending
                 \/ pc' = "delete" /\ store.changefeed # NoJob
    PROVE  JobsKept'
<1> USE JobInvParts DEF JobsKept
<1>1. CopyIsStored' /\ StateIsValid'
  BY DEF CopyIsStored, StateIsValid
<1>2. CreationIsMarked'
  BY DEF CreationIsMarked, Settled
<1>3. JobsAreKnown' /\ NoOrphan'
  BY DEF JobsAreKnown, NoOrphan, Live
<1> QED BY <1>1, <1>2, <1>3

\* A job goes on, and the process does nothing.
LEMMA JobGoesOn ==
    ASSUME JobInv, UNCHANGED <<store, marker, pc, mem>>, NEW j \in Jobs,
           jobs[j].state # "none", jobs'[j].kind = jobs[j].kind, Live(j)' => Live(j),
           \A k \in Jobs \ {j} : jobs'[k] = jobs[k]
    PROVE  JobsKept'
<1> USE JobInvParts DEF JobsKept
<1>0. jobs[j] # NoJobYet /\ jobs[j].kind # NoPending
  BY NoJobYetFacts DEF JobsAreKnown
<1>1. CopyIsStored' /\ StateIsValid'
  BY DEF CopyIsStored, StateIsValid
<1>2. \A k \in Jobs : jobs'[k].kind = jobs[k].kind /\ (Live(k)' => Live(k))
                      /\ (jobs[k] = NoJobYet => jobs'[k] = NoJobYet)
  BY <1>0 DEF Live
<1>3. marker \in Jobs => jobs'[marker].kind = jobs[marker].kind
                         /\ (jobs[marker] = NoJobYet => jobs'[marker] = NoJobYet)
  BY <1>2
<1>4. CreationIsMarked'
  <2>1. pc \in {"post export", "post changefeed", "clear pending", "set export", "set changefeed"}
           => marker \in Jobs
    BY NotAState, Kinds DEF CreationIsMarked, CopyIsStored, NoPending
  <2> QED BY <1>3, <2>1 DEF CreationIsMarked
<1>5. JobsAreKnown'
  <2>1. \A k \in Jobs : jobs'[k].kind = NoPending => jobs'[k] = NoJobYet
    BY <1>2 DEF JobsAreKnown
  <2>2. store = Absent => \A k \in Jobs : jobs'[k] = NoJobYet
    BY <1>2 DEF JobsAreKnown
  <2>3. store # Absent => /\ store.export \in Jobs \cup {NoJob}
                         /\ store.changefeed \in Jobs \cup {NoJob}
    BY StateParts
  <2> QED BY <1>2, <2>1, <2>2, <2>3 DEF JobsAreKnown
<1>6. NoOrphan'
  BY <1>2 DEF NoOrphan
<1> QED BY <1>1, <1>4, <1>5, <1>6

PendingFits ==
    /\ pc' \in Settled => store'.pending = NoPending
    /\ pc' = "post export" => store'.pending = "export" /\ marker' \in Unused
    /\ pc' = "post changefeed" => store'.pending = "changefeed" /\ marker' \in Unused

(***************************************************************************)
(* A write of the state, with no change of jobs: what it names anew was    *)
(* marked before, and what it overwrites was no job.                       *)
(***************************************************************************)
LEMMA SaveKeeps ==
    ASSUME JobInv, SavedBy, jobs' = jobs,
           \/ pc' = "down"
           \/ /\ mem' = store' /\ PendingFits
              /\ pc' \in Settled \cup {"preflight", "post export", "post changefeed"}
    PROVE  JobsKept'
<1> USE JobInvParts, Kinds DEF JobsKept
<1>1. store' \in State /\ Valid(store') /\ store' # Absent
  BY NotAState DEF SavedBy, Good
<1>2. CopyIsStored' /\ StateIsValid'
  BY <1>1 DEF CopyIsStored, StateIsValid, Valid
<1>3. /\ NoOrphan' /\ JobsAreKnown'
      /\ store'.pending # NoPending =>
             marker' \in Jobs /\ jobs[marker'].kind \in {NoPending, store'.pending}
  <2> USE <1>1
  <2>1. CASE Opens
    <3>1. store'.pending = NoPending /\ store'.export = NoJob /\ store'.changefeed = NoJob
      BY <2>1, NewStateFacts DEF Opens
    <3>2. \A j \in Jobs : jobs[j] = NoJobYet
      BY <2>1 DEF Opens, JobsAreKnown
    <3> QED BY <3>1, <3>2 DEF NoOrphan, JobsAreKnown, Live
  <2>2. CASE store \in State /\ (Binds \/ Marks)
    BY <2>2, NotAState DEF Binds, Marks, SameIds, NoOrphan, JobsAreKnown, CreationIsMarked, Live
  <2>3. CASE store \in State /\ Begins
    <3>1. marker' \in Jobs /\ jobs[marker'].kind = NoPending
      BY <2>3, NoJobYetFacts DEF Begins, Unused
    <3> QED BY <2>3, <3>1, NotAState DEF Begins, SameIds, NoOrphan, JobsAreKnown, Live
  <2>4. CASE store \in State /\ NamesExport
    <3>1. jobs[marker].kind = "export" /\ store.export = NoJob
      BY <2>4, NotAState DEF NamesExport, CreationIsMarked, CopyIsStored
    <3> QED
      BY <2>4, <3>1, NotAState, IdAssumption
      DEF IdAssumption, NamesExport, NoOrphan, JobsAreKnown, Live
  <2>5. CASE store \in State /\ NamesFeed
    <3>1. jobs[marker].kind = "changefeed" /\ store.changefeed = NoJob
      BY <2>5, NotAState DEF NamesFeed, CreationIsMarked, CopyIsStored
    <3> QED
      BY <2>5, <3>1, NotAState, IdAssumption
      DEF IdAssumption, NamesFeed, NoOrphan, JobsAreKnown, Live
  <2> QED BY <2>1, <2>2, <2>3, <2>4, <2>5 DEF SavedBy
<1>4. CreationIsMarked'
  <2>1. CASE pc' = "down"
    BY <1>3, <2>1 DEF CreationIsMarked, Settled
  <2>2. CASE mem' = store' /\ PendingFits /\ pc' \in Settled
    BY <1>3, <2>2 DEF CreationIsMarked, PendingFits, Settled
  <2>3. CASE pc' = "preflight"
    BY <1>3, <2>3 DEF CreationIsMarked, Settled
  <2>4. CASE mem' = store' /\ PendingFits /\ pc' \in {"post export", "post changefeed"}
    <3>1. jobs'[marker'] = NoJobYet
      BY <2>4 DEF PendingFits, Unused
    <3> QED BY <1>3, <2>4, <3>1 DEF CreationIsMarked, PendingFits, Settled
  <2> QED BY <2>1, <2>2, <2>3, <2>4
<1>5. NoOrphan' /\ JobsAreKnown'
  BY <1>3
<1> QED BY <1>2, <1>4, <1>5 DEF JobsKept

\* What the marker and the saved state say where a creation is under way.
LEMMA CreatingFacts ==
    ASSUME JobInv, pc # "down", mem.pending # NoPending
    PROVE  /\ store = mem /\ mem \in State /\ Valid(mem) /\ store # Absent
           /\ marker \in Jobs
BY JobInvParts, NotAState DEF JobsKept, CopyIsStored, StateIsValid, CreationIsMarked

(***************************************************************************)
(* A POST: the job it created is the one the marker names.                 *)
(***************************************************************************)
LEMMA JobCreated ==
    ASSUME JobInv, UNCHANGED <<store, marker>>, pc # "down",
           NEW kind \in JobKinds, mem.pending = kind, jobs[marker] = NoJobYet,
           NEW created \in BOOLEAN, NEW job, job.kind = kind,
           jobs' = IF created THEN [jobs EXCEPT ![marker] = job] ELSE jobs,
           \/ pc' = "down"
           \/ pc' = "clear pending" /\ mem' = mem /\ ~created
           \/ pc' = "set export" /\ kind = "export" /\ mem' = mem /\ created
           \/ pc' = "set changefeed" /\ kind = "changefeed" /\ mem' = mem /\ created
    PROVE  JobsKept'
<1> USE JobInvParts, Kinds DEF JobsKept
<1>1. /\ store = mem /\ mem \in State /\ Valid(mem) /\ store # Absent
      /\ marker \in Jobs
  BY CreatingFacts
<1>2. CopyIsStored' /\ StateIsValid'
  BY <1>1 DEF CopyIsStored, StateIsValid, Valid
<1>3. /\ \A k \in Jobs \ {marker} : jobs'[k] = jobs[k]
      /\ created => jobs'[marker] = job
      /\ ~created => jobs'[marker] = NoJobYet
  BY <1>1 DEF JobTable
<1>4. marker \notin {store.export, store.changefeed}
  BY <1>1, NoJobYetFacts, IdAssumption DEF JobsAreKnown, IdAssumption
<1>5. /\ store.export \in Jobs \cup {NoJob} /\ store.changefeed \in Jobs \cup {NoJob}
  BY <1>1, StateParts
<1>6. jobs'[marker].kind \in {NoPending, kind}
  BY <1>3, NoJobYetFacts
<1>7. CreationIsMarked'
  BY <1>1, <1>3, <1>6 DEF CreationIsMarked, Settled
<1>8. JobsAreKnown'
  BY <1>1, <1>3, <1>4, <1>5 DEF JobsAreKnown
<1>9. NoOrphan'
  <2>1. \A k \in Jobs \ {marker} : Live(k)' => Live(k) /\ jobs'[k].kind = jobs[k].kind
    BY <1>3 DEF Live
  <2>2. Live(marker)' => jobs'[marker].kind = kind
    BY <1>3, NoJobYetFacts DEF Live
  <2> QED BY <1>1, <2>1, <2>2 DEF NoOrphan
<1> QED BY <1>2, <1>7, <1>8, <1>9

LEMMA StepFits == JobInv /\ SavingStep => PendingFits
<1> SUFFICES ASSUME JobInv, SavingStep PROVE PendingFits
  OBVIOUS
<1>1. CopyIsStored /\ CreationIsMarked /\ StateIsValid /\ dump.tso \in Nat
  BY DEF JobInv, TypeOK
<1>2. pc # "down" => mem \in State /\ Valid(mem)
  BY <1>1, NotAState DEF CopyIsStored, StateIsValid
<1> USE <1>1, <1>2, Kinds DEF At, Goto, Save
<1>3. ASSUME NEW source \in Sources, Preflight(source) PROVE PendingFits
  BY <1>3, BindFacts DEF Preflight, FirstStep, PendingFits, Settled
<1>4. ASSUME NEW name \in Jobs, BeginExport(name) PROVE PendingFits
  BY <1>4, ExportBegunFacts DEF BeginExport, PendingFits, Settled
<1>5. ASSUME NEW name \in Jobs, BeginFeed(name) PROVE PendingFits
  BY <1>5, BeginFacts DEF BeginFeed, PendingFits, Settled
<1>6. CASE RecordExport
  <2>1. mem.pending = "export" /\ marker \in Jobs
    BY <1>6, CreatingFacts DEF RecordExport, CreationIsMarked
  <2> QED BY <1>6, <2>1, SetExportFacts DEF RecordExport, PendingFits, Settled
<1>7. CASE RecordFeed
  <2>1. mem.pending = "changefeed" /\ marker \in Jobs
    BY <1>7, CreatingFacts DEF RecordFeed, CreationIsMarked
  <2> QED BY <1>7, <2>1, SetFeedFacts DEF RecordFeed, PendingFits, Settled
<1>8. CASE MarkFinished
  <2>1. mem.pending = NoPending
    BY <1>8 DEF MarkFinished, CreationIsMarked, Settled
  <2> QED BY <1>8, <2>1, MarkFacts DEF MarkFinished, PendingFits, Settled
<1> QED BY <1>3, <1>4, <1>5, <1>6, <1>7, <1>8 DEF SavingStep

LEMMA StepJobs == JobInv /\ Next => JobsKept'
<1> SUFFICES ASSUME JobInv, Next PROVE JobsKept'
  OBVIOUS
<1> USE JobInvParts, NotAState, Kinds DEF At, Goto
<1>0. CopyIsStored /\ StateIsValid /\ CreationIsMarked /\ JobsAreKnown /\ NoOrphan
  BY DEF JobInv
<1>1. CASE Crash
  BY <1>1, JobsStay DEF Crash, Stopped, Unsaved
<1>2. CASE PreflightSkipped
  BY <1>0, <1>2, JobsStay DEF PreflightSkipped, Unsaved, Elsewhere, CopyIsStored, Settled
<1>3. CASE \/ SkipSnapshot \/ ResumeExport \/ WaitExport \/ ReuseFeed \/ WaitFeed
           \/ BeginLoad \/ PrepareTables \/ LoadFiles
  <2>1. pc \in Settled /\ pc' \in Settled /\ UNCHANGED <<store, marker, jobs, mem>>
    BY <1>3
    DEF SkipSnapshot, ResumeExport, WaitExport, ReuseFeed, WaitFeed, BeginLoad, PrepareTables,
        LoadFiles, AfterPrepare, Unsaved, Elsewhere, Settled
  <2>2. pc # "down"
    BY <2>1 DEF Settled
  <2> QED BY <1>0, <2>1, <2>2, JobsStay DEF CopyIsStored, CreationIsMarked
<1>4. CASE GiveUp
  BY <1>4, JobsStay DEF GiveUp, Return, Stopped, Unsaved, Elsewhere
<1>5. CASE Delete
  BY <1>5, JobsStay DEF Delete, Unsaved, Elsewhere
<1>6. CASE Tick
  <2>1. UNCHANGED <<store, marker, jobs, pc, mem>>
    BY <1>6 DEF Tick, Outside, processVars
  <2> QED BY <1>0, <2>1 DEF JobsKept, CopyIsStored, StateIsValid, CreationIsMarked, JobsAreKnown,
                            NoOrphan, Live
<1>7. ASSUME NEW j \in Jobs, ExportWrites(j) PROVE JobsKept'
  <2>1. UNCHANGED <<store, marker, jobs, pc, mem>>
    BY <1>7 DEF ExportWrites, Outside, processVars
  <2> QED BY <1>0, <2>1 DEF JobsKept, CopyIsStored, StateIsValid, CreationIsMarked, JobsAreKnown,
                            NoOrphan, Live
<1>8. ASSUME NEW m \in Modes, NEW tso \in ConfigTSOs, Create(m, tso) PROVE JobsKept'
  <2>1. CASE store = Absent
    <3>1. Opens
      BY <1>8, <2>1 DEF Create, Opens
    <3>2. SavedBy
      BY <3>1, NewStateFacts DEF Opens, SavedBy
    <3>3. mem' = store' /\ jobs' = jobs /\ pc' = "preflight"
      BY <1>8 DEF Create, Elsewhere
    <3>4. PendingFits
      BY <3>3 DEF PendingFits, Settled
    <3> QED BY <3>2, <3>3, <3>4, SaveKeeps
  <2>2. CASE store # Absent
    BY <1>8, <2>2, JobsStay DEF Create, Elsewhere
  <2> QED BY <2>1, <2>2
<1>9. CASE SavingStep
  <2>1. SavedBy /\ mem' = store' /\ NextStepOf(pc, pc') /\ jobs' = jobs /\ PendingFits
    BY <1>9, StepSaves, StepFits DEF Elsewhere
  <2>2. pc' \in Settled \cup {"preflight", "post export", "post changefeed"}
    BY <2>1 DEF NextStepOf, Settled
  <2> QED BY <2>1, <2>2, SaveKeeps
<1>10. CASE SaveFails
  BY <1>10, FailureSaves, SaveKeeps DEF Stopped
<1>11. ASSUME NEW response \in Responses, NEW created \in BOOLEAN,
              PostExport(response, created)
       PROVE  JobsKept'
  <2>1. Outcome(response, created, "set export") /\ pc = "post export" /\ TypeOK
    BY <1>11 DEF PostExport, JobInv
  <2>2. \/ pc' = "down" /\ mem' = Closed
        \/ pc' = "set export" /\ mem' = mem /\ created
        \/ pc' = "clear pending" /\ mem' = mem /\ ~created
    BY <2>1, OutcomeFacts
  <2> DEFINE job == [kind |-> "export", tso |-> IF conf # 0 THEN conf ELSE now,
                     state |-> "running", upto |-> 0]
  <2>3. job.kind = "export" /\ jobs' = IF created THEN [jobs EXCEPT ![marker] = job] ELSE jobs
    BY <1>11 DEF PostExport
  <2> HIDE DEF job
  <2>4. mem.pending = "export" /\ jobs[marker] = NoJobYet
    BY <1>0, <2>1 DEF CreationIsMarked
  <2>5. UNCHANGED <<store, marker>>
    BY <1>11 DEF PostExport, Unsaved
  <2> QED BY <2>1, <2>2, <2>3, <2>4, <2>5, JobCreated
<1>12. ASSUME NEW response \in Responses, NEW created \in BOOLEAN, PostFeed(response, created)
       PROVE  JobsKept'
  <2>1. Outcome(response, created, "set changefeed") /\ pc = "post changefeed" /\ TypeOK
    BY <1>12 DEF PostFeed, JobInv
  <2>2. \/ pc' = "down" /\ mem' = Closed
        \/ pc' = "set changefeed" /\ mem' = mem /\ created
        \/ pc' = "clear pending" /\ mem' = mem /\ ~created
    BY <2>1, OutcomeFacts
  <2> DEFINE job == [kind |-> "changefeed", tso |-> start, state |-> "creating",
                     upto |-> start]
  <2>3. /\ job.kind = "changefeed"
        /\ jobs' = IF created THEN [jobs EXCEPT ![marker] = job] ELSE jobs
    BY <1>12 DEF PostFeed
  <2> HIDE DEF job
  <2>4. mem.pending = "changefeed" /\ jobs[marker] = NoJobYet
    BY <1>0, <2>1 DEF CreationIsMarked
  <2>5. UNCHANGED <<store, marker>>
    BY <1>12 DEF PostFeed, Unsaved
  <2> QED BY <2>1, <2>2, <2>3, <2>4, <2>5, JobCreated
<1>13. CASE ClearPending
  <2>1. mem \in State /\ store = mem /\ mem.pending # NoPending /\ jobs[marker] = NoJobYet
    BY <1>0, <1>13 DEF ClearPending, CopyIsStored, CreationIsMarked
  <2>2. /\ Good(store') /\ SameIds(store', store) /\ store'.pending = NoPending
        /\ jobs' = jobs /\ pc' = "down"
    BY <1>13, <2>1, ClearPendingFacts DEF ClearPending, Stopped, Elsewhere
  <2>3. ~Live(marker)
    BY <2>1, NoJobYetFacts DEF Live
  <2>4. NoOrphan' /\ JobsAreKnown'
    BY <1>0, <2>1, <2>2, <2>3 DEF NoOrphan, JobsAreKnown, Live, SameIds, Good
  <2> QED BY <2>2, <2>4
          DEF JobsKept, CopyIsStored, StateIsValid, CreationIsMarked, Good, Settled
<1>14. CASE Scan
  <2>1. mem \in State /\ store = mem /\ mem.pending = NoPending /\ metadata \in Nat
    BY <1>0, <1>14 DEF Scan, CopyIsStored, CreationIsMarked, Settled, JobInv, TypeOK
  <2>2. /\ Good(store') /\ SameIds(store', store) /\ store'.pending = NoPending
        /\ mem' = store' /\ jobs' = jobs /\ pc' = "scan" /\ marker' = marker
    BY <1>14, <2>1, SetCheckpointFacts DEF Scan, Save
  <2>3. NoOrphan' /\ JobsAreKnown'
    BY <1>0, <2>1, <2>2 DEF NoOrphan, JobsAreKnown, Live, SameIds, Good
  <2> QED BY <2>2, <2>3
          DEF JobsKept, CopyIsStored, StateIsValid, CreationIsMarked, Good, Settled
<1>15. CASE DeleteFeed
  <2>1. /\ pc = "delete" /\ jobs' = [jobs EXCEPT ![mem.changefeed].state = "deleted"]
        /\ Live(mem.changefeed) /\ UNCHANGED <<store, marker, pc, mem>>
    BY <1>15 DEF DeleteFeed, processVars, Unsaved
  <2>2. mem.changefeed \in Jobs
    BY <1>0, <2>1, StateParts DEF CopyIsStored, CreationIsMarked
  <2>3. /\ jobs'[mem.changefeed].kind = jobs[mem.changefeed].kind /\ ~Live(mem.changefeed)'
        /\ \A k \in Jobs \ {mem.changefeed} : jobs'[k] = jobs[k]
    BY <2>1, <2>2 DEF JobTable, Live
  <2>4. jobs[mem.changefeed].state # "none"
    BY <2>1 DEF Live
  <2> QED BY <2>1, <2>2, <2>3, <2>4, JobGoesOn
<1>16. CASE ClearFeed
  <2>1. /\ mem \in State /\ store = mem /\ jobs[mem.changefeed].state = "deleted"
        /\ mem.changefeed # NoJob
    BY <1>0, <1>16 DEF ClearFeed, CopyIsStored, CreationIsMarked, IsDeleted
  <2>2. /\ Good(store') /\ store'.export = store.export /\ store'.changefeed = NoJob
        /\ store'.pending = store.pending /\ jobs' = jobs /\ pc' = "down" /\ marker' = marker
    BY <1>16, <2>1, ClearFeedFacts DEF ClearFeed, Stopped, Elsewhere
  <2>3. ~Live(mem.changefeed)
    BY <2>1 DEF Live
  <2>4. NoOrphan' /\ JobsAreKnown'
    BY <1>0, <2>1, <2>2, <2>3 DEF NoOrphan, JobsAreKnown, Live, Good
  <2> QED BY <1>0, <2>1, <2>2, <2>4
          DEF JobsKept, CopyIsStored, StateIsValid, CreationIsMarked, Good, Settled
<1>17. ASSUME NEW j \in Jobs, ExportEnds(j) PROVE JobsKept'
  <2>1. /\ UNCHANGED <<store, marker, pc, mem>> /\ Live(j)
        /\ \/ jobs' = [jobs EXCEPT ![j].state = "succeeded"]
           \/ jobs' = [jobs EXCEPT ![j].state = "failed"]
    BY <1>17 DEF ExportEnds, processVars
  <2>2. /\ jobs'[j].kind = jobs[j].kind /\ \A k \in Jobs \ {j} : jobs'[k] = jobs[k]
        /\ jobs[j].state # "none"
    BY <2>1 DEF JobTable, Live
  <2> QED BY <2>1, <2>2, JobGoesOn
<1>18. ASSUME NEW j \in Jobs, FeedStarts(j) PROVE JobsKept'
  <2>1. /\ UNCHANGED <<store, marker, pc, mem>> /\ jobs[j].state = "creating"
        /\ jobs' = [jobs EXCEPT ![j].state = "running"]
    BY <1>18 DEF FeedStarts, Outside, processVars
  <2>2. /\ jobs'[j].kind = jobs[j].kind /\ \A k \in Jobs \ {j} : jobs'[k] = jobs[k]
        /\ Live(j)
    BY <2>1 DEF JobTable, Live
  <2> QED BY <2>1, <2>2, JobGoesOn
<1>19. ASSUME NEW j \in Jobs, FeedDelivers(j) PROVE JobsKept'
  <2>1. /\ UNCHANGED <<store, marker, pc, mem>> /\ jobs[j].state = "running"
        /\ \E ts : jobs' = [jobs EXCEPT ![j].upto = ts]
    BY <1>19 DEF FeedDelivers, Outside, processVars, Running
  <2>2. /\ jobs'[j].kind = jobs[j].kind /\ \A k \in Jobs \ {j} : jobs'[k] = jobs[k]
        /\ Live(j)
    BY <2>1 DEF JobTable, Live
  <2> QED BY <2>1, <2>2, JobGoesOn
<1>20. CASE Repair
  <2>1. /\ store \in State /\ Valid(store) /\ store.pending # NoPending
        /\ marker \in Jobs /\ jobs[marker].kind \in {NoPending, store.pending}
        /\ pc = "down" /\ pc' = "down" /\ jobs' = jobs /\ store.pending \in JobKinds
    BY <1>0, <1>20, StateParts
    DEF Repair, StateIsValid, CreationIsMarked, processVars, Elsewhere
  <2>2. /\ Good(store') /\ store'.pending = NoPending
        /\ jobs[marker] = NoJobYet => SameIds(store', store)
        /\ jobs[marker] # NoJobYet /\ store.pending = "export" =>
               store'.export = marker /\ store'.changefeed = store.changefeed
        /\ jobs[marker] # NoJobYet /\ store.pending # "export" =>
               store'.changefeed = marker /\ store'.export = store.export
    <3>1. CASE jobs[marker] = NoJobYet
      <4>1. store' = Cleared(store)
        BY <1>20, <3>1 DEF Repair, Cleared
      <4> QED BY <2>1, <3>1, <4>1, RepairClears
    <3>2. CASE jobs[marker] # NoJobYet /\ store.pending = "export"
      <4>1. store' = WithExport(store, marker)
        BY <1>20, <3>2 DEF Repair, WithExport
      <4> QED BY <2>1, <3>2, <4>1, RepairExport
    <3>3. CASE jobs[marker] # NoJobYet /\ store.pending # "export"
      <4>1. store' = WithFeed(store, marker)
        BY <1>20, <3>3 DEF Repair, WithFeed
      <4> QED BY <2>1, <3>3, <4>1, RepairFeed
    <3> QED BY <3>1, <3>2, <3>3
  <2>3. /\ store.pending = "export" => store.export = NoJob
        /\ store.pending # "export" => store.pending = "changefeed" /\ store.changefeed = NoJob
        /\ jobs[marker] # NoJobYet => jobs[marker].kind = store.pending
    BY <1>0, <2>1 DEF Valid, JobKinds, JobsAreKnown
  <2>4. ASSUME NEW j \in Jobs, Live(j) PROVE j \in {store'.export, store'.changefeed}
    BY <1>0, <2>1, <2>2, <2>3, <2>4, IdAssumption DEF NoOrphan, IdAssumption, SameIds
  <2>5. NoOrphan'
    BY <2>1, <2>4 DEF NoOrphan, Live
  <2>6. JobsAreKnown'
    BY <1>0, <2>1, <2>2, <2>3 DEF JobsAreKnown, SameIds, Good
  <2> QED BY <2>1, <2>2, <2>5, <2>6
          DEF JobsKept, CopyIsStored, StateIsValid, CreationIsMarked, Good, Settled
<1> QED
  BY <1>1, <1>2, <1>3, <1>4, <1>5, <1>6, <1>7, <1>8, <1>9, <1>10, <1>11, <1>12, <1>13,
     <1>14, <1>15, <1>16, <1>17, <1>18, <1>19, <1>20
  DEF Next, CreateNext, DeleteNext, CloudNext, SavingStep

LEMMA JobInvariant == Spec => []JobInv
<1>1. ASSUME JobInv, [Next]_vars PROVE JobInv'
  <2>1. CASE Next
    BY <1>1, <2>1, StepType, StepJobs DEF JobsKept, JobInv
  <2>2. CASE UNCHANGED vars
    <3>1. UNCHANGED <<store, marker, pc, mem, mode, conf, start, now, jobs, dump, metadata,
                      reached, faults>>
      BY <2>2 DEF vars, processVars
    <3>2. TypeOK'
      BY <1>1, <3>1 DEF JobInv, TypeOK
    <3>3. CopyIsStored' /\ StateIsValid' /\ CreationIsMarked' /\ JobsAreKnown'
      BY <1>1, <3>1 DEF JobInv, CopyIsStored, StateIsValid, CreationIsMarked, JobsAreKnown
    <3>4. NoOrphan'
      BY <1>1, <3>1 DEF JobInv, NoOrphan, Live
    <3> QED BY <3>2, <3>3, <3>4 DEF JobInv
  <2> QED BY <1>1, <2>1, <2>2
<1> QED BY InitJobInv, <1>1, PTL DEF Spec

(***************************************************************************)
(* The variables keep their types, and there is a state manager exactly    *)
(* while a command runs.                                                   *)
(***************************************************************************)
THEOREM TypesHold == Spec => []TypeOK
<1>1. JobInv => TypeOK
  BY DEF JobInv
<1> QED BY <1>1, JobInvariant, PTL

(***************************************************************************)
(* A job that runs is named in replication-state.json, by its id or by the *)
(* marker of its creation, through every lost answer, failed write, crash, *)
(* deletion and repair.                                                    *)
(***************************************************************************)
THEOREM NoJobIsOrphaned == Spec => []NoOrphan
<1>1. JobInv => NoOrphan
  BY DEF JobInv
<1> QED BY <1>1, JobInvariant, PTL

----------------------------------------------------------------------------
(***************************************************************************)
(* What a step is about, for the properties that follow.                   *)
(***************************************************************************)
Walks ==
    \/ PreflightSkipped \/ SkipSnapshot \/ ResumeExport \/ WaitExport \/ ReuseFeed
    \/ WaitFeed \/ BeginLoad \/ PrepareTables \/ LoadFiles

Idle ==
    /\ UNCHANGED <<store, marker, now, jobs, dump, metadata>>
    /\ pc' \in Settled \cup {"down", "preflight", "delete"}
    /\ \/ Walks
       \/ pc' \in {"down", "preflight", "delete"} /\ reached' = reached

Saving ==
    /\ SavedBy /\ UNCHANGED <<now, jobs, dump, metadata, reached>>
    /\ SavingStep \/ pc' \in {"down", "preflight"}

Clearing == ClearPending \/ ClearFeed \/ Repair

Posts ==
    \E response \in Responses, created \in BOOLEAN :
        PostExport(response, created) \/ PostFeed(response, created)

Service ==
    \/ DeleteFeed \/ Tick
    \/ \E j \in Jobs : ExportWrites(j) \/ ExportEnds(j) \/ FeedStarts(j) \/ FeedDelivers(j)

LEMMA StepKind == JobInv /\ Next => Idle \/ Saving \/ Scan \/ Clearing \/ Posts \/ Service
<1> SUFFICES ASSUME JobInv, Next
             PROVE  Idle \/ Saving \/ Scan \/ Clearing \/ Posts \/ Service
  OBVIOUS
<1> USE DEF At, Goto
<1>1. CASE Crash \/ GiveUp
  BY <1>1 DEF Crash, GiveUp, Return, Stopped, Unsaved, Elsewhere, Idle
<1>2. CASE Walks \/ Delete
  BY <1>2
  DEF Walks, PreflightSkipped, SkipSnapshot, ResumeExport, WaitExport, ReuseFeed, WaitFeed, BeginLoad,
      PrepareTables, LoadFiles, Delete, AfterPrepare, Unsaved, Elsewhere, Settled, Idle
<1>3. ASSUME NEW m \in Modes, NEW tso \in ConfigTSOs, Create(m, tso) PROVE Idle \/ Saving
  <2>1. CASE store = Absent
    <3>1. Opens
      BY <1>3, <2>1 DEF Create, Opens
    <3>2. SavedBy
      BY <3>1, NewStateFacts DEF Opens, SavedBy
    <3> QED BY <1>3, <3>2 DEF Create, Elsewhere, Saving
  <2>2. CASE store # Absent
    BY <1>3, <2>2 DEF Create, Elsewhere, Idle
  <2> QED BY <2>1, <2>2
<1>4. CASE SavingStep
  BY <1>4, StepSaves DEF Elsewhere, Saving
<1>5. CASE SaveFails
  BY <1>5, FailureSaves DEF Stopped, Saving
<1> QED
  BY <1>1, <1>2, <1>3, <1>4, <1>5
  DEF Next, CreateNext, DeleteNext, CloudNext, Walks, SavingStep, Clearing, Posts, Service

(***************************************************************************)
(* Two jobs of one kind do not run at a time: both would have to be the    *)
(* one that the state names.                                               *)
(***************************************************************************)
LEMMA OneLiveJob ==
    ASSUME JobInv, NEW j \in Jobs, NEW k \in Jobs, Live(j), Live(k),
           jobs[j].kind = jobs[k].kind
    PROVE  j = k
<1>1. /\ JobsAreKnown /\ NoOrphan
      /\ jobs[j].kind \in JobKinds /\ jobs[j] # NoJobYet
      /\ store \in State
      /\ store.pending = "export" => store.export = NoJob
      /\ store.pending = "changefeed" => store.changefeed = NoJob
  <2>1. JobsAreKnown /\ NoOrphan /\ jobs[j] # NoJobYet /\ jobs[j].kind # NoPending
    BY JobInvParts DEF JobsKept
  <2>2. jobs[j].kind \in JobKinds /\ store # Absent
    BY <2>1, JobInvParts DEF JobTable, JobsAreKnown
  <2> QED BY <2>1, <2>2, JobInvParts
<1>2. /\ j \in {store.export, store.changefeed} \/ (store.pending = jobs[j].kind /\ marker = j)
      /\ k \in {store.export, store.changefeed} \/ (store.pending = jobs[k].kind /\ marker = k)
  BY <1>1 DEF NoOrphan
<1>3. /\ store.export # NoJob => jobs[store.export].kind = "export"
      /\ store.changefeed # NoJob => jobs[store.changefeed].kind = "changefeed"
  BY <1>1, NotAState DEF JobsAreKnown
<1> QED BY <1>1, <1>2, <1>3, IdAssumption DEF IdAssumption, JobKinds

----------------------------------------------------------------------------
(***************************************************************************)
(* Who wrote the snapshot: nobody before an export is created, and nobody  *)
(* but the export that runs.                                               *)
(***************************************************************************)
LiveExport(j) == Live(j) /\ jobs[j].kind = "export"

WriterInv ==
    /\ \E w \in Jobs \cup {External} : dump.writers \subseteq {w}
    /\ \A j \in Jobs : LiveExport(j) => dump.writers \subseteq {j}
    /\ pc = "post export" => dump.writers = {}

\* No export runs where the state neither names one nor announces one.
LEMMA NoLiveExport ==
    ASSUME JobInv, NEW j \in Jobs, store # Absent,
           store.export = NoJob \/ ~LiveExport(store.export),
           store.pending = "export" => jobs[marker] = NoJobYet
    PROVE  ~LiveExport(j)
<1> SUFFICES ASSUME LiveExport(j) PROVE FALSE
  OBVIOUS
<1>1. JobsAreKnown /\ NoOrphan /\ Live(j) /\ jobs[j] # NoJobYet /\ jobs[j].kind = "export"
  BY JobInvParts DEF JobsKept, LiveExport
<1>2. \/ j = store.export \/ j = store.changefeed
      \/ store.pending = "export" /\ marker = j
  BY <1>1 DEF NoOrphan
<1>3. j # store.changefeed
  BY <1>1, IdAssumption DEF JobsAreKnown, IdAssumption
<1> QED BY <1>1, <1>2, <1>3, IdAssumption DEF IdAssumption

LEMMA NoneWhilePosting ==
    ASSUME JobInv, pc = "post export", NEW j \in Jobs
    PROVE  ~LiveExport(j)
<1>1. mem.pending = "export" /\ jobs[marker] = NoJobYet
  BY DEF JobInv, CreationIsMarked
<1>2. store # Absent /\ store.export = NoJob
  BY <1>1, CreatingFacts, Kinds DEF Valid
<1> QED BY <1>1, <1>2, NoLiveExport

\* The dump stays, and no export starts.
Quiet ==
    /\ dump' = dump
    /\ \A j \in Jobs : LiveExport(j)' => LiveExport(j)

LEMMA ServiceIsQuiet ==
    ASSUME JobInv, Service
    PROVE  /\ UNCHANGED <<store, marker, pc, mem, mode, conf, reached>>
           /\ (Quiet \/ \E j \in Jobs : ExportWrites(j))
<1>1. jobs \in JobTable
  BY JobInvParts
<1>2. UNCHANGED <<store, marker, pc, mem, mode, conf, reached>>
  BY DEF Service, DeleteFeed, Tick, ExportWrites, ExportEnds, FeedStarts, FeedDelivers,
         Outside, processVars, Unsaved
<1>3. CASE Tick
  BY <1>2, <1>3 DEF Tick, Quiet, LiveExport, Live
<1>4. CASE DeleteFeed
  <2>1. \A j \in Jobs : jobs'[j].kind = jobs[j].kind
                       /\ (jobs'[j].state = jobs[j].state \/ jobs'[j].state = "deleted")
    BY <1>1, <1>4 DEF DeleteFeed, JobTable
  <2> QED BY <1>2, <1>4, <2>1 DEF DeleteFeed, Quiet, LiveExport, Live
<1>5. ASSUME NEW k \in Jobs, ExportEnds(k) PROVE Quiet
  <2>1. \A j \in Jobs : /\ jobs'[j].kind = jobs[j].kind
                       /\ jobs'[j].state \in {jobs[j].state, "succeeded", "failed"}
    BY <1>1, <1>5 DEF ExportEnds, JobTable
  <2> QED BY <1>5, <2>1 DEF ExportEnds, Quiet, LiveExport, Live
<1>6. ASSUME NEW k \in Jobs, FeedStarts(k) PROVE Quiet
  <2>1. \A j \in Jobs : /\ jobs'[j].kind = jobs[j].kind
                       /\ (jobs'[j].state = jobs[j].state \/ Live(j))
    BY <1>1, <1>6 DEF FeedStarts, JobTable, Live
  <2> QED BY <1>6, <2>1 DEF FeedStarts, Quiet, LiveExport, Live
<1>7. ASSUME NEW k \in Jobs, FeedDelivers(k) PROVE Quiet
  <2>1. \A j \in Jobs : jobs'[j].kind = jobs[j].kind /\ jobs'[j].state = jobs[j].state
    BY <1>1, <1>7 DEF FeedDelivers, JobTable
  <2> QED BY <1>7, <2>1 DEF FeedDelivers, Quiet, LiveExport, Live
<1> QED BY <1>2, <1>3, <1>4, <1>5, <1>6, <1>7 DEF Service

LEMMA PostFeedIsQuiet ==
    ASSUME JobInv, NEW response \in Responses, NEW created \in BOOLEAN,
           PostFeed(response, created)
    PROVE  Quiet /\ pc' \in {"down", "set changefeed", "clear pending"}
<1>1. /\ Outcome(response, created, "set changefeed") /\ TypeOK /\ dump' = dump
      /\ jobs \in JobTable
  BY JobInvParts DEF PostFeed, JobInv
<1>2. pc' \in {"down", "set changefeed", "clear pending"}
  BY <1>1, OutcomeFacts
<1>3. \A j \in Jobs : jobs'[j] = jobs[j] \/ jobs'[j].kind = "changefeed"
  BY <1>1 DEF PostFeed, JobTable
<1>4. \A j \in Jobs : LiveExport(j)' => LiveExport(j)
  BY <1>3 DEF LiveExport, Live
<1> QED BY <1>1, <1>2, <1>4 DEF Quiet

LEMMA WritersStay ==
    ASSUME WriterInv, Quiet, pc' = "post export" => dump.writers = {}
    PROVE  WriterInv'
BY DEF WriterInv, Quiet

LEMMA StepWriters == JobInv /\ WriterInv /\ Next => WriterInv'
<1> SUFFICES ASSUME JobInv, WriterInv, Next PROVE WriterInv'
  OBVIOUS
<1> USE DEF At, Goto
<1>1. CASE Idle
  BY <1>1, WritersStay DEF Idle, Quiet, LiveExport, Live, Settled
<1>2. CASE Saving
  <2>1. Quiet
    BY <1>2 DEF Saving, Quiet, LiveExport, Live
  <2>2. SavingStep /\ pc' = "post export" => dump.writers = {}
    BY DEF SavingStep, Preflight, FirstStep, BeginExport, PrefixFree, BeginFeed, RecordExport,
           RecordFeed, MarkFinished, Save
  <2> QED BY <1>2, <2>1, <2>2, WritersStay DEF Saving
<1>3. CASE Scan
  BY <1>3, WritersStay DEF Scan, Save, Quiet, LiveExport, Live
<1>4. CASE Clearing
  BY <1>4, WritersStay
  DEF Clearing, ClearPending, ClearFeed, Repair, Stopped, Elsewhere, processVars, Quiet,
      LiveExport, Live
<1>5. CASE Posts
  <2>1. ASSUME NEW response \in Responses, NEW created \in BOOLEAN,
               PostExport(response, created)
        PROVE  WriterInv'
    <3>1. dump.writers = {} /\ dump' = dump
      BY <2>1 DEF PostExport, WriterInv
    <3> QED BY <3>1 DEF WriterInv
  <2>2. ASSUME NEW response \in Responses, NEW created \in BOOLEAN,
               PostFeed(response, created)
        PROVE  WriterInv'
    BY <2>2, PostFeedIsQuiet, WritersStay
  <2> QED BY <1>5, <2>1, <2>2 DEF Posts
<1>6. CASE Service
  <2>1. pc' = pc /\ (Quiet \/ \E j \in Jobs : ExportWrites(j))
    BY <1>6, ServiceIsQuiet
  <2>2. CASE Quiet
    BY <2>1, <2>2, WritersStay DEF WriterInv
  <2>3. ASSUME NEW j \in Jobs, ExportWrites(j) PROVE WriterInv'
    <3>1. LiveExport(j) /\ jobs' = jobs
      BY <2>3 DEF ExportWrites, LiveExport
    <3>2. dump'.writers = dump.writers \cup {j}
      <4>1. dump \in Dumps
        BY DEF JobInv, TypeOK, Dumps
      <4> QED BY <2>3, <4>1 DEF ExportWrites, Dumps
    <3>3. dump'.writers \subseteq {j}
      BY <3>1, <3>2 DEF WriterInv
    <3>4. \A k \in Jobs : LiveExport(k)' => k = j
      BY <3>1, OneLiveJob DEF LiveExport, Live
    <3>5. pc' # "post export"
      BY <2>1, <3>1, NoneWhilePosting
    <3> QED BY <3>3, <3>4, <3>5 DEF WriterInv
  <2> QED BY <2>1, <2>2, <2>3
<1> QED BY <1>1, <1>2, <1>3, <1>4, <1>5, <1>6, StepKind

LEMMA WriterInvariant == Spec => []WriterInv
<1>1. Init => WriterInv
  <2> SUFFICES ASSUME Init PROVE WriterInv
    OBVIOUS
  <2>1. pc = "down" /\ \A j \in Jobs : ~LiveExport(j)
    BY NoJobYetFacts DEF Init, LiveExport, Live
  <2>2. dump.writers \subseteq {External}
    BY DEF Init, Empty, ExternalPartial, ExternalSnapshot
  <2> QED BY <2>1, <2>2 DEF WriterInv
<1>2. JobInv /\ WriterInv /\ [Next]_vars => WriterInv'
  <2>1. JobInv /\ WriterInv /\ UNCHANGED vars => WriterInv'
    BY DEF vars, processVars, WriterInv, LiveExport, Live
  <2> QED BY <2>1, StepWriters
<1> QED BY <1>1, <1>2, JobInvariant, PTL DEF Spec

(***************************************************************************)
(* The snapshot files come from one dump, and one changefeed at a time     *)
(* writes increment files.                                                 *)
(***************************************************************************)
THEOREM PrefixesHaveOneWriter == Spec => []OneWriterPerPrefix
<1>1. ASSUME JobInv, WriterInv PROVE OneWriterPerPrefix
  <2>1. ASSUME NEW S, NEW w, S \subseteq {w} PROVE Cardinality(S) <= 1
    <3>1. S = {} \/ S = {w}
      BY <2>1
    <3> QED BY <3>1, FS_EmptySet, FS_Singleton
  <2>2. Cardinality(dump.writers) <= 1
    BY <1>1, <2>1 DEF WriterInv
  <2> DEFINE S == {j \in Feeds : Live(j)}
  <2>3. Cardinality(S) <= 1
    <3>1. CASE S = {}
      BY <3>1, FS_EmptySet
    <3>2. CASE S # {}
      <4>1. PICK j \in S : TRUE
        BY <3>2
      <4>2. \A k \in S : k = j
        BY <1>1, <4>1, OneLiveJob DEF Feeds
      <4>3. S \subseteq {j}
        BY <4>2
      <4> HIDE DEF S
      <4> QED BY <2>1, <4>3
    <3> QED BY <3>1, <3>2
  <2> QED BY <2>2, <2>3 DEF OneWriterPerPrefix
<1> QED BY <1>1, JobInvariant, WriterInvariant, PTL

----------------------------------------------------------------------------
(***************************************************************************)
(* Why the checkpoint is true.  The state says of Snowflake what is so; a  *)
(* dump that is partial has its export in the state; the snapshot is       *)
(* loaded when its dump is complete and nothing writes to it; and changes  *)
(* are loaded while a changefeed runs that began no later.                 *)
(***************************************************************************)
Prepared == {"changefeed", "post changefeed", "set changefeed", "wait changefeed", "load",
             "tables", "files", "mark"}
Loading == {"load", "tables", "files", "mark", "scan"}

StateIsTrue ==
    store # Absent =>
        IF store.finished THEN reached = store.checkpoint /\ reached # 0
        ELSE store.checkpoint = 0

Named(st, mark, table) ==
    st.export # NoJob \/ (st.pending = "export" /\ table[mark] # NoJobYet)

PartialDumpIsNamed ==
    HasMetadata /\ ~dump.complete => store # Absent /\ Named(store, marker, jobs)

JobsAreTrue ==
    /\ now # 0
    /\ \A j \in Jobs :
        /\ jobs[j].kind = "export" => jobs[j].tso # 0
        /\ jobs[j].kind = "export" /\ jobs[j].state = "succeeded" => dump.complete
        /\ jobs[j].state = "creating" => jobs[j].kind = "changefeed" /\ jobs[j].upto = jobs[j].tso
        /\ jobs[j].kind = "changefeed" /\ Running(j) => metadata = jobs[j].upto

StepsAreTaken ==
    /\ pc = "wait export" => mem.export # NoJob
    /\ pc = "wait changefeed" => mem.changefeed # NoJob
    /\ pc \in {"tables", "files", "mark"} => LoadsSnapshot /\ ~mem.finished
    /\ pc = "scan" => mem.finished /\ LoadsIncrement
    /\ pc = "mark" => reached = dump.tso

SnapshotIsReady ==
    pc \in Prepared /\ LoadsSnapshot /\ ~mem.finished =>
        HasMetadata /\ dump.complete /\ \A j \in Jobs : ~LiveExport(j)

FeedIsReady ==
    pc \in Loading /\ LoadsIncrement =>
        /\ mem.changefeed # NoJob /\ Running(mem.changefeed)
        /\ mem.checkpoint # 0 => jobs[mem.changefeed].tso <= mem.checkpoint
        /\ mem.checkpoint = 0 /\ LoadsSnapshot => jobs[mem.changefeed].tso <= dump.tso

ProgressInv ==
    /\ StateIsTrue /\ PartialDumpIsNamed /\ JobsAreTrue
    /\ StepsAreTaken /\ SnapshotIsReady /\ FeedIsReady

LEMMA InitProgress == Init => ProgressInv
<1> SUFFICES ASSUME Init PROVE ProgressInv
  OBVIOUS
<1>1. store = Absent /\ pc = "down" /\ now # 0 /\ \A j \in Jobs : jobs[j] = NoJobYet
  BY DEF Init
<1>2. HasMetadata => dump.complete
  BY DEF Init, HasMetadata, Empty, ExternalPartial, ExternalSnapshot
<1>3. JobsAreTrue
  BY <1>1, NoJobYetFacts, Kinds DEF JobsAreTrue, Running, NoPending
<1> QED
  BY <1>1, <1>2, <1>3
  DEF ProgressInv, StateIsTrue, PartialDumpIsNamed, StepsAreTaken, SnapshotIsReady, FeedIsReady,
      Prepared, Loading

\* A step that only clears keeps the progress, and what names an export.
LEMMA ClearingFacts ==
    ASSUME JobInv, Clearing
    PROVE  /\ store \in State /\ Good(store') /\ SameProgress(store', store) /\ pc' = "down"
           /\ UNCHANGED <<now, jobs, dump, metadata, reached>>
           /\ Named(store, marker, jobs) => Named(store', marker', jobs)
<1>0. CopyIsStored /\ StateIsValid /\ CreationIsMarked /\ store \in State \cup {Absent}
  BY DEF JobInv, TypeOK
<1> USE DEF At
<1>1. CASE ClearPending
  <2>1. mem \in State /\ store = mem /\ jobs[marker] = NoJobYet
    BY <1>0, <1>1 DEF ClearPending, CopyIsStored, CreationIsMarked
  <2> QED BY <1>1, <2>1, ClearPendingFacts
          DEF ClearPending, Stopped, Elsewhere, Named, SameIds
<1>2. CASE ClearFeed
  <2>1. mem \in State /\ store = mem
    BY <1>0, <1>2 DEF ClearFeed, CopyIsStored
  <2> QED BY <1>2, <2>1, ClearFeedFacts DEF ClearFeed, Stopped, Elsewhere, Named
<1>3. CASE Repair
  <2>1. /\ store \in State /\ Valid(store) /\ marker \in Jobs /\ pc' = "down"
        /\ UNCHANGED <<now, jobs, dump, metadata, reached>>
    BY <1>0, <1>3 DEF Repair, StateIsValid, CreationIsMarked, processVars, Elsewhere
  <2>2. CASE jobs[marker] = NoJobYet
    <3>1. store' = Cleared(store)
      BY <1>3, <2>2 DEF Repair, Cleared
    <3> QED BY <2>1, <2>2, <3>1, RepairClears DEF Named, SameIds
  <2>3. CASE jobs[marker] # NoJobYet /\ store.pending = "export"
    <3>1. store' = WithExport(store, marker)
      BY <1>3, <2>3 DEF Repair, WithExport
    <3> QED BY <2>1, <3>1, RepairExport, IdAssumption DEF Named, IdAssumption
  <2>4. CASE jobs[marker] # NoJobYet /\ store.pending # "export"
    <3>1. store' = WithFeed(store, marker)
      BY <1>3, <2>4 DEF Repair, WithFeed
    <3> QED BY <2>1, <2>4, <3>1, RepairFeed DEF Named
  <2> QED BY <2>2, <2>3, <2>4
<1> QED BY <1>1, <1>2, <1>3 DEF Clearing

\* Scanning loads up to what the running changefeed has delivered.
LEMMA ScanFacts ==
    ASSUME JobInv, ProgressInv, Scan
    PROVE  /\ mem \in State /\ store = mem /\ Good(store') /\ mem' = store' /\ pc' = "scan"
           /\ SameIds(store', store) /\ store'.pending = store.pending /\ marker' = marker
           /\ store.finished /\ store'.finished /\ LoadsIncrement /\ mode' = mode
           /\ store.checkpoint < metadata /\ store'.checkpoint = metadata /\ reached' = metadata
           /\ UNCHANGED <<now, jobs, dump, metadata>>
<1>1. /\ mem \in State /\ store = mem /\ pc = "scan" /\ metadata > mem.checkpoint
      /\ metadata \in Nat /\ jobs \in JobTable /\ store # Absent
  BY NotAState DEF Scan, At, JobInv, TypeOK, CopyIsStored, JobTable, JobStates
<1>2. /\ Good(store') /\ SameIds(store', store) /\ store'.pending = store.pending
      /\ store'.checkpoint = metadata /\ store'.finished = store.finished
      /\ mem' = store' /\ pc' = "scan" /\ marker' = marker
      /\ UNCHANGED <<mode, now, jobs, dump, metadata>>
  BY <1>1, SetCheckpointFacts DEF Scan, Save, Goto
<1>3. store.finished /\ LoadsIncrement /\ reached = store.checkpoint /\ reached # 0
  BY <1>1 DEF ProgressInv, StepsAreTaken, StateIsTrue
<1>4. reached' = metadata
  <2> DEFINE f == mem.changefeed
  <2>1. f # NoJob /\ Running(f) /\ jobs[f].tso <= mem.checkpoint
    BY <1>1, <1>3 DEF ProgressInv, FeedIsReady, Loading
  <2>2. f \in Jobs /\ jobs[f].kind = "changefeed"
    BY <1>1, <2>1, StateParts DEF JobInv, JobsAreKnown
  <2>3. metadata = jobs[f].upto /\ f \in Feeds
    BY <2>1, <2>2 DEF ProgressInv, JobsAreTrue, Feeds
  <2> HIDE DEF f
  <2>4. jobs[f].tso \in Nat /\ mem.checkpoint \in Nat
    BY <1>1, <2>2, StateParts DEF JobTable
  <2>5. \A ts \in (reached + 1)..metadata : Delivered(ts)
    BY <1>1, <1>3, <2>1, <2>3, <2>4 DEF Delivered
  <2> QED BY <1>3, <2>5 DEF Scan
<1> QED BY <1>1, <1>2, <1>3, <1>4

\* The service changes no kind and no TSO, and stops a changefeed only on delete.
LEMMA ServiceJobs ==
    ASSUME JobInv, Service, NEW j \in Jobs
    PROVE  /\ jobs'[j].kind = jobs[j].kind /\ jobs'[j].tso = jobs[j].tso
           /\ jobs[j] # NoJobYet => jobs'[j] # NoJobYet
           /\ jobs[j].kind = "changefeed" /\ Running(j) /\ pc # "delete" => Running(j)'
<1>1. jobs \in JobTable
  BY JobInvParts
<1>2. /\ jobs'[j].kind = jobs[j].kind /\ jobs'[j].tso = jobs[j].tso
      /\ jobs[j].kind = "changefeed" /\ Running(j) /\ pc # "delete" => Running(j)'
  <2>1. CASE Tick \/ \E k \in Jobs : ExportWrites(k)
    BY <2>1 DEF Tick, ExportWrites, Running
  <2>2. CASE DeleteFeed
    BY <1>1, <2>2 DEF DeleteFeed, JobTable, At
  <2>3. ASSUME NEW k \in Jobs, ExportEnds(k)
        PROVE  /\ jobs'[j].kind = jobs[j].kind /\ jobs'[j].tso = jobs[j].tso
               /\ jobs[j].kind = "changefeed" /\ Running(j) => Running(j)'
    BY <1>1, <2>3 DEF ExportEnds, JobTable, Running
  <2>4. ASSUME NEW k \in Jobs, FeedStarts(k)
        PROVE  /\ jobs'[j].kind = jobs[j].kind /\ jobs'[j].tso = jobs[j].tso
               /\ Running(j) => Running(j)'
    BY <1>1, <2>4 DEF FeedStarts, JobTable, Running
  <2>5. ASSUME NEW k \in Jobs, FeedDelivers(k)
        PROVE  /\ jobs'[j].kind = jobs[j].kind /\ jobs'[j].tso = jobs[j].tso
               /\ Running(j) => Running(j)'
    BY <1>1, <2>5 DEF FeedDelivers, JobTable, Running
  <2> QED BY <2>1, <2>2, <2>3, <2>4, <2>5 DEF Service
<1>3. jobs'[j] = NoJobYet => jobs[j] = NoJobYet
  BY <1>2, NoJobYetFacts, JobInvParts DEF JobsKept, JobsAreKnown
<1> QED BY <1>2, <1>3

LEMMA StepState ==
    ASSUME ~FreshIncremental, JobInv, ProgressInv, Next
    PROVE  StateIsTrue'
<1>t. store # Absent => store.checkpoint \in Nat
  BY StateParts, JobInvParts
<1>1. CASE UNCHANGED <<store, reached>>
  BY <1>1 DEF ProgressInv, StateIsTrue
<1>2. CASE PrepareTables \/ LoadFiles
  <2>1. UNCHANGED store /\ mem = store /\ ~mem.finished
    BY <1>2
    DEF PrepareTables, LoadFiles, Unsaved, At, ProgressInv, StepsAreTaken, JobInv, CopyIsStored
  <2> QED BY <2>1 DEF ProgressInv, StateIsTrue
<1>3. CASE Saving
  <2>1. SavedBy /\ reached' = reached
    BY <1>3 DEF Saving
  <2>2. CASE Opens
    BY <2>2, NewStateFacts DEF Opens, StateIsTrue
  <2>3. CASE store \in State /\ (Binds \/ Begins \/ NamesExport \/ NamesFeed)
    BY <2>1, <2>3, NotAState
    DEF Binds, Begins, NamesExport, NamesFeed, SameProgress, ProgressInv, StateIsTrue
  <2>4. CASE store \in State /\ Marks
    BY <2>1, <2>4 DEF Marks, ProgressInv, StepsAreTaken, StateIsTrue
  <2> QED BY <2>1, <2>2, <2>3, <2>4 DEF SavedBy
<1>4. CASE Scan
  <2>1. /\ store' \in State /\ store'.finished /\ store'.checkpoint = metadata
        /\ reached' = metadata /\ store.checkpoint < metadata /\ store \in State
    BY <1>4, ScanFacts DEF Good
  <2>2. metadata # 0
    BY <2>1, StateParts DEF JobInv, TypeOK
  <2> QED BY <2>1, <2>2 DEF StateIsTrue
<1>5. CASE Clearing
  <2>1. store # Absent /\ SameProgress(store', store) /\ reached' = reached
    BY <1>5, ClearingFacts, NotAState
  <2> QED BY <2>1 DEF SameProgress, ProgressInv, StateIsTrue
<1>6. CASE Idle
  <2>1. UNCHANGED <<store, reached>> \/ PrepareTables \/ LoadFiles
    BY <1>6
    DEF Idle, Walks, PreflightSkipped, SkipSnapshot, ResumeExport, WaitExport, ReuseFeed,
        WaitFeed, BeginLoad, Elsewhere
  <2> QED BY <1>1, <1>2, <2>1
<1>7. CASE Posts
  BY <1>1, <1>7 DEF Posts, PostExport, PostFeed, Unsaved
<1>8. CASE Service
  BY <1>1, <1>8, ServiceIsQuiet
<1> QED BY <1>3, <1>4, <1>5, <1>6, <1>7, <1>8, StepKind

LEMMA StepPartial == JobInv /\ ProgressInv /\ Next => PartialDumpIsNamed'
<1> SUFFICES ASSUME JobInv, ProgressInv, Next, (HasMetadata /\ ~dump.complete)'
             PROVE  store' # Absent /\ Named(store', marker', jobs')
  BY DEF PartialDumpIsNamed, Named
<1> DEFINE Before == store # Absent /\ Named(store, marker, jobs)
<1>1. dump' = dump => Before
  BY DEF ProgressInv, PartialDumpIsNamed, HasMetadata
<1>2. CASE Idle
  BY <1>1, <1>2 DEF Idle
<1>3. CASE Saving
  <2>1. SavedBy /\ jobs' = jobs /\ store' # Absent /\ Before
    BY <1>1, <1>3, NotAState DEF Saving, SavedBy, Good
  <2>2. CASE store \in State /\ (Binds \/ Marks)
    BY <2>1, <2>2 DEF Binds, Marks, SameIds, Named
  <2>3. CASE store \in State /\ Begins
    BY <2>1, <2>3, Kinds DEF Begins, SameIds, Named, NoPending
  <2>4. CASE store \in State /\ NamesExport
    BY <2>1, <2>4, IdAssumption DEF NamesExport, Named, IdAssumption
  <2>5. CASE store \in State /\ NamesFeed
    BY <2>1, <2>5 DEF NamesFeed, Named
  <2> QED BY <2>1, <2>2, <2>3, <2>4, <2>5 DEF SavedBy, Opens
<1>4. CASE Scan
  BY <1>1, <1>4, ScanFacts, NotAState DEF SameIds, Named, Good
<1>5. CASE Clearing
  BY <1>1, <1>5, ClearingFacts, NotAState DEF Good, Named
<1>6. CASE Posts
  <2>1. UNCHANGED <<store, marker, dump>> /\ jobs[marker] = NoJobYet
    BY <1>6 DEF Posts, PostExport, PostFeed, Unsaved, At, JobInv, CreationIsMarked
  <2> QED BY <1>1, <2>1 DEF Named
<1>7. CASE Service
  <2>1. UNCHANGED <<store, marker>> /\ (Quiet \/ \E j \in Jobs : ExportWrites(j))
    BY <1>7, ServiceIsQuiet
  <2>2. CASE Quiet
    <3>1. Before
      BY <1>1, <2>2 DEF Quiet
    <3>2. store.pending = "export" => marker \in Jobs
      BY <3>1, Kinds DEF JobInv, CreationIsMarked, NoPending
    <3> QED BY <1>7, <2>1, <3>1, <3>2, ServiceJobs DEF Named
  <2>3. ASSUME NEW j \in Jobs, ExportWrites(j)
        PROVE  store' # Absent /\ Named(store', marker', jobs')
    <3>1. /\ Live(j) /\ jobs[j].kind = "export" /\ jobs' = jobs /\ jobs[j] # NoJobYet
          /\ JobsAreKnown /\ NoOrphan
      BY <2>3, JobInvParts DEF ExportWrites, JobsKept
    <3>2. store # Absent /\ j # store.changefeed
      BY <3>1, IdAssumption DEF JobsAreKnown, IdAssumption
    <3>3. j = store.export \/ (store.pending = "export" /\ marker = j)
      BY <3>1, <3>2 DEF NoOrphan
    <3> QED BY <2>1, <3>1, <3>2, <3>3, IdAssumption DEF Named, IdAssumption
  <2> QED BY <2>1, <2>2, <2>3
<1> QED BY <1>2, <1>3, <1>4, <1>5, <1>6, <1>7, StepKind

LEMMA StepJobsTrue == ASSUME MetadataAtStart, JobInv, ProgressInv, Next PROVE JobsAreTrue'
<1>t. /\ jobs \in JobTable /\ now \in Nat /\ conf \in Nat /\ JobsAreTrue
      /\ dump \in Dumps
  BY JobInvParts DEF JobInv, TypeOK, ProgressInv, Dumps
<1>1. CASE UNCHANGED <<now, jobs, dump, metadata>>
  BY <1>t, <1>1 DEF JobsAreTrue, Running
<1>2. ASSUME NEW response \in Responses, NEW created \in BOOLEAN,
             PostExport(response, created)
      PROVE  JobsAreTrue'
  <2>1. UNCHANGED <<now, dump, metadata>>
    BY <1>2 DEF PostExport
  <2>2. \A j \in Jobs : \/ jobs'[j] = jobs[j]
                       \/ /\ jobs'[j].kind = "export" /\ jobs'[j].state = "running"
                          /\ jobs'[j].tso # 0
    BY <1>t, <1>2 DEF PostExport, JobTable, JobsAreTrue
  <2> QED BY <1>t, <2>1, <2>2 DEF JobsAreTrue, Running
<1>3. ASSUME NEW response \in Responses, NEW created \in BOOLEAN,
             PostFeed(response, created)
      PROVE  JobsAreTrue'
  <2>1. UNCHANGED <<now, dump, metadata>>
    BY <1>3 DEF PostFeed
  <2>2. \A j \in Jobs : \/ jobs'[j] = jobs[j]
                       \/ /\ jobs'[j].kind = "changefeed" /\ jobs'[j].state = "creating"
                          /\ jobs'[j].upto = jobs'[j].tso
    BY <1>t, <1>3 DEF PostFeed, JobTable
  <2> QED BY <1>t, <2>1, <2>2 DEF JobsAreTrue, Running
<1>4. CASE Tick
  BY <1>t, <1>4 DEF Tick, JobsAreTrue, Running
<1>5. CASE DeleteFeed
  <2>1. \A j \in Jobs : /\ jobs'[j].kind = jobs[j].kind /\ jobs'[j].tso = jobs[j].tso
                       /\ jobs'[j].upto = jobs[j].upto
                       /\ jobs'[j].state \in {jobs[j].state, "deleted"}
    BY <1>t, <1>5 DEF DeleteFeed, JobTable
  <2> QED BY <1>t, <1>5, <2>1 DEF DeleteFeed, JobsAreTrue, Running
<1>6. ASSUME NEW j \in Jobs, ExportWrites(j) PROVE JobsAreTrue'
  <2>1. dump.complete => dump'.complete
    BY <1>t, <1>6 DEF ExportWrites, Dumps
  <2> QED BY <1>t, <1>6, <2>1 DEF ExportWrites, Outside, JobsAreTrue, Running
<1>7. ASSUME NEW j \in Jobs, ExportEnds(j) PROVE JobsAreTrue'
  <2>1. /\ UNCHANGED <<now, dump, metadata>> /\ jobs[j].kind = "export"
        /\ \A k \in Jobs \ {j} : jobs'[k] = jobs[k]
        /\ jobs'[j].kind = "export" /\ jobs'[j].tso = jobs[j].tso
        /\ \/ jobs'[j].state = "failed"
           \/ jobs'[j].state = "succeeded" /\ dump.complete
    BY <1>t, <1>7 DEF ExportEnds, JobTable
  <2> QED BY <1>t, <2>1 DEF JobsAreTrue, Running
<1>8. ASSUME NEW j \in Jobs, FeedStarts(j) PROVE JobsAreTrue'
  <2>1. /\ UNCHANGED <<now, dump>> /\ jobs[j].kind = "changefeed" /\ Live(j)
        /\ \A k \in Jobs \ {j} : jobs'[k] = jobs[k]
        /\ jobs'[j].kind = "changefeed" /\ jobs'[j].state = "running"
        /\ metadata' = jobs'[j].upto
    BY <1>t, <1>8 DEF FeedStarts, JobTable, JobsAreTrue, Live
  <2>2. \A k \in Jobs \ {j} : jobs[k].kind = "changefeed" => ~Running(k)
    BY <2>1, OneLiveJob DEF Running, Live
  <2> QED BY <1>t, <2>1, <2>2 DEF JobsAreTrue, Running
<1>9. ASSUME NEW j \in Jobs, FeedDelivers(j) PROVE JobsAreTrue'
  <2>1. /\ UNCHANGED <<now, dump>> /\ jobs[j].kind = "changefeed" /\ Live(j)
        /\ \A k \in Jobs \ {j} : jobs'[k] = jobs[k]
        /\ jobs'[j].kind = "changefeed" /\ jobs'[j].state = "running"
        /\ metadata' = jobs'[j].upto
    BY <1>t, <1>9 DEF FeedDelivers, JobTable, Feeds, Running, Live
  <2>2. \A k \in Jobs \ {j} : jobs[k].kind = "changefeed" => ~Running(k)
    BY <2>1, OneLiveJob DEF Running, Live
  <2> QED BY <1>t, <2>1, <2>2 DEF JobsAreTrue, Running
<1> QED
  BY <1>1, <1>2, <1>3, <1>4, <1>5, <1>6, <1>7, <1>8, <1>9, StepKind, ScanFacts, ClearingFacts
  DEF Idle, Saving, Posts, Service

\* While the snapshot is being loaded, nothing writes to its prefix.
LEMMA NoWriteWhileLoading ==
    ASSUME ProgressInv, pc \in Prepared, LoadsSnapshot, ~mem.finished,
           NEW j \in Jobs, ExportWrites(j)
    PROVE  FALSE
BY DEF ProgressInv, SnapshotIsReady, ExportWrites, LiveExport

LEMMA StepSteps == JobInv /\ ProgressInv /\ Next => StepsAreTaken'
<1> SUFFICES ASSUME JobInv, ProgressInv, Next PROVE StepsAreTaken'
  OBVIOUS
<1>t. StepsAreTaken /\ SnapshotIsReady /\ CopyIsStored
  BY DEF ProgressInv, JobInv
<1> USE DEF At, Goto
<1>1. CASE Idle
  <2>1. CASE pc' \in {"down", "preflight", "delete"}
    BY <2>1 DEF StepsAreTaken
  <2>2. CASE Walks /\ ~LoadFiles
    BY <1>t, <2>2
    DEF Walks, PreflightSkipped, SkipSnapshot, ResumeExport, WaitExport, ReuseFeed, WaitFeed,
        BeginLoad, PrepareTables, AfterPrepare, StepsAreTaken, LoadsSnapshot, LoadsIncrement
  <2>3. CASE LoadFiles
    <3>1. dump.complete
      BY <1>t, <2>3 DEF LoadFiles, StepsAreTaken, SnapshotIsReady, Prepared
    <3> QED BY <1>t, <2>3, <3>1 DEF LoadFiles, StepsAreTaken, LoadsSnapshot
  <2> QED BY <1>1, <2>1, <2>2, <2>3 DEF Idle
<1>2. CASE Saving
  <2>1. CASE pc' \in {"down", "preflight"}
    BY <2>1 DEF StepsAreTaken
  <2>2. CASE SavingStep
    <3>1. SavedBy /\ mem' = store' /\ NextStepOf(pc, pc') /\ mode' = mode
      BY <2>2, StepSaves
    <3>2. pc = "set export" => mem'.export # NoJob
      <4>1. CASE pc = "set export"
        <5>1. RecordExport
          BY <2>2, <4>1
          DEF SavingStep, Preflight, BeginExport, BeginFeed, RecordFeed, MarkFinished
        <5>2. mem.pending = "export" /\ marker \in Jobs /\ mem \in State
          BY <4>1, CreatingFacts, Kinds DEF JobInv, CreationIsMarked, NoPending
        <5> QED BY <5>1, <5>2, SetExportFacts, IdAssumption DEF RecordExport, Save, IdAssumption
      <4> QED BY <4>1
    <3>3. pc = "set changefeed" => mem'.changefeed # NoJob
      <4>1. CASE pc = "set changefeed"
        <5>1. RecordFeed
          BY <2>2, <4>1
          DEF SavingStep, Preflight, BeginExport, BeginFeed, RecordExport, MarkFinished
        <5>2. mem.pending = "changefeed" /\ marker \in Jobs /\ mem \in State
          BY <4>1, CreatingFacts, Kinds DEF JobInv, CreationIsMarked, NoPending
        <5> QED BY <5>1, <5>2, SetFeedFacts, IdAssumption DEF RecordFeed, Save, IdAssumption
      <4> QED BY <4>1
    <3>4. pc = "mark" /\ pc' = "scan" => mem'.finished /\ LoadsIncrement
      <4>1. CASE pc = "mark" /\ pc' = "scan"
        <5>1. MarkFinished
          BY <2>2, <4>1
          DEF SavingStep, Preflight, BeginExport, BeginFeed, RecordExport, RecordFeed
        <5>2. mem \in State /\ dump.tso \in Nat
          BY <1>t, <4>1 DEF CopyIsStored, JobInv, TypeOK
        <5>3. mem' \in MarkSnapshotFinished(mem, dump.tso) /\ LoadsIncrement
          BY <4>1, <5>1 DEF MarkFinished, Save
        <5> QED BY <5>2, <5>3, MarkFacts
      <4> QED BY <4>1
    <3> QED BY <3>1, <3>2, <3>3, <3>4 DEF NextStepOf, StepsAreTaken, LoadsIncrement
  <2> QED BY <1>2, <2>1, <2>2 DEF Saving
<1>3. CASE Scan
  BY <1>3, ScanFacts DEF StepsAreTaken, LoadsIncrement
<1>4. CASE Clearing
  BY <1>4, ClearingFacts DEF StepsAreTaken
<1>5. CASE Posts
  <2>1. pc' \in {"down", "set export", "set changefeed", "clear pending"}
    BY <1>5, OutcomeFacts DEF Posts, PostExport, PostFeed, JobInv
  <2> QED BY <2>1 DEF StepsAreTaken
<1>6. CASE Service
  <2>1. /\ UNCHANGED <<pc, mem, mode, reached>>
        /\ (Quiet \/ \E j \in Jobs : ExportWrites(j))
    BY <1>6, ServiceIsQuiet
  <2>2. pc = "mark" => dump' = dump
    BY <1>t, <2>1, NoWriteWhileLoading DEF Quiet, StepsAreTaken, Prepared
  <2> QED BY <1>t, <2>1, <2>2 DEF StepsAreTaken, LoadsSnapshot, LoadsIncrement
<1> QED BY <1>1, <1>2, <1>3, <1>4, <1>5, <1>6, StepKind

LEMMA StepSnapshot == JobInv /\ ProgressInv /\ Next => SnapshotIsReady'
<1> SUFFICES ASSUME JobInv, ProgressInv, Next PROVE SnapshotIsReady'
  OBVIOUS
<1>t. /\ StepsAreTaken /\ SnapshotIsReady /\ CopyIsStored /\ JobsAreTrue /\ PartialDumpIsNamed
      /\ CreationIsMarked /\ JobsAreKnown
  BY DEF ProgressInv, JobInv
<1> USE DEF At, Goto
<1>1. CASE pc' \notin Prepared
  BY <1>1 DEF SnapshotIsReady
\* The steps among those that need the snapshot.
<1>2. CASE /\ UNCHANGED <<mode, dump, jobs>> /\ mem'.finished = mem.finished
           /\ pc \in Prepared
  BY <1>t, <1>2 DEF SnapshotIsReady, LoadsSnapshot, HasMetadata, LiveExport, Live
\* The steps that begin to need it.
<1>3. CASE SkipSnapshot
  <2>1. SUFFICES ASSUME ~mem.finished
                 PROVE  HasMetadata /\ dump.complete /\ \A j \in Jobs : ~LiveExport(j)
    BY <1>3
    DEF SkipSnapshot, Unsaved, Elsewhere, SnapshotIsReady, HasMetadata, LiveExport, Live
  <2>2. /\ HasMetadata /\ store.export = NoJob /\ store # Absent /\ store = mem
        /\ store.pending = NoPending
    BY <1>t, <1>3, <2>1, NotAState
    DEF SkipSnapshot, SnapshotKnown, MetadataCounts, CopyIsStored, CreationIsMarked, Settled
  <2>3. dump.complete
    BY <1>t, <2>2, Kinds DEF PartialDumpIsNamed, Named, NoPending
  <2> QED BY <2>2, <2>3, NoLiveExport, Kinds DEF NoPending
<1>4. CASE WaitExport
  <2>1. /\ mem.export # NoJob /\ store # Absent /\ store = mem /\ store.pending = NoPending
        /\ mem.export \in Jobs /\ jobs[mem.export].kind = "export"
    <3>1. mem.export # NoJob /\ mem \in State /\ store = mem /\ mem.pending = NoPending
      BY <1>t, <1>4 DEF WaitExport, StepsAreTaken, CopyIsStored, CreationIsMarked, Settled
    <3> QED BY <1>t, <3>1, StateParts, NotAState DEF JobsAreKnown
  <2>2. jobs[mem.export].state = "succeeded" /\ dump.tso = jobs[mem.export].tso
    BY <1>4 DEF WaitExport
  <2>3. HasMetadata /\ dump.complete
    BY <1>t, <2>1, <2>2 DEF JobsAreTrue, HasMetadata
  <2>4. ~LiveExport(store.export)
    BY <2>1, <2>2 DEF LiveExport, Live
  <2>5. \A j \in Jobs : ~LiveExport(j)
    BY <2>1, <2>4, NoLiveExport, Kinds DEF NoPending
  <2> QED BY <1>4, <2>3, <2>5
          DEF WaitExport, Unsaved, Elsewhere, SnapshotIsReady, HasMetadata, LiveExport, Live
<1>5. CASE Idle
  <2>1. CASE pc' \in {"down", "preflight", "delete"}
    BY <1>1, <2>1 DEF Prepared
  <2>2. CASE \/ ReuseFeed \/ WaitFeed \/ BeginLoad \/ PrepareTables \/ LoadFiles
             \/ PreflightSkipped \/ ResumeExport
    <3>1. \/ pc \in Prepared
          \/ pc' \notin Prepared
      BY <2>2
      DEF ReuseFeed, WaitFeed, BeginLoad, PrepareTables, LoadFiles, PreflightSkipped,
          ResumeExport, Prepared
    <3>2. UNCHANGED <<mode, dump, jobs, mem>>
      BY <2>2
      DEF ReuseFeed, WaitFeed, BeginLoad, PrepareTables, LoadFiles, PreflightSkipped,
          ResumeExport, Elsewhere
    <3> QED BY <1>1, <1>2, <3>1, <3>2
  <2> QED BY <1>3, <1>4, <1>5, <2>1, <2>2 DEF Idle, Walks
<1>6. CASE Saving
  <2>1. CASE pc' \in {"down", "preflight"}
    BY <1>1, <2>1 DEF Prepared
  <2>2. CASE SavingStep
    <3>1. /\ SavedBy /\ mem' = store' /\ NextStepOf(pc, pc')
          /\ UNCHANGED <<mode, dump, jobs>>
      BY <2>2, StepSaves DEF Elsewhere
    <3>2. CASE pc = "preflight"
      <4>1. LoadsSnapshot' => pc' = "snapshot"
        BY <2>2, <3>2
        DEF SavingStep, Preflight, BeginExport, BeginFeed, RecordExport, RecordFeed,
            MarkFinished, Save, FirstStep, LoadsSnapshot
      <4> QED BY <4>1 DEF SnapshotIsReady, Prepared
    <3>3. CASE pc \in {"changefeed", "set changefeed"}
      <4>1. store = mem /\ store \in State
        BY <1>t, <3>3 DEF CopyIsStored
      <4>2. SameProgress(store', store)
        BY <3>1, <3>3, <4>1, NotAState
        DEF SavedBy, Opens, Binds, Begins, NamesExport, NamesFeed, Marks
      <4> QED BY <1>2, <3>1, <3>3, <4>1, <4>2 DEF SameProgress, Prepared
    <3>4. CASE pc \notin {"preflight", "changefeed", "set changefeed"}
      BY <1>1, <3>1, <3>4 DEF NextStepOf, Prepared
    <3> QED BY <3>2, <3>3, <3>4
  <2> QED BY <1>6, <2>1, <2>2 DEF Saving
<1>7. CASE Scan
  BY <1>1, <1>7, ScanFacts DEF Prepared
<1>8. CASE Clearing
  BY <1>1, <1>8, ClearingFacts DEF Prepared
<1>9. ASSUME NEW response \in Responses, NEW created \in BOOLEAN,
             PostExport(response, created)
      PROVE  SnapshotIsReady'
  <2>1. pc' \in {"down", "set export", "clear pending"}
    BY <1>9, OutcomeFacts DEF PostExport, JobInv
  <2> QED BY <1>1, <2>1 DEF Prepared
<1>10. ASSUME NEW response \in Responses, NEW created \in BOOLEAN,
              PostFeed(response, created)
       PROVE  SnapshotIsReady'
  <2>1. CASE pc' \notin Prepared
    BY <1>1, <2>1
  <2>2. CASE pc' \in Prepared
    <3>1. Quiet /\ pc' = "set changefeed"
      BY <1>10, <2>2, PostFeedIsQuiet DEF Prepared
    <3>2. mem' = mem /\ mode' = mode /\ pc = "post changefeed"
      BY <1>10, <3>1, OutcomeFacts DEF PostFeed, JobInv
    <3> QED BY <1>t, <3>1, <3>2 DEF SnapshotIsReady, LoadsSnapshot, HasMetadata, Quiet, Prepared
  <2> QED BY <2>1, <2>2
<1>11. CASE Service
  <2>1. /\ UNCHANGED <<pc, mem, mode>>
        /\ (Quiet \/ \E j \in Jobs : ExportWrites(j))
    BY <1>11, ServiceIsQuiet
  <2>2. CASE Quiet
    BY <1>t, <2>1, <2>2 DEF SnapshotIsReady, LoadsSnapshot, HasMetadata, Quiet
  <2>3. CASE \E j \in Jobs : ExportWrites(j)
    <3>1. ~(pc \in Prepared /\ LoadsSnapshot /\ ~mem.finished)
      BY <2>3, NoWriteWhileLoading
    <3> QED BY <2>1, <3>1 DEF SnapshotIsReady, LoadsSnapshot
  <2> QED BY <2>1, <2>2, <2>3
<1> QED
  BY <1>5, <1>6, <1>7, <1>8, <1>9, <1>10, <1>11, StepKind DEF Posts

LEMMA StepFeed == JobInv /\ ProgressInv /\ Next => FeedIsReady'
<1> SUFFICES ASSUME JobInv, ProgressInv, Next PROVE FeedIsReady'
  OBVIOUS
<1>t. /\ StateIsTrue /\ StepsAreTaken /\ SnapshotIsReady /\ FeedIsReady /\ CopyIsStored
      /\ jobs \in JobTable
  BY JobInvParts DEF ProgressInv, JobInv
<1> USE DEF At, Goto
<1>1. CASE ~(pc' \in Loading /\ LoadsIncrement')
  BY <1>1 DEF FeedIsReady
<1>2. CASE UNCHANGED <<mode, mem, dump, jobs>> /\ pc \in Loading
  BY <1>t, <1>2 DEF FeedIsReady, LoadsIncrement, LoadsSnapshot, Running
<1>3. CASE WaitFeed
  <2>1. /\ mem.changefeed # NoJob /\ Running(mem.changefeed) /\ FeedValid(mem.changefeed)
        /\ UNCHANGED <<mode, mem, dump, jobs>>
    BY <1>t, <1>3 DEF WaitFeed, Elsewhere, StepsAreTaken
  <2>2. mem.checkpoint = 0 /\ LoadsSnapshot => HasMetadata
    BY <1>t, <1>3, NotAState
    DEF WaitFeed, StateIsTrue, SnapshotIsReady, CopyIsStored, Prepared
  <2> QED BY <2>1, <2>2 DEF FeedValid, FeedIsReady, Running, LoadsSnapshot
<1>4. CASE Idle
  <2>1. CASE pc' \in {"down", "preflight", "delete"}
    BY <1>1, <2>1 DEF Loading
  <2>2. CASE Walks /\ ~WaitFeed
    <3>1. \/ pc \in Loading
          \/ pc' \notin Loading
          \/ ~LoadsIncrement'
      BY <2>2
      DEF Walks, SkipSnapshot, WaitExport, ReuseFeed, BeginLoad, PrepareTables, LoadFiles,
          PreflightSkipped, ResumeExport, AfterPrepare, Loading, LoadsIncrement
    <3>2. UNCHANGED <<mode, dump, jobs, mem>>
      BY <2>2
      DEF Walks, SkipSnapshot, WaitExport, ReuseFeed, BeginLoad, PrepareTables, LoadFiles,
          PreflightSkipped, ResumeExport, Elsewhere
    <3> QED BY <1>1, <1>2, <3>1, <3>2
  <2> QED BY <1>3, <1>4, <2>1, <2>2 DEF Idle
<1>5. CASE Saving
  <2>1. CASE pc' \in {"down", "preflight"}
    BY <1>1, <2>1 DEF Loading
  <2>2. CASE SavingStep /\ pc' \in Loading
    <3>1. pc = "mark"
      BY <2>2, StepSaves DEF NextStepOf, Loading
    <3>2. /\ mem \in State /\ store = mem /\ dump.tso \in Nat /\ UNCHANGED <<mode, dump, jobs>>
          /\ mem' \in MarkSnapshotFinished(mem, dump.tso) /\ LoadsIncrement
      <4>1. MarkFinished
        BY <2>2, <3>1
        DEF SavingStep, Preflight, BeginExport, BeginFeed, RecordExport, RecordFeed
      <4> QED BY <1>t, <2>2, <3>1, <4>1
              DEF MarkFinished, Save, Elsewhere, CopyIsStored, JobInv, TypeOK, Loading
    <3>3. /\ mem'.changefeed = mem.changefeed /\ mem'.checkpoint = dump.tso
          /\ dump.tso # 0
      BY <3>2, MarkFacts DEF SameIds
    <3>4. LoadsSnapshot /\ mem.checkpoint = 0
      BY <1>t, <3>1, <3>2, NotAState DEF StepsAreTaken, StateIsTrue
    <3> QED BY <1>t, <3>1, <3>2, <3>3, <3>4 DEF FeedIsReady, Loading, Running, LoadsSnapshot
  <2> QED BY <1>1, <1>5, <2>1, <2>2 DEF Saving
<1>6. CASE Scan
  <2>1. /\ store' \in State /\ mem' = store' /\ SameIds(store', store) /\ store = mem
        /\ mem \in State /\ mem'.checkpoint = metadata /\ mem.checkpoint < metadata
        /\ LoadsIncrement /\ mem.finished /\ UNCHANGED <<jobs, mode>>
    BY <1>6, ScanFacts DEF Good
  <2>2. mem.checkpoint # 0 /\ mem.checkpoint \in Nat /\ metadata \in Nat
    BY <1>t, <2>1, StateParts, NotAState DEF StateIsTrue, JobInv, TypeOK
  <2>3. pc \in Loading
    BY <1>6 DEF Scan, Loading
  <2>4. /\ mem.changefeed # NoJob /\ Running(mem.changefeed)
        /\ jobs[mem.changefeed].tso <= mem.checkpoint
    BY <1>t, <2>1, <2>2, <2>3 DEF FeedIsReady
  <2>5. jobs[mem.changefeed].tso \in Nat
    BY <1>t, <2>1, <2>4, StateParts DEF JobTable
  <2>6. jobs[mem.changefeed].tso <= metadata /\ metadata # 0
    BY <2>1, <2>2, <2>4, <2>5
  <2> QED BY <2>1, <2>4, <2>6 DEF SameIds, FeedIsReady, Running
<1>7. CASE Clearing
  BY <1>1, <1>7, ClearingFacts DEF Loading
<1>8. CASE Posts
  <2>1. pc' \in {"down", "set export", "set changefeed", "clear pending"}
    BY <1>8, OutcomeFacts DEF Posts, PostExport, PostFeed, JobInv
  <2> QED BY <1>1, <2>1 DEF Loading
<1>9. CASE Service /\ pc' \in Loading /\ LoadsIncrement'
  <2>1. /\ UNCHANGED <<pc, mem, mode>>
        /\ (Quiet \/ \E j \in Jobs : ExportWrites(j))
    BY <1>9, ServiceIsQuiet
  <2>2. /\ mem.changefeed # NoJob /\ Running(mem.changefeed) /\ mem \in State /\ store = mem
        /\ mem.checkpoint # 0 => jobs[mem.changefeed].tso <= mem.checkpoint
        /\ mem.checkpoint = 0 /\ LoadsSnapshot => jobs[mem.changefeed].tso <= dump.tso
    BY <1>t, <1>9, <2>1 DEF FeedIsReady, LoadsIncrement, CopyIsStored, Loading
  <2>3. mem.changefeed \in Jobs /\ jobs[mem.changefeed].kind = "changefeed"
    BY <2>2, StateParts, NotAState DEF JobInv, JobsAreKnown
  <2>4. Running(mem.changefeed)' /\ jobs'[mem.changefeed].tso = jobs[mem.changefeed].tso
    <3>1. pc # "delete"
      BY <1>9, <2>1 DEF Loading
    <3> QED BY <1>9, <2>1, <2>2, <2>3, <3>1, ServiceJobs DEF Running
  <2>5. mem.checkpoint = 0 /\ LoadsSnapshot => dump' = dump
    <3>1. SUFFICES ASSUME mem.checkpoint = 0, LoadsSnapshot PROVE dump' = dump
      OBVIOUS
    <3>2. ~mem.finished
      BY <1>t, <2>2, <3>1, NotAState DEF StateIsTrue
    <3>3. pc \in Prepared
      BY <1>t, <1>9, <2>1, <3>2 DEF Loading, Prepared, StepsAreTaken
    <3> QED BY <2>1, <3>1, <3>2, <3>3, NoWriteWhileLoading DEF Quiet
  <2> QED BY <2>1, <2>2, <2>4, <2>5 DEF FeedIsReady, LoadsSnapshot
<1> QED BY <1>1, <1>4, <1>5, <1>6, <1>7, <1>8, <1>9, StepKind

(***************************************************************************)
(* Where a state is first made with a snapshot to load, and a changefeed   *)
(* has replaced the increment metadata by the time it runs, a finished     *)
(* snapshot has been loaded and Snowflake has every row up to the saved    *)
(* checkpoint, through all restarts, changes of mode and deletions.        *)
(***************************************************************************)
THEOREM CheckpointsAreReached ==
    ASSUME ~FreshIncremental, MetadataAtStart
    PROVE  Spec => []CheckpointReached
<1>1. JobInv /\ ProgressInv /\ [Next]_vars => ProgressInv'
  <2>1. JobInv /\ ProgressInv /\ Next => ProgressInv'
    BY StepState, StepPartial, StepJobsTrue, StepSteps, StepSnapshot, StepFeed DEF ProgressInv
  <2>2. ProgressInv /\ UNCHANGED vars => ProgressInv'
    <3> SUFFICES ASSUME ProgressInv, UNCHANGED vars PROVE ProgressInv'
      OBVIOUS
    <3>1. UNCHANGED <<store, marker, pc, mem, mode, now, jobs, dump, metadata, reached>>
      BY DEF vars, processVars
    <3>2. StateIsTrue' /\ PartialDumpIsNamed'
      BY <3>1 DEF ProgressInv, StateIsTrue, PartialDumpIsNamed, HasMetadata, Named
    <3>3. JobsAreTrue' /\ StepsAreTaken'
      BY <3>1
      DEF ProgressInv, JobsAreTrue, StepsAreTaken, Running, LoadsSnapshot, LoadsIncrement
    <3>4. SnapshotIsReady' /\ FeedIsReady'
      BY <3>1
      DEF ProgressInv, SnapshotIsReady, FeedIsReady, HasMetadata, LiveExport, Live, Running,
          LoadsSnapshot, LoadsIncrement
    <3> QED BY <3>2, <3>3, <3>4 DEF ProgressInv
  <2> QED BY <2>1, <2>2
<1>2. JobInv /\ ProgressInv => CheckpointReached
  <2>1. JobInv /\ store # Absent => store.checkpoint \in Nat /\ reached \in Nat
    BY StateParts, JobInvParts DEF JobInv, TypeOK
  <2> QED BY <2>1 DEF ProgressInv, StateIsTrue, CheckpointReached
<1> QED BY <1>1, <1>2, InitProgress, JobInvariant, PTL DEF Spec
=============================================================================
