----------------------------- MODULE CloudSource -----------------------------
(***************************************************************************)
(* The create and delete commands against TiDB Cloud: src/cmd/core.go and  *)
(* delete.go, the runner of src/source/tidbcloud and the client behind it. *)
(* One command runs at a time; it may crash between any two steps and be   *)
(* run again, in another mode or with another snapshot.tso.  The service   *)
(* runs the jobs it was asked for, whether or not its answer arrived.      *)
(*                                                                         *)
(* The incremental loader is one action here, a scan; IncrementalLoader    *)
(* has what happens inside it.                                             *)
(***************************************************************************)
EXTENDS ReplState, FiniteSets

CONSTANTS
    Modes,              \* the modes the user runs create in
    FreshIncremental,   \* incremental-only may be run before there is a state
    ConfigTSOs,         \* the values of snapshot.tso; 0 when it is not set
    MetadataAtStart,    \* a changefeed that runs has replaced increment/metadata
    MaxTS,              \* bound: the last TSO
    MaxFaults           \* bound: failures and crashes

AllModes == {"all", "snapshot-only", "incremental-only"}
External == "external"      \* whoever wrote the snapshot, if not an export

ASSUME CloudAssumption ==
    /\ Modes \subseteq AllModes
    /\ FreshIncremental \in BOOLEAN /\ MetadataAtStart \in BOOLEAN
    /\ ConfigTSOs \subseteq Nat
    /\ MaxTS \in Nat /\ MaxFaults \in Nat
    /\ External \notin Jobs

VARIABLES
    store,      \* replication-state.json
    marker,     \* the job name in its pending_create
    \* the process
    pc,         \* the step it is about to take
    mem,        \* the state manager's copy
    mode,
    conf,       \* snapshot.tso
    start,      \* the start TSO of the changefeed being created
    \* TiDB Cloud and upstream
    now,        \* the current TSO
    jobs,       \* per id: what the job is, its TSO, its state and its progress
    \* the storage and Snowflake
    dump,       \* the snapshot/ prefix
    metadata,   \* checkpoint-ts of increment/metadata
    reached,    \* Snowflake has every row up to this TSO; 0 before the snapshot
    faults

processVars == <<pc, mem, mode, conf, start>>
vars == <<store, marker, processVars, now, jobs, dump, metadata, reached, faults>>

Absent == [version |-> 0]
Closed == [version |-> -1]

NoJobYet == [kind |-> NoPending, tso |-> 0, state |-> "none", upto |-> 0]
Live(j) == jobs[j].state \in {"creating", "running"}
Running(j) == jobs[j].state = "running"
Feeds == {j \in Jobs : jobs[j].kind = "changefeed"}

LoadsSnapshot == mode # "incremental-only"
LoadsIncrement == mode # "snapshot-only"

Empty == [tso |-> 0, complete |-> FALSE, writers |-> {}]
ExternalPartial == [Empty EXCEPT !.writers = {External}]
ExternalSnapshot == [tso |-> 1, complete |-> TRUE, writers |-> {External}]

Init ==
    /\ store = Absent
    /\ marker = NoJob
    /\ pc = "down" /\ mem = Closed /\ mode = "all" /\ conf = 0 /\ start = 0
    /\ now = 1
    /\ jobs = [j \in Jobs |-> NoJobYet]
    /\ dump \in {Empty, ExternalPartial, ExternalSnapshot}
    /\ metadata = 0
    /\ reached = 0
    /\ faults = 0

----------------------------------------------------------------------------
(***************************************************************************)
(* The process and its state manager.                                      *)
(***************************************************************************)
At(step) == pc = step
Goto(step) == pc' = step

Stopped ==
    /\ pc' = "down" /\ mem' = Closed /\ start' = 0
    /\ UNCHANGED <<mode, conf>>

\* A call that the manager accepts is written, then known to the process.
Save(nexts, step) ==
    /\ \E next \in nexts : mem' = next /\ store' = next
    /\ Goto(step)

Unsaved == UNCHANGED <<store, marker>>
Elsewhere == UNCHANGED <<now, jobs, dump, metadata, reached, faults>>

\* The command returns, with an error or because its work is done.
Return == Stopped /\ Unsaved /\ Elsewhere

Fault == faults < MaxFaults /\ faults' = faults + 1

Crash ==
    /\ ~At("down")
    /\ Fault
    /\ Stopped
    /\ Unsaved
    /\ UNCHANGED <<now, jobs, dump, metadata, reached>>

\* state.Open
Create(m, tso) ==
    /\ At("down")
    /\ store = Absent /\ m = "incremental-only" => FreshIncremental
    /\ store' = IF store = Absent THEN NewState(m = "incremental-only") ELSE store
    /\ mem' = store'
    /\ mode' = m /\ conf' = tso
    /\ Goto("preflight")
    /\ UNCHANGED <<marker, start>> /\ Elsewhere

----------------------------------------------------------------------------
(***************************************************************************)
(* Preflight and ensureBackend.                                            *)
(***************************************************************************)
HasMetadata == dump.tso # 0
MatchesConfig == conf \in {0, dump.tso}

NeedsExport ==
    LoadsSnapshot /\ ~mem.finished /\ (mem.export # NoJob \/ ~HasMetadata)

\* Wrong on purpose: the changefeed starts one before, also before zero.
StartOneBefore ==
    IF mem.checkpoint # 0 THEN {mem.checkpoint - 1}
    ELSE IF HasMetadata THEN {t \in {dump.tso - 1} : MatchesConfig}
    ELSE {conf - 1} \ {0}

(***************************************************************************)
(* changefeedStartTSO, as the set of TSOs it may return: one, or none when *)
(* it fails.                                                               *)
(***************************************************************************)
StartTSO ==
    IF mem.checkpoint # 0 THEN {mem.checkpoint}
    ELSE IF HasMetadata THEN {t \in {dump.tso} : MatchesConfig}
    ELSE {conf} \ {0}

FirstStep == IF LoadsSnapshot THEN "snapshot" ELSE "changefeed"

PreflightSkipped ==
    /\ At("preflight")
    /\ mem.pending = NoPending
    /\ ~NeedsExport /\ ~LoadsIncrement
    /\ Goto("snapshot")
    /\ UNCHANGED <<mem, mode, conf, start>> /\ Unsaved /\ Elsewhere

Preflight(source) ==
    /\ At("preflight")
    /\ mem.pending = NoPending
    /\ NeedsExport \/ LoadsIncrement
    /\ (LoadsIncrement /\ mem.changefeed = NoJob /\ ~NeedsExport) => StartTSO # {}
    /\ Save(BindCloudSource(mem, source), FirstStep)
    /\ UNCHANGED <<mode, conf, start, marker>> /\ Elsewhere

----------------------------------------------------------------------------
(***************************************************************************)
(* EnsureSnapshot.                                                         *)
(***************************************************************************)
AfterPrepare == IF LoadsIncrement THEN "changefeed" ELSE "load"

SnapshotKnown == mem.finished /\ mem.checkpoint # 0

\* A saved export takes precedence over metadata.
MetadataCounts == HasMetadata /\ mem.export = NoJob

SkipSnapshot ==
    /\ At("snapshot")
    /\ SnapshotKnown \/ (MetadataCounts /\ MatchesConfig)
    /\ Goto(AfterPrepare)
    /\ UNCHANGED <<mem, mode, conf, start>> /\ Unsaved /\ Elsewhere

ResumeExport ==
    /\ At("snapshot")
    /\ ~SnapshotKnown /\ mem.export # NoJob
    /\ Goto("wait export")
    /\ UNCHANGED <<mem, mode, conf, start>> /\ Unsaved /\ Elsewhere

\* Wrong on purpose: files without metadata do not matter.
PrefixUnused == ~HasMetadata
PrefixFree == ~HasMetadata /\ dump.writers = {}

Unused == {j \in Jobs : jobs[j] = NoJobYet /\ j # marker}

\* ensureBackend binds the source where Preflight had no reason to do so.
Bound(st) ==
    IF st.source # NoSource THEN {st}
    ELSE UNION {BindCloudSource(st, source) : source \in Sources}

ExportBegun == UNION {BeginCreate(st, "export") : st \in Bound(mem)}

BeginExport(name) ==
    /\ At("snapshot")
    /\ ~SnapshotKnown /\ mem.export = NoJob /\ PrefixFree
    /\ name \in Unused
    /\ Save(ExportBegun, "post export")
    /\ marker' = name
    /\ UNCHANGED <<mode, conf, start>> /\ Elsewhere

(***************************************************************************)
(* A POST is sent once.  It answers with an id, is rejected with a status  *)
(* that proves nothing was created, fails in a way that proves nothing, or *)
(* creates a job whose verification then fails.                            *)
(***************************************************************************)
Responses == {"id", "rejected", "unknown", "unverified"}
MayHaveCreated(response) == response # "rejected"
HasCreated(response) == response \in {"id", "unverified"}

\* Wrong on purpose: a 403 of the verification counts as one of the POST.
RejectedUnverified(response) == response \in {"rejected", "unverified"}

DefinitelyRejected(response) == response = "rejected"

Outcome(response, created, next) ==
    /\ response # "id" => Fault
    /\ response = "id" => UNCHANGED faults
    /\ HasCreated(response) => created
    /\ created => MayHaveCreated(response)
    /\ IF response = "id" THEN Goto(next) /\ UNCHANGED <<mem, mode, conf, start>>
       ELSE IF DefinitelyRejected(response)
            THEN Goto("clear pending") /\ UNCHANGED <<mem, mode, conf, start>>
            ELSE Stopped

PostExport(response, created) ==
    /\ At("post export")
    /\ Outcome(response, created, "set export")
    /\ jobs' = IF created
               THEN [jobs EXCEPT ![marker] =
                        [kind |-> "export", tso |-> IF conf # 0 THEN conf ELSE now,
                         state |-> "running", upto |-> 0]]
               ELSE jobs
    /\ Unsaved
    /\ UNCHANGED <<now, dump, metadata, reached>>

\* rejectedCreate: the command fails also when the marker was cleared.
ClearPending ==
    /\ At("clear pending")
    /\ store' \in ClearPendingCreate(mem)
    /\ marker' = NoJob
    /\ Stopped
    /\ Elsewhere

RecordExport ==
    /\ At("set export")
    /\ Save(SetExportID(mem, marker), "wait export")
    /\ marker' = NoJob
    /\ UNCHANGED <<mode, conf, start>> /\ Elsewhere

WaitExport ==
    /\ At("wait export")
    /\ jobs[mem.export].state = "succeeded"
    /\ dump.tso = jobs[mem.export].tso /\ MatchesConfig
    /\ Goto(AfterPrepare)
    /\ UNCHANGED <<mem, mode, conf, start>> /\ Unsaved /\ Elsewhere

----------------------------------------------------------------------------
(***************************************************************************)
(* EnsureChangefeed.                                                       *)
(***************************************************************************)
BeginFeed(name) ==
    /\ At("changefeed")
    /\ mem.changefeed = NoJob
    /\ name \in Unused
    /\ start' \in StartTSO
    /\ Save(BeginCreate(mem, "changefeed"), "post changefeed")
    /\ marker' = name
    /\ UNCHANGED <<mode, conf>> /\ Elsewhere

PostFeed(response, created) ==
    /\ At("post changefeed")
    /\ Outcome(response, created, "set changefeed")
    /\ jobs' = IF created
               THEN [jobs EXCEPT ![marker] =
                        [kind |-> "changefeed", tso |-> start, state |-> "creating",
                         upto |-> start]]
               ELSE jobs
    /\ Unsaved
    /\ UNCHANGED <<now, dump, metadata, reached>>

RecordFeed ==
    /\ At("set changefeed")
    /\ Save(SetChangefeedID(mem, marker), "wait changefeed")
    /\ marker' = NoJob
    /\ UNCHANGED <<mode, conf, start>> /\ Elsewhere

ReuseFeed ==
    /\ At("changefeed")
    /\ mem.changefeed # NoJob
    /\ Goto("wait changefeed")
    /\ UNCHANGED <<mem, mode, conf, start>> /\ Unsaved /\ Elsewhere

(***************************************************************************)
(* validateChangefeed: a changefeed must not start after what is known of  *)
(* the snapshot; without metadata or snapshot.tso nothing is known.        *)
(***************************************************************************)
\* Wrong on purpose: where the changefeed starts is not checked.
AnyFeedValid(j) == jobs[j].tso # 0

FeedValid(j) ==
    /\ jobs[j].tso # 0
    /\ mem.checkpoint # 0 => jobs[j].tso <= mem.checkpoint
    /\ mem.checkpoint = 0 /\ HasMetadata => MatchesConfig /\ jobs[j].tso <= dump.tso
    /\ mem.checkpoint = 0 /\ ~HasMetadata /\ conf # 0 => jobs[j].tso <= conf

WaitFeed ==
    /\ At("wait changefeed")
    /\ Running(mem.changefeed)
    /\ FeedValid(mem.changefeed)
    /\ Goto("load")
    /\ UNCHANGED <<mem, mode, conf, start>> /\ Unsaved /\ Elsewhere

----------------------------------------------------------------------------
(***************************************************************************)
(* loadIntoSnowflake.                                                      *)
(***************************************************************************)
BeginLoad ==
    /\ At("load")
    /\ \/ LoadsSnapshot /\ ~mem.finished /\ Goto("tables")
       \/ mem.finished /\ LoadsIncrement /\ Goto("scan")
    /\ UNCHANGED <<mem, mode, conf, start>> /\ Unsaved /\ Elsewhere

\* prepareTables replaces the tables by empty ones.
PrepareTables ==
    /\ At("tables")
    /\ reached' = 0
    /\ Goto("files")
    /\ UNCHANGED <<mem, mode, conf, start, now, jobs, dump, metadata, faults>>
    /\ Unsaved

\* loadFiles copies the files the walk finds.
LoadFiles ==
    /\ At("files")
    /\ reached' = IF dump.complete THEN dump.tso ELSE 0
    /\ Goto("mark")
    /\ UNCHANGED <<mem, mode, conf, start, now, jobs, dump, metadata, faults>>
    /\ Unsaved

MarkFinished ==
    /\ At("mark")
    /\ HasMetadata
    /\ Save(MarkSnapshotFinished(mem, dump.tso), IF LoadsIncrement THEN "scan" ELSE "done")
    /\ UNCHANGED <<mode, conf, start, marker>> /\ Elsewhere

\* What is in the increment/ prefix of the changes after reached.
Delivered(ts) ==
    \E j \in Feeds : jobs[j].tso < ts /\ ts <= jobs[j].upto

Scan ==
    /\ At("scan")
    /\ metadata > mem.checkpoint
    /\ Save(SetCheckpointTS(mem, metadata), "scan")
    /\ reached' = IF reached # 0 /\ \A ts \in (reached + 1)..metadata : Delivered(ts)
                  THEN metadata ELSE reached
    /\ UNCHANGED <<mode, conf, start, marker, now, jobs, dump, metadata, faults>>

----------------------------------------------------------------------------
(***************************************************************************)
(* The command ends where none of the steps above can go on.               *)
(***************************************************************************)
ExportUseless ==
    \/ jobs[mem.export].state = "failed"
    \/ jobs[mem.export].state = "succeeded"
           /\ ~(dump.tso = jobs[mem.export].tso /\ MatchesConfig)

GivesUp ==
    \/ At("preflight") /\ mem.pending # NoPending
    \/ At("preflight") /\ LoadsIncrement /\ mem.changefeed = NoJob /\ ~NeedsExport
           /\ StartTSO = {}
    \/ At("snapshot") /\ ~SnapshotKnown /\ mem.export = NoJob /\ ~PrefixFree
           /\ ~(HasMetadata /\ MatchesConfig)
    \/ At("wait export") /\ ExportUseless
    \/ At("changefeed") /\ mem.changefeed = NoJob /\ StartTSO = {}
    \/ At("wait changefeed") /\ ~(Live(mem.changefeed) /\ FeedValid(mem.changefeed))
    \/ At("load") /\ ~(LoadsSnapshot /\ ~mem.finished)
                  /\ ~(mem.finished /\ LoadsIncrement)
    \/ At("done")
    \/ At("scan")

GiveUp == GivesUp /\ Return

(***************************************************************************)
(* A write of the state fails after the object was replaced.               *)
(***************************************************************************)
Written(nexts, name) ==
    /\ store' \in nexts
    /\ marker' = name
    /\ Fault
    /\ Stopped
    /\ UNCHANGED <<now, jobs, dump, metadata, reached>>

SaveFails ==
    \/ /\ At("down") /\ store = Absent
       /\ \E m \in Modes : /\ m = "incremental-only" => FreshIncremental
                           /\ Written({NewState(m = "incremental-only")}, NoJob)
    \/ /\ At("preflight") /\ mem.pending = NoPending /\ (NeedsExport \/ LoadsIncrement)
       /\ \E source \in Sources : Written(BindCloudSource(mem, source), marker)
    \/ /\ At("snapshot") /\ ~SnapshotKnown /\ mem.export = NoJob /\ PrefixFree
       /\ \E name \in Unused : Written(ExportBegun, name)
    \/ At("set export") /\ Written(SetExportID(mem, marker), NoJob)
    \/ /\ At("changefeed") /\ mem.changefeed = NoJob /\ StartTSO # {}
       /\ \E name \in Unused : Written(BeginCreate(mem, "changefeed"), name)
    \/ At("set changefeed") /\ Written(SetChangefeedID(mem, marker), NoJob)
    \/ At("mark") /\ HasMetadata /\ Written(MarkSnapshotFinished(mem, dump.tso), marker)

----------------------------------------------------------------------------
(***************************************************************************)
(* The delete command: OpenExisting, then DeleteChangefeed of a changefeed *)
(* that is verified first, then the id is cleared.                         *)
(***************************************************************************)
Delete ==
    /\ At("down")
    /\ store # Absent
    /\ store.changefeed # NoJob
    /\ mem' = store
    /\ Goto("delete")
    /\ UNCHANGED <<mode, conf, start>> /\ Unsaved /\ Elsewhere

DeleteFeed ==
    /\ At("delete")
    /\ Live(mem.changefeed)
    /\ jobs' = [jobs EXCEPT ![mem.changefeed].state = "deleted"]
    /\ UNCHANGED <<processVars, now, dump, metadata, reached, faults>> /\ Unsaved

\* NotFound, of an id that was verified when it was saved, or DELETED.
IsDeleted(j) == jobs[j].state = "deleted"

ClearFeed ==
    /\ At("delete")
    /\ IsDeleted(mem.changefeed)
    /\ store' \in ClearChangefeedID(mem)
    /\ UNCHANGED marker
    /\ Stopped
    /\ Elsewhere

----------------------------------------------------------------------------
(***************************************************************************)
(* TiDB Cloud.  An export writes metadata and data files in any order.     *)
(***************************************************************************)
Outside == UNCHANGED <<processVars, store, marker, reached, faults>>

Tick ==
    /\ now < MaxTS
    /\ now' = now + 1
    /\ UNCHANGED <<jobs, dump, metadata>> /\ Outside

ExportWrites(j) ==
    /\ Live(j) /\ jobs[j].kind = "export"
    /\ \/ dump' = [dump EXCEPT !.tso = jobs[j].tso, !.writers = @ \cup {j}]
       \/ dump' = [dump EXCEPT !.complete = TRUE, !.writers = @ \cup {j}]
    /\ dump' # dump
    /\ UNCHANGED <<now, jobs, metadata>> /\ Outside

ExportEnds(j) ==
    /\ Live(j) /\ jobs[j].kind = "export"
    /\ \/ /\ dump.tso = jobs[j].tso /\ dump.complete
          /\ jobs' = [jobs EXCEPT ![j].state = "succeeded"]
          /\ UNCHANGED faults
       \/ /\ Fault
          /\ jobs' = [jobs EXCEPT ![j].state = "failed"]
    /\ UNCHANGED <<processVars, store, marker, now, dump, metadata, reached>>

FeedStarts(j) ==
    /\ jobs[j].state = "creating"
    /\ jobs' = [jobs EXCEPT ![j].state = "running"]
    /\ metadata' = IF MetadataAtStart THEN jobs[j].tso ELSE metadata
    /\ UNCHANGED <<now, dump>> /\ Outside

FeedDelivers(j) ==
    /\ Running(j) /\ j \in Feeds
    /\ jobs[j].upto < now
    /\ \E ts \in (jobs[j].upto + 1)..now :
          /\ jobs' = [jobs EXCEPT ![j].upto = ts]
          /\ metadata' = ts
    /\ UNCHANGED <<now, dump>> /\ Outside

(***************************************************************************)
(* README, State and Resume Behavior: with the tool stopped, the operator  *)
(* looks the named task up, and records its id or clears the marker.       *)
(***************************************************************************)
Repair ==
    /\ At("down")
    /\ store # Absent
    /\ store.pending # NoPending
    /\ store' = IF jobs[marker] = NoJobYet
                THEN [store EXCEPT !.pending = NoPending]
                ELSE IF store.pending = "export"
                     THEN [store EXCEPT !.pending = NoPending, !.export = marker]
                     ELSE [store EXCEPT !.pending = NoPending, !.changefeed = marker]
    /\ marker' = NoJob
    /\ UNCHANGED processVars /\ Elsewhere

----------------------------------------------------------------------------
CreateNext ==
    \/ \E m \in Modes, tso \in ConfigTSOs : Create(m, tso)
    \/ PreflightSkipped
    \/ \E source \in Sources : Preflight(source)
    \/ SkipSnapshot \/ ResumeExport \/ (\E j \in Jobs : BeginExport(j))
    \/ \E response \in Responses, created \in BOOLEAN :
           PostExport(response, created) \/ PostFeed(response, created)
    \/ ClearPending \/ RecordExport \/ WaitExport
    \/ (\E j \in Jobs : BeginFeed(j)) \/ RecordFeed \/ ReuseFeed \/ WaitFeed
    \/ BeginLoad \/ PrepareTables \/ LoadFiles \/ MarkFinished \/ Scan
    \/ GiveUp \/ SaveFails \/ Crash

DeleteNext == Delete \/ DeleteFeed \/ ClearFeed

CloudNext == Tick \/ \E j \in Jobs : ExportWrites(j) \/ ExportEnds(j) \/ FeedStarts(j) \/ FeedDelivers(j)

Next == CreateNext \/ DeleteNext \/ CloudNext \/ Repair

Spec == Init /\ [][Next]_vars

----------------------------------------------------------------------------
\* The types; a process has a state manager exactly while it runs.
TypeOK ==
    /\ store \in State \cup {Absent}
    /\ mem \in State \cup {Closed} /\ (mem = Closed <=> pc = "down")
    /\ marker \in Jobs \cup {NoJob}
    /\ mode \in AllModes /\ conf \in Nat /\ start \in Nat
    /\ now \in Nat /\ metadata \in Nat /\ reached \in Nat /\ faults \in Nat
    /\ jobs \in [Jobs -> [kind : JobKinds \cup {NoPending}, tso : Nat, upto : Nat,
                          state : {"none", "creating", "running", "succeeded", "failed",
                                   "deleted"}]]
    /\ dump \in [tso : Nat, complete : BOOLEAN, writers : SUBSET (Jobs \cup {External})]

(***************************************************************************)
(* No job is orphaned: a job that runs is named in the saved state, by its *)
(* id or by the marker of its creation, whatever answer was lost and       *)
(* whatever write failed; so a restart neither forgets it nor creates it   *)
(* again (pending_create; delete clears an id only after the deletion).    *)
(***************************************************************************)
NoOrphan ==
    \A j \in Jobs : Live(j) =>
        \/ j \in {store.export, store.changefeed}
        \/ store.pending = jobs[j].kind /\ marker = j

(***************************************************************************)
(* No two jobs write to one prefix: the snapshot files come from one dump, *)
(* the increment files from one changefeed at a time.                      *)
(***************************************************************************)
OneWriterPerPrefix ==
    /\ Cardinality(dump.writers) <= 1
    /\ Cardinality({j \in Feeds : Live(j)}) <= 1

(***************************************************************************)
(* The state tells the truth about Snowflake: a finished snapshot has been *)
(* loaded completely, and every row up to the saved checkpoint is there,   *)
(* through all restarts, changes of mode, and deleted and new changefeeds. *)
(***************************************************************************)
CheckpointReached ==
    store # Absent =>
        /\ store.finished => reached # 0
        /\ store.checkpoint <= reached
=============================================================================
