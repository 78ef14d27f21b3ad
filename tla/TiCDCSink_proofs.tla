-------------------------- MODULE TiCDCSink_proofs --------------------------
(***************************************************************************)
(* What the changefeed guarantees to the reader of its files, proved for   *)
(* every set of tables, keys and partitions and every bound.  SinkInv is   *)
(* the inductive invariant; SinkStep says what one step may add.           *)
(***************************************************************************)
EXTENDS TiCDCSink, FiniteSetTheorems, WellFoundedInduction, TLAPS

(***************************************************************************)
(* Every set of naturals has a least element, a bounded one has a greatest *)
(* one: intervals of naturals are ordered by inclusion, which is well      *)
(* founded for finite sets.                                                *)
(***************************************************************************)
LEMMA LeastExists ==
    ASSUME NEW S \in SUBSET Nat, S # {}
    PROVE  \E x \in S : \A y \in S : x <= y
<1> DEFINE Below(x) == 0..(x - 1)
           T == {Below(x) : x \in S}
<1>1. T \subseteq FiniteSubsetsOf(Nat) /\ T # {}
  <2>1. ASSUME NEW x \in S PROVE Below(x) \in SUBSET Nat /\ IsFiniteSet(Below(x))
    <3>1. x \in Nat
      OBVIOUS
    <3>2. IsFiniteSet(0..(x - 1))
      BY <3>1, FS_Interval
    <3> QED BY <3>1, <3>2
  <2> HIDE DEF Below
  <2> QED BY <2>1 DEF FiniteSubsetsOf
<1>2. PICK A \in T : \A B \in T : <<B, A>> \notin StrictSubsetOrdering(Nat)
  BY <1>1, FS_StrictSubsetOrderingWellFounded, WFMin
<1>3. PICK x \in S : A = Below(x)
  OBVIOUS
<1>4. ASSUME NEW y \in S, y < x PROVE FALSE
  <2>1. Below(y) \in T /\ Below(y) \subseteq Below(x) /\ y \in Below(x) /\ y \notin Below(y)
    BY <1>4
  <2>2. Below(x) \subseteq Nat
    BY <1>4
  <2> QED BY <1>2, <1>3, <2>1, <2>2 DEF StrictSubsetOrdering
<1> QED BY <1>4

LEMMA GreatestExists ==
    ASSUME NEW S \in SUBSET Nat, S # {}, NEW n \in Nat, \A x \in S : x <= n
    PROVE  \E x \in S : \A y \in S : y <= x
<1> DEFINE T == {n - x : x \in S}
<1>1. \A x \in S : n - x \in Nat
  OBVIOUS
<1>a. T \in SUBSET Nat /\ T # {}
  BY <1>1
<1>2. PICK d \in T : \A y \in T : d <= y
  BY <1>a, LeastExists
<1>3. PICK x \in S : d = n - x
  OBVIOUS
<1>4. ASSUME NEW y \in S PROVE y <= x
  <2>1. n - x <= n - y
    BY <1>2, <1>3
  <2> QED BY <2>1
<1> QED BY <1>4

LEMMA MinOfFacts ==
    ASSUME NEW S \in SUBSET Nat, S # {}
    PROVE  MinOf(S) \in S /\ \A y \in S : MinOf(S) <= y
BY LeastExists DEF MinOf

LEMMA MaxOfFacts ==
    ASSUME NEW S \in SUBSET Nat, S # {}, NEW n \in Nat, \A x \in S : x <= n
    PROVE  MaxOf(S) \in S /\ \A y \in S : y <= MaxOf(S)
BY GreatestExists DEF MaxOf

----------------------------------------------------------------------------
(***************************************************************************)
(* The types, and the files and changes of one table.  A change is Settled *)
(* in a file if no later file of the stream holds an older change of its   *)
(* key: a reader that takes the files in order ends up with it.            *)
(***************************************************************************)
Event == [ts : Nat, key : Keys \cup {NoKey}, kind : AllDDLKinds \cup {"row"}]
Change == [key : Keys, ts : Nat]
File == [table : Tables, version : Nat, part : Partitions, date : Nat \ {0},
         index : Nat \ {0}, rows : SUBSET Change]

TableFiles(t) == {f \in files : f.table = t}
RowsIn(S) == {[key |-> e.key, ts |-> e.ts] : e \in {x \in S : IsRow(x)}}
Changes(t) == RowsIn(log[t])

Spot(f) == [date |-> f.date, index |-> f.index]
SameStream(f, g) == f.version = g.version /\ f.part = g.part
After(g, f) == SameStream(f, g) /\ CursorBefore(Spot(f), Spot(g))

Settled(F, f, x) ==
    /\ x \in f.rows
    /\ \A g \in F : After(g, f) => \A y \in g.rows : y.key = x.key => x.ts <= y.ts

SinkTypes ==
    /\ tso \in Nat /\ SnapshotTS <= tso /\ tso <= MaxTS
    /\ metadata \in Nat /\ metadata <= tso
    /\ today \in Nat \ {0} /\ restarts \in 0..MaxRestarts
    /\ log \in [Tables -> SUBSET Event] /\ unflushed \in [Tables -> SUBSET Event]
    /\ schemas \in [Tables -> SUBSET [version : Nat, kind : AllDDLKinds]]
    /\ files \subseteq File

\* A schema change has a timestamp of its own, the first one is the oldest.
EventsAreOrdered(t) ==
    /\ unflushed[t] \subseteq log[t]
    /\ SchemaEvent(InitVersion, "none") \in log[t]
    /\ \A e \in log[t] :
          /\ e.ts <= tso /\ InitVersion <= e.ts
          /\ IsRow(e) <=> e.key \in Keys
          /\ IsRow(e) => InitVersion < e.ts
          /\ ~IsRow(e) => e.ts = InitVersion \/ SnapshotTS < e.ts
          /\ ~IsRow(e) => \A x \in log[t] : x.ts = e.ts => x = e

\* The versions come from the log; one not announced is later than the files.
VersionsAreLogged(t) ==
    /\ \A v \in VersionsOf(t) : \E e \in log[t] : ~IsRow(e) /\ e.ts = v
    /\ DDLBarrier => \A v \in VersionsOf(t) : v <= metadata + 1 \/ v = InitVersion
    /\ \A e \in log[t] : ~IsRow(e) /\ e.ts \notin VersionsOf(t) =>
          /\ e \in unflushed[t]
          /\ \A v \in VersionsOf(t) : v < e.ts
          /\ \A f \in TableFiles(t) : \A x \in f.rows : x.ts < e.ts

\* What is not in the storage is later than the metadata and the versions.
UnflushedIsRecent(t) ==
    \A e \in unflushed[t] :
        /\ metadata < e.ts
        /\ IsRow(e) =>
              /\ \A v \in VersionsOf(t) : v < e.ts
              /\ \A x \in log[t] : x.key = e.key /\ e.ts <= x.ts => x \in unflushed[t]

\* The rows of a file lie between its version and the next one.
FilesAreVersioned(t) ==
    \A f \in TableFiles(t) :
        /\ f.version \in VersionsOf(t) /\ f.date <= today
        /\ \A x \in f.rows :
              /\ x \in Changes(t) /\ PartitionOf[x.key] = f.part /\ f.version < x.ts
              /\ \A v \in VersionsOf(t) : f.version < v => x.ts < v

DirOf(t, v, p, d) == {f \in FilesOf(t, v, p) : f.date = d}

\* The next number of a directory is not used yet.
DirsAreNumbered(t) ==
    \A v \in Nat, p \in Partitions, d \in Nat \ {0} :
        /\ IsFiniteSet(DirOf(t, v, p, d))
        /\ \A f \in DirOf(t, v, p, d) : f.index <= Cardinality(DirOf(t, v, p, d))

\* Every change in the storage is settled in some file.
RowsAreFiled(t) ==
    \A x \in Changes(t) \ RowsIn(unflushed[t]) :
        \E f \in TableFiles(t) : Settled(TableFiles(t), f, x)

SinkInv ==
    /\ SinkTypes
    /\ \A t \in Tables :
          /\ EventsAreOrdered(t) /\ VersionsAreLogged(t) /\ UnflushedIsRecent(t)
          /\ FilesAreVersioned(t) /\ DirsAreNumbered(t) /\ RowsAreFiled(t)
----------------------------------------------------------------------------
LEMMA EventFacts ==
    /\ \A n \in Nat, k \in Keys : RowEvent(n, k) \in Event /\ IsRow(RowEvent(n, k))
    /\ \A n \in Nat, kind \in AllDDLKinds :
           SchemaEvent(n, kind) \in Event /\ ~IsRow(SchemaEvent(n, kind))
BY DEF Event, RowEvent, SchemaEvent, IsRow, AllDDLKinds

LEMMA RowsInFacts ==
    ASSUME NEW S \in SUBSET Event, \A e \in S : IsRow(e) => e.key \in Keys
    PROVE  /\ RowsIn(S) \subseteq Change
           /\ \A x \in RowsIn(S) : \E e \in S : IsRow(e) /\ e.key = x.key /\ e.ts = x.ts
           /\ \A e \in S : IsRow(e) => [key |-> e.key, ts |-> e.ts] \in RowsIn(S)
BY DEF RowsIn, Change, Event

LEMMA InitialSink == SinkInit => SinkInv
<1> SUFFICES ASSUME SinkInit PROVE SinkInv
  OBVIOUS
<1> USE SinkAssumption
<1>1. BacklogEvents \subseteq Event
      /\ \A e \in BacklogEvents : /\ IsRow(e) /\ e.key \in Keys
                                  /\ InitVersion < e.ts /\ e.ts <= SnapshotTS
  <2>1. ASSUME NEW b \in Backlog
        PROVE  /\ RowEvent(b.ts, b.key) \in Event /\ IsRow(RowEvent(b.ts, b.key))
               /\ b.key \in Keys /\ InitVersion < b.ts /\ b.ts <= SnapshotTS
               /\ RowEvent(b.ts, b.key).ts = b.ts /\ RowEvent(b.ts, b.key).key = b.key
    <3>1. b.ts \in Nat /\ b.key \in Keys /\ InitVersion < b.ts /\ b.ts <= SnapshotTS
      OBVIOUS
    <3> QED BY <3>1, EventFacts DEF RowEvent
  <2> QED BY <2>1 DEF BacklogEvents
<1> DEFINE first == SchemaEvent(InitVersion, "none")
<1>2. first \in Event /\ ~IsRow(first) /\ first.ts = InitVersion /\ first.key \notin Keys
  BY EventFacts DEF SchemaEvent, AllDDLKinds
<1> HIDE DEF first
<1>3. \A t \in Tables : /\ log[t] = {first} \cup BacklogEvents /\ unflushed[t] = log[t]
                       /\ schemas[t] = {}
  BY DEF SinkInit, first
<1>4. SinkTypes
  <2>1. log \in [Tables -> SUBSET Event]
    BY <1>1, <1>2 DEF SinkInit, first
  <2> QED BY <2>1 DEF SinkInit, SinkTypes
<1>5. ASSUME NEW t \in Tables
      PROVE  /\ EventsAreOrdered(t) /\ VersionsAreLogged(t) /\ UnflushedIsRecent(t)
             /\ FilesAreVersioned(t) /\ DirsAreNumbered(t) /\ RowsAreFiled(t)
  <2>1. EventsAreOrdered(t)
    <3>1. tso = SnapshotTS
      BY DEF SinkInit
    <3>2. SchemaEvent(InitVersion, "none") \in log[t]
      BY <1>3 DEF first
    <3>3. ASSUME NEW e \in log[t]
          PROVE  /\ e.ts <= tso /\ InitVersion <= e.ts
                 /\ IsRow(e) <=> e.key \in Keys
                 /\ IsRow(e) => InitVersion < e.ts
                 /\ ~IsRow(e) => e.ts = InitVersion
                 /\ ~IsRow(e) => \A x \in log[t] : x.ts = e.ts => x = e
      <4>1. e = first \/ e \in BacklogEvents
        BY <1>3
      <4>2. \A x \in BacklogEvents : x.ts \in Nat
        BY <1>1 DEF Event
      <4> QED BY <4>1, <4>2, <3>1, <1>1, <1>2, <1>3
    <3> QED BY <1>3, <3>2, <3>3 DEF EventsAreOrdered
  <2>2. VersionsOf(t) = {} /\ TableFiles(t) = {} /\ \A v, p, d : DirOf(t, v, p, d) = {}
    BY <1>3 DEF VersionsOf, TableFiles, SinkInit, DirOf, FilesOf
  <2>3. UnflushedIsRecent(t)
    <3>1. metadata = 0
      BY DEF SinkInit
    <3>2. \A e \in log[t] : e.ts \in Nat
      BY <1>1, <1>2, <1>3 DEF Event
    <3> QED BY <2>1, <2>2, <1>3, <3>1, <3>2 DEF UnflushedIsRecent, EventsAreOrdered
  <2>6. VersionsAreLogged(t) /\ FilesAreVersioned(t)
    BY <2>2, <1>3 DEF VersionsAreLogged, FilesAreVersioned
  <2>4. DirsAreNumbered(t)
    BY <2>2, FS_EmptySet DEF DirsAreNumbered
  <2>5. RowsAreFiled(t)
    BY <1>3 DEF RowsAreFiled, Changes
  <2> QED BY <2>1, <2>3, <2>4, <2>5, <2>6
<1> QED BY <1>4, <1>5 DEF SinkInv

----------------------------------------------------------------------------
(***************************************************************************)
(* The steps.  What a step leaves alone of a table keeps what is said of   *)
(* it.                                                                     *)
(***************************************************************************)
TableInv(t) ==
    /\ EventsAreOrdered(t) /\ VersionsAreLogged(t) /\ UnflushedIsRecent(t)
    /\ FilesAreVersioned(t) /\ DirsAreNumbered(t) /\ RowsAreFiled(t)

LEMMA EventParts ==
    ASSUME SinkInv, NEW t \in Tables
    PROVE  /\ log[t] \subseteq Event /\ unflushed[t] \subseteq log[t]
           /\ \A e \in log[t] : e.ts \in Nat /\ e.ts <= tso /\ InitVersion <= e.ts
           /\ \A e \in log[t] : (IsRow(e) <=> e.key \in Keys) /\ (IsRow(e) => InitVersion < e.ts)
           /\ \A e \in log[t] : ~IsRow(e) => \A x \in log[t] : x.ts = e.ts => x = e
           /\ \A v \in VersionsOf(t) : v \in Nat /\ InitVersion <= v /\ v <= tso
           /\ tso \in Nat /\ metadata \in Nat /\ metadata <= tso /\ InitVersion \in Nat
<1>1. SinkTypes /\ EventsAreOrdered(t) /\ VersionsAreLogged(t)
  BY DEF SinkInv
<1>2. log[t] \subseteq Event /\ unflushed[t] \subseteq log[t]
  BY <1>1 DEF SinkTypes, EventsAreOrdered
<1>3. \A e \in log[t] : e.ts \in Nat /\ e.ts <= tso /\ InitVersion <= e.ts
  BY <1>1, <1>2 DEF Event, EventsAreOrdered
<1> QED BY <1>1, <1>2, <1>3, SinkAssumption DEF SinkTypes, EventsAreOrdered, VersionsAreLogged

LEMMA CapturedKeeps ==
    ASSUME SinkInv, NEW u \in Tables, NEW e \in Event, Captured(u, e), e.ts = tso + 1,
           IsRow(e) <=> e.key \in Keys
    PROVE  SinkInv'
<1> DEFINE more == [log EXCEPT ![u] = @ \cup {e}]
           left == [unflushed EXCEPT ![u] = @ \cup {e}]
<1>1. /\ tso < MaxTS /\ tso' = tso + 1 /\ log' = more /\ unflushed' = left
      /\ UNCHANGED <<schemas, files, metadata, today, restarts>>
  BY DEF Captured
<1>2. SinkTypes /\ tso \in Nat /\ MaxTS \in Nat /\ SnapshotTS \in Nat /\ InitVersion \in Nat
      /\ metadata \in Nat /\ metadata <= tso /\ SnapshotTS <= tso /\ InitVersion <= SnapshotTS
  BY SinkAssumption DEF SinkInv, SinkTypes
<1>3. SinkTypes'
  BY <1>1, <1>2 DEF SinkTypes
<1>4. ASSUME NEW t \in Tables PROVE TableInv(t)'
  <2>1. VersionsOf(t)' = VersionsOf(t) /\ TableFiles(t)' = TableFiles(t)
        /\ \A v, p, d : DirOf(t, v, p, d)' = DirOf(t, v, p, d)
    BY <1>1 DEF VersionsOf, TableFiles, DirOf, FilesOf
  <2>2. \/ log'[t] = log[t] /\ unflushed'[t] = unflushed[t]
        \/ log'[t] = log[t] \cup {e} /\ unflushed'[t] = unflushed[t] \cup {e}
    BY <1>1, <1>2 DEF SinkTypes
  <2>3. /\ EventsAreOrdered(t) /\ VersionsAreLogged(t) /\ UnflushedIsRecent(t)
        /\ FilesAreVersioned(t) /\ DirsAreNumbered(t) /\ RowsAreFiled(t)
    BY DEF SinkInv
  <2>4. EventsAreOrdered(t)'
    BY <1>1, <1>2, <2>2, <2>3, EventParts DEF EventsAreOrdered
  <2>5. VersionsAreLogged(t)'
    <3>1. /\ \A v \in VersionsOf(t) : v \in Nat /\ v < tso + 1
          /\ \A f \in TableFiles(t) : \A x \in f.rows : x \in Changes(t)
      BY <2>3, EventParts DEF FilesAreVersioned
    <3>2. \A x \in Changes(t) : x.ts < tso + 1
      BY EventParts, <1>2, RowsInFacts DEF Changes
    <3> QED BY <1>1, <2>1, <2>2, <2>3, <3>1, <3>2 DEF VersionsAreLogged
  <2>6. UnflushedIsRecent(t)'
    BY <1>1, <1>2, <2>1, <2>2, <2>3, EventParts DEF UnflushedIsRecent
  <2>7. Changes(t) \subseteq Changes(t)'
    BY <2>2 DEF Changes, RowsIn
  <2>8. FilesAreVersioned(t)'
    BY <1>1, <2>1, <2>3, <2>7 DEF FilesAreVersioned
  <2>9. DirsAreNumbered(t)'
    BY <2>1, <2>3 DEF DirsAreNumbered
  <2>10. RowsAreFiled(t)'
    <3>1. Changes(t)' \ RowsIn(unflushed[t])' \subseteq Changes(t) \ RowsIn(unflushed[t])
      BY <2>2 DEF Changes, RowsIn
    <3> QED BY <2>1, <2>3, <3>1 DEF RowsAreFiled
  <2> QED BY <2>4, <2>5, <2>6, <2>8, <2>9, <2>10 DEF TableInv
<1> QED BY <1>3, <1>4 DEF SinkInv, TableInv

LEMMA WriteKeeps ==
    ASSUME SinkInv, NEW u \in Tables, WriteSchemaFile(u)
    PROVE  SinkInv'
<1>1. PICK e \in unflushed[u] :
          /\ ~IsRow(e)
          /\ \A x \in unflushed[u] : e.ts <= x.ts
          /\ DDLBarrier => metadata >= e.ts - 1 \/ e.ts = InitVersion
          /\ schemas' = [schemas EXCEPT ![u] = @ \cup {[version |-> e.ts, kind |-> e.kind]}]
          /\ unflushed' = [unflushed EXCEPT ![u] = @ \ {e}]
  BY DEF WriteSchemaFile
<1>2. UNCHANGED <<tso, log, files, metadata, today, restarts>>
  BY DEF WriteSchemaFile
<1>3. SinkTypes /\ tso \in Nat /\ metadata \in Nat /\ InitVersion \in Nat
  BY SinkAssumption DEF SinkInv, SinkTypes
<1>4. e \in Event /\ e \in log[u] /\ e.ts \in Nat /\ e.kind \in AllDDLKinds
  BY <1>1, EventParts DEF Event, IsRow
<1>5. SinkTypes'
  <2>1. schemas' \in [Tables -> SUBSET [version : Nat, kind : AllDDLKinds]]
    BY <1>1, <1>3, <1>4 DEF SinkTypes
  <2> QED BY <1>1, <1>2, <1>3, <2>1 DEF SinkTypes
<1>6. ASSUME NEW t \in Tables PROVE TableInv(t)'
  <2>1. /\ TableFiles(t)' = TableFiles(t) /\ Changes(t)' = Changes(t) /\ log'[t] = log[t]
        /\ \A v, p, d : DirOf(t, v, p, d)' = DirOf(t, v, p, d)
    BY <1>2 DEF TableFiles, DirOf, FilesOf, Changes
  <2>2. /\ t # u => VersionsOf(t)' = VersionsOf(t) /\ unflushed'[t] = unflushed[t]
        /\ t = u => /\ VersionsOf(t)' = VersionsOf(t) \cup {e.ts}
                    /\ unflushed'[t] = unflushed[t] \ {e}
    <3>1. /\ t # u => schemas'[t] = schemas[t] /\ unflushed'[t] = unflushed[t]
          /\ t = u => /\ schemas'[t] = schemas[t] \cup {[version |-> e.ts, kind |-> e.kind]}
                      /\ unflushed'[t] = unflushed[t] \ {e}
      BY <1>1, <1>3 DEF SinkTypes
    <3>2. t = u => VersionsOf(t)' = VersionsOf(t) \cup {e.ts}
      <4>1. [version |-> e.ts, kind |-> e.kind].version = e.ts
        OBVIOUS
      <4> QED BY ONLY <3>1, <4>1 DEF VersionsOf
    <3> QED BY <3>1, <3>2 DEF VersionsOf
  <2>3. /\ EventsAreOrdered(t) /\ VersionsAreLogged(t) /\ UnflushedIsRecent(t)
        /\ FilesAreVersioned(t) /\ DirsAreNumbered(t) /\ RowsAreFiled(t)
    BY DEF SinkInv
  <2>4. EventsAreOrdered(t)'
    BY <1>2, <2>1, <2>2, <2>3 DEF EventsAreOrdered
  <2>5. t = u => \A x \in unflushed[t] \ {e} : e.ts < x.ts
    <3> SUFFICES ASSUME t = u, NEW x \in unflushed[t] \ {e} PROVE e.ts < x.ts
      OBVIOUS
    <3>1. x \in log[u] /\ x.ts \in Nat /\ e.ts <= x.ts
      BY <1>1, EventParts
    <3>2. x.ts # e.ts
      BY <1>1, <1>4, <3>1, EventParts
    <3> QED BY <1>4, <3>1, <3>2
  <2>6. VersionsAreLogged(t)'
    <3>1. \A v \in VersionsOf(t)' : \E x \in log[t] : ~IsRow(x) /\ x.ts = v
      BY <1>1, <1>4, <2>2, <2>3 DEF VersionsAreLogged
    <3>2. DDLBarrier => \A v \in VersionsOf(t)' : v <= metadata + 1 \/ v = InitVersion
      BY <1>1, <1>3, <1>4, <2>2, <2>3 DEF VersionsAreLogged
    <3>3. ASSUME NEW x \in log[t], ~IsRow(x), x.ts \notin VersionsOf(t)'
          PROVE  /\ x \in unflushed'[t]
                 /\ \A v \in VersionsOf(t)' : v < x.ts
                 /\ \A f \in TableFiles(t) : \A y \in f.rows : y.ts < x.ts
      BY <2>2, <2>3, <2>5, <3>3 DEF VersionsAreLogged
    <3> QED BY <1>2, <2>1, <3>1, <3>2, <3>3 DEF VersionsAreLogged
  <2>7. UnflushedIsRecent(t)'
    <3>1. \A x \in unflushed'[t] : x \in unflushed[t] /\ (t = u => x # e /\ e.ts < x.ts)
      BY <2>2, <2>5
    <3>2. ASSUME NEW x \in unflushed'[t], IsRow(x), NEW y \in log[t], y.key = x.key, x.ts <= y.ts
          PROVE  y \in unflushed'[t]
      <4>1. y \in unflushed[t]
        BY <2>3, <3>1, <3>2 DEF UnflushedIsRecent
      <4>2. t = u => y # e
        BY <1>4, <3>1, <3>2, EventParts
      <4> QED BY <2>2, <4>1, <4>2
    <3>3. \A x \in unflushed'[t] : metadata < x.ts
      BY <2>3, <3>1 DEF UnflushedIsRecent
    <3>4. \A x \in unflushed'[t] : IsRow(x) => \A v \in VersionsOf(t)' : v < x.ts
      BY <2>2, <2>3, <3>1 DEF UnflushedIsRecent
    <3> QED BY <1>2, <3>2, <3>3, <3>4 DEF UnflushedIsRecent
  <2>8. FilesAreVersioned(t)'
    <3>1. ASSUME t = u, NEW f \in TableFiles(t), f.version < e.ts, NEW x \in f.rows
          PROVE  x.ts < e.ts
      BY <1>1, <1>4, <2>3, <3>1 DEF VersionsAreLogged, FilesAreVersioned
    <3> QED BY <1>2, <2>1, <2>2, <2>3, <3>1 DEF FilesAreVersioned
  <2>9. DirsAreNumbered(t)'
    BY <2>1, <2>3 DEF DirsAreNumbered
  <2>10. RowsAreFiled(t)'
    <3>1. RowsIn(unflushed[t])' = RowsIn(unflushed[t])
      BY <1>1, <2>2 DEF RowsIn
    <3> QED BY <2>1, <2>3, <3>1 DEF RowsAreFiled
  <2> QED BY <2>4, <2>6, <2>7, <2>8, <2>9, <2>10 DEF TableInv
<1> QED BY <1>5, <1>6 DEF SinkInv, TableInv

(***************************************************************************)
(* A new file belongs to the latest version and is after every other file  *)
(* of its stream; its rows are later than the metadata.                    *)
(***************************************************************************)
NewestIn(t, g) ==
    /\ g \in File /\ g.table = t /\ g.date = today
    /\ g.version \in VersionsOf(t) /\ \A v \in VersionsOf(t) : v <= g.version
    /\ \A f \in TableFiles(t) : SameStream(f, g) => After(g, f)
    /\ \A x \in g.rows : metadata < x.ts

LEMMA TakenFacts ==
    ASSUME SinkInv, NEW t \in Tables, NEW p \in Partitions, NEW n, Flush(t, p, n)
    PROVE  /\ n \in Nat /\ n <= tso /\ Taken(t, p, n) \subseteq unflushed[t]
           /\ \A e \in Taken(t, p, n) : /\ IsRow(e) /\ e \in log[t] /\ e.key \in Keys
                                        /\ e.ts \in Nat /\ e.ts <= n /\ metadata < e.ts
                                        /\ PartitionOf[e.key] = p
           /\ NewFile(t, p, n).rows = RowsIn(Taken(t, p, n))
           /\ RowsIn(Taken(t, p, n)) \subseteq Changes(t)
<1>1. n \in {e.ts : e \in Taken(t, p, n)}
  BY DEF Flush
<1>2. Taken(t, p, n) \subseteq unflushed[t]
      /\ \A e \in Taken(t, p, n) : IsRow(e) /\ e.ts <= n /\ PartitionOf[e.key] = p
  BY DEF Taken
<1>3. \A e \in unflushed[t] : e \in log[t] /\ e.ts \in Nat /\ e.ts <= tso /\ metadata < e.ts
  BY EventParts DEF SinkInv, UnflushedIsRecent
<1>4. \A e \in Taken(t, p, n) : e.key \in Keys
  BY <1>2, <1>3, EventParts
<1>5. NewFile(t, p, n).rows = RowsIn(Taken(t, p, n))
  BY <1>2 DEF NewFile, RowsIn
<1>6. RowsIn(Taken(t, p, n)) \subseteq Changes(t)
  BY <1>2, <1>3 DEF RowsIn, Changes
<1> QED BY <1>1, <1>2, <1>3, <1>4, <1>5, <1>6

LEMMA NewFileIsNewest ==
    ASSUME SinkInv, NEW t \in Tables, NEW p \in Partitions, NEW n, Flush(t, p, n)
    PROVE  /\ NewestIn(t, NewFile(t, p, n))
           /\ \A x \in NewFile(t, p, n).rows :
                  NewFile(t, p, n).version < x.ts /\ PartitionOf[x.key] = p
<1> DEFINE g == NewFile(t, p, n)
           v == VersionAt(t, n)
<1>1. SinkTypes /\ VersionsAreLogged(t) /\ UnflushedIsRecent(t) /\ FilesAreVersioned(t)
      /\ DirsAreNumbered(t) /\ EventsAreOrdered(t)
  BY DEF SinkInv
<1>2. PICK e \in Taken(t, p, n) : e.ts = n
  BY DEF Flush
<1>3. /\ e \in unflushed[t] /\ IsRow(e) /\ n \in Nat /\ n <= tso
  BY <1>2, TakenFacts
<1>4. \A u \in VersionsOf(t) : u < n
  BY <1>1, <1>2, <1>3 DEF UnflushedIsRecent
<1>5. VersionsOf(t) # {}
  <2>1. SchemaEvent(InitVersion, "none") \in log[t]
    BY <1>1 DEF EventsAreOrdered
  <2>2. ~IsRow(SchemaEvent(InitVersion, "none")) /\ SchemaEvent(InitVersion, "none").ts = InitVersion
    BY DEF IsRow, SchemaEvent
  <2>3. InitVersion <= n
    BY <1>2, <1>3, EventParts
  <2> QED BY <1>1, <2>1, <2>2, <2>3 DEF VersionsAreLogged, Flush
<1>6. v \in VersionsOf(t) /\ \A u \in VersionsOf(t) : u <= v
  <2>1. VersionsOf(t) = {u \in VersionsOf(t) : u <= n} /\ VersionsOf(t) \in SUBSET Nat
    BY <1>3, <1>4, EventParts
  <2> QED BY <1>3, <1>5, <2>1, MaxOfFacts DEF VersionAt
<1>7. v \in Nat /\ today \in Nat \ {0} /\ metadata \in Nat
  BY <1>1, <1>6, EventParts DEF SinkTypes
<1>8. /\ g.table = t /\ g.version = v /\ g.part = p /\ g.date = today
      /\ g.index = Cardinality(DirOf(t, v, p, today)) + 1
      /\ g.rows = RowsIn(Taken(t, p, n))
  BY TakenFacts DEF NewFile, DirOf
<1>9. /\ IsFiniteSet(DirOf(t, v, p, today)) /\ Cardinality(DirOf(t, v, p, today)) \in Nat
      /\ \A f \in DirOf(t, v, p, today) : f.index <= Cardinality(DirOf(t, v, p, today))
  BY <1>1, <1>7, FS_CardinalityType DEF DirsAreNumbered
<1>10. \A x \in g.rows : \E y \in Taken(t, p, n) : x = [key |-> y.key, ts |-> y.ts]
  BY <1>8 DEF RowsIn
<1>11. \A x \in g.rows : /\ x \in Change /\ metadata < x.ts /\ v < x.ts
                         /\ PartitionOf[x.key] = p
  <2>1. \A y \in Taken(t, p, n) : v < y.ts
    BY <1>1, <1>6, TakenFacts DEF UnflushedIsRecent
  <2> QED BY <1>10, <2>1, TakenFacts DEF Change
<1>12. g \in File
  <2>1. g = [table |-> t, version |-> v, part |-> p, date |-> today, index |-> g.index,
             rows |-> g.rows]
    BY <1>8 DEF NewFile
  <2>2. g.index \in Nat \ {0} /\ g.rows \in SUBSET Change
    BY <1>8, <1>9, <1>11
  <2> HIDE DEF g, v
  <2> QED BY <1>7, <2>1, <2>2 DEF File
<1>13. ASSUME NEW f \in TableFiles(t), SameStream(f, g) PROVE After(g, f)
  <2>1. f \in File /\ f.date <= today
    BY <1>1 DEF FilesAreVersioned, TableFiles, SinkTypes
  <2>2. CASE f.date = today
    <3>1. f \in DirOf(t, v, p, today)
      BY <1>8, <1>13, <2>2 DEF DirOf, FilesOf, SameStream, TableFiles
    <3>2. f.index < g.index
      BY <1>8, <1>9, <2>1, <3>1 DEF File
    <3> HIDE DEF g
    <3> QED BY <1>8, <1>13, <2>2, <3>2 DEF After, SameStream, Spot, CursorBefore
  <2>3. CASE f.date # today
    <3>1. f.date < g.date
      BY <1>7, <1>8, <2>1, <2>3 DEF File
    <3> HIDE DEF g
    <3> QED BY <1>8, <1>13, <3>1 DEF After, SameStream, Spot, CursorBefore
  <2> QED BY <2>2, <2>3
<1> HIDE DEF g, v
<1> QED BY <1>6, <1>8, <1>11, <1>12, <1>13 DEF NewestIn, g

LEMMA FlushKeeps ==
    ASSUME SinkInv, NEW u \in Tables, NEW p \in Partitions, NEW n, Flush(u, p, n)
    PROVE  SinkInv'
<1> DEFINE g == NewFile(u, p, n)
           taken == Taken(u, p, n)
<1>1. /\ files' = files \cup {g} /\ unflushed' = [unflushed EXCEPT ![u] = @ \ taken]
      /\ UNCHANGED <<tso, log, schemas, metadata, today, restarts>>
      /\ \A e \in unflushed[u] : e.ts <= n => IsRow(e)
  BY DEF Flush
<1>2. /\ NewestIn(u, g)
      /\ \A x \in g.rows : g.version < x.ts /\ PartitionOf[x.key] = p
  BY NewFileIsNewest
<1>3. /\ n \in Nat /\ n <= tso /\ taken \subseteq unflushed[u]
      /\ \A e \in taken : /\ IsRow(e) /\ e \in log[u] /\ e.key \in Keys
                          /\ e.ts \in Nat /\ e.ts <= n /\ PartitionOf[e.key] = p
      /\ g.rows = RowsIn(taken) /\ g.rows \subseteq Changes(u)
  BY TakenFacts
<1>t. taken = {e \in unflushed[u] : IsRow(e) /\ PartitionOf[e.key] = p /\ e.ts <= n}
  BY DEF Taken
<1>i. g.part = p /\ g.index = Cardinality(DirOf(u, g.version, p, today)) + 1
  BY DEF NewFile, DirOf
<1>4. SinkTypes
  BY DEF SinkInv
<1> HIDE DEF g, taken
<1>5. SinkTypes'
  BY <1>1, <1>2, <1>3, <1>4 DEF SinkTypes, NewestIn
<1>6. ASSUME NEW t \in Tables PROVE TableInv(t)'
  <2>1. /\ Changes(t)' = Changes(t) /\ log'[t] = log[t] /\ VersionsOf(t)' = VersionsOf(t)
    BY <1>1 DEF VersionsOf, Changes
  <2>2. /\ t # u => TableFiles(t)' = TableFiles(t) /\ unflushed'[t] = unflushed[t]
        /\ t = u => /\ TableFiles(t)' = TableFiles(t) \cup {g}
                    /\ unflushed'[t] = unflushed[t] \ taken
    BY <1>1, <1>2, <1>4 DEF TableFiles, SinkTypes, NewestIn
  <2>3. /\ EventsAreOrdered(t) /\ VersionsAreLogged(t) /\ UnflushedIsRecent(t)
        /\ FilesAreVersioned(t) /\ DirsAreNumbered(t) /\ RowsAreFiled(t)
    BY DEF SinkInv
  <2>4. EventsAreOrdered(t)'
    BY <1>1, <2>1, <2>2, <2>3 DEF EventsAreOrdered
  <2>5. \A x \in g.rows : x.ts \in Nat /\ x.ts <= n
    BY <1>3, RowsInFacts DEF RowsIn
  <2>6. VersionsAreLogged(t)'
    <3>1. ASSUME NEW e \in log[t], ~IsRow(e), e.ts \notin VersionsOf(t)
          PROVE  /\ e \in unflushed'[t]
                 /\ \A f \in TableFiles(t)' : \A x \in f.rows : x.ts < e.ts
      <4>1. /\ e \in unflushed[t]
            /\ \A f \in TableFiles(t) : \A x \in f.rows : x.ts < e.ts
        BY <2>3, <3>1 DEF VersionsAreLogged
      <4>2. e \in unflushed'[t]
        BY <1>3, <2>2, <3>1, <4>1
      <4>3. t = u => n < e.ts
        BY <1>1, <1>3, <3>1, <4>1, EventParts
      <4>4. t = u => \A x \in g.rows : x.ts < e.ts
        BY <1>3, <2>5, <4>3, EventParts
      <4> QED BY <2>2, <4>1, <4>2, <4>4
    <3> QED BY <1>1, <2>1, <2>3, <3>1 DEF VersionsAreLogged
  <2>7. UnflushedIsRecent(t)'
    <3>1. unflushed'[t] \subseteq unflushed[t]
      BY <2>2
    <3>2. ASSUME NEW x \in unflushed'[t], IsRow(x), NEW y \in log[t], y.key = x.key, x.ts <= y.ts
          PROVE  y \in unflushed'[t]
      <4>1. y \in unflushed[t]
        BY <2>3, <3>1, <3>2 DEF UnflushedIsRecent
      <4>2. CASE t # u
        BY <2>2, <4>1, <4>2
      <4>3. CASE t = u
        <5>1. x.ts \in Nat /\ y.ts \in Nat
          BY <3>1, EventParts
        <5>2. y \in taken => x \in taken
          BY <1>3, <1>t, <3>1, <3>2, <4>3, <5>1
        <5> QED BY <2>2, <3>2, <4>1, <4>3, <5>2
      <4> QED BY <4>2, <4>3
    <3> QED BY <1>1, <2>1, <2>3, <3>1, <3>2 DEF UnflushedIsRecent
  <2>8. FilesAreVersioned(t)'
    <3>1. ASSUME t = u
          PROVE  /\ g.version \in VersionsOf(t) /\ g.date <= today
                 /\ \A x \in g.rows :
                       /\ x \in Changes(t) /\ PartitionOf[x.key] = g.part /\ g.version < x.ts
                       /\ \A v \in VersionsOf(t) : g.version < v => x.ts < v
      <4>1. \A v \in VersionsOf(t) : v \in Nat /\ v <= g.version
        BY <1>2, <3>1, EventParts DEF NewestIn
      <4> QED BY <1>2, <1>3, <1>4, <1>i, <3>1, <4>1 DEF NewestIn, SinkTypes
    <3> QED BY <1>1, <2>1, <2>2, <2>3, <3>1 DEF FilesAreVersioned
  <2>9. DirsAreNumbered(t)'
    <3>1. ASSUME NEW v \in Nat, NEW q \in Partitions, NEW d \in Nat \ {0}
          PROVE  /\ IsFiniteSet(DirOf(t, v, q, d)')
                 /\ \A f \in DirOf(t, v, q, d)' : f.index <= Cardinality(DirOf(t, v, q, d)')
      <4>1. /\ IsFiniteSet(DirOf(t, v, q, d))
            /\ \A f \in DirOf(t, v, q, d) : f.index <= Cardinality(DirOf(t, v, q, d))
        BY <2>3 DEF DirsAreNumbered
      <4>2. CASE t = u /\ v = g.version /\ q = p /\ d = today
        <5>1. DirOf(t, v, q, d)' = DirOf(t, v, q, d) \cup {g}
          BY <1>1, <1>2, <1>i, <4>2 DEF DirOf, FilesOf, NewestIn
        <5>2. /\ Cardinality(DirOf(t, v, q, d)) \in Nat
              /\ g.index = Cardinality(DirOf(t, v, q, d)) + 1
          BY <1>i, <4>1, <4>2, FS_CardinalityType
        <5>3. g \notin DirOf(t, v, q, d)
          BY <4>1, <5>2
        <5>4. /\ IsFiniteSet(DirOf(t, v, q, d) \cup {g})
              /\ Cardinality(DirOf(t, v, q, d) \cup {g}) = Cardinality(DirOf(t, v, q, d)) + 1
          BY <4>1, <5>3, FS_AddElement
        <5>5. \A f \in DirOf(t, v, q, d) : f.index \in Nat
          BY <1>4 DEF DirOf, FilesOf, SinkTypes, File
        <5>6. /\ IsFiniteSet(DirOf(t, v, q, d)')
              /\ Cardinality(DirOf(t, v, q, d)') = g.index
          BY <5>1, <5>2, <5>4
        <5>7. \A f \in DirOf(t, v, q, d) \cup {g} : f.index <= g.index
          BY <4>1, <5>2, <5>5
        <5> QED BY <5>1, <5>6, <5>7
      <4>3. CASE ~(t = u /\ v = g.version /\ q = p /\ d = today)
        <5>1. DirOf(t, v, q, d)' = DirOf(t, v, q, d)
          BY <1>1, <1>2, <1>i, <4>3 DEF DirOf, FilesOf, NewestIn
        <5> QED BY <4>1, <5>1
      <4> QED BY <4>2, <4>3
    <3> QED BY <3>1 DEF DirsAreNumbered
  <2>10. RowsAreFiled(t)'
    <3>1. CASE t # u
      <4>1. RowsIn(unflushed[t])' = RowsIn(unflushed[t])
        BY <2>2, <3>1 DEF RowsIn
      <4> QED BY <2>1, <2>2, <2>3, <3>1, <4>1 DEF RowsAreFiled
    <3>2. CASE t = u
      <4>1. TableFiles(t)' = TableFiles(t) \cup {g} /\ unflushed'[t] = unflushed[t] \ taken
        BY <2>2, <3>2
      <4>2. RowsIn(unflushed[t])' = RowsIn(unflushed[t] \ taken)
        BY <4>1 DEF RowsIn
      <4>3. ASSUME NEW x \in Changes(t) \ RowsIn(unflushed[t])
            PROVE  \E f \in TableFiles(t)' : Settled(TableFiles(t)', f, x)
        <5>1. PICK f \in TableFiles(t) : Settled(TableFiles(t), f, x)
          BY <2>3 DEF RowsAreFiled
        <5>2. ASSUME NEW y \in g.rows, y.key = x.key PROVE x.ts <= y.ts
          <6>1. PICK e \in taken : e.key = y.key /\ e.ts = y.ts
            BY <1>3 DEF RowsIn
          <6>2. PICK z \in log[t] : IsRow(z) /\ z.key = x.key /\ z.ts = x.ts
            BY DEF Changes, RowsIn
          <6>3. z \notin unflushed[t]
            BY <6>2, RowsInFacts, EventParts DEF Changes, RowsIn
          <6>4. ~(e.ts <= z.ts)
            BY <1>3, <2>3, <3>2, <5>2, <6>1, <6>2, <6>3 DEF UnflushedIsRecent
          <6>5. e.ts \in Nat /\ z.ts \in Nat
            BY <1>3, EventParts
          <6> QED BY <6>1, <6>2, <6>4, <6>5
        <5> QED BY <4>1, <5>1, <5>2 DEF Settled
      <4>4. ASSUME NEW x \in RowsIn(taken)
            PROVE  \E f \in TableFiles(t)' : Settled(TableFiles(t)', f, x)
        <5>1. ~After(g, g) /\ \A f \in TableFiles(t) : ~After(f, g)
          <6>1. \A f \in TableFiles(t) : SameStream(f, g) => After(g, f)
            BY <1>2, <3>2 DEF NewestIn
          <6>2. /\ g.date \in Nat /\ g.index \in Nat
                /\ \A f \in TableFiles(t) : f.date \in Nat /\ f.index \in Nat
            BY <1>2, <1>4 DEF NewestIn, File, TableFiles, SinkTypes
          <6> QED BY <6>1, <6>2 DEF After, SameStream, CursorBefore, Spot
        <5>2. Settled(TableFiles(t)', g, x)
          BY <1>3, <4>1, <5>1 DEF Settled
        <5> QED BY <4>1, <5>2
      <4>5. \A x \in Changes(t)' \ RowsIn(unflushed[t])' :
               x \in Changes(t) \ RowsIn(unflushed[t]) \/ x \in RowsIn(taken)
        BY <1>3, <2>1, <4>2 DEF RowsIn
      <4> QED BY <4>3, <4>4, <4>5 DEF RowsAreFiled
    <3> QED BY <3>1, <3>2
  <2> QED BY <2>4, <2>6, <2>7, <2>8, <2>9, <2>10 DEF TableInv
<1> QED BY <1>5, <1>6 DEF SinkInv, TableInv

LEMMA NextDayKeeps ==
    ASSUME SinkInv, NextDay
    PROVE  SinkInv'
<1>1. /\ today' = today + 1
      /\ UNCHANGED <<tso, log, unflushed, schemas, files, metadata, restarts>>
  BY DEF NextDay
<1>2. SinkTypes /\ SinkTypes'
  BY <1>1 DEF SinkInv, SinkTypes
<1>3. ASSUME NEW t \in Tables PROVE TableInv(t)'
  <2>1. /\ Changes(t)' = Changes(t) /\ VersionsOf(t)' = VersionsOf(t)
        /\ TableFiles(t)' = TableFiles(t) /\ RowsIn(unflushed[t])' = RowsIn(unflushed[t])
        /\ \A v, p, d : DirOf(t, v, p, d)' = DirOf(t, v, p, d)
    BY <1>1 DEF VersionsOf, Changes, TableFiles, RowsIn, DirOf, FilesOf
  <2>2. /\ EventsAreOrdered(t) /\ VersionsAreLogged(t) /\ UnflushedIsRecent(t)
        /\ FilesAreVersioned(t) /\ DirsAreNumbered(t) /\ RowsAreFiled(t)
    BY DEF SinkInv
  <2>3. EventsAreOrdered(t)' /\ VersionsAreLogged(t)' /\ UnflushedIsRecent(t)'
    BY <1>1, <2>1, <2>2 DEF EventsAreOrdered, VersionsAreLogged, UnflushedIsRecent
  <2>4. \A f \in TableFiles(t) : f.date \in Nat
    BY <1>2 DEF SinkTypes, TableFiles, File
  <2>5. FilesAreVersioned(t)'
    BY <1>1, <1>2, <2>1, <2>2, <2>4 DEF FilesAreVersioned, SinkTypes
  <2>6. DirsAreNumbered(t)' /\ RowsAreFiled(t)'
    BY <2>1, <2>2 DEF DirsAreNumbered, RowsAreFiled
  <2> QED BY <2>3, <2>5, <2>6 DEF TableInv
<1> QED BY <1>2, <1>3 DEF SinkInv, TableInv

LEMMA AdvanceKeeps ==
    ASSUME SinkInv, NEW ts \in 1..MaxTS, AdvanceMetadata(ts)
    PROVE  /\ SinkInv' /\ metadata <= metadata'
<1>1. /\ ts \in (metadata + 1)..Resolved /\ metadata' = ts
      /\ UNCHANGED <<tso, log, unflushed, schemas, files, today, restarts>>
  BY DEF AdvanceMetadata
<1>2. SinkTypes /\ tso \in Nat /\ metadata \in Nat
  BY DEF SinkInv, SinkTypes
<1>3. Resolved \in Nat /\ Resolved <= tso
      /\ \A t \in Tables : \A e \in unflushed[t] : Resolved < e.ts
  <2> DEFINE S == {tso} \cup {e.ts - 1 : e \in UNION {unflushed[t] : t \in Tables}}
  <2>1. \A t \in Tables : \A e \in unflushed[t] : e.ts - 1 \in Nat /\ e.ts \in Nat
    BY EventParts, SinkAssumption
  <2>2. S \in SUBSET Nat /\ S # {}
    BY <1>2, <2>1
  <2>3. MinOf(S) \in S /\ \A y \in S : MinOf(S) <= y
    BY <2>2, MinOfFacts
  <2>4. \A t \in Tables : \A e \in unflushed[t] : e.ts - 1 \in S
    OBVIOUS
  <2>5. Resolved = MinOf(S)
    BY DEF Resolved
  <2>6. tso \in S
    OBVIOUS
  <2> HIDE DEF S
  <2>7. MinOf(S) \in Nat
    BY <2>2, <2>3
  <2> QED BY <2>1, <2>3, <2>4, <2>5, <2>6, <2>7
<1>4. ts \in Nat /\ metadata <= ts /\ ts <= Resolved
  BY <1>1, <1>2, <1>3
<1>5. SinkTypes'
  BY <1>1, <1>2, <1>3, <1>4 DEF SinkTypes
<1>6. ASSUME NEW t \in Tables PROVE TableInv(t)'
  <2>1. /\ Changes(t)' = Changes(t) /\ VersionsOf(t)' = VersionsOf(t)
        /\ TableFiles(t)' = TableFiles(t) /\ RowsIn(unflushed[t])' = RowsIn(unflushed[t])
        /\ \A v, p, d : DirOf(t, v, p, d)' = DirOf(t, v, p, d)
    BY <1>1 DEF VersionsOf, Changes, TableFiles, RowsIn, DirOf, FilesOf
  <2>2. /\ EventsAreOrdered(t) /\ VersionsAreLogged(t) /\ UnflushedIsRecent(t)
        /\ FilesAreVersioned(t) /\ DirsAreNumbered(t) /\ RowsAreFiled(t)
    BY DEF SinkInv
  <2>3. EventsAreOrdered(t)'
    BY <1>1, <2>1, <2>2 DEF EventsAreOrdered
  <2>4. VersionsAreLogged(t)'
    <3>1. \A v \in VersionsOf(t) : v \in Nat
      BY EventParts
    <3>2. DDLBarrier => \A v \in VersionsOf(t) : v <= metadata' + 1 \/ v = InitVersion
      BY <1>1, <1>2, <1>4, <2>2, <3>1 DEF VersionsAreLogged
    <3> QED BY <1>1, <2>1, <2>2, <3>2 DEF VersionsAreLogged
  <2>5. UnflushedIsRecent(t)'
    <3>1. \A e \in unflushed[t] : metadata' < e.ts
      BY <1>1, <1>3, <1>4, EventParts
    <3> QED BY <1>1, <2>1, <2>2, <3>1 DEF UnflushedIsRecent
  <2>6. FilesAreVersioned(t)'
    BY <1>1, <2>1, <2>2 DEF FilesAreVersioned
  <2>7. DirsAreNumbered(t)' /\ RowsAreFiled(t)'
    BY <2>1, <2>2 DEF DirsAreNumbered, RowsAreFiled
  <2> QED BY <2>3, <2>4, <2>5, <2>6, <2>7 DEF TableInv
<1> QED BY <1>1, <1>4, <1>5, <1>6 DEF SinkInv, TableInv

(***************************************************************************)
(* After a restart rows that are in the storage already come again.  With  *)
(* the barrier none of them is older than an announced version.            *)
(***************************************************************************)
LEMMA RestartKeeps ==
    ASSUME SinkInv, RestartChangefeed, DDLBarrier \/ MaxRestarts = 0
    PROVE  SinkInv'
<1>1. /\ restarts < MaxRestarts /\ restarts' = restarts + 1
      /\ unflushed' = [t \in Tables |-> {e \in log[t] : e.ts > metadata}]
      /\ UNCHANGED <<tso, log, schemas, files, metadata, today>>
  BY DEF RestartChangefeed
<1>2. SinkTypes
  BY DEF SinkInv
<1>3. DDLBarrier /\ MaxRestarts \in Nat
  BY <1>1, <1>2, SinkAssumption DEF SinkTypes
<1>4. SinkTypes'
  BY <1>1, <1>2, <1>3 DEF SinkTypes
<1>5. ASSUME NEW t \in Tables PROVE TableInv(t)'
  <2>1. /\ Changes(t)' = Changes(t) /\ VersionsOf(t)' = VersionsOf(t)
        /\ TableFiles(t)' = TableFiles(t) /\ log'[t] = log[t]
        /\ unflushed'[t] = {e \in log[t] : e.ts > metadata}
        /\ \A v, p, d : DirOf(t, v, p, d)' = DirOf(t, v, p, d)
    BY <1>1 DEF VersionsOf, Changes, TableFiles, DirOf, FilesOf
  <2>2. /\ EventsAreOrdered(t) /\ VersionsAreLogged(t) /\ UnflushedIsRecent(t)
        /\ FilesAreVersioned(t) /\ DirsAreNumbered(t) /\ RowsAreFiled(t)
    BY DEF SinkInv
  <2>3. metadata \in Nat /\ \A e \in log[t] : e.ts \in Nat
    BY EventParts
  <2>4. unflushed[t] \subseteq unflushed'[t] /\ unflushed'[t] \subseteq log[t]
    BY <2>1, <2>2, <2>3 DEF EventsAreOrdered, UnflushedIsRecent
  <2>5. EventsAreOrdered(t)'
    BY <1>1, <2>1, <2>2, <2>4 DEF EventsAreOrdered
  <2>6. VersionsAreLogged(t)'
    BY <1>1, <2>1, <2>2, <2>4 DEF VersionsAreLogged
  <2>7. UnflushedIsRecent(t)'
    <3>1. ASSUME NEW e \in unflushed'[t], IsRow(e), NEW v \in VersionsOf(t) PROVE v < e.ts
      <4>1. e \in log[t] /\ e.ts \in Nat /\ metadata < e.ts /\ v \in Nat /\ InitVersion < e.ts
        BY <2>1, <2>3, <3>1, EventParts
      <4>2. v <= metadata + 1 \/ v = InitVersion
        BY <1>3, <2>2 DEF VersionsAreLogged
      <4>3. PICK x \in log[t] : ~IsRow(x) /\ x.ts = v
        BY <2>2 DEF VersionsAreLogged
      <4>4. e.ts # v
        BY <3>1, <4>1, <4>3, EventParts
      <4> QED BY <2>3, <4>1, <4>2, <4>4
    <3>2. \A e \in unflushed'[t] : \A x \in log[t] : e.ts <= x.ts => x \in unflushed'[t]
      BY <2>1, <2>3
    <3>3. \A e \in unflushed'[t] : metadata < e.ts
      BY <2>1, <2>3
    <3> QED BY <1>1, <2>1, <3>1, <3>2, <3>3 DEF UnflushedIsRecent
  <2>8. FilesAreVersioned(t)'
    BY <1>1, <2>1, <2>2 DEF FilesAreVersioned
  <2>9. DirsAreNumbered(t)'
    BY <2>1, <2>2 DEF DirsAreNumbered
  <2>10. RowsAreFiled(t)'
    <3>1. RowsIn(unflushed[t]) \subseteq RowsIn(unflushed[t])'
      BY <2>4 DEF RowsIn
    <3> QED BY <2>1, <2>2, <3>1 DEF RowsAreFiled
  <2> QED BY <2>5, <2>6, <2>7, <2>8, <2>9, <2>10 DEF TableInv
<1> QED BY <1>4, <1>5 DEF SinkInv, TableInv

LEMMA SinkNextKeeps ==
    ASSUME SinkInv, SinkNext, DDLBarrier \/ MaxRestarts = 0
    PROVE  SinkInv'
<1>1. tso \in Nat
  BY DEF SinkInv, SinkTypes
<1>2. ASSUME NEW t \in Tables, NEW k \in Keys, Commit(t, k) PROVE SinkInv'
  <2>1. RowEvent(tso + 1, k) \in Event /\ IsRow(RowEvent(tso + 1, k))
    BY <1>1, EventFacts
  <2>2. RowEvent(tso + 1, k).ts = tso + 1 /\ RowEvent(tso + 1, k).key \in Keys
    BY DEF RowEvent
  <2> QED BY <1>2, <2>1, <2>2, CapturedKeeps DEF Commit
<1>3. ASSUME NEW t \in Tables, NEW kind \in DDLKinds, ChangeSchema(t, kind) PROVE SinkInv'
  <2>1. SchemaEvent(tso + 1, kind) \in Event /\ ~IsRow(SchemaEvent(tso + 1, kind))
    BY <1>1, EventFacts, SinkAssumption
  <2>2. SchemaEvent(tso + 1, kind).ts = tso + 1 /\ SchemaEvent(tso + 1, kind).key \notin Keys
    BY SinkAssumption DEF SchemaEvent
  <2> QED BY <1>3, <2>1, <2>2, CapturedKeeps DEF ChangeSchema
<1> QED BY <1>2, <1>3, WriteKeeps, FlushKeeps, NextDayKeeps, AdvanceKeeps, RestartKeeps DEF SinkNext

(***************************************************************************)
(* All that a step of the changefeed adds to a table, for its reader.      *)
(***************************************************************************)
Grows(t) ==
    /\ tso <= tso' /\ metadata <= metadata'
    /\ Changes(t) \subseteq Changes(t)'
    /\ \A x \in Changes(t)' \ Changes(t) : tso < x.ts
    /\ VersionsOf(t) \subseteq VersionsOf(t)'
    /\ \A v \in VersionsOf(t)' \ VersionsOf(t) :
          /\ metadata < v /\ (v = InitVersion \/ SnapshotTS < v)
          /\ \A u \in VersionsOf(t) : u < v
    /\ \/ TableFiles(t)' = TableFiles(t)
       \/ \E g : /\ NewestIn(t, g) /\ TableFiles(t)' = TableFiles(t) \cup {g}
                 /\ VersionsOf(t)' = VersionsOf(t)

LEMMA ClocksGrow ==
    ASSUME SinkInv, SinkNext
    PROVE  tso <= tso' /\ metadata <= metadata'
<1>1. tso \in Nat /\ metadata \in Nat
  BY DEF SinkInv, SinkTypes
<1>2. \A u, e : Captured(u, e) => tso' = tso + 1 /\ metadata' = metadata
  BY DEF Captured
<1>3. \A u : WriteSchemaFile(u) => tso' = tso /\ metadata' = metadata
  BY DEF WriteSchemaFile
<1>4. \A u, p, n : Flush(u, p, n) => tso' = tso /\ metadata' = metadata
  BY DEF Flush
<1>5. NextDay \/ RestartChangefeed => tso' = tso /\ metadata' = metadata
  BY DEF NextDay, RestartChangefeed
<1>6. \A ts \in 1..MaxTS : AdvanceMetadata(ts) => tso' = tso /\ metadata <= metadata'
  BY AdvanceKeeps DEF AdvanceMetadata
<1> QED BY <1>1, <1>2, <1>3, <1>4, <1>5, <1>6 DEF SinkNext, Commit, ChangeSchema

LEMMA SinkNextGrows ==
    ASSUME SinkInv, SinkNext, NEW t \in Tables
    PROVE  Grows(t)
<1>1. SinkTypes /\ tso \in Nat /\ metadata \in Nat
  BY DEF SinkInv, SinkTypes
<1>2. ASSUME NEW u \in Tables, NEW e, Captured(u, e), e.ts = tso + 1 PROVE Grows(t)
  <2>1. log' = [log EXCEPT ![u] = @ \cup {e}] /\ tso' = tso + 1
        /\ UNCHANGED <<schemas, files, metadata>>
    BY <1>2 DEF Captured
  <2>2. log'[t] = log[t] \/ log'[t] = log[t] \cup {e}
    BY <1>1, <2>1 DEF SinkTypes
  <2>3. Changes(t) \subseteq Changes(t)' /\ \A x \in Changes(t)' \ Changes(t) : x.ts = e.ts
    BY <2>2 DEF Changes, RowsIn
  <2>4. VersionsOf(t)' = VersionsOf(t) /\ TableFiles(t)' = TableFiles(t)
    BY <2>1 DEF VersionsOf, TableFiles
  <2> QED BY <1>1, <1>2, <2>1, <2>3, <2>4 DEF Grows
<1>3. ASSUME NEW u \in Tables, WriteSchemaFile(u) PROVE Grows(t)
  <2>1. PICK e \in unflushed[u] :
            /\ ~IsRow(e)
            /\ schemas' = [schemas EXCEPT ![u] = @ \cup {[version |-> e.ts, kind |-> e.kind]}]
    BY <1>3 DEF WriteSchemaFile
  <2>2. UNCHANGED <<tso, log, files, metadata>>
    BY <1>3 DEF WriteSchemaFile
  <2>3. Changes(t)' = Changes(t) /\ TableFiles(t)' = TableFiles(t)
    BY <2>2 DEF Changes, TableFiles
  <2>4. e \in log[u] /\ metadata < e.ts /\ (e.ts = InitVersion \/ SnapshotTS < e.ts)
    BY <2>1 DEF SinkInv, UnflushedIsRecent, EventsAreOrdered
  <2>5. schemas'[t] = schemas[t] \/ (t = u /\ schemas'[t] = schemas[t] \cup
                                        {[version |-> e.ts, kind |-> e.kind]})
    BY <1>1, <2>1 DEF SinkTypes
  <2>6. VersionsOf(t)' = VersionsOf(t) \/ (t = u /\ VersionsOf(t)' = VersionsOf(t) \cup {e.ts})
    BY <2>5 DEF VersionsOf
  <2>7. e.ts \notin VersionsOf(u) => \A v \in VersionsOf(u) : v < e.ts
    BY <2>1, <2>4 DEF SinkInv, VersionsAreLogged
  <2> QED BY <1>1, <2>2, <2>3, <2>4, <2>6, <2>7 DEF Grows
<1>4. ASSUME NEW u \in Tables, NEW p \in Partitions, NEW n, Flush(u, p, n) PROVE Grows(t)
  <2>1. files' = files \cup {NewFile(u, p, n)} /\ UNCHANGED <<tso, log, schemas, metadata>>
    BY <1>4 DEF Flush
  <2>2. Changes(t)' = Changes(t) /\ VersionsOf(t)' = VersionsOf(t)
    BY <2>1 DEF Changes, VersionsOf
  <2>3. NewestIn(u, NewFile(u, p, n)) /\ NewFile(u, p, n).table = u
    BY <1>4, NewFileIsNewest DEF NewestIn
  <2>4. IF t = u THEN TableFiles(t)' = TableFiles(t) \cup {NewFile(u, p, n)}
        ELSE TableFiles(t)' = TableFiles(t)
    BY <2>1, <2>3 DEF TableFiles
  <2> QED BY <1>1, <2>1, <2>2, <2>3, <2>4 DEF Grows
<1>5. ASSUME NextDay \/ (\E ts \in 1..MaxTS : AdvanceMetadata(ts)) \/ RestartChangefeed
      PROVE  Grows(t)
  <2>1. UNCHANGED <<tso, log, schemas, files>> /\ metadata <= metadata'
    BY <1>1, <1>5, AdvanceKeeps DEF NextDay, AdvanceMetadata, RestartChangefeed
  <2>2. Changes(t)' = Changes(t) /\ VersionsOf(t)' = VersionsOf(t) /\ TableFiles(t)' = TableFiles(t)
    BY <2>1 DEF Changes, VersionsOf, TableFiles
  <2> QED BY <1>1, <2>1, <2>2 DEF Grows
<1>6. \A u \in Tables, k \in Keys : Commit(u, k) => Grows(t)
  BY <1>2 DEF Commit, RowEvent
<1>7. \A u \in Tables, kind \in DDLKinds : ChangeSchema(u, kind) => Grows(t)
  BY <1>2 DEF ChangeSchema, SchemaEvent
<1> QED BY <1>3, <1>4, <1>5, <1>6, <1>7 DEF SinkNext

(***************************************************************************)
(* What a reader can rely on in every state.                               *)
(***************************************************************************)
LEMMA StoredIsSound ==
    ASSUME SinkInv, NEW t \in Tables
    PROVE  /\ \A f \in TableFiles(t) : f \in File /\ f.version \in VersionsOf(t)
           /\ \A f \in TableFiles(t) : \A x \in f.rows :
                  /\ x \in Changes(t) /\ PartitionOf[x.key] = f.part /\ f.version < x.ts
                  /\ \A v \in VersionsOf(t) : f.version < v => x.ts < v
           /\ Changes(t) \subseteq Change
           /\ \A x \in Changes(t) : 0 < x.ts /\ x.ts <= tso /\ x.ts \notin VersionsOf(t)
           /\ \A x \in Changes(t) :
                  x.ts <= metadata \/ (\E v \in VersionsOf(t) : x.ts < v) =>
                      \E f \in TableFiles(t) : Settled(TableFiles(t), f, x)
<1>1. /\ EventsAreOrdered(t) /\ VersionsAreLogged(t) /\ UnflushedIsRecent(t)
      /\ FilesAreVersioned(t) /\ RowsAreFiled(t) /\ SinkTypes
  BY DEF SinkInv
<1>2. Changes(t) \subseteq Change
  BY EventParts, RowsInFacts DEF Changes
<1>3. \A x \in Changes(t) : 0 < x.ts /\ x.ts <= tso
  BY EventParts, RowsInFacts, <1>2 DEF Changes, Change
<1>6. ASSUME NEW x \in Changes(t), x.ts \in VersionsOf(t) PROVE FALSE
  <2>1. PICK e \in log[t] : ~IsRow(e) /\ e.ts = x.ts
    BY <1>1, <1>6 DEF VersionsAreLogged
  <2>2. PICK z \in log[t] : IsRow(z) /\ z.ts = x.ts
    BY DEF Changes, RowsIn
  <2> QED BY <2>1, <2>2, EventParts
<1>4. ASSUME NEW x \in Changes(t), NEW v, x.ts <= metadata \/ (v \in VersionsOf(t) /\ x.ts < v)
      PROVE  \E f \in TableFiles(t) : Settled(TableFiles(t), f, x)
  <2>1. ASSUME x \in RowsIn(unflushed[t]) PROVE FALSE
    <3>1. PICK e \in unflushed[t] : IsRow(e) /\ e.key = x.key /\ e.ts = x.ts
      BY <2>1 DEF RowsIn
    <3>2. metadata < e.ts /\ \A u \in VersionsOf(t) : u < e.ts
      BY <1>1, <3>1 DEF UnflushedIsRecent
    <3> QED BY <1>2, <1>4, <3>1, <3>2, EventParts DEF Change
  <2> QED BY <1>1, <2>1 DEF RowsAreFiled
<1>5. \A f \in TableFiles(t) : f \in File
  BY <1>1 DEF TableFiles, SinkTypes
<1> QED BY <1>1, <1>2, <1>3, <1>4, <1>5, <1>6 DEF FilesAreVersioned


(***************************************************************************)
(* Without restarts of the changefeed every change is settled in the file  *)
(* that has it: what is not written yet is newer.                          *)
(***************************************************************************)
FilesAreSettled(t) ==
    \A f \in TableFiles(t) : \A x \in f.rows :
        /\ Settled(TableFiles(t), f, x)
        /\ \A e \in unflushed[t] : e.key = x.key => x.ts <= e.ts

LEMMA CapturedKeepsSettled ==
    ASSUME SinkInv, NEW t \in Tables, FilesAreSettled(t),
           NEW u \in Tables, NEW e, Captured(u, e), e.ts = tso + 1
    PROVE  FilesAreSettled(t)'
<1>1. /\ unflushed' = [unflushed EXCEPT ![u] = @ \cup {e}]
      /\ TableFiles(t)' = TableFiles(t)
  BY DEF Captured, TableFiles
<1>2. unflushed'[t] \subseteq unflushed[t] \cup {e}
  BY <1>1 DEF SinkInv, SinkTypes
<1>3. ASSUME NEW f \in TableFiles(t), NEW x \in f.rows PROVE x.ts <= e.ts
  <2>1. x.ts \in Nat /\ x.ts <= tso /\ tso \in Nat
    BY StoredIsSound DEF Change, SinkInv, SinkTypes
  <2> QED BY <2>1
<1> QED BY <1>1, <1>2, <1>3 DEF FilesAreSettled

LEMMA FlushKeepsSettled ==
    ASSUME SinkInv, NEW t \in Tables, FilesAreSettled(t),
           NEW p \in Partitions, NEW n, Flush(t, p, n)
    PROVE  FilesAreSettled(t)'
<1> DEFINE g == NewFile(t, p, n)
           taken == Taken(t, p, n)
<1>1. /\ n \in Nat /\ taken \subseteq unflushed[t] /\ g.rows = RowsIn(taken)
      /\ \A e \in taken : e.ts \in Nat /\ e.ts <= n /\ PartitionOf[e.key] = p
  BY TakenFacts
<1>2. /\ unflushed' = [unflushed EXCEPT ![t] = @ \ taken] /\ files' = files \cup {g}
      /\ \A e \in unflushed[t] : e.ts <= n => IsRow(e)
  BY DEF Flush
<1>3. g.table = t /\ NewestIn(t, g)
  BY NewFileIsNewest DEF NewestIn
<1>4. taken = {e \in unflushed[t] : IsRow(e) /\ PartitionOf[e.key] = p /\ e.ts <= n}
  BY DEF Taken
<1>5. \A x \in g.rows : \E e \in taken : e.key = x.key /\ e.ts = x.ts
  BY <1>1 DEF RowsIn
<1>6. \A e \in unflushed[t] : e.ts \in Nat
  BY EventParts
<1> HIDE DEF g, taken
<1>7. unflushed'[t] = unflushed[t] \ taken /\ TableFiles(t)' = TableFiles(t) \cup {g}
  BY <1>2, <1>3 DEF SinkInv, SinkTypes, TableFiles
<1>8. \A f \in TableFiles(t)' : ~After(f, g)
  <2>1. g \in File /\ \A f \in TableFiles(t) : f \in File /\ (SameStream(f, g) => After(g, f))
    BY <1>3, StoredIsSound DEF NewestIn
  <2>2. \A x \in File, y \in File : After(x, y) => ~After(y, x)
    BY DEF After, SameStream, CursorBefore, Spot, File
  <2>3. ~After(g, g)
    BY <2>1, <2>2
  <2>4. ASSUME NEW f \in TableFiles(t), After(f, g) PROVE FALSE
    BY <2>1, <2>2, <2>4 DEF After, SameStream
  <2> QED BY <1>7, <2>3, <2>4
<1>9. ASSUME NEW f \in TableFiles(t), NEW x \in f.rows
      PROVE  /\ Settled(TableFiles(t)', f, x)
             /\ \A e \in unflushed'[t] : e.key = x.key => x.ts <= e.ts
  <2>1. /\ Settled(TableFiles(t), f, x)
        /\ \A e \in unflushed[t] : e.key = x.key => x.ts <= e.ts
    BY DEF FilesAreSettled
  <2>2. \A y \in g.rows : y.key = x.key => x.ts <= y.ts
    BY <1>1, <1>5, <2>1
  <2> QED BY <1>7, <2>1, <2>2 DEF Settled
<1>10. ASSUME NEW x \in g.rows
       PROVE  /\ Settled(TableFiles(t)', g, x)
              /\ \A e \in unflushed'[t] : e.key = x.key => x.ts <= e.ts
  <2>1. Settled(TableFiles(t)', g, x)
    BY <1>8 DEF Settled
  <2>2. PICK z \in taken : z.key = x.key /\ z.ts = x.ts
    BY <1>5
  <2>3. ASSUME NEW e \in unflushed'[t], e.key = x.key PROVE x.ts <= e.ts
    BY <1>1, <1>2, <1>4, <1>6, <1>7, <2>2, <2>3
  <2> QED BY <2>1, <2>3
<1> QED BY <1>7, <1>9, <1>10 DEF FilesAreSettled

LEMMA SinkNextKeepsSettled ==
    ASSUME SinkInv, SinkNext, MaxRestarts = 0, NEW t \in Tables, FilesAreSettled(t)
    PROVE  FilesAreSettled(t)'
<1>1. ASSUME NEW u \in Tables, NEW k \in Keys, Commit(u, k) PROVE FilesAreSettled(t)'
  BY <1>1, CapturedKeepsSettled DEF Commit, RowEvent
<1>2. ASSUME NEW u \in Tables, NEW kind \in DDLKinds, ChangeSchema(u, kind)
      PROVE  FilesAreSettled(t)'
  BY <1>2, CapturedKeepsSettled DEF ChangeSchema, SchemaEvent
<1>3. ASSUME files' = files, unflushed'[t] \subseteq unflushed[t] PROVE FilesAreSettled(t)'
  BY <1>3 DEF FilesAreSettled, TableFiles
<1>4. ASSUME NEW u \in Tables, WriteSchemaFile(u) PROVE FilesAreSettled(t)'
  <2>1. files' = files /\ unflushed'[t] \subseteq unflushed[t]
    BY <1>4 DEF WriteSchemaFile, SinkInv, SinkTypes
  <2> QED BY <1>3, <2>1
<1>5. ASSUME NEW u \in Tables, NEW p \in Partitions, NEW n, Flush(u, p, n)
      PROVE  FilesAreSettled(t)'
  <2>1. CASE u = t
    BY <1>5, <2>1, FlushKeepsSettled
  <2>2. CASE u # t
    <3>1. unflushed'[t] = unflushed[t] /\ NewFile(u, p, n).table = u
          /\ files' = files \cup {NewFile(u, p, n)}
      BY <1>5, <2>2, NewFileIsNewest DEF Flush, NewestIn, SinkInv, SinkTypes
    <3>2. TableFiles(t)' = TableFiles(t)
      BY <2>2, <3>1 DEF TableFiles
    <3> QED BY <3>1, <3>2 DEF FilesAreSettled
  <2> QED BY <2>1, <2>2
<1>6. ASSUME NextDay \/ \E ts \in 1..MaxTS : AdvanceMetadata(ts) PROVE FilesAreSettled(t)'
  <2>1. files' = files /\ unflushed'[t] \subseteq unflushed[t]
    BY <1>6 DEF NextDay, AdvanceMetadata
  <2> QED BY <1>3, <2>1
<1>7. ~RestartChangefeed
  BY DEF RestartChangefeed, SinkInv, SinkTypes
<1> QED BY <1>1, <1>2, <1>4, <1>5, <1>6, <1>7 DEF SinkNext
=============================================================================
