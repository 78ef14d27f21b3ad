-------------------------- MODULE LoaderDDL_proofs --------------------------
(***************************************************************************)
(* Proofs about the DDLs in IncrementalLoader, for every set of tables,    *)
(* keys and partitions and every bound: none is lost, none is executed     *)
(* before an earlier one or after rows committed later, and the rows of a  *)
(* version meet the table of that version.                                 *)
(*                                                                         *)
(* As in IncrementalLoader_proofs, F, V, C are the files, versions and     *)
(* changes of a table, ck is the saved checkpoint, w a watermark, row the  *)
(* rows, W and A what is left of a scan; D are the versions made by a DDL, *)
(* sc is the version of the last DDL executed.                             *)
(***************************************************************************)
EXTENDS IncrementalLoader_proofs

Behind(ck, w, v) == v <= w \/ v <= ck

\* The DDLs behind a watermark are executed, none that comes later is passed.
Applied(V, D, ck, w, sc, row) ==
    /\ \A v \in D : Behind(ck, w, v) => v <= sc
    /\ \A v \in V : ~Behind(ck, w, v) => sc <= v /\ \A k \in Keys : row[k] < v

\* Where the table and its rows come from.
Origin(F, D, sc, row) ==
    /\ InitVersion <= sc /\ (sc = InitVersion \/ sc \in D)
    /\ \A k \in Keys : row[k] <= SnapshotTS \/ \E f \in F : \E x \in f.rows : x.ts = row[k]

\* A version the scan has not found comes after everything it has found.
Complete(V, ck, w, W, A) ==
    \A v \in V :
        \/ SchemaRange(v) \in W
        \/ Behind(ck, w, v)
        \/ /\ \A r \in W : r.version < v
           /\ \A a \in A : a.version < v

Executed(ck, w, sc, W) == SchemaRange(sc) \in W \/ Behind(ck, w, sc)

KindsAreLogged(t) ==
    \A s \in schemas[t] : \E e \in log[t] : ~IsRow(e) /\ e.ts = s.version /\ e.kind = s.kind

DDLs(t) == {v \in VersionsOf(t) : KindOf(t, v) # "none"}

\* No version up to the target of the scan is left.
Reached(V, ck, w, target) == \A v \in V : v <= target => Behind(ck, w, v)

DDLIsTrue(t) ==
    /\ Origin(TableFiles(t), DDLs(t), schema[t], rows[t])
    /\ Applied(VersionsOf(t), DDLs(t), mem.checkpoint, watermark[t], schema[t], rows[t])
    /\ Applied(VersionsOf(t), DDLs(t), mem.checkpoint, obj.tables[t].watermark, schema[t], rows[t])
    /\ pc[t] \in {"list", "load", "watermark"} =>
          /\ Complete(VersionsOf(t), mem.checkpoint, watermark[t], work[t], agenda[t])
          /\ Executed(mem.checkpoint, watermark[t], schema[t], work[t])
    /\ pc[t] = "watermark" => schema[t] = First(work[t]).version
    /\ pc[t] = "done" => Reached(VersionsOf(t), mem.checkpoint, watermark[t], bounds.target)

DDLInv ==
    /\ SnapshotTS <= mem.checkpoint
    /\ \A t \in Tables : KindsAreLogged(t) /\ DDLIsTrue(t)

----------------------------------------------------------------------------
(***************************************************************************)
(* The kind of a version does not change.                                  *)
(***************************************************************************)
LEMMA KindIsKept ==
    ASSUME NEW S \in SUBSET [version : Nat, kind : AllDDLKinds],
           NEW S2 \in SUBSET [version : Nat, kind : AllDDLKinds], S \subseteq S2,
           \A s \in S2, z \in S2 : s.version = z.version => s.kind = z.kind,
           NEW v, \E s \in S : s.version = v
    PROVE  (CHOOSE s \in S2 : s.version = v).kind = (CHOOSE s \in S : s.version = v).kind
<1>1. \E s \in S2 : s.version = v
  OBVIOUS
<1>2. (CHOOSE s \in S : s.version = v) \in S /\ (CHOOSE s \in S : s.version = v).version = v
  OBVIOUS
<1>3. (CHOOSE s \in S2 : s.version = v) \in S2 /\ (CHOOSE s \in S2 : s.version = v).version = v
  BY <1>1
<1> QED BY <1>2, <1>3

LEMMA KindsAreUnique ==
    ASSUME SinkInv, NEW t \in Tables, KindsAreLogged(t)
    PROVE  /\ schemas[t] \in SUBSET [version : Nat, kind : AllDDLKinds]
           /\ \A s \in schemas[t], z \in schemas[t] : s.version = z.version => s.kind = z.kind
<1>1. schemas[t] \in SUBSET [version : Nat, kind : AllDDLKinds]
  BY DEF SinkInv, SinkTypes
<1>2. ASSUME NEW s \in schemas[t], NEW z \in schemas[t], s.version = z.version
      PROVE  s.kind = z.kind
  <2>1. PICK e \in log[t] : ~IsRow(e) /\ e.ts = s.version /\ e.kind = s.kind
    BY DEF KindsAreLogged
  <2>2. PICK x \in log[t] : ~IsRow(x) /\ x.ts = z.version /\ x.kind = z.kind
    BY DEF KindsAreLogged
  <2>3. e = x
    BY <1>2, <2>1, <2>2 DEF SinkInv, EventsAreOrdered
  <2> QED BY <2>1, <2>2, <2>3
<1> QED BY <1>1, <1>2

LEMMA SchemasGrow ==
    ASSUME SinkInv, SinkNext, NEW t \in Tables, KindsAreLogged(t)
    PROVE  KindsAreLogged(t)' /\ schemas[t] \subseteq schemas'[t]
<1>1. log \in [Tables -> SUBSET Event] /\ unflushed[t] \subseteq log[t]
      /\ schemas \in [Tables -> SUBSET [version : Nat, kind : AllDDLKinds]]
  BY DEF SinkInv, SinkTypes, EventsAreOrdered
<1>2. ASSUME log[t] \subseteq log'[t], schemas' = schemas
      PROVE  KindsAreLogged(t)' /\ schemas[t] \subseteq schemas'[t]
  BY <1>2 DEF KindsAreLogged
<1>3. ASSUME NEW u \in Tables, NEW e, Captured(u, e)
      PROVE  log[t] \subseteq log'[t] /\ schemas' = schemas
  BY <1>1, <1>3 DEF Captured
<1>4. ASSUME NEW u \in Tables, WriteSchemaFile(u)
      PROVE  KindsAreLogged(t)' /\ schemas[t] \subseteq schemas'[t]
  <2>1. PICK e \in unflushed[u] :
            /\ ~IsRow(e)
            /\ schemas' = [schemas EXCEPT ![u] = @ \cup {[version |-> e.ts, kind |-> e.kind]}]
    BY <1>4 DEF WriteSchemaFile
  <2>2. log' = log /\ (u = t => e \in log[t])
    BY <1>1, <1>4 DEF WriteSchemaFile
  <2>3. schemas'[t] = schemas[t] \/ (t = u /\ schemas'[t] = schemas[t] \cup
                                        {[version |-> e.ts, kind |-> e.kind]})
    BY <1>1, <2>1
  <2> QED BY <2>1, <2>2, <2>3 DEF KindsAreLogged
<1>5. ASSUME NextDay \/ RestartChangefeed \/ (\E ts \in 1..MaxTS : AdvanceMetadata(ts))
             \/ (\E u \in Tables, p \in Partitions : \E n \in {e.ts : e \in unflushed[u]} :
                     Flush(u, p, n))
      PROVE  log' = log /\ schemas' = schemas
  BY <1>5 DEF NextDay, RestartChangefeed, AdvanceMetadata, Flush
<1> QED BY <1>2, <1>3, <1>4, <1>5 DEF SinkNext, Commit, ChangeSchema

LEMMA DDLsStay ==
    ASSUME SinkInv, SinkInv', NEW t \in Tables, KindsAreLogged(t), KindsAreLogged(t)',
           schemas[t] \subseteq schemas'[t]
    PROVE  \A v \in VersionsOf(t) : v \in DDLs(t)' <=> v \in DDLs(t)
<1>1. /\ schemas[t] \in SUBSET [version : Nat, kind : AllDDLKinds]
      /\ schemas'[t] \in SUBSET [version : Nat, kind : AllDDLKinds]
      /\ \A s \in schemas'[t], z \in schemas'[t] : s.version = z.version => s.kind = z.kind
  <2>1. /\ schemas'[t] \in SUBSET [version : Nat, kind : AllDDLKinds]
    BY DEF SinkInv, SinkTypes
  <2>2. ASSUME NEW s \in schemas'[t], NEW z \in schemas'[t], s.version = z.version
        PROVE  s.kind = z.kind
    <3>1. PICK e \in log'[t] : ~IsRow(e) /\ e.ts = s.version /\ e.kind = s.kind
      BY DEF KindsAreLogged
    <3>2. PICK x \in log'[t] : ~IsRow(x) /\ x.ts = z.version /\ x.kind = z.kind
      BY DEF KindsAreLogged
    <3>3. e = x
      BY <2>2, <3>1, <3>2 DEF SinkInv, EventsAreOrdered
    <3> QED BY <3>1, <3>2, <3>3
  <2> QED BY <2>1, <2>2, KindsAreUnique
<1>2. ASSUME NEW v \in VersionsOf(t) PROVE KindOf(t, v)' = KindOf(t, v) /\ v \in VersionsOf(t)'
  <2>1. \E s \in schemas[t] : s.version = v
    BY DEF VersionsOf
  <2> QED BY <1>1, <2>1, KindIsKept DEF KindOf, VersionsOf
<1> QED BY <1>2 DEF DDLs

----------------------------------------------------------------------------
(***************************************************************************)
(* What the changefeed adds comes after all that.                          *)
(***************************************************************************)
LEMMA GrownKeepsDDLs ==
    ASSUME NEW F, NEW V, NEW C, NEW F2, NEW V2, NEW C2, NEW now, NEW past,
           Grown(F, V, C, F2, V2, C2, now, past),
           \A f \in F2 : \A x \in f.rows : \A v \in V2 : f.version < v => x.ts < v,
           NEW D, D \subseteq V, NEW D2, D2 \subseteq V2, \A v \in V : v \in D2 <=> v \in D,
           NEW ck \in Nat, SnapshotTS <= ck, ck <= past \/ ck = SnapshotTS,
           NEW sc \in Nat, NEW row \in [Keys -> Nat], Origin(F, D, sc, row)
    PROVE  /\ Origin(F2, D2, sc, row)
           /\ \A w \in Nat : (w # 0 => w \in V) /\ Applied(V, D, ck, w, sc, row) =>
                  Applied(V2, D2, ck, w, sc, row)
<1>1. /\ V \subseteq Nat /\ V2 \subseteq Nat /\ V \subseteq V2 /\ past \in Nat /\ F \subseteq F2
      /\ SnapshotTS \in Nat /\ InitVersion \in Nat /\ InitVersion <= SnapshotTS
      /\ \A v \in V2 \ V : /\ past < v /\ (v = InitVersion \/ SnapshotTS < v)
                           /\ \A u \in V : u < v
  BY SinkAssumption DEF Grown, Store
<1>2. Origin(F2, D2, sc, row)
  BY <1>1 DEF Origin
<1>3. ASSUME NEW v \in V2 \ V PROVE v = InitVersion \/ ck < v
  BY <1>1
<1>4. ASSUME NEW v \in V2 \ V, ck < v PROVE sc <= v /\ \A k \in Keys : row[k] < v
  <2>1. sc <= v
    BY <1>1, <1>4 DEF Origin
  <2>2. ASSUME NEW k \in Keys PROVE row[k] < v
    <3>1. CASE row[k] <= SnapshotTS
      <4>1. row[k] \in Nat /\ v \in Nat /\ SnapshotTS \in Nat /\ ck < v
        BY <1>1, <1>4
      <4> QED BY <3>1, <4>1
    <3>2. ASSUME NEW f \in F, NEW x \in f.rows, x.ts = row[k] PROVE row[k] < v
      <4>1. f \in F2 /\ f.version \in V
        BY <1>1 DEF Grown, Store
      <4>2. f.version < v
        BY <1>1, <4>1
      <4> QED BY <3>2, <4>1, <4>2
    <3> QED BY <3>1, <3>2 DEF Origin
  <2> QED BY <2>1, <2>2
<1>5. ASSUME NEW w \in Nat, w # 0 => w \in V, Applied(V, D, ck, w, sc, row)
      PROVE  Applied(V2, D2, ck, w, sc, row)
  <2>1. ASSUME NEW v \in V2 \ V PROVE Behind(ck, w, v) => v = InitVersion
    <3>1. w < v
      BY <1>1, <1>5
    <3> QED BY <1>1, <1>3, <3>1 DEF Behind
  <2>2. InitVersion <= sc
    BY DEF Origin
  <2>3. \A v \in D2 : Behind(ck, w, v) => v <= sc
    BY <1>5, <2>1, <2>2 DEF Applied
  <2>4. ASSUME NEW v \in V2, ~Behind(ck, w, v)
        PROVE  sc <= v /\ \A k \in Keys : row[k] < v
    <3>1. CASE v \in V
      BY <1>5, <2>4, <3>1 DEF Applied
    <3>2. CASE v \notin V
      <4>1. ck < v
        BY <1>1, <2>4 DEF Behind
      <4> QED BY <1>4, <3>2, <4>1
    <3> QED BY <3>1, <3>2
  <2> QED BY <2>3, <2>4 DEF Applied
<1> QED BY <1>2, <1>5

LEMMA GrownKeepsComplete ==
    ASSUME NEW F, NEW V, NEW C, NEW F2, NEW V2, NEW C2, NEW now, NEW past,
           Grown(F, V, C, F2, V2, C2, now, past), NEW ck, NEW w, NEW cur, NEW target \in Nat
    PROVE  /\ \A W, A : Scan(F, V, ck, w, cur, target, W, A) /\ Complete(V, ck, w, W, A) =>
                  Complete(V2, ck, w, W, A)
           /\ target <= past /\ Reached(V, ck, w, target) => Reached(V2, ck, w, target)
<1>1. ASSUME NEW W, NEW A, Scan(F, V, ck, w, cur, target, W, A), Complete(V, ck, w, W, A)
      PROVE  Complete(V2, ck, w, W, A)
  <2>1. (\A r \in W : r.version \in V) /\ (\A a \in A : a.version \in V)
    BY <1>1 DEF Scan, RangesAreAhead, PlacesAreAhead
  <2>2. \A v \in V2 \ V : \A u \in V : u < v
    BY DEF Grown
  <2> QED BY <1>1, <2>1, <2>2 DEF Complete
<1>2. ASSUME target <= past, Reached(V, ck, w, target) PROVE Reached(V2, ck, w, target)
  <2>1. \A v \in V2 \ V : ~(v <= target)
    BY <1>2 DEF Grown
  <2> QED BY <1>2, <2>1 DEF Reached
<1> QED BY <1>1, <1>2

----------------------------------------------------------------------------
(***************************************************************************)
(* The steps of a scan.                                                    *)
(***************************************************************************)
LEMMA WalkIsComplete ==
    ASSUME NEW V \in SUBSET Nat, NEW ck \in Nat, NEW w \in Nat, NEW W, NEW A,
           W = {SchemaRange(v) : v \in {u \in V : u > IF w > 0 THEN w ELSE ck}},
           NEW sc \in Nat, sc \in V \/ sc <= ck
    PROVE  Complete(V, ck, w, W, A) /\ Executed(ck, w, sc, W)
<1>1. \A v \in V : SchemaRange(v) \in W \/ Behind(ck, w, v)
  BY DEF Behind
<1>2. sc <= ck => Behind(ck, w, sc)
  BY DEF Behind
<1> QED BY <1>1, <1>2 DEF Complete, Executed

\* A range whose place is left of the scan's agenda or work is later.
LEMMA FirstIsAhead ==
    ASSUME NEW F, NEW V, NEW C, Store(F, V, C), NEW ck \in Nat, NEW w \in Nat, NEW cur, NEW target,
           NEW W, Scan(F, V, ck, w, cur, target, W, {}), W # {}, Complete(V, ck, w, W, {})
    PROVE  /\ First(W) \in W /\ IsRange(First(W)) /\ First(W).version \in V
           /\ ~Crossed(V, ck, w, First(W).version)
           /\ IsSchemaRange(First(W)) =>
                 /\ First(W) = SchemaRange(First(W).version)
                 /\ ~Behind(ck, w, First(W).version)
                 /\ \A u \in V : ~Behind(ck, w, u) => First(W).version <= u
           /\ ~IsSchemaRange(First(W)) =>
                 \A u \in V : ~Behind(ck, w, u) => First(W).version < u
<1> DEFINE r == First(W)
           v == r.version
<1>1. Apart(W, {}) /\ RangesAreAhead(F, V, ck, w, cur, W)
  BY DEF Scan
<1>2. /\ r \in W /\ IsRange(r)
      /\ \A q \in W : IsRange(q) /\ v <= q.version /\ (q # r => Precedes(r, q))
  BY <1>1, FirstOfWork
<1>3. /\ v \in V /\ v \in Nat /\ V \subseteq Nat /\ ~Crossed(V, ck, w, v)
      /\ IsSchemaRange(r) => w < v /\ ck < v
  BY <1>1, <1>2 DEF RangesAreAhead, Store
<1>4. IsSchemaRange(r) => r = SchemaRange(v) /\ ~Behind(ck, w, v)
  BY <1>2, <1>3, RangeFacts DEF Behind
<1>5. ~IsSchemaRange(r) => r.part \in Nat
  BY <1>2, RangeFacts DEF IsSchemaRange
<1> HIDE DEF r, v
<1>6. ASSUME NEW u \in V, ~Behind(ck, w, u)
      PROVE  v <= u /\ (~IsSchemaRange(r) => v < u)
  <2>1. u \in Nat
    BY <1>3
  <2>2. CASE SchemaRange(u) \in W
    <3>1. SchemaRange(u).version = u /\ SchemaRange(u).part = NoPartition
      BY DEF SchemaRange
    <3>2. v <= u
      BY <1>2, <2>2, <3>1
    <3>3. ASSUME ~IsSchemaRange(r) PROVE v < u
      <4>1. SchemaRange(u) # r /\ NoPartition = -1
        BY <3>1, <3>3 DEF IsSchemaRange, NoPartition
      <4>2. Precedes(r, SchemaRange(u))
        BY <1>2, <2>2, <4>1
      <4> QED BY <1>3, <1>5, <2>1, <3>1, <3>3, <4>1, <4>2 DEF Precedes, v
    <3> QED BY <3>2, <3>3
  <2>3. CASE SchemaRange(u) \notin W
    <3>1. r.version < u
      BY <1>2, <1>6, <2>3 DEF Complete
    <3> QED BY <1>3, <2>1, <3>1 DEF v
  <2> QED BY <2>2, <2>3
<1> QED BY <1>2, <1>3, <1>4, <1>6 DEF r, v

\* ExecDDL
LEMMA ExecIsInOrder ==
    ASSUME NEW F, NEW V, NEW C, Store(F, V, C), NEW ck \in Nat, NEW w \in Nat, NEW cur, NEW target,
           NEW W, Scan(F, V, ck, w, cur, target, W, {}), W # {}, IsSchemaRange(First(W)),
           Complete(V, ck, w, W, {}),
           NEW D, D \subseteq V, NEW sc \in Nat, NEW row \in [Keys -> Nat],
           Origin(F, D, sc, row), Applied(V, D, ck, w, sc, row), First(W).version \in D
    PROVE  /\ sc <= First(W).version
           /\ Origin(F, D, First(W).version, row)
           /\ Applied(V, D, ck, w, First(W).version, row)
           /\ Executed(ck, w, First(W).version, W)
<1> DEFINE v == First(W).version
<1>1. /\ v \in V /\ ~Behind(ck, w, v) /\ (\A u \in V : ~Behind(ck, w, u) => v <= u)
      /\ SchemaRange(v) \in W
  BY FirstIsAhead
<1>0. V \subseteq Nat
  BY DEF Store
<1> HIDE DEF v
<1>2. sc <= v /\ v \in D
  BY <1>0, <1>1 DEF Applied, v
<1>3. InitVersion <= v
  BY <1>0, <1>1, <1>2, SinkAssumption DEF Origin
<1>4. Origin(F, D, v, row)
  BY <1>2, <1>3 DEF Origin
<1>5. Applied(V, D, ck, w, v, row)
  <2>1. \A u \in D : Behind(ck, w, u) => u <= v
    <3>1. \A u \in D : u \in Nat /\ v \in Nat
      BY <1>0, <1>1
    <3> QED BY <1>2, <3>1 DEF Applied
  <2> QED BY <1>0, <1>1, <2>1 DEF Applied
<1> QED BY <1>0, <1>1, <1>2, <1>4, <1>5 DEF v, Executed

\* SaveWatermark
LEMMA WatermarkKeepsDDLs ==
    ASSUME NEW F, NEW V, NEW C, Store(F, V, C), NEW ck \in Nat, NEW w \in Nat, NEW cur, NEW target,
           NEW W, Scan(F, V, ck, w, cur, target, W, {}), W # {}, IsSchemaRange(First(W)),
           Complete(V, ck, w, W, {}),
           NEW D, D \subseteq V, NEW sc \in Nat, NEW row, Applied(V, D, ck, w, sc, row),
           First(W).version \in D => sc = First(W).version, Executed(ck, w, sc, W)
    PROVE  /\ Applied(V, D, ck, First(W).version, sc, row)
           /\ Complete(V, ck, First(W).version, W \ {First(W)}, {})
           /\ Executed(ck, First(W).version, sc, W \ {First(W)})
<1> DEFINE r == First(W)
           v == r.version
           W2 == W \ {r}
<1>1. /\ v \in V /\ ~Behind(ck, w, v) /\ (\A u \in V : ~Behind(ck, w, u) => v <= u)
      /\ r = SchemaRange(v) /\ r \in W
  BY FirstIsAhead
<1>0. V \subseteq Nat
  BY DEF Store
<1>2. W2 \subseteq W /\ \A q \in W : q # r => q \in W2
  OBVIOUS
<1> HIDE DEF r, v, W2
<1>3. \A u \in Nat : Behind(ck, w, u) => Behind(ck, v, u)
  BY <1>0, <1>1 DEF Behind
<1>4. \A u \in Nat : SchemaRange(u) = r => u = v
  BY <1>0, <1>1 DEF SchemaRange
<1>5. Behind(ck, v, v)
  BY <1>0, <1>1 DEF Behind
<1>6. Applied(V, D, ck, v, sc, row)
  <2>1. ASSUME NEW u \in D, Behind(ck, v, u) PROVE u <= sc
    <3>1. CASE Behind(ck, w, u)
      BY <3>1 DEF Applied
    <3>2. CASE ~Behind(ck, w, u)
      <4>1. u = v
        BY <1>0, <1>1, <2>1, <3>2 DEF Behind
      <4> QED BY <4>1 DEF v, r
    <3> QED BY <3>1, <3>2
  <2> QED BY <1>0, <1>1, <1>3, <2>1 DEF Applied
<1>7. Complete(V, ck, v, W2, {})
  <2> SUFFICES ASSUME NEW u \in V, SchemaRange(u) \notin W2, ~Behind(ck, v, u)
               PROVE  \A q \in W2 : q.version < u
    BY DEF Complete
  <2>1. SchemaRange(u) \notin W /\ ~Behind(ck, w, u)
    BY <1>0, <1>1, <1>2, <1>3, <1>4, <1>5
  <2> QED BY <1>2, <2>1 DEF Complete
<1>8. Executed(ck, v, sc, W2)
  BY <1>2, <1>3, <1>4, <1>5 DEF Executed
<1> QED BY <1>6, <1>7, <1>8 DEF r, v, W2

\* MergeFile
LEMMA MergeKeepsDDLs ==
    ASSUME NEW F, NEW V, NEW C, Store(F, V, C), NEW ck \in Nat, NEW w \in Nat, NEW cur, NEW target,
           NEW W, Scan(F, V, ck, w, cur, target, W, {}), W # {}, ~IsSchemaRange(First(W)),
           Complete(V, ck, w, W, {}),
           NEW D, NEW sc \in Nat, NEW row \in [Keys -> Nat], NEW row2 \in [Keys -> Nat],
           Origin(F, D, sc, row), Applied(V, D, ck, w, sc, row),
           MergedFrom(F, C, ck, First(W), row, row2), Executed(ck, w, sc, W),
           NEW N, \A n \in N : n.version = First(W).version
    PROVE  /\ Origin(F, D, sc, row2)
           /\ Applied(V, D, ck, w, sc, row2)
           /\ Complete(V, ck, w, (W \ {First(W)}) \cup N, {})
           /\ Executed(ck, w, sc, (W \ {First(W)}) \cup N)
<1> DEFINE r == First(W)
           W2 == (W \ {r}) \cup N
<1>1. /\ r \in W /\ IsRange(r)
      /\ \A u \in V : ~Behind(ck, w, u) => r.version < u
  BY FirstIsAhead
<1>0. V \subseteq Nat
  BY DEF Store
<1>2. /\ \A q \in W2 : q \in W \/ q.version = r.version
      /\ \A q \in W : q # r => q \in W2
  OBVIOUS
<1>3. \A u : SchemaRange(u) # r
  BY DEF SchemaRange, IsSchemaRange
<1>4. ~IsSchemaRange(r) /\ MergedFrom(F, C, ck, r, row, row2)
  OBVIOUS
<1> HIDE DEF r, W2
<1>5. ASSUME NEW k \in Keys
      PROVE  row2[k] = row[k] \/ \E f \in F : \E x \in f.rows : SameStream(f, r) /\ x.ts = row2[k]
  BY <1>4 DEF MergedFrom, Fresh
<1>6. Origin(F, D, sc, row2)
  BY <1>5 DEF Origin
<1>7. ASSUME NEW u \in V, ~Behind(ck, w, u), NEW k \in Keys PROVE row2[k] < u
  <2>1. CASE row2[k] = row[k]
    BY <1>7, <2>1 DEF Applied
  <2>2. ASSUME NEW f \in F, NEW x \in f.rows, SameStream(f, r), x.ts = row2[k]
        PROVE  row2[k] < u
    <3>1. f.version < u
      BY <1>0, <1>1, <1>7, <2>2 DEF SameStream
    <3> QED BY <2>2, <3>1 DEF Store
  <2> QED BY <1>5, <2>1, <2>2
<1>8. Applied(V, D, ck, w, sc, row2)
  BY <1>7 DEF Applied
<1>9. Complete(V, ck, w, W2, {})
  <2> SUFFICES ASSUME NEW u \in V, SchemaRange(u) \notin W2, ~Behind(ck, w, u)
               PROVE  \A q \in W2 : q.version < u
    BY DEF Complete
  <2>1. SchemaRange(u) \notin W
    BY <1>2, <1>3
  <2>2. \A q \in W : q.version < u
    BY <2>1 DEF Complete
  <2> QED BY <1>0, <1>1, <1>2, <2>2
<1>10. Executed(ck, w, sc, W2)
  BY <1>2, <1>3 DEF Executed
<1> QED BY <1>6, <1>8, <1>9, <1>10 DEF r, W2

\* SaveCursors, FinishScan
LEMMA EmptyScanIsReached ==
    ASSUME NEW F, NEW V, NEW ck, NEW w, NEW cur, NEW target, Scan(F, V, ck, w, cur, target, {}, {})
    PROVE  Reached(V, ck, w, target)
BY DEF Scan, VersionsAreCovered, Reached, Behind

LEMMA FinishKeepsDDLs ==
    ASSUME NEW V \in SUBSET Nat, NEW D, D \subseteq V, NEW ck \in Nat, NEW target \in Nat, ck <= target,
           NEW w \in Nat, NEW sc, NEW row, Applied(V, D, ck, w, sc, row), Reached(V, ck, w, target)
    PROVE  Applied(V, D, target, w, sc, row)
<1>1. ASSUME NEW v \in V PROVE Behind(target, w, v) <=> Behind(ck, w, v)
  BY DEF Behind, Reached
<1> QED BY <1>1 DEF Applied

----------------------------------------------------------------------------
(***************************************************************************)
(* A step of one table leaves the others alone.                            *)
(***************************************************************************)
OthersStay(t) == \A u \in Tables : u # t => schema'[u] = schema[u] /\ meta'[u] = meta[u]

LEMMA UnsavedStepsAreOf ==
    ASSUME LoaderInv, NEW t \in Tables,
           \/ WalkSchemas(t) \/ ListDirs(t) \/ ReadIndex(t) \/ LoadSchemaFiles(t)
           \/ ExecDDL(t) \/ RejectDDL(t) \/ MergeFile(t) \/ Fail(t)
    PROVE  StepOf(t) /\ OthersStay(t) /\ mem' = mem /\ obj' = obj
<1>1. TypeOK
  BY DEF LoaderInv
<1>2. /\ UNCHANGED <<sinkVars, scanning, bounds>> /\ mem' = mem /\ obj' = obj
      /\ pc[t] # "idle" /\ pc'[t] # "idle"
      /\ \A u \in Tables : u # t => pc'[u] = pc[u]
  BY <1>1 DEF WalkSchemas, ListDirs, ReadIndex, LoadSchemaFiles, ExecDDL, RejectDDL, MergeFile,
              Fail, AtSchema, AtFile, Loading, Running, TypeOK
<1>3. ASSUME NEW u \in Tables, u # t
      PROVE  /\ rows'[u] = rows[u] /\ watermark'[u] = watermark[u] /\ cursor'[u] = cursor[u]
             /\ work'[u] = work[u] /\ agenda'[u] = agenda[u] /\ paths'[u] = paths[u]
             /\ schema'[u] = schema[u] /\ meta'[u] = meta[u] /\ dirty'[u] = dirty[u]
  <2>1. CASE WalkSchemas(t) \/ ListDirs(t) \/ ReadIndex(t) \/ LoadSchemaFiles(t)
    BY <1>1, <1>3, <2>1 DEF WalkSchemas, ListDirs, ReadIndex, LoadSchemaFiles, TypeOK
  <2>2. CASE ExecDDL(t) \/ RejectDDL(t) \/ Fail(t)
    BY <1>1, <1>3, <2>2 DEF ExecDDL, RejectDDL, Fail, TypeOK
  <2>3. CASE MergeFile(t)
    BY <1>1, <1>3, <2>3 DEF MergeFile, TypeOK
  <2> QED BY <2>1, <2>2, <2>3
<1> QED BY <1>2, <1>3 DEF StepOf, SameTable, OthersStay

LEMMA WatermarkSaves ==
    ASSUME LoaderInv, NEW t \in Tables, NeedsWatermark(t),
           NEW next \in SetDDLTableVersionWatermark(mem, t, Current(t).version)
    PROVE  /\ next.checkpoint = mem.checkpoint
           /\ next.tables[t].watermark = Current(t).version
           /\ \A u \in Tables : u # t => next.tables[u] = mem.tables[u]
<1> DEFINE v == Current(t).version
<1>1. v \in Nat /\ watermark[t] < v
  BY WatermarkIsReady
<1>2. mem \in State /\ mem.tables[t].watermark < v
  BY <1>1 DEF LoaderInv, TypeOK, Agreement
<1> HIDE DEF v
<1>3. next \in SetDDLTableVersionWatermark(mem, t, v)
  BY DEF v
<1>4. /\ next.checkpoint = mem.checkpoint /\ next.tables[t].watermark = v
      /\ \A u \in Tables : u # t => next.tables[u] = mem.tables[u]
  BY <1>1, <1>2, <1>3, SetWatermarkFacts
<1> QED BY <1>4 DEF v

LEMMA SaveWatermarkIsOf ==
    ASSUME LoaderInv, NEW t \in Tables, SaveWatermark(t)
    PROVE  /\ StepOf(t) /\ OthersStay(t)
           /\ watermark'[t] = Current(t).version /\ obj'.tables[t].watermark = Current(t).version
<1>1. TypeOK /\ Agreement
  BY DEF LoaderInv
<1>2. PICK next \in SetDDLTableVersionWatermark(mem, t, Current(t).version) :
          mem' = next /\ obj' = next
  BY DEF SaveWatermark, Saved
<1>3. /\ next.checkpoint = mem.checkpoint /\ next.tables[t].watermark = Current(t).version
      /\ \A u \in Tables : u # t => next.tables[u] = mem.tables[u]
  BY <1>2, WatermarkSaves DEF SaveWatermark
<1>4. pc[t] # "idle"
  BY WatermarkIsReady DEF SaveWatermark
<1>5. /\ UNCHANGED <<sinkVars, rows, schema, scanning, bounds, cursor, dirty, paths, agenda>>
      /\ pc'[t] = "load" /\ watermark'[t] = Current(t).version
      /\ \A u \in Tables : u # t => /\ watermark'[u] = watermark[u] /\ meta'[u] = meta[u]
                                    /\ work'[u] = work[u] /\ pc'[u] = pc[u]
  BY <1>1 DEF SaveWatermark, Rest, TypeOK
<1>6. OthersStay(t)
  BY <1>5 DEF OthersStay
<1>7. StepOf(t)
  <2>1. obj.checkpoint = mem.checkpoint
    BY <1>1 DEF Agreement
  <2> QED BY <1>2, <1>3, <1>4, <1>5, <2>1 DEF StepOf, SameTable
<1> QED BY <1>2, <1>3, <1>5, <1>6, <1>7

LEMMA SaveCursorsIsOf ==
    ASSUME LoaderInv, NEW t \in Tables, SaveCursors(t)
    PROVE  /\ StepOf(t) /\ OthersStay(t)
<1>1. TypeOK /\ Agreement
  BY DEF LoaderInv
<1>2. /\ mem'.checkpoint = mem.checkpoint /\ obj'.checkpoint = obj.checkpoint
      /\ \A u \in Tables : u # t => /\ mem'.tables[u] = mem.tables[u]
                                    /\ \/ obj'.tables[u] = obj.tables[u]
                                       \/ obj'.tables[u] = mem.tables[u]
  <2>1. CASE dirty[t] = {}
    <3>1. mem' = mem /\ obj' = obj
      BY <2>1 DEF SaveCursors
    <3> QED BY <3>1
  <2>2. CASE dirty[t] # {}
    <3>1. PICK next \in SetDMLCursors(mem, t, DirtyCursors(t)) : mem' = next /\ obj' = next
      BY <2>2 DEF SaveCursors, Saved
    <3>2. /\ next.checkpoint = mem.checkpoint
          /\ \A u \in Tables : u # t => next.tables[u] = mem.tables[u]
      BY CursorsAreReady
    <3>3. obj.checkpoint = mem.checkpoint
      BY <1>1 DEF Agreement
    <3> QED BY <3>1, <3>2, <3>3
  <2> QED BY <2>1, <2>2
<1>3. /\ UNCHANGED <<sinkVars, rows, schema, scanning, bounds, watermark, cursor, meta, paths,
                     agenda, work>>
      /\ pc[t] # "idle" /\ pc'[t] # "idle"
      /\ \A u \in Tables : u # t => pc'[u] = pc[u] /\ dirty'[u] = dirty[u]
  BY <1>1 DEF SaveCursors, TypeOK
<1> QED BY <1>2, <1>3 DEF StepOf, SameTable, OthersStay

LEMMA FailAfterSaveIsOf ==
    ASSUME LoaderInv, NEW t \in Tables, FailAfterSave(t)
    PROVE  /\ StepOf(t) /\ OthersStay(t) /\ mem' = mem
           /\ \/ obj'.tables[t].watermark = watermark[t]
              \/ NeedsWatermark(t) /\ obj'.tables[t].watermark = Current(t).version
<1>1. TypeOK /\ Agreement
  BY DEF LoaderInv
<1>2. PICK next : /\ mem' = mem /\ obj' = next
                  /\ \/ /\ NeedsWatermark(t)
                        /\ next \in SetDDLTableVersionWatermark(mem, t, Current(t).version)
                     \/ pc[t] = "load" /\ next \in SetDMLCursors(mem, t, DirtyCursors(t))
  BY DEF FailAfterSave, SavedButFailed
<1>3. /\ next.checkpoint = mem.checkpoint
      /\ \A u \in Tables : u # t => next.tables[u] = mem.tables[u]
      /\ \/ next.tables[t].watermark = watermark[t]
         \/ NeedsWatermark(t) /\ next.tables[t].watermark = Current(t).version
  BY <1>2, WatermarkSaves, CursorsAreReady
<1>4. pc[t] # "idle"
  BY <1>2, WatermarkIsReady
<1>5. /\ UNCHANGED <<sinkVars, rows, schema, scanning, bounds, watermark, cursor, dirty, meta, paths,
                     agenda, work>>
      /\ pc'[t] # "idle" /\ \A u \in Tables : u # t => pc'[u] = pc[u]
  BY <1>1 DEF FailAfterSave, TypeOK
<1>6. obj.checkpoint = mem.checkpoint
  BY <1>1 DEF Agreement
<1>7. StepOf(t)
  BY <1>2, <1>3, <1>4, <1>5, <1>6 DEF StepOf, SameTable
<1> QED BY <1>2, <1>3, <1>5, <1>7 DEF OthersStay

\* What is true of a table stays true while others step.
LEMMA DDLStepKeeps ==
    ASSUME LoaderInv, DDLInv, NEW t \in Tables, StepOf(t), OthersStay(t), DDLIsTrue(t)'
    PROVE  DDLInv'
<1>1. SinkInv /\ Agreement /\ UNCHANGED sinkVars /\ mem'.checkpoint = mem.checkpoint
  BY DEF LoaderInv, StepOf
<1>2. /\ \A u \in Tables : SameStore(u)
      /\ schemas' = schemas /\ log' = log
  BY <1>1, StoreStays DEF sinkVars
<1>3. \A u \in Tables : KindsAreLogged(u)' /\ DDLs(u)' = DDLs(u)
  BY <1>2 DEF DDLInv, KindsAreLogged, DDLs, KindOf, VersionsOf
<1>4. ASSUME NEW u \in Tables, u # t PROVE DDLIsTrue(u)'
  <2>1. DDLIsTrue(u) /\ SameTable(u) /\ schema'[u] = schema[u] /\ bounds' = bounds
    BY <1>4 DEF DDLInv, StepOf, OthersStay
  <2>2. obj'.tables[u].watermark = obj.tables[u].watermark \/ obj'.tables[u].watermark = watermark[u]
    BY <1>1, <2>1 DEF SameTable, Agreement
  <2> QED BY <1>1, <1>2, <1>3, <2>1, <2>2 DEF DDLIsTrue, SameTable, SameStore
<1> QED BY <1>1, <1>3, <1>4 DEF DDLInv

----------------------------------------------------------------------------
(***************************************************************************)
(* The steps of a table.                                                   *)
(***************************************************************************)
LEMMA DDLParts ==
    ASSUME LoaderInv, DDLInv, NEW t \in Tables
    PROVE  /\ Store(TableFiles(t), VersionsOf(t), Changes(t)) /\ VersionsOf(t) \in SUBSET Nat
           /\ DDLs(t) \subseteq VersionsOf(t) /\ DDLIsTrue(t)
           /\ mem.checkpoint \in Nat /\ SnapshotTS <= mem.checkpoint
           /\ watermark[t] \in Nat /\ schema[t] \in Nat /\ rows[t] \in [Keys -> Nat]
           /\ bounds.target \in Nat
           /\ schema[t] \in VersionsOf(t) \/ schema[t] <= mem.checkpoint
           /\ pc[t] \in {"list", "load", "watermark"} =>
                 Scan(TableFiles(t), VersionsOf(t), mem.checkpoint, watermark[t], cursor[t],
                      bounds.target, work[t], agenda[t])
           /\ pc[t] \in {"load", "watermark"} => agenda[t] = {}
           /\ pc[t] # "failed" => obj.tables[t].watermark = watermark[t]
<1>1. SinkInv /\ TypeOK /\ Agreement /\ ScanIsTrue(t)
  BY DEF LoaderInv
<1>2. Store(TableFiles(t), VersionsOf(t), Changes(t)) /\ VersionsOf(t) \in SUBSET Nat
  BY <1>1, StoreHolds DEF Store
<1>3. /\ mem.checkpoint \in Nat /\ watermark[t] \in Nat /\ rows[t] \in [Keys -> Nat]
      /\ bounds.target \in Nat /\ schema[t] \in Nat
  BY <1>1, TypeParts DEF TypeOK
<1>4. DDLs(t) \subseteq VersionsOf(t) /\ DDLIsTrue(t) /\ SnapshotTS <= mem.checkpoint
  BY DEF DDLs, DDLInv
<1>5. schema[t] \in VersionsOf(t) \/ schema[t] <= mem.checkpoint
  BY <1>3, <1>4, SinkAssumption DEF DDLIsTrue, Origin
<1>6. pc[t] # "failed" => obj.tables[t].watermark = watermark[t]
  BY <1>1 DEF Agreement, ScanIsTrue
<1> QED BY <1>1, <1>2, <1>3, <1>4, <1>5, <1>6 DEF ScanIsTrue

LEMMA OwnStore ==
    ASSUME LoaderInv, NEW t \in Tables, StepOf(t)
    PROVE  /\ SameStore(t) /\ DDLs(t)' = DDLs(t)
           /\ mem'.checkpoint = mem.checkpoint /\ bounds' = bounds
<1>1. SinkInv /\ UNCHANGED sinkVars /\ mem'.checkpoint = mem.checkpoint /\ bounds' = bounds
  BY DEF LoaderInv, StepOf
<1>2. SameStore(t) /\ schemas' = schemas
  BY <1>1, StoreStays DEF sinkVars
<1> QED BY <1>1, <1>2 DEF DDLs, KindOf, VersionsOf

\* A step that touches neither Snowflake nor the state.
LEMMA QuietStepKeepsDDLs ==
    ASSUME LoaderInv, DDLInv, NEW t \in Tables, StepOf(t), OthersStay(t),
           UNCHANGED <<rows, schema, watermark>>, obj' = obj,
           pc'[t] = "failed" \/
           (pc'[t] \in {"list", "load"} /\
                /\ Complete(VersionsOf(t), mem.checkpoint, watermark[t], work'[t], agenda'[t])
                /\ Executed(mem.checkpoint, watermark[t], schema[t], work'[t])) \/
           (pc'[t] = "done" /\ Reached(VersionsOf(t), mem.checkpoint, watermark[t], bounds.target))
    PROVE  DDLInv'
<1>1. DDLIsTrue(t) /\ SameStore(t) /\ DDLs(t)' = DDLs(t) /\ bounds' = bounds
      /\ mem'.checkpoint = mem.checkpoint
  BY DDLParts, OwnStore
<1>2. DDLIsTrue(t)'
  BY <1>1 DEF DDLIsTrue, SameStore
<1> QED BY <1>2, DDLStepKeeps

LEMMA WalkKeepsDDLs ==
    ASSUME LoaderInv, DDLInv, NEW t \in Tables, WalkSchemas(t)
    PROVE  DDLInv'
<1>1. TypeOK /\ StepOf(t) /\ OthersStay(t) /\ obj' = obj
  BY UnsavedStepsAreOf DEF LoaderInv
<1>2. /\ pc'[t] = "list" /\ work'[t] = {SchemaRange(v) : v \in PendingVersions(t)}
      /\ UNCHANGED <<rows, schema, watermark>>
  BY <1>1 DEF WalkSchemas, TypeOK
<1>3. bounds.checkpoint = mem.checkpoint
  BY ScanBounds DEF WalkSchemas
<1>4. work'[t] = {SchemaRange(v) : v \in {u \in VersionsOf(t) :
                      u > IF watermark[t] > 0 THEN watermark[t] ELSE mem.checkpoint}}
  BY <1>2, <1>3 DEF PendingVersions
<1>5. /\ Complete(VersionsOf(t), mem.checkpoint, watermark[t], work'[t], agenda'[t])
      /\ Executed(mem.checkpoint, watermark[t], schema[t], work'[t])
  BY <1>4, DDLParts, WalkIsComplete
<1> QED BY <1>1, <1>2, <1>5, QuietStepKeepsDDLs

LEMMA ListKeepsDDLs ==
    ASSUME LoaderInv, DDLInv, NEW t \in Tables, ListDirs(t)
    PROVE  DDLInv'
<1> DEFINE a == First(agenda[t])
<1>1. SinkInv /\ TypeOK /\ StepOf(t) /\ OthersStay(t) /\ obj' = obj
  BY UnsavedStepsAreOf DEF LoaderInv
<1>2. /\ pc[t] = "list" /\ agenda[t] # {} /\ a.date = NoDate /\ pc'[t] = "list"
      /\ work'[t] = work[t] /\ agenda'[t] = (agenda[t] \ {a}) \cup Listed(t, a)
      /\ UNCHANGED <<rows, schema, watermark>>
  BY <1>1 DEF ListDirs, TypeOK
<1>3. a \in agenda[t] /\ IsPlace(a)
  BY <1>2, DDLParts, FirstOfAgenda DEF Scan
<1> HIDE DEF a
<1>4. \A b \in Listed(t, a) : b.version = a.version
  BY <1>1, <1>2, <1>3, ListedFacts, TypeParts DEF Within
<1>5. /\ Complete(VersionsOf(t), mem.checkpoint, watermark[t], work[t], agenda[t])
      /\ Executed(mem.checkpoint, watermark[t], schema[t], work[t])
  BY <1>2, DDLParts DEF DDLIsTrue
<1>6. Complete(VersionsOf(t), mem.checkpoint, watermark[t], work'[t], agenda'[t])
  BY <1>2, <1>3, <1>4, <1>5 DEF Complete
<1> QED BY <1>1, <1>2, <1>5, <1>6, QuietStepKeepsDDLs

LEMMA ReadKeepsDDLs ==
    ASSUME LoaderInv, DDLInv, NEW t \in Tables, ReadIndex(t)
    PROVE  DDLInv'
<1> DEFINE a == First(agenda[t])
           N == NewRange(t, a)
<1>1. TypeOK /\ StepOf(t) /\ OthersStay(t) /\ obj' = obj
  BY UnsavedStepsAreOf DEF LoaderInv
<1>2. /\ pc[t] = "list" /\ agenda[t] # {} /\ pc'[t] = "list"
      /\ work'[t] = work[t] \cup N /\ agenda'[t] = agenda[t] \ {a}
      /\ UNCHANGED <<rows, schema, watermark>>
  BY <1>1 DEF ReadIndex, TypeOK
<1>3. a \in agenda[t]
  BY <1>2, DDLParts, FirstOfAgenda DEF Scan
<1>4. \A n \in N : n.version = a.version
  BY DEF NewRange, FileRange
<1> HIDE DEF a, N
<1>5. /\ Complete(VersionsOf(t), mem.checkpoint, watermark[t], work[t], agenda[t])
      /\ Executed(mem.checkpoint, watermark[t], schema[t], work[t])
  BY <1>2, DDLParts DEF DDLIsTrue
<1>6. Complete(VersionsOf(t), mem.checkpoint, watermark[t], work'[t], agenda'[t])
  BY <1>2, <1>3, <1>4, <1>5 DEF Complete
<1>7. Executed(mem.checkpoint, watermark[t], schema[t], work'[t])
  BY <1>2, <1>5 DEF Executed
<1> QED BY <1>1, <1>2, <1>6, <1>7, QuietStepKeepsDDLs

LEMMA LoadSchemaKeepsDDLs ==
    ASSUME LoaderInv, DDLInv, NEW t \in Tables, LoadSchemaFiles(t)
    PROVE  DDLInv'
<1>1. TypeOK /\ StepOf(t) /\ OthersStay(t) /\ obj' = obj
  BY UnsavedStepsAreOf DEF LoaderInv
<1>2. /\ pc[t] = "list" /\ agenda[t] = {}
      /\ pc'[t] = (IF work[t] = {} THEN "done" ELSE "load")
      /\ work'[t] = work[t] /\ agenda'[t] = agenda[t]
      /\ UNCHANGED <<rows, schema, watermark>>
  BY <1>1 DEF LoadSchemaFiles, TypeOK
<1>3. /\ Complete(VersionsOf(t), mem.checkpoint, watermark[t], work[t], agenda[t])
      /\ Executed(mem.checkpoint, watermark[t], schema[t], work[t])
  BY <1>2, DDLParts DEF DDLIsTrue
<1>4. ASSUME work[t] = {}
      PROVE  Reached(VersionsOf(t), mem.checkpoint, watermark[t], bounds.target)
  <2>1. Scan(TableFiles(t), VersionsOf(t), mem.checkpoint, watermark[t], cursor[t],
             bounds.target, {}, {})
    BY <1>2, <1>4, DDLParts
  <2> QED BY <2>1, EmptyScanIsReached
<1> QED BY <1>1, <1>2, <1>3, <1>4, QuietStepKeepsDDLs

LEMMA SaveCursorsKeepsDDLs ==
    ASSUME LoaderInv, LoaderInv', DDLInv, NEW t \in Tables, SaveCursors(t)
    PROVE  DDLInv'
<1>1. TypeOK /\ StepOf(t) /\ OthersStay(t)
  BY SaveCursorsIsOf DEF LoaderInv
<1>2. /\ pc[t] = "load" /\ work[t] = {} /\ pc'[t] = "done"
      /\ UNCHANGED <<rows, schema, watermark>>
  BY <1>1 DEF SaveCursors, TypeOK
<1>3. Reached(VersionsOf(t), mem.checkpoint, watermark[t], bounds.target)
  BY <1>2, DDLParts, EmptyScanIsReached
<1>4. obj'.tables[t].watermark = watermark[t]
  BY <1>2 DEF LoaderInv, Agreement, ScanIsTrue
<1>5. DDLIsTrue(t) /\ SameStore(t) /\ DDLs(t)' = DDLs(t) /\ bounds' = bounds
      /\ mem'.checkpoint = mem.checkpoint
  BY <1>1, DDLParts, OwnStore
<1>6. DDLIsTrue(t)'
  BY <1>2, <1>3, <1>4, <1>5 DEF DDLIsTrue, SameStore
<1> QED BY <1>1, <1>6, DDLStepKeeps

\* A DDL at the head of the work.
LEMMA SchemaIsNext ==
    ASSUME LoaderInv, DDLInv, NEW t \in Tables, AtSchema(t) \/ pc[t] = "watermark"
    PROVE  /\ pc[t] \in {"load", "watermark"} /\ agenda[t] = {} /\ Current(t) = First(work[t])
           /\ work[t] # {} /\ IsSchemaRange(First(work[t]))
           /\ Scan(TableFiles(t), VersionsOf(t), mem.checkpoint, watermark[t], cursor[t],
                   bounds.target, work[t], {})
           /\ Complete(VersionsOf(t), mem.checkpoint, watermark[t], work[t], {})
           /\ Executed(mem.checkpoint, watermark[t], schema[t], work[t])
<1>1. pc[t] \in {"load", "watermark"} /\ work[t] # {} /\ IsSchemaRange(First(work[t]))
  BY DEF LoaderInv, ScanIsTrue, AtSchema, Loading, Current
<1> QED BY <1>1, DDLParts DEF DDLIsTrue, Current

LEMMA ExecKeepsDDLs ==
    ASSUME LoaderInv, DDLInv, NEW t \in Tables, ExecDDL(t)
    PROVE  DDLInv' /\ schema[t] <= schema'[t]
<1> DEFINE v == Current(t).version
<1>1. TypeOK /\ StepOf(t) /\ OthersStay(t) /\ obj' = obj
  BY UnsavedStepsAreOf DEF LoaderInv
<1>2. /\ AtSchema(t) /\ KindOf(t, v) # "none" /\ schema'[t] = v /\ pc'[t] = "watermark"
      /\ UNCHANGED <<rows, watermark, work, agenda>>
  BY <1>1 DEF ExecDDL, TypeOK
<1>3. /\ pc[t] \in {"load", "watermark"} /\ agenda[t] = {} /\ v = First(work[t]).version
      /\ work[t] # {} /\ IsSchemaRange(First(work[t]))
      /\ Scan(TableFiles(t), VersionsOf(t), mem.checkpoint, watermark[t], cursor[t],
              bounds.target, work[t], {})
      /\ Complete(VersionsOf(t), mem.checkpoint, watermark[t], work[t], {})
  BY <1>2, SchemaIsNext
<1>4. v \in DDLs(t)
  BY <1>2, <1>3, DDLParts, FirstIsAhead DEF DDLs
<1>5. /\ DDLIsTrue(t) /\ SameStore(t) /\ DDLs(t)' = DDLs(t) /\ bounds' = bounds
      /\ mem'.checkpoint = mem.checkpoint /\ obj.tables[t].watermark = watermark[t]
  BY <1>1, <1>3, DDLParts, OwnStore
<1>6. /\ schema[t] <= v
      /\ Origin(TableFiles(t), DDLs(t), v, rows[t])
      /\ Applied(VersionsOf(t), DDLs(t), mem.checkpoint, watermark[t], v, rows[t])
      /\ Executed(mem.checkpoint, watermark[t], v, work[t])
  BY <1>3, <1>4, <1>5, DDLParts, ExecIsInOrder DEF DDLIsTrue
<1> HIDE DEF v
<1>7. DDLIsTrue(t)'
  BY <1>1, <1>2, <1>3, <1>5, <1>6 DEF DDLIsTrue, SameStore
<1> QED BY <1>1, <1>2, <1>6, <1>7, DDLStepKeeps

\* What a saved watermark makes true, whether or not the loader learns of it.
LEMMA WatermarkIsApplied ==
    ASSUME LoaderInv, DDLInv, NEW t \in Tables, NeedsWatermark(t)
    PROVE  /\ Applied(VersionsOf(t), DDLs(t), mem.checkpoint, Current(t).version, schema[t], rows[t])
           /\ Complete(VersionsOf(t), mem.checkpoint, Current(t).version, work[t] \ {Current(t)}, {})
           /\ Executed(mem.checkpoint, Current(t).version, schema[t], work[t] \ {Current(t)})
           /\ agenda[t] = {}
<1>1. AtSchema(t) \/ pc[t] = "watermark"
  BY DEF NeedsWatermark
<1>2. /\ agenda[t] = {} /\ Current(t) = First(work[t])
      /\ work[t] # {} /\ IsSchemaRange(First(work[t]))
      /\ Scan(TableFiles(t), VersionsOf(t), mem.checkpoint, watermark[t], cursor[t],
              bounds.target, work[t], {})
      /\ Complete(VersionsOf(t), mem.checkpoint, watermark[t], work[t], {})
      /\ Executed(mem.checkpoint, watermark[t], schema[t], work[t])
  BY <1>1, SchemaIsNext
<1>3. First(work[t]).version \in DDLs(t) => schema[t] = First(work[t]).version
  BY <1>2, DDLParts DEF NeedsWatermark, DDLs, DDLIsTrue
<1>4. Applied(VersionsOf(t), DDLs(t), mem.checkpoint, watermark[t], schema[t], rows[t])
  BY DDLParts DEF DDLIsTrue
<1> DEFINE r == First(work[t])
<1>5. /\ Store(TableFiles(t), VersionsOf(t), Changes(t)) /\ DDLs(t) \subseteq VersionsOf(t)
      /\ mem.checkpoint \in Nat /\ watermark[t] \in Nat /\ schema[t] \in Nat
  BY DDLParts
<1>6. /\ Applied(VersionsOf(t), DDLs(t), mem.checkpoint, r.version, schema[t], rows[t])
      /\ Complete(VersionsOf(t), mem.checkpoint, r.version, work[t] \ {r}, {})
      /\ Executed(mem.checkpoint, r.version, schema[t], work[t] \ {r})
  BY <1>2, <1>3, <1>4, <1>5, WatermarkKeepsDDLs
<1> QED BY <1>2, <1>6

LEMMA SaveWatermarkKeepsDDLs ==
    ASSUME LoaderInv, DDLInv, NEW t \in Tables, SaveWatermark(t)
    PROVE  DDLInv'
<1> DEFINE v == Current(t).version
           W == work[t] \ {Current(t)}
<1>1. /\ TypeOK /\ StepOf(t) /\ OthersStay(t)
      /\ watermark'[t] = v /\ obj'.tables[t].watermark = v
  BY SaveWatermarkIsOf DEF LoaderInv
<1>2. /\ NeedsWatermark(t) /\ pc'[t] = "load" /\ work'[t] = W
      /\ UNCHANGED <<rows, schema, agenda>>
  BY <1>1 DEF SaveWatermark, Rest, TypeOK
<1>3. /\ Applied(VersionsOf(t), DDLs(t), mem.checkpoint, v, schema[t], rows[t])
      /\ Complete(VersionsOf(t), mem.checkpoint, v, W, {})
      /\ Executed(mem.checkpoint, v, schema[t], W)
      /\ agenda[t] = {}
  BY <1>2, WatermarkIsApplied
<1>4. /\ DDLIsTrue(t) /\ SameStore(t) /\ DDLs(t)' = DDLs(t) /\ bounds' = bounds
      /\ mem'.checkpoint = mem.checkpoint
  BY <1>1, DDLParts, OwnStore
<1> HIDE DEF v, W
<1>5. DDLIsTrue(t)'
  BY <1>1, <1>2, <1>3, <1>4 DEF DDLIsTrue, SameStore
<1> QED BY <1>1, <1>5, DDLStepKeeps

LEMMA FailKeepsDDLs ==
    ASSUME LoaderInv, DDLInv, NEW t \in Tables, Fail(t) \/ RejectDDL(t) \/ FailAfterSave(t)
    PROVE  DDLInv'
<1>1. TypeOK
  BY DEF LoaderInv
<1>2. pc'[t] = "failed" /\ UNCHANGED <<rows, schema, watermark>>
  BY <1>1 DEF Fail, RejectDDL, FailAfterSave, TypeOK
<1>3. CASE Fail(t) \/ RejectDDL(t)
  BY <1>2, <1>3, UnsavedStepsAreOf, QuietStepKeepsDDLs
<1>4. CASE FailAfterSave(t)
  <2>1. /\ StepOf(t) /\ OthersStay(t)
        /\ \/ obj'.tables[t].watermark = watermark[t]
           \/ NeedsWatermark(t) /\ obj'.tables[t].watermark = Current(t).version
    BY <1>4, FailAfterSaveIsOf
  <2>2. /\ DDLIsTrue(t) /\ SameStore(t) /\ DDLs(t)' = DDLs(t)
        /\ mem'.checkpoint = mem.checkpoint
    BY <2>1, DDLParts, OwnStore
  <2>3. Applied(VersionsOf(t), DDLs(t), mem.checkpoint, obj'.tables[t].watermark, schema[t], rows[t])
    BY <2>1, <2>2, WatermarkIsApplied DEF DDLIsTrue
  <2>4. DDLIsTrue(t)'
    BY <1>2, <2>2, <2>3 DEF DDLIsTrue, SameStore
  <2> QED BY <2>1, <2>4, DDLStepKeeps
<1> QED BY <1>3, <1>4

LEMMA MergeFileKeepsDDLs ==
    ASSUME LoaderInv, DDLInv, NEW t \in Tables, MergeFile(t)
    PROVE  DDLInv'
<1> DEFINE r == Current(t)
           row == Merged(t, r)
           N == IF r.start = r.end THEN {} ELSE {[r EXCEPT !.start = r.start + 1]}
           W == (work[t] \ {r}) \cup N
<1>1. TypeOK /\ StepOf(t) /\ OthersStay(t) /\ obj' = obj
  BY UnsavedStepsAreOf DEF LoaderInv
<1>2. /\ pc[t] = "load" /\ pc'[t] = "load" /\ work[t] # {} /\ ~IsSchemaRange(r)
      /\ rows'[t] = row /\ work'[t] = W
      /\ UNCHANGED <<schema, watermark, agenda>>
  BY <1>1 DEF MergeFile, AtFile, Loading, TypeOK
<1>3. /\ agenda[t] = {} /\ DDLIsTrue(t) /\ r = First(work[t])
      /\ Scan(TableFiles(t), VersionsOf(t), mem.checkpoint, watermark[t], cursor[t],
              bounds.target, work[t], {})
      /\ obj.tables[t].watermark = watermark[t]
  BY <1>2, DDLParts DEF Current
<1>4. /\ row \in [Keys -> Nat]
      /\ MergedFrom(TableFiles(t), Changes(t), mem.checkpoint, r, rows[t], row)
  BY <1>2, MergedFacts
<1>5. \A n \in N : n.version = r.version
  <2>1. r \in work[t] /\ IsRange(r)
    BY <1>2, <1>3, FirstOfWork DEF Scan
  <2>2. \A k : [r EXCEPT !.start = k].version = r.version
    BY <2>1 DEF IsRange, IsFileRange, SchemaRange
  <2> QED BY <2>2
<1>a. /\ Store(TableFiles(t), VersionsOf(t), Changes(t)) /\ rows[t] \in [Keys -> Nat]
      /\ mem.checkpoint \in Nat /\ watermark[t] \in Nat /\ schema[t] \in Nat
  BY DDLParts
<1> HIDE DEF r, row, N
<1>6. /\ Complete(VersionsOf(t), mem.checkpoint, watermark[t], work[t], {})
      /\ Executed(mem.checkpoint, watermark[t], schema[t], work[t])
      /\ Origin(TableFiles(t), DDLs(t), schema[t], rows[t])
      /\ Applied(VersionsOf(t), DDLs(t), mem.checkpoint, watermark[t], schema[t], rows[t])
  BY <1>2, <1>3 DEF DDLIsTrue
<1>7. /\ Origin(TableFiles(t), DDLs(t), schema[t], row)
      /\ Applied(VersionsOf(t), DDLs(t), mem.checkpoint, watermark[t], schema[t], row)
      /\ Complete(VersionsOf(t), mem.checkpoint, watermark[t], W, {})
      /\ Executed(mem.checkpoint, watermark[t], schema[t], W)
  <2> DEFINE q == First(work[t])
  <2>1. /\ ~IsSchemaRange(q) /\ (\A n \in N : n.version = q.version)
        /\ MergedFrom(TableFiles(t), Changes(t), mem.checkpoint, q, rows[t], row)
        /\ W = (work[t] \ {q}) \cup N
    BY <1>2, <1>3, <1>4, <1>5
  <2>2. /\ Origin(TableFiles(t), DDLs(t), schema[t], row)
        /\ Applied(VersionsOf(t), DDLs(t), mem.checkpoint, watermark[t], schema[t], row)
        /\ Complete(VersionsOf(t), mem.checkpoint, watermark[t], (work[t] \ {q}) \cup N, {})
        /\ Executed(mem.checkpoint, watermark[t], schema[t], (work[t] \ {q}) \cup N)
    BY <1>2, <1>3, <1>4, <1>6, <1>a, <2>1, MergeKeepsDDLs
  <2> QED BY <2>1, <2>2
<1> HIDE DEF W
<1>8. /\ SameStore(t) /\ DDLs(t)' = DDLs(t) /\ bounds' = bounds
      /\ mem'.checkpoint = mem.checkpoint
  BY <1>1, OwnStore
<1>9. DDLIsTrue(t)'
  BY <1>1, <1>2, <1>3, <1>7, <1>8 DEF DDLIsTrue, SameStore
<1> QED BY <1>1, <1>9, DDLStepKeeps

----------------------------------------------------------------------------
(***************************************************************************)
(* The changefeed, the beginning and the end of a scan, a new process.     *)
(***************************************************************************)
LEMMA ChangefeedKeepsDDLs ==
    ASSUME LoaderInv, DDLInv, ChangefeedStep, SinkInv'
    PROVE  DDLInv'
<1>1. /\ SinkInv /\ Agreement /\ SinkNext
      /\ UNCHANGED <<rows, schema, obj, mem, bounds, pc, watermark, agenda, work>>
  BY DEF LoaderInv, ChangefeedStep, Quiet, loaderVars
<1>2. ASSUME NEW t \in Tables PROVE KindsAreLogged(t)' /\ schemas[t] \subseteq schemas'[t]
  BY <1>1, SchemasGrow DEF DDLInv
<1>3. ASSUME NEW t \in Tables PROVE DDLIsTrue(t)'
  <2> DEFINE ck == mem.checkpoint
             w == watermark[t]
  <2>1. Grown(TableFiles(t), VersionsOf(t), Changes(t), TableFiles(t)', VersionsOf(t)',
              Changes(t)', tso, metadata)
    BY <1>1, StoreIsGrown
  <2>2. \A v \in VersionsOf(t) : v \in DDLs(t)' <=> v \in DDLs(t)
    BY <1>1, <1>2, DDLsStay DEF DDLInv
  <2>3. DDLs(t)' \subseteq VersionsOf(t)' /\ DDLs(t) \subseteq VersionsOf(t)
    BY DEF DDLs
  <2>4. \A f \in TableFiles(t)' : \A x \in f.rows : \A v \in VersionsOf(t)' : f.version < v => x.ts < v
    BY DEF SinkInv, FilesAreVersioned
  <2>5. /\ ck \in Nat /\ SnapshotTS <= ck /\ (ck <= metadata \/ ck = SnapshotTS)
        /\ w \in Nat /\ schema[t] \in Nat /\ rows[t] \in [Keys -> Nat]
        /\ bounds.target \in Nat /\ DDLIsTrue(t)
    BY <1>1, DDLParts DEF Agreement
  <2>6. /\ w # 0 => w \in VersionsOf(t)
        /\ obj.tables[t].watermark # 0 => obj.tables[t].watermark \in VersionsOf(t)
        /\ obj.tables[t].watermark \in Nat
    BY <1>1, StateParts DEF LoaderInv, TypeOK, ProgressIsTrue, SavedIsTrue, IsVersion, Agreement
  <2> HIDE DEF ck, w
  <2>7. Origin(TableFiles(t), DDLs(t), schema[t], rows[t])
    BY <2>5 DEF DDLIsTrue
  <2>8. /\ Origin(TableFiles(t)', DDLs(t)', schema[t], rows[t])
        /\ \A n \in Nat : (n # 0 => n \in VersionsOf(t))
                          /\ Applied(VersionsOf(t), DDLs(t), ck, n, schema[t], rows[t]) =>
               Applied(VersionsOf(t)', DDLs(t)', ck, n, schema[t], rows[t])
    BY <2>1, <2>2, <2>3, <2>4, <2>5, <2>7, GrownKeepsDDLs
  <2>9. /\ Applied(VersionsOf(t)', DDLs(t)', ck, w, schema[t], rows[t])
        /\ Applied(VersionsOf(t)', DDLs(t)', ck, obj.tables[t].watermark, schema[t], rows[t])
    BY <2>5, <2>6, <2>8 DEF DDLIsTrue, ck, w
  <2>10. ASSUME pc[t] \in {"list", "load", "watermark"}
         PROVE  Complete(VersionsOf(t)', ck, w, work[t], agenda[t])
    <3>1. /\ Scan(TableFiles(t), VersionsOf(t), ck, w, cursor[t], bounds.target, work[t], agenda[t])
          /\ Complete(VersionsOf(t), ck, w, work[t], agenda[t])
      BY <2>10, DDLParts DEF DDLIsTrue, ck, w
    <3> QED BY <2>1, <2>5, <3>1, GrownKeepsComplete
  <2>11. ASSUME pc[t] = "done" PROVE Reached(VersionsOf(t)', ck, w, bounds.target)
    <3>1. bounds.target <= metadata /\ Reached(VersionsOf(t), ck, w, bounds.target)
      BY <2>5, <2>11, ScanBounds DEF DDLIsTrue, ck, w
    <3> QED BY <2>1, <2>5, <3>1, GrownKeepsComplete
  <2> QED BY <1>1, <2>5, <2>8, <2>9, <2>10, <2>11 DEF DDLIsTrue, ck, w
<1> QED BY <1>1, <1>2, <1>3 DEF DDLInv

LEMMA BeginKeepsDDLs ==
    ASSUME LoaderInv, DDLInv, BeginScan
    PROVE  DDLInv'
<1>1. /\ UNCHANGED <<sinkVars, rows, schema, obj, mem, watermark>>
      /\ SinkInv /\ pc' = [t \in Tables |-> "walk"]
  BY DEF BeginScan, LoaderInv
<1>2. (\A t \in Tables : SameStore(t)) /\ schemas' = schemas /\ log' = log
  BY <1>1, StoreStays DEF sinkVars
<1>3. \A t \in Tables : KindsAreLogged(t)' /\ DDLs(t)' = DDLs(t)
  BY <1>2 DEF DDLInv, KindsAreLogged, DDLs, KindOf, VersionsOf
<1>4. ASSUME NEW t \in Tables PROVE DDLIsTrue(t)'
  <2>1. DDLIsTrue(t)
    BY DEF DDLInv
  <2> QED BY <1>1, <1>2, <1>3, <2>1 DEF DDLIsTrue, SameStore
<1> QED BY <1>1, <1>3, <1>4 DEF DDLInv

LEMMA FinishScanKeepsDDLs ==
    ASSUME LoaderInv, DDLInv, FinishScan
    PROVE  DDLInv'
<1>1. /\ UNCHANGED <<sinkVars, rows, schema, watermark>> /\ scanning
      /\ SinkInv /\ pc' = [t \in Tables |-> "idle"] /\ \A t \in Tables : pc[t] = "done"
      /\ mem \in State /\ bounds.target \in Nat /\ mem.checkpoint < bounds.target
      /\ mem.checkpoint \in Nat
  BY StateParts DEF FinishScan, LoaderInv, TypeOK, Agreement, State
<1>2. (\A t \in Tables : SameStore(t)) /\ schemas' = schemas /\ log' = log
  BY <1>1, StoreStays DEF sinkVars
<1>3. \A t \in Tables : KindsAreLogged(t)' /\ DDLs(t)' = DDLs(t)
  BY <1>2 DEF DDLInv, KindsAreLogged, DDLs, KindOf, VersionsOf
<1>4. PICK next \in SetCheckpointTS(mem, bounds.target) : mem' = next /\ obj' = next
  BY DEF FinishScan, Saved
<1>5. mem'.checkpoint = bounds.target /\ obj'.tables = mem.tables
  BY <1>1, <1>4, SetCheckpointFacts
<1>6. ASSUME NEW t \in Tables PROVE DDLIsTrue(t)'
  <2>1. /\ DDLIsTrue(t) /\ VersionsOf(t) \in SUBSET Nat /\ DDLs(t) \subseteq VersionsOf(t)
        /\ watermark[t] \in Nat /\ obj'.tables[t].watermark = watermark[t]
    BY <1>5, DDLParts DEF LoaderInv, Agreement
  <2>2. /\ Applied(VersionsOf(t), DDLs(t), mem.checkpoint, watermark[t], schema[t], rows[t])
        /\ Reached(VersionsOf(t), mem.checkpoint, watermark[t], bounds.target)
        /\ mem.checkpoint <= bounds.target
    BY <1>1, <2>1 DEF DDLIsTrue
  <2>3. Applied(VersionsOf(t), DDLs(t), bounds.target, watermark[t], schema[t], rows[t])
    BY <1>1, <2>1, <2>2, FinishKeepsDDLs
  <2> QED BY <1>1, <1>2, <1>3, <1>5, <2>1, <2>3 DEF DDLIsTrue, SameStore
<1>7. SnapshotTS <= mem'.checkpoint
  BY <1>1, <1>5, SinkAssumption DEF DDLInv
<1> QED BY <1>3, <1>6, <1>7 DEF DDLInv

LEMMA NewProcessKeepsDDLs ==
    ASSUME LoaderInv, DDLInv, NewLoader(obj), UNCHANGED <<sinkVars, rows, schema, obj>>
    PROVE  DDLInv'
<1>1. /\ SinkInv /\ mem' = obj /\ obj.checkpoint = mem.checkpoint
      /\ pc' = [t \in Tables |-> "idle"]
      /\ watermark' = [t \in Tables |-> obj.tables[t].watermark]
  BY DEF NewLoader, LoaderInv, Agreement
<1>2. (\A t \in Tables : SameStore(t)) /\ schemas' = schemas /\ log' = log
  BY <1>1, StoreStays DEF sinkVars
<1>3. \A t \in Tables : KindsAreLogged(t)' /\ DDLs(t)' = DDLs(t)
  BY <1>2 DEF DDLInv, KindsAreLogged, DDLs, KindOf, VersionsOf
<1>4. ASSUME NEW t \in Tables PROVE DDLIsTrue(t)'
  <2>1. DDLIsTrue(t)
    BY DEF DDLInv
  <2> QED BY <1>1, <1>2, <1>3, <2>1 DEF DDLIsTrue, SameStore
<1> QED BY <1>1, <1>3, <1>4 DEF DDLInv

LEMMA InitDDLs == Init => DDLInv
<1> SUFFICES ASSUME Init PROVE DDLInv
  OBVIOUS
<1>1. /\ SinkInv /\ SnapshotTS \in Nat /\ InitVersion \in Nat
      /\ schemas = [t \in Tables |-> {}]
  BY InitialSink, SinkAssumption DEF Init, SinkInit
<1>2. /\ mem = InitState /\ InitState.checkpoint = SnapshotTS
  BY DEF Init, InitState, NewState
<1>3. ASSUME NEW t \in Tables PROVE KindsAreLogged(t) /\ DDLIsTrue(t)
  <2>1. KindsAreLogged(t) /\ VersionsOf(t) = {} /\ DDLs(t) = {}
    BY <1>1 DEF KindsAreLogged, VersionsOf, DDLs
  <2>2. /\ schema[t] = InitVersion /\ pc[t] = "idle"
        /\ rows[t] = [k \in Keys |-> LatestAt(t, k, SnapshotTS)]
    BY DEF Init
  <2>3. ASSUME NEW k \in Keys PROVE rows[t][k] <= SnapshotTS
    <3>1. /\ LatestAt(t, k, SnapshotTS) \in Nat
          /\ \/ LatestAt(t, k, SnapshotTS) = 0
             \/ \E x \in Changes(t) : /\ x.key = k /\ x.ts = LatestAt(t, k, SnapshotTS)
                                      /\ x.ts <= SnapshotTS
      BY <1>1, LatestFacts
    <3> QED BY <1>1, <2>2, <3>1
  <2>4. Origin(TableFiles(t), DDLs(t), schema[t], rows[t])
    BY <1>1, <2>2, <2>3 DEF Origin
  <2>5. \A w : Applied({}, {}, mem.checkpoint, w, schema[t], rows[t])
    BY DEF Applied
  <2> QED BY <2>1, <2>2, <2>4, <2>5 DEF DDLIsTrue
<1> QED BY <1>1, <1>2, <1>3 DEF DDLInv

LEMMA StutterKeepsDDLs ==
    ASSUME LoaderInv, DDLInv, UNCHANGED vars
    PROVE  DDLInv'
<1>1. /\ UNCHANGED <<sinkVars, rows, schema, obj, mem, bounds, pc, watermark, agenda, work>>
      /\ SinkInv
  BY DEF vars, loaderVars, LoaderInv
<1>2. (\A t \in Tables : SameStore(t)) /\ schemas' = schemas /\ log' = log
  BY <1>1, StoreStays DEF sinkVars
<1>3. \A t \in Tables : KindsAreLogged(t)' /\ DDLs(t)' = DDLs(t)
  BY <1>2 DEF DDLInv, KindsAreLogged, DDLs, KindOf, VersionsOf
<1>4. ASSUME NEW t \in Tables PROVE DDLIsTrue(t)'
  <2>1. DDLIsTrue(t)
    BY DEF DDLInv
  <2> QED BY <1>1, <1>2, <1>3, <2>1 DEF DDLIsTrue, SameStore
<1> QED BY <1>1, <1>3, <1>4 DEF DDLInv

LEMMA NextKeepsDDLs ==
    ASSUME LoaderInv, LoaderInv', DDLInv, [Next]_vars
    PROVE  DDLInv'
<1>1. CASE ChangefeedStep
  BY <1>1, ChangefeedKeepsDDLs DEF LoaderInv
<1>2. ASSUME NEW t \in Tables, TableStep(t) PROVE DDLInv'
  BY <1>2, WalkKeepsDDLs, ListKeepsDDLs, ReadKeepsDDLs, LoadSchemaKeepsDDLs, ExecKeepsDDLs,
     FailKeepsDDLs, SaveWatermarkKeepsDDLs, MergeFileKeepsDDLs, SaveCursorsKeepsDDLs DEF TableStep
<1>3. ASSUME NEW t \in Tables, Fail(t) \/ FailAfterSave(t) PROVE DDLInv'
  BY <1>3, FailKeepsDDLs
<1>4. CASE Exit \/ Crash
  BY <1>4, NewProcessKeepsDDLs DEF Exit, Crash
<1>5. CASE UNCHANGED vars
  BY <1>5, StutterKeepsDDLs
<1> QED BY <1>1, <1>2, <1>3, <1>4, <1>5, BeginKeepsDDLs, FinishScanKeepsDDLs DEF Next, LoaderNext

----------------------------------------------------------------------------
(***************************************************************************)
(* The version whose columns a DDL is translated with.                     *)
(***************************************************************************)
MetaIsTrue(t) ==
    /\ pc[t] \notin {"watermark", "failed"} => meta[t] = 0 \/ (watermark[t] # 0 /\ meta[t] = watermark[t])
    /\ pc[t] = "load" /\ watermark[t] # 0 /\ (\E r \in work[t] : IsSchemaRange(r)) =>
          meta[t] = watermark[t]

MetaInv == \A t \in Tables : MetaIsTrue(t)

LEMMA MetaStepKeeps ==
    ASSUME MetaInv, NEW t \in Tables, StepOf(t), OthersStay(t), MetaIsTrue(t)'
    PROVE  MetaInv'
BY DEF MetaInv, MetaIsTrue, StepOf, OthersStay, SameTable

LEMMA LoadSchemaKeepsMeta ==
    ASSUME LoaderInv, MetaInv, NEW t \in Tables, LoadSchemaFiles(t)
    PROVE  MetaIsTrue(t)'
<1>1. TypeOK /\ ScanIsTrue(t) /\ MetaIsTrue(t) /\ watermark[t] \in Nat /\ paths[t] \in SUBSET Nat
  BY TypeParts DEF LoaderInv, MetaInv
<1>2. /\ pc[t] = "list" /\ agenda[t] = {}
      /\ pc'[t] = (IF work[t] = {} THEN "done" ELSE "load")
      /\ meta'[t] = (IF RebuildsMeta(t) THEN Baseline(t) ELSE meta[t])
      /\ work'[t] = work[t] /\ watermark' = watermark
  BY <1>1 DEF LoadSchemaFiles, TypeOK
<1>3. ASSUME RebuildsMeta(t) PROVE Baseline(t) = watermark[t] /\ watermark[t] # 0
  <2> DEFINE S == {v \in paths[t] : v <= watermark[t]}
  <2>1. watermark[t] # 0 /\ watermark[t] \in S /\ S \in SUBSET Nat
    BY <1>1, <1>2, <1>3 DEF ScanIsTrue, RebuildsMeta
  <2>2. \A v \in S : v <= watermark[t]
    OBVIOUS
  <2> HIDE DEF S
  <2>3. MaxOf(S) \in S /\ \A v \in S : v <= MaxOf(S)
    BY <1>1, <2>1, <2>2, MaxOfFacts
  <2>4. MaxOf(S) = watermark[t]
    <3>1. MaxOf(S) \in Nat /\ MaxOf(S) <= watermark[t] /\ watermark[t] <= MaxOf(S)
      BY <2>1, <2>2, <2>3
    <3> QED BY <1>1, <3>1
  <2> QED BY <2>1, <2>4 DEF Baseline, S
<1>4. ASSUME NEW r \in work[t], IsSchemaRange(r) PROVE r.version > watermark[t]
  <2>1. RangesAreAhead(TableFiles(t), VersionsOf(t), mem.checkpoint, watermark[t], cursor[t], work[t])
    BY <1>1, <1>2 DEF ScanIsTrue, Scan
  <2>2. watermark[t] < r.version
    BY <1>4, <2>1 DEF RangesAreAhead
  <2> QED BY <2>2
<1>5. ASSUME watermark[t] # 0, NEW r \in work[t], IsSchemaRange(r), meta[t] = 0
      PROVE  RebuildsMeta(t)
  BY <1>4, <1>5 DEF RebuildsMeta
<1> QED BY <1>1, <1>2, <1>3, <1>5 DEF MetaIsTrue

LEMMA NextKeepsMeta ==
    ASSUME LoaderInv, MetaInv, [Next]_vars
    PROVE  MetaInv'
<1>1. TypeOK
  BY DEF LoaderInv
<1>2. CASE ChangefeedStep \/ UNCHANGED vars
  <2>1. UNCHANGED <<pc, meta, watermark, work>>
    BY <1>2 DEF ChangefeedStep, Quiet, vars, loaderVars
  <2> QED BY <2>1 DEF MetaInv, MetaIsTrue
<1>3. ASSUME NEW t \in Tables,
             WalkSchemas(t) \/ ListDirs(t) \/ ReadIndex(t) \/ ExecDDL(t) \/ RejectDDL(t) \/ Fail(t)
      PROVE  MetaInv'
  <2>1. MetaIsTrue(t)
    BY DEF MetaInv
  <2>2. \/ /\ pc[t] \in {"walk", "list"} /\ pc'[t] = "list" /\ meta' = meta /\ watermark' = watermark
        \/ pc'[t] \in {"watermark", "failed"}
    BY <1>1, <1>3 DEF WalkSchemas, ListDirs, ReadIndex, ExecDDL, RejectDDL, Fail, TypeOK
  <2>3. MetaIsTrue(t)'
    BY <2>1, <2>2 DEF MetaIsTrue
  <2> QED BY <1>3, <2>3, UnsavedStepsAreOf, MetaStepKeeps
<1>4. ASSUME NEW t \in Tables, LoadSchemaFiles(t) PROVE MetaInv'
  BY <1>4, LoadSchemaKeepsMeta, UnsavedStepsAreOf, MetaStepKeeps
<1>5. ASSUME NEW t \in Tables, MergeFile(t) PROVE MetaInv'
  <2> DEFINE r == Current(t)
  <2>1. /\ pc[t] = "load" /\ pc' = pc /\ meta' = meta /\ watermark' = watermark /\ ~IsSchemaRange(r)
        /\ work'[t] = (work[t] \ {r}) \cup
               IF r.start = r.end THEN {} ELSE {[r EXCEPT !.start = r.start + 1]}
    BY <1>1, <1>5 DEF MergeFile, AtFile, Loading, TypeOK
  <2>2. ~IsSchemaRange([r EXCEPT !.start = r.start + 1])
    <3>1. r \in Ranges
      <4>1. work[t] # {} /\ Scan(TableFiles(t), VersionsOf(t), mem.checkpoint, watermark[t], cursor[t],
                 bounds.target, work[t], agenda[t])
        BY <1>5, <2>1 DEF MergeFile, AtFile, Loading, LoaderInv, ScanIsTrue
      <4>2. r \in work[t]
        BY <4>1, FirstOfWork DEF Scan, Current
      <4> QED BY <1>1, <4>2 DEF TypeOK
    <3> QED BY <2>1, <3>1 DEF IsSchemaRange, Ranges
  <2> HIDE DEF r
  <2>3. \A q \in work'[t] : IsSchemaRange(q) => q \in work[t]
    BY <2>1, <2>2
  <2>4. MetaIsTrue(t)
    BY DEF MetaInv
  <2>5. MetaIsTrue(t)'
    BY <2>1, <2>3, <2>4 DEF MetaIsTrue
  <2> QED BY <1>5, <2>5, UnsavedStepsAreOf, MetaStepKeeps
<1>6. ASSUME NEW t \in Tables, SaveWatermark(t) PROVE MetaInv'
  <2>1. watermark'[t] = Current(t).version /\ meta'[t] = Current(t).version
    BY <1>1, <1>6 DEF SaveWatermark, TypeOK
  <2>2. watermark'[t] # 0
    <3>1. watermark[t] \in Nat /\ Current(t).version \in Nat /\ watermark[t] < Current(t).version
      BY <1>1, <1>6, WatermarkIsReady, TypeParts DEF SaveWatermark
    <3> QED BY <2>1, <3>1
  <2>3. MetaIsTrue(t)'
    BY <2>1, <2>2 DEF MetaIsTrue
  <2> QED BY <1>6, <2>3, SaveWatermarkIsOf, MetaStepKeeps
<1>7. ASSUME NEW t \in Tables, SaveCursors(t) PROVE MetaInv'
  <2>1. pc[t] = "load" /\ pc'[t] = "done" /\ meta' = meta /\ watermark' = watermark
    BY <1>1, <1>7 DEF SaveCursors, TypeOK
  <2>2. MetaIsTrue(t)'
    BY <2>1 DEF MetaInv, MetaIsTrue
  <2> QED BY <1>7, <2>2, SaveCursorsIsOf, MetaStepKeeps
<1>8. ASSUME NEW t \in Tables, FailAfterSave(t) PROVE MetaInv'
  <2>1. pc'[t] = "failed"
    BY <1>1, <1>8 DEF FailAfterSave, TypeOK
  <2>2. MetaIsTrue(t)'
    BY <2>1 DEF MetaIsTrue
  <2> QED BY <1>8, <2>2, FailAfterSaveIsOf, MetaStepKeeps
<1>9. CASE BeginScan
  <2>1. \A t \in Tables : pc[t] = "idle" /\ pc'[t] = "walk"
    BY <1>9 DEF BeginScan, LoaderInv, Agreement
  <2> QED BY <1>9, <2>1 DEF BeginScan, MetaInv, MetaIsTrue
<1>10. CASE FinishScan
  BY <1>10 DEF FinishScan, MetaInv, MetaIsTrue
<1>11. CASE Exit \/ Crash
  BY <1>11 DEF Exit, Crash, NewLoader, MetaInv, MetaIsTrue
<1> QED BY <1>2, <1>3, <1>4, <1>5, <1>6, <1>7, <1>8, <1>9, <1>10, <1>11 DEF Next, LoaderNext, TableStep

----------------------------------------------------------------------------
LEMMA DDLInvariance ==
    ASSUME DDLBarrier \/ MaxRestarts = 0
    PROVE  Spec => [](LoaderInv /\ DDLInv /\ MetaInv)
<1>1. Init => LoaderInv /\ DDLInv /\ MetaInv
  <2>1. Init => MetaInv
    BY DEF Init, MetaInv, MetaIsTrue
  <2> QED BY <2>1, InitInv, InitDDLs
<1>2. LoaderInv /\ DDLInv /\ MetaInv /\ [Next]_vars => (LoaderInv /\ DDLInv /\ MetaInv)'
  BY NextInv, NextKeepsDDLs, NextKeepsMeta
<1> QED BY <1>1, <1>2, PTL DEF Spec

\* What SchemaAt stands for.
LEMMA SchemaAtFacts ==
    ASSUME LoaderInv, DDLInv, NEW t \in Tables, NEW ts \in Nat
    PROVE  /\ SchemaAt(t, ts) \in Nat /\ InitVersion <= SchemaAt(t, ts)
           /\ \A v \in DDLs(t) : v <= ts => v <= SchemaAt(t, ts)
           /\ \/ SchemaAt(t, ts) = InitVersion
              \/ SchemaAt(t, ts) \in DDLs(t) /\ SchemaAt(t, ts) <= ts
<1> DEFINE S == {InitVersion} \cup {v \in VersionsOf(t) : v <= ts /\ KindOf(t, v) # "none"}
<1>1. /\ VersionsOf(t) \in SUBSET Nat /\ InitVersion \in Nat /\ tso \in Nat
      /\ \A v \in VersionsOf(t) : v <= tso
      /\ InitVersion <= tso
  BY EventParts, SinkAssumption DEF LoaderInv, SinkInv, SinkTypes
<1>2. S \in SUBSET Nat /\ S # {} /\ \A v \in S : v <= tso
  BY <1>1
<1>3. MaxOf(S) \in S /\ \A v \in S : v <= MaxOf(S)
  BY <1>1, <1>2, MaxOfFacts
<1>4. \A v : v \in S <=> v = InitVersion \/ (v \in DDLs(t) /\ v <= ts)
  BY DEF DDLs
<1>5. SchemaAt(t, ts) = MaxOf(S)
  BY DEF SchemaAt
<1> HIDE DEF S
<1> QED BY <1>2, <1>3, <1>4, <1>5

(***************************************************************************)
(* No DDL is lost: every DDL committed upstream at or before the saved     *)
(* checkpoint has been executed, whatever crashed, failed or was replayed  *)
(* (loader.go getNewFiles, applyDDL, run).                                 *)
(***************************************************************************)
THEOREM NoDDLIsLost ==
    ASSUME DDLBarrier \/ MaxRestarts = 0
    PROVE  Spec => []NoLostDDL
<1>1. ASSUME LoaderInv, DDLInv PROVE NoLostDDL
  <2> SUFFICES ASSUME NEW t \in Tables PROVE schema[t] >= SchemaAt(t, obj.checkpoint)
    BY DEF NoLostDDL
  <2> DEFINE last == SchemaAt(t, obj.checkpoint)
  <2>1. /\ obj.checkpoint = mem.checkpoint /\ mem.checkpoint \in Nat /\ schema[t] \in Nat
        /\ Origin(TableFiles(t), DDLs(t), schema[t], rows[t])
        /\ Applied(VersionsOf(t), DDLs(t), mem.checkpoint, watermark[t], schema[t], rows[t])
    BY <1>1, DDLParts DEF DDLIsTrue, LoaderInv, Agreement
  <2>2. /\ last \in Nat
        /\ last = InitVersion \/ (last \in DDLs(t) /\ last <= mem.checkpoint)
    BY <1>1, <2>1, SchemaAtFacts
  <2> HIDE DEF last
  <2>3. last <= schema[t]
    BY <2>1, <2>2 DEF Origin, Applied, Behind
  <2> QED BY <2>1, <2>2, <2>3 DEF last
<1> QED BY <1>1, DDLInvariance, PTL

(***************************************************************************)
(* When a DDL is executed, also when it is replayed, no row committed      *)
(* after it is in the table yet: a TRUNCATE removes none of them           *)
(* (loader.go handleNewFiles, the order of CompareDMLPathKey).             *)
(***************************************************************************)
THEOREM DDLComesBeforeItsRows ==
    ASSUME DDLBarrier \/ MaxRestarts = 0
    PROVE  Spec => []DDLBeforeItsRows
<1>1. ASSUME LoaderInv, DDLInv PROVE DDLBeforeItsRows
  <2> SUFFICES ASSUME NEW t \in Tables, NEW k \in Keys, AtSchema(t)
               PROVE  rows[t][k] < Current(t).version
    BY DEF DDLBeforeItsRows
  <2> DEFINE r == First(work[t])
  <2>1. /\ Current(t) = r /\ work[t] # {} /\ IsSchemaRange(r)
        /\ Scan(TableFiles(t), VersionsOf(t), mem.checkpoint, watermark[t], cursor[t],
                bounds.target, work[t], {})
        /\ Complete(VersionsOf(t), mem.checkpoint, watermark[t], work[t], {})
    BY <1>1, SchemaIsNext
  <2>2. r.version \in VersionsOf(t) /\ ~Behind(mem.checkpoint, watermark[t], r.version)
    BY <1>1, <2>1, DDLParts, FirstIsAhead
  <2>3. Applied(VersionsOf(t), DDLs(t), mem.checkpoint, watermark[t], schema[t], rows[t])
    BY <1>1, DDLParts DEF DDLIsTrue
  <2> QED BY <2>1, <2>2, <2>3 DEF Applied
<1> QED BY <1>1, DDLInvariance, PTL

(***************************************************************************)
(* A data file meets the table definition it was written with, or the DDL  *)
(* a crash has left to replay is still ahead of it in the scan (loader.go  *)
(* getNewFiles, handleNewFiles).                                           *)
(***************************************************************************)
THEOREM RowsFindTheirSchema ==
    ASSUME DDLBarrier \/ MaxRestarts = 0
    PROVE  Spec => []RowsMeetTheirSchema
<1>1. ASSUME LoaderInv, DDLInv PROVE RowsMeetTheirSchema
  <2> SUFFICES ASSUME NEW t \in Tables, AtFile(t), SchemaRange(schema[t]) \notin work[t]
               PROVE  schema[t] = SchemaAt(t, Current(t).version)
    BY DEF RowsMeetTheirSchema
  <2> DEFINE r == First(work[t])
             v == r.version
             V == VersionsOf(t)
             ck == mem.checkpoint
             w == watermark[t]
             last == SchemaAt(t, v)
  <2>1. pc[t] = "load" /\ work[t] # {} /\ ~IsSchemaRange(r) /\ Current(t) = r
    BY DEF AtFile, Loading, Current
  <2>2. /\ agenda[t] = {} /\ Store(TableFiles(t), V, Changes(t)) /\ V \in SUBSET Nat
        /\ ck \in Nat /\ w \in Nat /\ schema[t] \in Nat /\ DDLs(t) \subseteq V
        /\ Scan(TableFiles(t), V, ck, w, cursor[t], bounds.target, work[t], {})
    BY <1>1, <2>1, DDLParts
  <2>3. /\ Complete(V, ck, w, work[t], {}) /\ Executed(ck, w, schema[t], work[t])
        /\ Applied(V, DDLs(t), ck, w, schema[t], rows[t])
        /\ Origin(TableFiles(t), DDLs(t), schema[t], rows[t])
    BY <1>1, <2>1, <2>2, DDLParts DEF DDLIsTrue
  <2> HIDE DEF V, ck, w
  <2>4. /\ v \in V /\ ~Crossed(V, ck, w, v)
        /\ \A u \in V : ~Behind(ck, w, u) => v < u
    BY <2>1, <2>2, <2>3, FirstIsAhead
  <2> HIDE DEF r, v
  <2>5. v \in Nat /\ InitVersion <= v
    BY <1>1, <2>2, <2>4, EventParts DEF LoaderInv, V
  <2>6. /\ last \in Nat /\ InitVersion <= last
        /\ \A u \in DDLs(t) : u <= v => u <= last
        /\ last = InitVersion \/ (last \in DDLs(t) /\ last <= v)
    BY <1>1, <2>5, SchemaAtFacts
  <2> HIDE DEF last
  <2>7. last <= schema[t]
    <3>1. CASE last = InitVersion
      BY <2>3, <3>1 DEF Origin
    <3>2. CASE last \in DDLs(t) /\ last <= v
      <4>1. Behind(ck, w, last)
        BY <2>2, <2>4, <2>5, <2>6, <3>2
      <4> QED BY <2>3, <3>2, <4>1 DEF Applied
    <3> QED BY <2>6, <3>1, <3>2
  <2>8. schema[t] <= last
    <3>1. CASE schema[t] = InitVersion
      BY <2>6, <3>1
    <3>2. CASE schema[t] \in DDLs(t)
      <4>1. Behind(ck, w, schema[t]) /\ schema[t] \in V
        BY <2>2, <2>3, <3>2 DEF Executed
      <4>2. schema[t] <= v
        BY <2>2, <2>4, <2>5, <4>1 DEF Crossed, Behind
      <4> QED BY <2>6, <3>2, <4>2
    <3> QED BY <2>3, <3>1, <3>2 DEF Origin
  <2>9. schema[t] = last
    BY <2>2, <2>6, <2>7, <2>8
  <2> QED BY <2>1, <2>9 DEF last, v
<1> QED BY <1>1, DDLInvariance, PTL

(***************************************************************************)
(* DDLs are executed in version order, and only the last one executed is   *)
(* ever executed again (loader.go getNewFiles, applyDDL).                  *)
(***************************************************************************)
THEOREM SchemasGoForward ==
    ASSUME DDLBarrier \/ MaxRestarts = 0
    PROVE  Spec => SchemaNeverBackward
<1>1. ASSUME LoaderInv, DDLInv, [Next]_vars PROVE [\A t \in Tables : schema'[t] >= schema[t]]_schema
  <2>1. schema \in [Tables -> Nat]
    BY <1>1 DEF LoaderInv, TypeOK
  <2>2. ASSUME NEW t \in Tables, ExecDDL(t) PROVE \A u \in Tables : schema'[u] >= schema[u]
    <3>1. schema[t] <= schema'[t] /\ OthersStay(t) /\ Current(t).version \in Nat
          /\ schema'[t] = Current(t).version
      <4>1. schema[t] <= schema'[t] /\ OthersStay(t)
        BY <1>1, <2>2, ExecKeepsDDLs, UnsavedStepsAreOf
      <4>2. schema'[t] = Current(t).version
        BY <2>1, <2>2 DEF ExecDDL
      <4>3. First(work[t]) \in work[t] /\ IsRange(First(work[t]))
        <5>1. work[t] # {} /\ Scan(TableFiles(t), VersionsOf(t), mem.checkpoint, watermark[t], cursor[t],
                    bounds.target, work[t], {})
          BY <1>1, <2>2, SchemaIsNext DEF ExecDDL
        <5> QED BY <5>1, FirstOfWork DEF Scan
      <4>4. Current(t).version \in Nat
        BY <4>3, RangeFacts DEF Current
      <4> QED BY <4>1, <4>2, <4>4
    <3>2. ASSUME NEW u \in Tables PROVE schema'[u] >= schema[u]
      <4>1. CASE u = t
        BY <2>1, <3>1, <4>1
      <4>2. CASE u # t
        BY <2>1, <3>1, <4>2 DEF OthersStay
      <4> QED BY <4>1, <4>2
    <3> QED BY <3>2
  <2>3. ASSUME ~\E t \in Tables : ExecDDL(t) PROVE schema' = schema
    <3>1. CASE ChangefeedStep \/ UNCHANGED vars
      BY <3>1 DEF ChangefeedStep, Quiet, vars
    <3>2. CASE BeginScan \/ FinishScan \/ Exit \/ Crash
      BY <3>2 DEF BeginScan, FinishScan, Exit, Crash
    <3>3. ASSUME NEW t \in Tables, TableStep(t) \/ Fail(t) \/ FailAfterSave(t)
          PROVE  schema' = schema
      BY <2>3, <3>3 DEF TableStep, WalkSchemas, ListDirs, ReadIndex, LoadSchemaFiles, RejectDDL,
         SaveWatermark, MergeFile, SaveCursors, Fail, FailAfterSave
    <3> QED BY <1>1, <3>1, <3>2, <3>3 DEF Next, LoaderNext
  <2> QED BY <2>2, <2>3
<1> QED BY <1>1, DDLInvariance, PTL DEF Spec, SchemaNeverBackward

(***************************************************************************)
(* Once a table has a watermark, a DDL is translated with the columns of   *)
(* the version right before it, in one scan with others or after a restart *)
(* (loader.go loadSchemaFiles, applyDDL, currentMeta).                     *)
(***************************************************************************)
THEOREM DDLsAreTranslatedInOrder ==
    ASSUME DDLBarrier \/ MaxRestarts = 0
    PROVE  Spec => []TranslatedFromVersionBefore
<1>1. ASSUME LoaderInv, DDLInv, MetaInv PROVE TranslatedFromVersionBefore
  <2> SUFFICES ASSUME NEW t \in Tables, AtSchema(t), watermark[t] # 0
               PROVE  meta[t] = MaxOf({v \in VersionsOf(t) : v < Current(t).version})
    BY DEF TranslatedFromVersionBefore
  <2> DEFINE r == First(work[t])
             v == r.version
             V == VersionsOf(t)
             ck == mem.checkpoint
             w == watermark[t]
             S == {u \in V : u < v}
  <2>1. /\ pc[t] = "load" /\ Current(t) = r /\ work[t] # {} /\ IsSchemaRange(r)
        /\ Scan(TableFiles(t), V, ck, w, cursor[t], bounds.target, work[t], {})
        /\ Complete(V, ck, w, work[t], {})
    BY <1>1, SchemaIsNext DEF AtSchema, Loading
  <2>2. /\ Store(TableFiles(t), V, Changes(t)) /\ V \in SUBSET Nat /\ ck \in Nat /\ w \in Nat
    BY <1>1, DDLParts
  <2>3. w \in V /\ \A u \in V : u <= ck => u <= w
    BY <1>1 DEF LoaderInv, ProgressIsTrue, SavedIsTrue, Agreement, IsVersion
  <2> HIDE DEF V, ck, w
  <2>4. /\ r \in work[t] /\ v \in V /\ ~Behind(ck, w, v)
        /\ \A u \in V : ~Behind(ck, w, u) => v <= u
    BY <2>1, <2>2, FirstIsAhead
  <2>5. meta[t] = w
    BY <1>1, <2>1, <2>4 DEF MetaInv, MetaIsTrue, w
  <2> HIDE DEF r, v
  <2>6. w \in S /\ \A u \in S : u <= w
    <3>1. V \subseteq Nat /\ w \in Nat /\ ck \in Nat /\ v \in Nat
      BY <2>2, <2>4
    <3>2. w < v
      BY <2>4, <3>1 DEF Behind
    <3>3. ASSUME NEW u \in V, u < v PROVE u <= w
      <4>1. u \in Nat
        BY <3>1
      <4>2. Behind(ck, w, u)
        BY <2>4, <3>1, <3>3, <4>1
      <4> QED BY <2>3, <4>2 DEF Behind
    <3> QED BY <2>3, <3>2, <3>3
  <2>7. S \in SUBSET Nat
    BY <2>2
  <2> HIDE DEF S
  <2>8. MaxOf(S) \in S /\ \A u \in S : u <= MaxOf(S)
    BY <2>2, <2>6, <2>7, MaxOfFacts
  <2>9. MaxOf(S) = w
    <3>1. MaxOf(S) \in Nat /\ MaxOf(S) <= w /\ w <= MaxOf(S)
      BY <2>6, <2>7, <2>8
    <3> QED BY <2>2, <3>1
  <2> QED BY <2>1, <2>5, <2>9 DEF S, V, v
<1> QED BY <1>1, DDLInvariance, PTL
=============================================================================
