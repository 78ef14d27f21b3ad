---------------------- MODULE IncrementalLoader_proofs ----------------------
(***************************************************************************)
(* Proofs about IncrementalLoader, for every set of tables, keys and       *)
(* partitions and every bound: no committed row is lost, and everything up *)
(* to a saved watermark is loaded, whatever crashed, failed or was         *)
(* replayed.                                                               *)
(*                                                                         *)
(* The first part speaks of one table in terms of plain values: F is its   *)
(* files, V its versions, C its changes, ck the saved checkpoint, w the    *)
(* watermark, cur the cursors, row the rows in Snowflake, W and A what is  *)
(* left of a scan's work and agenda.  The second part applies it to the    *)
(* steps.                                                                  *)
(***************************************************************************)
EXTENDS IncrementalLoader, TiCDCSink_proofs

\* Nothing is left of a file that a cursor has reached.
Eats(cur, f) == ~CursorBefore(cur[<<f.version, f.part>>], Spot(f))

\* Version v has a successor that is applied, or covered by the checkpoint.
Crossed(V, ck, w, v) == \E u \in V : v < u /\ (u <= w \/ u <= ck)

\* Whoever has read a file has read, or crossed, the versions before.
Ordered(F, V, ck, w, cur) ==
    \A f \in F, g \in F :
        f.part = g.part /\ f.version < g.version /\ Eats(cur, g) =>
            Eats(cur, f) \/ Crossed(V, ck, w, f.version)

\* The settled changes of a file that was read are in Snowflake.
Loaded(F, cur, row) ==
    \A f \in F : Eats(cur, f) =>
        \A x \in f.rows : Settled(F, f, x) => x.ts <= row[x.key]

PastCovered(C, ck, w, row) ==
    \A x \in C : x.ts <= w \/ x.ts <= ck => x.ts <= row[x.key]

IsVersion(V, ck, w) == w # 0 => w \in V /\ \A v \in V : v <= ck => v <= w

\* No cursor is ahead of the files.
Placed(F, cur) ==
    \A s \in Streams :
        \/ cur[s] = NoCursor
        \/ \E f \in F : <<f.version, f.part>> = s /\ ~CursorBefore(Spot(f), cur[s])

----------------------------------------------------------------------------
(***************************************************************************)
(* A scan.  Within says that a file or a place is below a place.           *)
(***************************************************************************)
Within(x, a) ==
    /\ x.version = a.version
    /\ a.part = NoPartition \/ a.part = x.part
    /\ a.date = NoDate \/ a.date = x.date

Start(r) == [date |-> r.date, index |-> r.start]
End(r) == [date |-> r.date, index |-> r.end]

IsFileRange(r) ==
    /\ r \in [version : Nat, part : Partitions, date : Nat \ {0},
              start : Nat \ {0}, end : Nat \ {0}]
    /\ r.start <= r.end

IsRange(r) == IsFileRange(r) \/ (r = SchemaRange(r.version) /\ r.version \in Nat)

IsPlace(a) ==
    /\ a \in [version : Nat, part : Partitions \cup {NoPartition}, date : Nat]
    /\ a.date # NoDate => a.part # NoPartition

SamePlace(x, y) == x.version = y.version /\ x.part = y.part /\ x.date = y.date

\* No two entries of a scan stand for the same files.
Apart(W, A) ==
    /\ \A r \in W : IsRange(r)
    /\ \A a \in A : IsPlace(a)
    /\ \A r \in W, q \in W : SamePlace(r, q) => r = q
    /\ \A r \in W, a \in A : ~IsSchemaRange(r) => ~Within(r, a)
    /\ \A a \in A, b \in A : Within(b, a) => a = b

\* A range starts right after the cursor of its stream.
NextOf(cur, r) ==
    LET c == cur[<<r.version, r.part>>]
    IN  \/ c.date < r.date /\ r.start = 1
        \/ c.date = r.date /\ r.start = c.index + 1

RangesAreAhead(F, V, ck, w, cur, W) ==
    \A r \in W :
        /\ r.version \in V /\ ~Crossed(V, ck, w, r.version)
        /\ IsSchemaRange(r) => w < r.version /\ ck < r.version
        /\ ~IsSchemaRange(r) =>
              /\ NextOf(cur, r)
              /\ \E f \in F : SameStream(f, r) /\ Spot(f) = End(r)

PlacesAreAhead(F, V, ck, w, cur, A) ==
    \A a \in A :
        /\ a.version \in V /\ ~Crossed(V, ck, w, a.version)
        /\ a.date # NoDate =>
              /\ cur[<<a.version, a.part>>].date <= a.date
              /\ \E f \in F : SameStream(f, a) /\ f.date = a.date

\* A file that appeared behind the scan: after everything the scan has found.
Late(f, target, W, A) ==
    /\ \A x \in f.rows : target < x.ts
    /\ \A r \in W : /\ r.version <= f.version
                    /\ ~IsSchemaRange(r) /\ SameStream(r, f) => CursorBefore(End(r), Spot(f))
    /\ \A a \in A : /\ a.version <= f.version
                    /\ a.date # NoDate /\ SameStream(a, f) => a.date < f.date

InRange(f, r) ==
    /\ ~IsSchemaRange(r) /\ SameStream(f, r) /\ f.date = r.date
    /\ r.start <= f.index /\ f.index <= r.end

FilesAreCovered(F, V, ck, w, cur, target, W, A) ==
    \A f \in F :
        \/ Eats(cur, f)
        \/ Crossed(V, ck, w, f.version)
        \/ \E r \in W : InRange(f, r)
        \/ \E a \in A : Within(f, a)
        \/ Late(f, target, W, A)

VersionsAreCovered(V, ck, w, target, W) ==
    \A v \in V : v <= target =>
        \/ SchemaRange(v) \in W
        \/ v <= w
        \/ w = 0 /\ v <= ck

\* Everything that is left of a scan in progress.
Scan(F, V, ck, w, cur, target, W, A) ==
    /\ Apart(W, A)
    /\ RangesAreAhead(F, V, ck, w, cur, W)
    /\ PlacesAreAhead(F, V, ck, w, cur, A)
    /\ FilesAreCovered(F, V, ck, w, cur, target, W, A)
    /\ VersionsAreCovered(V, ck, w, target, W)

\* What the storage offers of a table.
Store(F, V, C) ==
    /\ V \subseteq Nat \ {0} /\ F \subseteq File /\ C \subseteq Change
    /\ \A x \in C : x.ts \notin V
    /\ \A f \in F : f.version \in V /\ <<f.version, f.part>> \in Streams
    /\ \A f \in F : \A x \in f.rows :
          /\ x \in C /\ PartitionOf[x.key] = f.part /\ f.version < x.ts
          /\ \A v \in V : f.version < v => x.ts < v

Cursors == [Streams -> Cursor]

----------------------------------------------------------------------------
LEMMA CursorOrder ==
    ASSUME NEW a \in Cursor, NEW b \in Cursor, NEW c \in Cursor
    PROVE  /\ ~CursorBefore(a, a)
           /\ CursorBefore(a, b) /\ CursorBefore(b, c) => CursorBefore(a, c)
           /\ CursorBefore(a, b) \/ CursorBefore(b, a) \/ a = b
           /\ ~(CursorBefore(a, b) /\ CursorBefore(b, a))
           /\ ~CursorBefore(a, NoCursor)
<1>1. /\ a.date \in Nat /\ a.index \in Nat /\ b.date \in Nat /\ b.index \in Nat
      /\ c.date \in Nat /\ c.index \in Nat
  BY DEF Cursor
<1>2. a.date = b.date /\ a.index = b.index => a = b
  BY DEF Cursor
<1> QED BY <1>1, <1>2 DEF CursorBefore, NoCursor

LEMMA FileFacts ==
    ASSUME NEW f \in File
    PROVE  /\ Spot(f) \in Cursor /\ f.version \in Nat /\ f.part \in Partitions
           /\ f.part # NoPartition /\ f.date \in Nat \ {0} /\ f.index \in Nat \ {0}
           /\ Spot(f).date = f.date /\ Spot(f).index = f.index
BY SinkAssumption DEF File, Spot, Cursor, NoPartition

\* First takes the entry before all others.
LEMMA FirstIsFirst ==
    ASSUME NEW S, S # {},
           \A x \in S : x.version \in Nat /\ x.part \in Nat \cup {NoPartition} /\ x.date \in Nat,
           \A x \in S, y \in S : SamePlace(x, y) => x = y
    PROVE  First(S) \in S /\ \A y \in S \ {First(S)} : Precedes(First(S), y)
<1> DEFINE versions == {x.version : x \in S}
<1>1. PICK v \in versions : \A u \in versions : v <= u
  <2>1. versions \in SUBSET Nat /\ versions # {}
    OBVIOUS
  <2> QED BY <2>1, LeastExists
<1> DEFINE S1 == {x \in S : x.version = v}
           parts == {x.part + 1 : x \in S1}
<1>2. PICK p \in parts : \A q \in parts : p <= q
  <2>1. parts \in SUBSET Nat /\ parts # {}
    BY DEF NoPartition
  <2> QED BY <2>1, LeastExists
<1> DEFINE S2 == {x \in S1 : x.part + 1 = p}
           dates == {x.date : x \in S2}
<1>3. PICK d \in dates : \A e \in dates : d <= e
  <2>1. dates \in SUBSET Nat /\ dates # {}
    OBVIOUS
  <2> QED BY <2>1, LeastExists
<1>4. PICK x \in S2 : x.date = d
  OBVIOUS
<1>5. x \in S /\ x.version = v /\ x.part + 1 = p /\ x.date = d
  BY <1>4
<1>6. ASSUME NEW y \in S \ {x} PROVE Precedes(x, y)
  <2>1. /\ x.version \in Nat /\ x.part \in Int /\ x.date \in Nat
        /\ y.version \in Nat /\ y.part \in Int /\ y.date \in Nat
    BY <1>5 DEF NoPartition
  <2>2. v <= y.version
    BY <1>1
  <2>3. y.version = v => p <= y.part + 1
    BY <1>2
  <2>4. y.version = v /\ y.part + 1 = p => d <= y.date
    BY <1>3
  <2>5. ~SamePlace(x, y)
    BY <1>5
  <2> QED BY <1>5, <2>1, <2>2, <2>3, <2>4, <2>5 DEF Precedes, SamePlace
<1>7. \E z \in S : \A y \in S \ {z} : Precedes(z, y)
  BY <1>5, <1>6
<1> QED BY <1>7 DEF First

LEMMA RangeFacts ==
    ASSUME NEW r, IsRange(r)
    PROVE  /\ r.version \in Nat /\ r.part \in Nat \cup {NoPartition} /\ r.date \in Nat
           /\ IsSchemaRange(r) => r = SchemaRange(r.version)
           /\ ~IsSchemaRange(r) => IsFileRange(r)
           /\ IsFileRange(r) => ~IsSchemaRange(r)
BY SinkAssumption DEF IsRange, IsFileRange, SchemaRange, IsSchemaRange, NoPartition, NoDate

LEMMA PlaceFacts ==
    ASSUME NEW a, IsPlace(a)
    PROVE  /\ a.version \in Nat /\ a.part \in Nat \cup {NoPartition} /\ a.date \in Nat
           /\ a.date # NoDate => a.part \in Partitions /\ a.part # NoPartition
BY SinkAssumption DEF IsPlace, NoPartition, NoDate

LEMMA FirstOfWork ==
    ASSUME NEW W, NEW A, Apart(W, A), W # {}
    PROVE  /\ First(W) \in W /\ IsRange(First(W))
           /\ \A r \in W : /\ IsRange(r) /\ First(W).version <= r.version
                           /\ r # First(W) => Precedes(First(W), r)
<1>1. \A r \in W : IsRange(r)
  BY DEF Apart
<1>2. \A r \in W : r.version \in Nat /\ r.part \in Nat \cup {NoPartition} /\ r.date \in Nat
  BY <1>1, RangeFacts
<1>3. First(W) \in W /\ \A r \in W \ {First(W)} : Precedes(First(W), r)
  BY <1>2, FirstIsFirst DEF Apart
<1> QED BY <1>1, <1>2, <1>3 DEF Precedes

LEMMA FirstOfAgenda ==
    ASSUME NEW W, NEW A, Apart(W, A), A # {}
    PROVE  First(A) \in A /\ IsPlace(First(A))
<1>1. \A a \in A : IsPlace(a)
  BY DEF Apart
<1>2. \A a \in A : a.version \in Nat /\ a.part \in Nat \cup {NoPartition} /\ a.date \in Nat
  BY <1>1, PlaceFacts
<1>3. \A a \in A, b \in A : SamePlace(a, b) => a = b
  BY DEF Apart, SamePlace, Within
<1> QED BY <1>1, <1>2, <1>3, FirstIsFirst

----------------------------------------------------------------------------
(***************************************************************************)
(* WalkSchemas.                                                            *)
(***************************************************************************)
LEMMA WalkStartsScan ==
    ASSUME NEW F, NEW V, NEW C, Store(F, V, C), NEW cur,
           NEW ck \in Nat, NEW w \in Nat, NEW target \in Nat, IsVersion(V, ck, w),
           NEW P, P = {v \in V : v > IF w > 0 THEN w ELSE ck},
           NEW K \in SUBSET V,
           w > 0 => K = {w},
           w = 0 => \A v \in V : v <= ck =>
                        \E k \in K : v <= k /\ k <= ck /\ K = {k} /\ \A u \in V : u <= ck => u <= k
    PROVE  Scan(F, V, ck, w, cur, target, {SchemaRange(v) : v \in P},
                {Place(v, NoPartition, NoDate) : v \in K \cup P})
<1> DEFINE W == {SchemaRange(v) : v \in P}
           A == {Place(v, NoPartition, NoDate) : v \in K \cup P}
<1>1. V \subseteq Nat \ {0} /\ P \subseteq V /\ K \subseteq V
  BY DEF Store
<1>2. \A r \in W : IsSchemaRange(r) /\ r.version \in P /\ r = SchemaRange(r.version)
  BY DEF SchemaRange, IsSchemaRange
<1>3. \A a \in A : /\ a = Place(a.version, NoPartition, NoDate) /\ a.version \in K \cup P
                   /\ a.part = NoPartition /\ a.date = NoDate
  BY DEF Place
<1>4. \A v \in K \cup P : Place(v, NoPartition, NoDate) \in A
                          /\ Place(v, NoPartition, NoDate).version = v
                          /\ Place(v, NoPartition, NoDate).part = NoPartition
                          /\ Place(v, NoPartition, NoDate).date = NoDate
  BY DEF Place
<1>5. \A v \in P : SchemaRange(v) \in W
  OBVIOUS
<1> HIDE DEF W, A
<1>6. \A v \in P : w < v /\ ck < v
  BY <1>1 DEF IsVersion
<1>7. Apart(W, A)
  <2>1. \A r \in W : IsRange(r)
    BY <1>1, <1>2 DEF IsRange
  <2>2. \A a \in A : IsPlace(a)
    BY <1>1, <1>3 DEF IsPlace, Place, NoDate, NoPartition
  <2> QED BY <1>2, <1>3, <2>1, <2>2 DEF Apart, SamePlace, Within
<1>8. \A v \in P : ~Crossed(V, ck, w, v)
  BY <1>1, <1>6 DEF Crossed
<1>9. \A v \in K : ~Crossed(V, ck, w, v)
  <2> SUFFICES ASSUME NEW v \in K, NEW u \in V, v < u, u <= w \/ u <= ck PROVE FALSE
    BY DEF Crossed
  <2>1. CASE w > 0
    BY <1>1, <2>1 DEF IsVersion
  <2>2. CASE w = 0
    BY <1>1, <2>2
  <2> QED BY <2>1, <2>2
<1>10. RangesAreAhead(F, V, ck, w, cur, W)
  BY <1>1, <1>2, <1>6, <1>8 DEF RangesAreAhead
<1>11. PlacesAreAhead(F, V, ck, w, cur, A)
  BY <1>1, <1>3, <1>8, <1>9 DEF PlacesAreAhead
<1>12. FilesAreCovered(F, V, ck, w, cur, target, W, A)
  <2> SUFFICES ASSUME NEW f \in F, f.version \notin K \cup P
               PROVE  Crossed(V, ck, w, f.version)
    BY <1>4 DEF FilesAreCovered, Within
  <2>1. f.version \in V /\ f.version \in Nat \ {0}
    BY DEF Store
  <2>2. CASE w > 0
    BY <1>1, <2>1, <2>2 DEF Crossed
  <2>3. CASE w = 0
    <3>1. f.version <= ck
      BY <2>1, <2>3
    <3>2. PICK k \in K : f.version <= k /\ k <= ck
      BY <2>1, <2>3, <3>1
    <3>3. f.version < k
      BY <1>1, <2>1, <3>2
    <3> QED BY <1>1, <3>2, <3>3 DEF Crossed
  <2> QED BY <2>2, <2>3
<1>13. VersionsAreCovered(V, ck, w, target, W)
  BY <1>1, <1>5 DEF VersionsAreCovered
<1> QED BY <1>7, <1>10, <1>11, <1>12, <1>13 DEF Scan, W, A

(***************************************************************************)
(* ListDirs: a place is replaced with what is below it.                    *)
(***************************************************************************)
LEMMA ListKeepsScan ==
    ASSUME NEW F, NEW V, NEW C, Store(F, V, C), NEW cur, NEW ck, NEW w, NEW target,
           NEW W, NEW A, Scan(F, V, ck, w, cur, target, W, A),
           NEW a \in A, a.date = NoDate, NEW L,
           \A b \in L : /\ IsPlace(b) /\ Within(b, a)
                        /\ b.date # NoDate =>
                              /\ cur[<<b.version, b.part>>].date <= b.date
                              /\ \E f \in F : SameStream(f, b) /\ f.date = b.date,
           \A b \in L, c \in L : Within(b, c) => b = c,
           \A f \in F : Within(f, a) => Eats(cur, f) \/ \E b \in L : Within(f, b)
    PROVE  Scan(F, V, ck, w, cur, target, W, (A \ {a}) \cup L)
<1> DEFINE B == (A \ {a}) \cup L
<1>1. /\ Apart(W, A) /\ RangesAreAhead(F, V, ck, w, cur, W)
      /\ PlacesAreAhead(F, V, ck, w, cur, A)
      /\ FilesAreCovered(F, V, ck, w, cur, target, W, A)
      /\ VersionsAreCovered(V, ck, w, target, W)
  BY DEF Scan
<1>2. \A b \in L : b.version = a.version /\ (a.part = NoPartition \/ a.part = b.part)
  BY DEF Within
<1>3. IsPlace(a) /\ \A b \in A : IsPlace(b)
  BY <1>1 DEF Apart
<1>4. \A b \in B : b \in L \/ (b \in A /\ b # a)
  OBVIOUS
<1> HIDE DEF B
<1>5. Apart(W, B)
  <2>1. ASSUME NEW r \in W, ~IsSchemaRange(r), NEW b \in L PROVE ~Within(r, b)
    <3>1. ~Within(r, a)
      BY <1>1, <2>1 DEF Apart
    <3> QED BY <1>2, <3>1 DEF Within
  <2>2. ASSUME NEW b \in L, NEW c \in A, c # a PROVE ~Within(c, b)
    <3>1. ~Within(c, a)
      BY <1>1, <2>2 DEF Apart
    <3> QED BY <1>2, <3>1 DEF Within
  <2>3. ASSUME NEW b \in L, NEW c \in A, c # a PROVE ~Within(b, c)
    <3>1. ~Within(c, a) /\ ~Within(a, c)
      BY <1>1, <2>3 DEF Apart
    <3>2. c.date # NoDate => c.part # NoPartition
      BY <1>3 DEF IsPlace
    <3> QED BY <1>2, <3>1, <3>2 DEF Within
  <2>4. \A b \in B : IsPlace(b)
    BY <1>3, <1>4
  <2>5. \A b \in B, c \in B : Within(c, b) => b = c
    BY <1>1, <1>4, <2>2, <2>3 DEF Apart
  <2>6. \A r \in W, b \in B : ~IsSchemaRange(r) => ~Within(r, b)
    BY <1>1, <1>4, <2>1 DEF Apart
  <2> QED BY <1>1, <2>4, <2>5, <2>6 DEF Apart
<1>6. PlacesAreAhead(F, V, ck, w, cur, B)
  <2>1. a.version \in V /\ ~Crossed(V, ck, w, a.version)
    BY <1>1 DEF PlacesAreAhead
  <2> QED BY <1>1, <1>2, <1>4, <2>1 DEF PlacesAreAhead
<1>7. FilesAreCovered(F, V, ck, w, cur, target, W, B)
  <2> SUFFICES ASSUME NEW f \in F, ~Eats(cur, f), ~Crossed(V, ck, w, f.version),
                      ~\E r \in W : InRange(f, r), ~\E b \in B : Within(f, b)
               PROVE  Late(f, target, W, B)
    BY DEF FilesAreCovered
  <2>1. ~\E b \in A : Within(f, b)
    BY DEF B
  <2>2. Late(f, target, W, A)
    BY <1>1, <2>1 DEF FilesAreCovered
  <2>3. ASSUME NEW b \in L PROVE b.version <= f.version /\ ~SameStream(b, f)
    <3>1. a.version <= f.version /\ ~Within(f, a)
      BY <2>1, <2>2 DEF Late
    <3> QED BY <1>2, <3>1 DEF SameStream, Within
  <2> QED BY <1>4, <2>2, <2>3 DEF Late
<1> QED BY <1>1, <1>5, <1>6, <1>7 DEF Scan, B

(***************************************************************************)
(* ReadIndex: a directory is replaced with the range of its new files.     *)
(***************************************************************************)
LEMMA ReadKeepsScan ==
    ASSUME NEW F, NEW V, NEW C, Store(F, V, C), NEW cur \in Cursors,
           NEW ck, NEW w, NEW target,
           NEW W, NEW A, Scan(F, V, ck, w, cur, target, W, A),
           NEW a \in A, a.date # NoDate, NEW N, NEW last \in Nat, NEW from \in Nat,
           LET c == cur[<<a.version, a.part>>]
           IN  from = IF c.date = a.date THEN c.index ELSE 0,
           \A f \in F : SameStream(f, a) /\ f.date = a.date => f.index <= last,
           \E f \in F : SameStream(f, a) /\ f.date = a.date /\ f.index = last,
           N = IF last > from THEN {FileRange(a.version, a.part, a.date, from + 1, last)}
               ELSE {}
    PROVE  Scan(F, V, ck, w, cur, target, W \cup N, A \ {a})
<1> DEFINE r == FileRange(a.version, a.part, a.date, from + 1, last)
           W2 == W \cup N
           B == A \ {a}
           s == <<a.version, a.part>>
<1>1. /\ Apart(W, A) /\ RangesAreAhead(F, V, ck, w, cur, W)
      /\ PlacesAreAhead(F, V, ck, w, cur, A)
      /\ FilesAreCovered(F, V, ck, w, cur, target, W, A)
      /\ VersionsAreCovered(V, ck, w, target, W)
  BY DEF Scan
<1>2. /\ IsPlace(a) /\ a.version \in Nat /\ a.part \in Partitions /\ a.part # NoPartition
      /\ a.date \in Nat \ {0} /\ a.version \in V /\ ~Crossed(V, ck, w, a.version)
      /\ cur[s].date <= a.date
  BY <1>1, PlaceFacts DEF Apart, PlacesAreAhead, NoDate
<1>3. PICK l \in F : SameStream(l, a) /\ l.date = a.date /\ l.index = last
  OBVIOUS
<1>4. cur[s] \in Cursor /\ cur[s].date \in Nat /\ cur[s].index \in Nat /\ s \in Streams
  <2>1. s \in Streams
    BY <1>3 DEF SameStream, Store
  <2> QED BY <2>1 DEF Cursors, Cursor
<1>5. /\ r.version = a.version /\ r.part = a.part /\ r.date = a.date
      /\ r.start = from + 1 /\ r.end = last
      /\ ~IsSchemaRange(r) /\ (last > from => IsFileRange(r)) /\ Start(r).date = a.date
      /\ End(r) = Spot(l)
  BY <1>2, <1>3 DEF FileRange, IsSchemaRange, IsFileRange, Start, End, Spot
<1>6. \A q \in W2 : q \in W \/ (q = r /\ last > from)
  OBVIOUS
<1>7. last > from => r \in W2
  OBVIOUS
<1>8. W \subseteq W2 /\ B = A \ {a}
  OBVIOUS
<1>9. from = IF cur[s].date = a.date THEN cur[s].index ELSE 0
  OBVIOUS
<1> HIDE DEF r, W2, B, s
<1>10. Apart(W2, B)
  <2>1. ASSUME NEW q \in W PROVE ~SamePlace(q, r)
    <3>1. SamePlace(q, r) => ~IsSchemaRange(q) /\ Within(q, a)
      BY <1>2, <1>5 DEF SamePlace, Within, IsSchemaRange
    <3> QED BY <1>1, <3>1 DEF Apart
  <2>2. ASSUME NEW b \in B PROVE ~Within(r, b)
    <3>1. ~Within(a, b)
      BY <1>1, <1>8 DEF Apart
    <3> QED BY <1>5, <3>1 DEF Within
  <2>3. \A x, y : SamePlace(x, y) => SamePlace(y, x)
    BY DEF SamePlace
  <2>4. \A q \in W2, p \in W2 : SamePlace(q, p) => q = p
    BY <1>1, <1>6, <2>1, <2>3 DEF Apart
  <2>5. \A q \in W2 : IsRange(q)
    BY <1>1, <1>5, <1>6 DEF Apart, IsRange
  <2>6. \A q \in W2, b \in B : ~IsSchemaRange(q) => ~Within(q, b)
    BY <1>1, <1>6, <1>8, <2>2 DEF Apart
  <2> QED BY <1>1, <1>8, <2>4, <2>5, <2>6 DEF Apart
<1>11. RangesAreAhead(F, V, ck, w, cur, W2)
  <2>1. ASSUME last > from PROVE NextOf(cur, r)
    <3>1. cur[<<r.version, r.part>>] = cur[s]
      BY <1>5 DEF s
    <3> QED BY <1>2, <1>4, <1>5, <1>9, <3>1 DEF NextOf
  <2>2. SameStream(l, r) /\ Spot(l) = End(r)
    BY <1>3, <1>5 DEF SameStream
  <2> QED BY <1>1, <1>2, <1>3, <1>5, <1>6, <2>1, <2>2 DEF RangesAreAhead
<1>12. PlacesAreAhead(F, V, ck, w, cur, B)
  BY <1>1, <1>8 DEF PlacesAreAhead
<1>13. FilesAreCovered(F, V, ck, w, cur, target, W2, B)
  <2> SUFFICES ASSUME NEW f \in F, ~Eats(cur, f), ~Crossed(V, ck, w, f.version),
                      ~\E q \in W2 : InRange(f, q), ~\E b \in B : Within(f, b)
               PROVE  Late(f, target, W2, B)
    BY DEF FilesAreCovered
  <2>1. f \in File /\ f.date \in Nat /\ f.index \in Nat \ {0}
    BY FileFacts DEF Store
  <2>2. ~Within(f, a)
    <3> SUFFICES ASSUME Within(f, a) PROVE FALSE
      OBVIOUS
    <3>1. SameStream(f, a) /\ f.date = a.date
      BY <1>2 DEF Within, SameStream
    <3>2. f.index <= last
      BY <3>1
    <3>3. cur[<<f.version, f.part>>] = cur[s]
      BY <3>1 DEF SameStream, s
    <3>4. from < f.index
      BY <1>2, <1>4, <1>9, <2>1, <3>1, <3>3 DEF Eats, CursorBefore, Spot
    <3>5. InRange(f, r)
      BY <1>5, <2>1, <3>1, <3>2, <3>4 DEF InRange, SameStream
    <3> QED BY <1>7, <2>1, <3>2, <3>4, <3>5
  <2>3. Late(f, target, W, A)
    BY <1>1, <1>8, <2>2 DEF FilesAreCovered
  <2>4. a.version <= f.version /\ (SameStream(a, f) => a.date < f.date)
    BY <2>3 DEF Late
  <2>5. SameStream(r, f) => CursorBefore(End(r), Spot(f))
    BY <1>5, <2>1, <2>4 DEF SameStream, CursorBefore, End, Spot
  <2> QED BY <1>5, <1>6, <1>8, <2>3, <2>4, <2>5 DEF Late
<1>14. VersionsAreCovered(V, ck, w, target, W2)
  BY <1>1, <1>8 DEF VersionsAreCovered
<1> QED BY <1>10, <1>11, <1>12, <1>13, <1>14 DEF Scan, W2, B

----------------------------------------------------------------------------
(***************************************************************************)
(* What is behind a scan is loaded.                                        *)
(***************************************************************************)
LEMMA CrossedGrows ==
    ASSUME NEW V \in SUBSET Nat, NEW V2 \in SUBSET Nat, V \subseteq V2, NEW ck \in Nat, NEW ck2 \in Nat,
           NEW w \in Nat, NEW w2 \in Nat, ck <= ck2, w <= w2, NEW v \in Nat, Crossed(V, ck, w, v)
    PROVE  Crossed(V2, ck2, w2, v)
<1>1. PICK u \in V : v < u /\ (u <= w \/ u <= ck)
  BY DEF Crossed
<1>2. u \in V2 /\ v < u /\ (u <= w2 \/ u <= ck2)
  BY <1>1
<1> QED BY <1>2 DEF Crossed

LEMMA OrderedGrows ==
    ASSUME NEW F, NEW V, NEW C, Store(F, V, C), NEW V2 \in SUBSET Nat, V \subseteq V2,
           NEW ck \in Nat, NEW ck2 \in Nat, NEW w \in Nat, NEW w2 \in Nat, ck <= ck2, w <= w2,
           NEW cur, Ordered(F, V, ck, w, cur)
    PROVE  Ordered(F, V2, ck2, w2, cur)
<1>1. V \in SUBSET Nat /\ \A f \in F : f.version \in Nat
  BY DEF Store
<1> QED BY <1>1, CrossedGrows DEF Ordered

LEMMA BehindIsLoaded ==
    ASSUME NEW F, NEW V, NEW C, Store(F, V, C), NEW ck \in Nat, NEW w \in Nat,
           NEW cur, NEW row, Loaded(F, cur, row), PastCovered(C, ck, w, row),
           NEW f \in F, NEW x, Settled(F, f, x), Eats(cur, f) \/ Crossed(V, ck, w, f.version)
    PROVE  x.ts <= row[x.key]
<1>1. x \in f.rows
  BY DEF Settled
<1>2. CASE Eats(cur, f)
  BY <1>1, <1>2 DEF Loaded
<1>3. CASE Crossed(V, ck, w, f.version)
  <2>1. PICK u \in V : f.version < u /\ (u <= w \/ u <= ck)
    BY <1>3 DEF Crossed
  <2>2. x \in C /\ x.ts < u
    BY <1>1, <2>1 DEF Store
  <2>3. x.ts \in Nat /\ u \in Nat
    BY <2>2 DEF Store, Change
  <2> QED BY <2>1, <2>2, <2>3 DEF PastCovered
<1> QED BY <1>2, <1>3

(***************************************************************************)
(* SaveWatermark: everything before the DDL is loaded.                     *)
(***************************************************************************)
LEMMA WatermarkKeepsScan ==
    ASSUME NEW F, NEW V, NEW C, Store(F, V, C), NEW ck \in Nat, NEW w \in Nat, NEW target \in Nat,
           NEW cur, NEW row, Loaded(F, cur, row), PastCovered(C, ck, w, row), row \in [Keys -> Nat],
           NEW W, Scan(F, V, ck, w, cur, target, W, {}), W # {}, IsSchemaRange(First(W)),
           IsVersion(V, ck, w),
           \A x \in C : x.ts < First(W).version => \E f \in F : Settled(F, f, x)
    PROVE  /\ Scan(F, V, ck, First(W).version, cur, target, W \ {First(W)}, {})
           /\ PastCovered(C, ck, First(W).version, row)
           /\ IsVersion(V, ck, First(W).version)
           /\ First(W).version \in V /\ w < First(W).version /\ ck < First(W).version
<1> DEFINE r == First(W)
           v == r.version
           W2 == W \ {r}
<1>1. /\ Apart(W, {}) /\ RangesAreAhead(F, V, ck, w, cur, W)
      /\ FilesAreCovered(F, V, ck, w, cur, target, W, {})
      /\ VersionsAreCovered(V, ck, w, target, W)
  BY DEF Scan
<1>2. /\ r \in W /\ IsRange(r)
      /\ \A q \in W : IsRange(q) /\ v <= q.version /\ (q # r => Precedes(r, q))
  BY <1>1, FirstOfWork
<1>3. /\ v \in V /\ v \in Nat /\ w < v /\ ck < v /\ V \in SUBSET Nat /\ r = SchemaRange(v)
  BY <1>1, <1>2, RangeFacts DEF RangesAreAhead, Store
<1>4. W2 \subseteq W /\ \A q \in W : q # r => q \in W2
  OBVIOUS
<1>5. \A u \in V : u <= ck => u <= v
  BY <1>3
<1> HIDE DEF r, v, W2
<1>6. IsVersion(V, ck, v)
  BY <1>3, <1>5 DEF IsVersion
<1>7. Apart(W2, {})
  BY <1>1, <1>4 DEF Apart
<1>8. RangesAreAhead(F, V, ck, v, cur, W2)
  <2>1. ASSUME NEW q \in W2 PROVE ~Crossed(V, ck, v, q.version)
    <3>1. q \in W /\ q.version \in Nat /\ v <= q.version /\ ~Crossed(V, ck, w, q.version)
      BY <1>1, <1>2, <1>4, RangeFacts DEF RangesAreAhead
    <3> QED BY <1>3, <3>1 DEF Crossed
  <2>2. ASSUME NEW q \in W2, IsSchemaRange(q) PROVE v < q.version
    <3>1. q \in W /\ q.version \in Nat /\ q # r /\ Precedes(r, q) /\ q = SchemaRange(q.version)
      BY <1>2, <1>4, <2>2, RangeFacts DEF W2
    <3>2. r.version = v /\ r.part = NoPartition /\ q.part = NoPartition /\ r.date = NoDate /\ q.date = NoDate
      BY <1>3, <3>1 DEF SchemaRange, v
    <3> QED BY <1>3, <3>1, <3>2 DEF Precedes, NoPartition, NoDate
  <2> QED BY <1>1, <1>4, <2>1, <2>2 DEF RangesAreAhead
<1>9. FilesAreCovered(F, V, ck, v, cur, target, W2, {})
  <2>1. \A f \in F : Crossed(V, ck, w, f.version) => Crossed(V, ck, v, f.version)
    <3>1. \A f \in F : f.version \in Nat
      BY <1>3 DEF Store
    <3> QED BY <1>3, <3>1 DEF Crossed
  <2>2. \A f \in F : ~InRange(f, r)
    BY <1>3 DEF InRange, IsSchemaRange, SchemaRange
  <2>3. \A f \in F : Late(f, target, W, {}) => Late(f, target, W2, {})
    BY <1>4 DEF Late
  <2> QED BY <1>1, <1>4, <2>1, <2>2, <2>3 DEF FilesAreCovered
<1>10. VersionsAreCovered(V, ck, v, target, W2)
  <2> SUFFICES ASSUME NEW u \in V, u <= target, SchemaRange(u) \notin W2 PROVE u <= v
    BY DEF VersionsAreCovered
  <2>1. u \in Nat
    BY <1>3
  <2>2. CASE SchemaRange(u) \in W
    <3>1. SchemaRange(u) = r
      BY <1>4, <2>2
    <3> QED BY <1>3, <2>1, <3>1 DEF SchemaRange
  <2>3. CASE SchemaRange(u) \notin W
    BY <1>1, <1>3, <2>1, <2>3 DEF VersionsAreCovered
  <2> QED BY <2>2, <2>3
<1>11. PlacesAreAhead(F, V, ck, v, cur, {})
  BY DEF PlacesAreAhead
<1>12. PastCovered(C, ck, v, row)
  <2> SUFFICES ASSUME NEW x \in C, x.ts <= v PROVE x.ts <= row[x.key]
    BY DEF PastCovered
  <2>1. x.ts \in Nat /\ x.ts < v
    BY <1>3 DEF Store, Change
  <2>2. PICK f \in F : Settled(F, f, x)
    BY <2>1 DEF v, r
  <2>3. f.version \in Nat /\ f.version < v
    <3>1. x \in f.rows /\ f.version \in V
      BY <2>2 DEF Settled, Store
    <3>2. f.version < x.ts
      BY <3>1 DEF Store
    <3>3. f.version \in Nat /\ v \in Nat
      BY <1>3, <3>1
    <3> QED BY ONLY <2>1, <3>2, <3>3
  <2>4. ~\E q \in W : InRange(f, q)
    BY <1>2, <1>3, <2>3, RangeFacts DEF InRange, SameStream
  <2>5. ~Late(f, target, W, {})
    BY <1>2, <1>3, <2>3 DEF Late, v
  <2>6. Eats(cur, f) \/ Crossed(V, ck, w, f.version)
    BY <1>1, <2>4, <2>5 DEF FilesAreCovered
  <2> QED BY <2>2, <2>6, BehindIsLoaded
<1> QED BY <1>3, <1>6, <1>7, <1>8, <1>9, <1>10, <1>11, <1>12 DEF Scan, W2, v, r

(***************************************************************************)
(* The end of a scan: everything up to its target is loaded.               *)
(***************************************************************************)
LEMMA EmptyScanIsLoaded ==
    ASSUME NEW F, NEW V, NEW C, Store(F, V, C), NEW ck \in Nat, NEW w \in Nat, NEW target \in Nat,
           NEW cur, NEW row, Loaded(F, cur, row), PastCovered(C, ck, w, row), row \in [Keys -> Nat],
           Scan(F, V, ck, w, cur, target, {}, {}),
           \A x \in C : x.ts <= target => \E f \in F : Settled(F, f, x)
    PROVE  /\ \A x \in C : x.ts <= target => x.ts <= row[x.key]
           /\ w # 0 => \A v \in V : v <= target => v <= w
<1>1. ASSUME NEW x \in C, x.ts <= target PROVE x.ts <= row[x.key]
  <2>1. PICK f \in F : Settled(F, f, x)
    BY <1>1
  <2>2. x.ts \in Nat /\ ~Late(f, target, {}, {})
    BY <1>1, <2>1 DEF Late, Settled, Store, Change
  <2>3. Eats(cur, f) \/ Crossed(V, ck, w, f.version)
    BY <2>2 DEF Scan, FilesAreCovered
  <2> QED BY <2>1, <2>3, BehindIsLoaded
<1>2. w # 0 => \A v \in V : v <= target => v <= w
  BY DEF Scan, VersionsAreCovered
<1> QED BY <1>1, <1>2

(***************************************************************************)
(* MergeFile.  Fresh changes are those the filter lets through; row2 and   *)
(* cur2 are the row and the cursors after the first file of r is merged.   *)
(***************************************************************************)
Fresh(F, ck, r, x) ==
    /\ ck < x.ts
    /\ \E f \in F : SameStream(f, r) /\ Spot(f) = Start(r) /\ x \in f.rows

MergedFrom(F, C, ck, r, row, row2) ==
    \A k \in Keys :
        \/ row2[k] = row[k] /\ \A x \in C : Fresh(F, ck, r, x) => x.key # k
        \/ /\ \E x \in C : Fresh(F, ck, r, x) /\ x.key = k /\ x.ts = row2[k]
           /\ \A x \in C : Fresh(F, ck, r, x) /\ x.key = k => x.ts <= row2[k]

\* Everything before the file to be merged is behind the scan.
NextInOrder(F, V, ck, w, cur, r) ==
    \A f \in F : f.part = r.part =>
        /\ f.version < r.version => Eats(cur, f) \/ Crossed(V, ck, w, f.version)
        /\ f.version = r.version => Eats(cur, f) \/ ~CursorBefore(Spot(f), Start(r))

LEMMA FirstIsNext ==
    ASSUME NEW F, NEW V, NEW C, Store(F, V, C), NEW ck \in Nat, NEW w \in Nat, NEW target \in Nat,
           NEW cur \in Cursors, NEW W, Scan(F, V, ck, w, cur, target, W, {}), W # {},
           ~IsSchemaRange(First(W))
    PROVE  NextInOrder(F, V, ck, w, cur, First(W))
<1> DEFINE r == First(W)
<1>1. /\ Apart(W, {}) /\ RangesAreAhead(F, V, ck, w, cur, W)
      /\ FilesAreCovered(F, V, ck, w, cur, target, W, {})
  BY DEF Scan
<1>2. /\ r \in W /\ IsFileRange(r) /\ ~IsSchemaRange(r)
      /\ \A q \in W : IsRange(q) /\ r.version <= q.version /\ (q # r => Precedes(r, q))
  BY <1>1, FirstOfWork, RangeFacts
<1>3. ~Crossed(V, ck, w, r.version)
  BY <1>1, <1>2 DEF RangesAreAhead
<1> HIDE DEF r
<1>4. /\ r.version \in Nat /\ r.part \in Nat /\ r.date \in Nat /\ r.start \in Nat /\ r.end \in Nat
      /\ r.start <= r.end
  BY <1>2, SinkAssumption DEF IsFileRange
<1>5. ASSUME NEW f \in F, f.part = r.part, f.version < r.version
      PROVE  Eats(cur, f) \/ Crossed(V, ck, w, f.version)
  <2>1. f.version \in Nat
    BY DEF Store
  <2>2. ~\E q \in W : InRange(f, q)
    BY <1>2, <1>4, <1>5, <2>1, RangeFacts DEF InRange, SameStream
  <2>3. ~Late(f, target, W, {})
    BY <1>2, <1>4, <1>5, <2>1 DEF Late
  <2> QED BY <1>1, <2>2, <2>3 DEF FilesAreCovered
<1>6. ASSUME NEW f \in F, f.part = r.part, f.version = r.version, CursorBefore(Spot(f), Start(r))
      PROVE  Eats(cur, f)
  <2>1. f \in File /\ f.date \in Nat /\ f.index \in Nat /\ Spot(f).date = f.date /\ Spot(f).index = f.index
    BY FileFacts DEF Store
  <2>2. ASSUME NEW q \in W, InRange(f, q) PROVE FALSE
    <3>1. /\ q.version = r.version /\ q.part = r.part /\ q.date = f.date /\ q.start <= f.index
      BY <1>6, <2>2 DEF InRange, SameStream
    <3>2. q # r
      BY <1>4, <1>6, <2>1, <3>1 DEF CursorBefore, Start
    <3>3. r.date < q.date
      BY <1>2, <1>4, <2>1, <3>1, <3>2 DEF Precedes
    <3> QED BY <1>4, <1>6, <2>1, <3>1, <3>3 DEF CursorBefore, Start
  <2>3. ~Late(f, target, W, {})
    <3>1. SameStream(r, f)
      BY <1>6 DEF SameStream
    <3>2. ~CursorBefore(End(r), Spot(f))
      BY <1>4, <1>6, <2>1 DEF CursorBefore, Start, End
    <3> QED BY <1>2, <3>1, <3>2 DEF Late
  <2> QED BY <1>1, <1>3, <1>6, <2>2, <2>3 DEF FilesAreCovered
<1> QED BY <1>5, <1>6 DEF NextInOrder, r

\* The first file of range r is merged, its cursor follows.
MergeStep(F, V, C, ck, w, cur, row, r, cur2, row2) ==
    /\ Store(F, V, C) /\ ck \in Nat /\ w \in Nat
    /\ cur \in Cursors /\ row \in [Keys -> Nat] /\ row2 \in [Keys -> Nat]
    /\ Loaded(F, cur, row) /\ PastCovered(C, ck, w, row) /\ Ordered(F, V, ck, w, cur)
    /\ IsVersion(V, ck, w)
    /\ IsFileRange(r) /\ r.version \in V /\ <<r.version, r.part>> \in Streams
    /\ ~Crossed(V, ck, w, r.version) /\ NextOf(cur, r)
    /\ NextInOrder(F, V, ck, w, cur, r) /\ MergedFrom(F, C, ck, r, row, row2)
    /\ cur2 = [cur EXCEPT ![<<r.version, r.part>>] = Start(r)]

LEMMA MergeLoads ==
    ASSUME NEW F, NEW V, NEW C, NEW ck, NEW w, NEW cur, NEW row, NEW r, NEW cur2, NEW row2,
           MergeStep(F, V, C, ck, w, cur, row, r, cur2, row2)
    PROVE  /\ Loaded(F, cur2, row2) /\ PastCovered(C, ck, w, row2) /\ Ordered(F, V, ck, w, cur2)
           /\ cur2 \in Cursors
           /\ \A s \in Streams : ~CursorBefore(cur2[s], cur[s])
           /\ \A f \in F : Eats(cur, f) => Eats(cur2, f)
<1>s. /\ Store(F, V, C) /\ ck \in Nat /\ w \in Nat
      /\ cur \in Cursors /\ row \in [Keys -> Nat] /\ row2 \in [Keys -> Nat]
      /\ Loaded(F, cur, row) /\ PastCovered(C, ck, w, row) /\ Ordered(F, V, ck, w, cur)
      /\ IsVersion(V, ck, w)
      /\ IsFileRange(r) /\ r.version \in V /\ <<r.version, r.part>> \in Streams
      /\ ~Crossed(V, ck, w, r.version) /\ NextOf(cur, r)
      /\ NextInOrder(F, V, ck, w, cur, r) /\ MergedFrom(F, C, ck, r, row, row2)
      /\ cur2 = [cur EXCEPT ![<<r.version, r.part>>] = Start(r)]
  BY DEF MergeStep
<1> USE <1>s
<1> DEFINE s == <<r.version, r.part>>
<1>1. /\ V \in SUBSET Nat /\ F \subseteq File /\ C \subseteq Change
      /\ \A f \in F : f.version \in V /\ <<f.version, f.part>> \in Streams
      /\ \A f \in F : \A x \in f.rows :
            /\ x \in C /\ PartitionOf[x.key] = f.part /\ f.version < x.ts
            /\ \A v \in V : f.version < v => x.ts < v
  BY DEF Store
<1>2. /\ r.version \in Nat /\ r.part \in Partitions /\ r.date \in Nat \ {0} /\ r.start \in Nat \ {0}
      /\ Start(r) \in Cursor /\ Start(r).date = r.date /\ Start(r).index = r.start
  BY DEF IsFileRange, Start, Cursor
<1>3. cur2 \in Cursors /\ cur2[s] = Start(r) /\ \A q \in Streams : q # s => cur2[q] = cur[q]
  BY <1>2 DEF Cursors
<1>4. cur[s] \in Cursor /\ cur[s].date \in Nat /\ cur[s].index \in Nat
  BY DEF Cursors, Cursor
<1>5. CursorBefore(cur[s], Start(r)) /\ ~CursorBefore(Start(r), cur[s])
  BY <1>2, <1>4 DEF NextOf, CursorBefore
<1>6. \A q \in Streams : ~CursorBefore(cur2[q], cur[q])
  <2>1. \A q \in Streams : cur[q] \in Cursor
    BY DEF Cursors
  <2> QED BY <1>3, <1>5, <2>1, CursorOrder
<1>7. ASSUME NEW f \in F
      PROVE  /\ Spot(f) \in Cursor /\ <<f.version, f.part>> \in Streams
             /\ <<f.version, f.part>> = s <=> SameStream(f, r)
  BY <1>1, FileFacts DEF SameStream
<1>8. ASSUME NEW f \in F, SameStream(f, r)
      PROVE  /\ Eats(cur, f) <=> ~CursorBefore(cur[s], Spot(f))
             /\ Eats(cur2, f) <=> ~CursorBefore(Start(r), Spot(f))
  BY <1>3, <1>7, <1>8 DEF Eats
<1>9. ASSUME NEW f \in F, ~SameStream(f, r) PROVE Eats(cur2, f) <=> Eats(cur, f)
  BY <1>3, <1>7, <1>9 DEF Eats
<1> HIDE DEF s
\* The cursor moves over one spot only.
<1>10. ASSUME NEW f \in F, Eats(cur2, f)
       PROVE  Eats(cur, f) \/ (SameStream(f, r) /\ Spot(f) = Start(r))
  <2> SUFFICES ASSUME ~Eats(cur, f) PROVE SameStream(f, r) /\ Spot(f) = Start(r)
    OBVIOUS
  <2>1. SameStream(f, r) /\ ~CursorBefore(Start(r), Spot(f))
    BY <1>8, <1>9, <1>10
  <2>2. ~CursorBefore(Spot(f), Start(r))
    BY <2>1 DEF NextInOrder, SameStream
  <2> QED BY <1>2, <1>7, <2>1, <2>2, CursorOrder
<1>11. ASSUME NEW f \in F, Eats(cur, f) PROVE Eats(cur2, f)
  BY <1>2, <1>4, <1>5, <1>7, <1>8, <1>9, <1>11, CursorOrder
<1>12. \A x \in C : Fresh(F, ck, r, x) => r.version < x.ts /\ PartitionOf[x.key] = r.part /\ ck < x.ts
  BY <1>1 DEF Fresh, SameStream
<1>13. \A x \in C : x.key \in Keys /\ x.ts \in Nat /\ row[x.key] \in Nat /\ row2[x.key] \in Nat
  BY <1>1 DEF Change
<1>14. PastCovered(C, ck, w, row2)
  <2> SUFFICES ASSUME NEW x \in C, x.ts <= w \/ x.ts <= ck PROVE x.ts <= row2[x.key]
    BY DEF PastCovered
  <2>1. x.ts <= row[x.key]
    BY DEF PastCovered
  <2>2. CASE row2[x.key] = row[x.key]
    BY <2>1, <2>2
  <2>3. CASE row2[x.key] # row[x.key]
    <3>1. PICK y \in C : Fresh(F, ck, r, y) /\ y.key = x.key /\ y.ts = row2[x.key]
      BY <1>13, <2>3 DEF MergedFrom
    <3>2. r.version < y.ts /\ ck < y.ts
      BY <1>12, <3>1
    <3>3. w <= r.version
      <4>1. CASE w = 0
        BY <1>2, <4>1
      <4>2. CASE w # 0
        <5>1. w \in V
          BY <4>2 DEF IsVersion
        <5> QED BY <1>2, <5>1 DEF Crossed
      <4> QED BY <4>1, <4>2
    <3> QED BY <1>2, <1>13, <3>1, <3>2, <3>3
  <2> QED BY <2>2, <2>3
<1>15. Ordered(F, V, ck, w, cur2)
  <2> SUFFICES ASSUME NEW f \in F, NEW g \in F, f.part = g.part, f.version < g.version, Eats(cur2, g)
               PROVE  Eats(cur2, f) \/ Crossed(V, ck, w, f.version)
    BY DEF Ordered
  <2>1. CASE Eats(cur, g)
    BY <1>11, <2>1 DEF Ordered
  <2>2. CASE SameStream(g, r)
    BY <1>11, <2>2 DEF NextInOrder, SameStream
  <2> QED BY <1>10, <2>1, <2>2
<1>16. Loaded(F, cur2, row2)
  <2> SUFFICES ASSUME NEW f \in F, Eats(cur2, f), NEW x \in f.rows, Settled(F, f, x)
               PROVE  x.ts <= row2[x.key]
    BY DEF Loaded
  <2>1. x \in C /\ f.version < x.ts /\ PartitionOf[x.key] = f.part /\ f.version \in Nat
    BY <1>1
  <2>2. CASE SameStream(f, r) /\ Spot(f) = Start(r)
    <3>1. CASE ck < x.ts
      <4>1. Fresh(F, ck, r, x)
        BY <2>2, <3>1 DEF Fresh
      <4> QED BY <1>13, <2>1, <4>1 DEF MergedFrom
    <3>2. CASE x.ts <= ck
      BY <1>14, <2>1, <3>2 DEF PastCovered
    <3> QED BY <1>13, <2>1, <3>1, <3>2
  <2>3. CASE Eats(cur, f)
    <3>1. x.ts <= row[x.key]
      BY <2>3 DEF Loaded
    <3>2. ASSUME row2[x.key] # row[x.key] PROVE x.ts <= row2[x.key]
      <4>1. PICK y \in C : Fresh(F, ck, r, y) /\ y.key = x.key /\ y.ts = row2[x.key]
        BY <1>13, <2>1, <3>2 DEF MergedFrom
      <4>2. PICK g \in F : SameStream(g, r) /\ Spot(g) = Start(r) /\ y \in g.rows
        BY <4>1 DEF Fresh
      <4>3. g.part = f.part /\ g.version = r.version /\ r.version < y.ts /\ ~Eats(cur, g)
        BY <1>5, <1>8, <1>12, <2>1, <4>1, <4>2, <1>1 DEF SameStream
      <4>4. CASE f.version < r.version
        BY <1>1, <1>2, <1>13, <2>1, <4>1, <4>3, <4>4
      <4>5. CASE f.version = r.version
        <5>1. SameStream(f, r) /\ ~CursorBefore(cur[s], Spot(f))
          BY <1>8, <2>3, <4>2, <4>3, <4>5 DEF SameStream
        <5>2. CursorBefore(Spot(f), Spot(g))
          BY <1>2, <1>4, <1>5, <1>7, <4>2, <5>1, CursorOrder
        <5>3. After(g, f)
          BY <4>2, <5>1, <5>2 DEF After, SameStream
        <5> QED BY <4>1, <4>2, <5>3 DEF Settled
      <4>6. CASE r.version < f.version
        <5>1. ~Crossed(V, ck, w, g.version)
          BY <4>3
        <5> QED BY <2>3, <4>3, <4>6, <5>1 DEF Ordered
      <4> QED BY <1>2, <2>1, <4>4, <4>5, <4>6
    <3> QED BY <3>1, <3>2
  <2> QED BY <1>10, <2>2, <2>3
<1> QED BY <1>3, <1>6, <1>11, <1>14, <1>15, <1>16

LEMMA MergeKeepsScan ==
    ASSUME NEW F, NEW V, NEW C, Store(F, V, C), NEW ck \in Nat, NEW w \in Nat, NEW target \in Nat,
           NEW cur \in Cursors, NEW W, Scan(F, V, ck, w, cur, target, W, {}), W # {},
           NEW r, r = First(W), ~IsSchemaRange(r), Placed(F, cur),
           NEW cur2 \in Cursors, cur2 = [cur EXCEPT ![<<r.version, r.part>>] = Start(r)],
           \A f \in F : Eats(cur, f) => Eats(cur2, f),
           NEW N, N = IF r.start = r.end THEN {} ELSE {[r EXCEPT !.start = r.start + 1]}
    PROVE  Scan(F, V, ck, w, cur2, target, (W \ {r}) \cup N, {}) /\ Placed(F, cur2)
<1> DEFINE n == [r EXCEPT !.start = r.start + 1]
           W2 == (W \ {r}) \cup N
           s == <<r.version, r.part>>
<1>1. /\ Apart(W, {}) /\ RangesAreAhead(F, V, ck, w, cur, W)
      /\ FilesAreCovered(F, V, ck, w, cur, target, W, {})
      /\ VersionsAreCovered(V, ck, w, target, W)
  BY DEF Scan
<1>2. /\ r \in W /\ IsFileRange(r)
      /\ \A q \in W : IsRange(q) /\ r.version <= q.version /\ (q # r => Precedes(r, q))
  BY <1>1, FirstOfWork, RangeFacts
<1>3. /\ r.version \in Nat /\ r.part \in Nat /\ r.date \in Nat /\ r.start \in Nat \ {0} /\ r.end \in Nat
      /\ r.start <= r.end /\ r.part # NoPartition
  BY <1>2, SinkAssumption DEF IsFileRange, NoPartition
<1>4. /\ n.version = r.version /\ n.part = r.part /\ n.date = r.date /\ n.start = r.start + 1
      /\ n.end = r.end /\ ~IsSchemaRange(n)
  BY <1>2, <1>3 DEF IsFileRange, IsSchemaRange
<1>5. r.start # r.end => IsFileRange(n)
  BY <1>2, <1>3 DEF IsFileRange
<1>6. \A q \in W2 : (q \in W /\ q # r) \/ (q = n /\ r.start # r.end)
  OBVIOUS
<1>7. /\ \A q \in W : q # r => q \in W2
      /\ r.start # r.end => n \in W2
  OBVIOUS
<1>8. PICK l \in F : SameStream(l, r) /\ Spot(l) = End(r)
  BY <1>1, <1>2 DEF RangesAreAhead
<1>9. s \in Streams /\ cur2[s] = Start(r) /\ \A q \in Streams : q # s => cur2[q] = cur[q]
  <2>1. s \in Streams
    BY <1>8 DEF SameStream, Store
  <2> QED BY <2>1 DEF Cursors
<1>10. Start(r).date = r.date /\ Start(r).index = r.start /\ End(r).date = r.date /\ End(r).index = r.end
       /\ End(n) = End(r)
  BY <1>4 DEF Start, End
<1>11. \A q, p : SamePlace(q, p) => SamePlace(p, q)
  BY DEF SamePlace
<1> HIDE DEF n, W2, s
<1>12. Apart(W2, {})
  <2>1. \A q \in W2 : IsRange(q)
    BY <1>1, <1>5, <1>6 DEF Apart, IsRange
  <2>2. \A q \in W : q # r => ~SamePlace(q, n)
    BY <1>1, <1>2, <1>4 DEF Apart, SamePlace
  <2> QED BY <1>1, <1>6, <1>11, <2>1, <2>2 DEF Apart
<1>13. RangesAreAhead(F, V, ck, w, cur2, W2)
  <2>1. ASSUME NEW q \in W, q # r, ~IsSchemaRange(q) PROVE NextOf(cur2, q)
    <3>1. NextOf(cur, q) /\ IsFileRange(q)
      BY <1>1, <1>2, <2>1, RangeFacts DEF RangesAreAhead
    <3>2. CASE <<q.version, q.part>> = s
      <4>1. q.version = r.version /\ q.part = r.part
        BY <3>2 DEF s
      <4>2. r.date < q.date /\ q.date \in Nat
        BY <1>2, <1>3, <2>1, <3>1, <4>1 DEF Precedes, IsFileRange
      <4>3. cur[s].date <= r.date /\ cur[s].date \in Nat /\ cur[s].index \in Nat
        <5>1. NextOf(cur, r)
          BY <1>1, <1>2 DEF RangesAreAhead
        <5>2. cur[s] \in Cursor
          BY <1>9 DEF Cursors
        <5> QED BY <1>3, <5>1, <5>2 DEF NextOf, s, Cursor
      <4>4. q.start = 1
        BY <1>3, <3>1, <3>2, <4>2, <4>3 DEF NextOf
      <4> QED BY <1>9, <1>10, <3>2, <4>2, <4>4 DEF NextOf
    <3>3. CASE <<q.version, q.part>> # s
      <4>1. PICK f \in F : SameStream(f, q)
        BY <1>1, <2>1 DEF RangesAreAhead
      <4>2. <<q.version, q.part>> \in Streams
        BY <4>1 DEF SameStream, Store
      <4> QED BY <1>9, <3>1, <3>3, <4>2 DEF NextOf
    <3> QED BY <3>2, <3>3
  <2>2. NextOf(cur2, n)
    BY <1>3, <1>4, <1>9, <1>10 DEF NextOf, s
  <2>3. SameStream(l, n) /\ Spot(l) = End(n)
    BY <1>4, <1>8, <1>10 DEF SameStream
  <2>4. n.version \in V /\ ~Crossed(V, ck, w, n.version)
    BY <1>1, <1>2, <1>4 DEF RangesAreAhead
  <2> QED BY <1>1, <1>4, <1>6, <2>1, <2>2, <2>3, <2>4 DEF RangesAreAhead
<1>14. FilesAreCovered(F, V, ck, w, cur2, target, W2, {})
  <2>1. ASSUME NEW f \in F, InRange(f, r) PROVE Eats(cur2, f) \/ \E q \in W2 : InRange(f, q)
    <3>1. f.version = r.version /\ f.part = r.part /\ f.date = r.date /\ f.index \in Nat
          /\ r.start <= f.index /\ f.index <= r.end /\ Spot(f).date = f.date /\ Spot(f).index = f.index
      BY <2>1, FileFacts DEF InRange, SameStream, Store
    <3>2. CASE f.index = r.start
      BY <1>3, <1>9, <1>10, <3>1, <3>2 DEF Eats, CursorBefore, s
    <3>3. CASE f.index # r.start
      <4>1. r.start # r.end /\ InRange(f, n)
        BY <1>3, <1>4, <3>1, <3>3 DEF InRange, SameStream
      <4> QED BY <1>7, <4>1
    <3> QED BY <3>2, <3>3
  <2>2. ASSUME NEW f \in F, Late(f, target, W, {}) PROVE Late(f, target, W2, {})
    <3>1. \A q \in W2 : q.version <= f.version /\
                        (~IsSchemaRange(q) /\ SameStream(q, f) => CursorBefore(End(q), Spot(f)))
      <4>1. SameStream(n, f) => SameStream(r, f)
        BY <1>4 DEF SameStream
      <4> QED BY <1>2, <1>4, <1>6, <1>10, <2>2, <4>1 DEF Late
    <3> QED BY <2>2, <3>1 DEF Late
  <2> QED BY <1>1, <1>7, <2>1, <2>2 DEF FilesAreCovered
<1>15. VersionsAreCovered(V, ck, w, target, W2)
  <2>1. \A v : SchemaRange(v) # r
    BY <1>3 DEF SchemaRange
  <2> QED BY <1>1, <1>7, <2>1 DEF VersionsAreCovered
<1>16. PlacesAreAhead(F, V, ck, w, cur2, {})
  BY DEF PlacesAreAhead
<1>17. Placed(F, cur2)
  <2>1. <<l.version, l.part>> = s /\ ~CursorBefore(Spot(l), cur2[s])
    BY <1>3, <1>8, <1>9, <1>10 DEF SameStream, CursorBefore, s
  <2> QED BY <1>9, <2>1 DEF Placed
<1> QED BY <1>12, <1>13, <1>14, <1>15, <1>16, <1>17 DEF Scan, W2

----------------------------------------------------------------------------
(***************************************************************************)
(* What the changefeed adds.                                               *)
(***************************************************************************)
\* One more file, after the others of its stream and in the latest version.
Appended(F, V, g) ==
    /\ g \in File /\ g.version \in V /\ \A v \in V : v <= g.version
    /\ \A f \in F : SameStream(f, g) => After(g, f)

LEMMA AppendIsNotEaten ==
    ASSUME NEW F, NEW V, NEW C, Store(F, V, C), NEW g, Appended(F, V, g),
           <<g.version, g.part>> \in Streams,
           NEW cur \in Cursors, NEW base \in Cursors, Placed(F, base),
           \A s \in Streams : ~CursorBefore(base[s], cur[s])
    PROVE  ~Eats(cur, g)
<1> DEFINE s == <<g.version, g.part>>
<1>1. cur[s] \in Cursor /\ base[s] \in Cursor /\ ~CursorBefore(base[s], cur[s])
  BY DEF Cursors
<1>2. Spot(g) \in Cursor /\ CursorBefore(NoCursor, Spot(g)) /\ NoCursor \in Cursor
  BY FileFacts DEF Appended, CursorBefore, NoCursor, Cursor
<1>3. CursorBefore(base[s], Spot(g))
  <2>1. CASE base[s] = NoCursor
    BY <1>2, <2>1
  <2>2. CASE base[s] # NoCursor
    <3>1. PICK f \in F : <<f.version, f.part>> = s /\ ~CursorBefore(Spot(f), base[s])
      BY <2>2 DEF Placed
    <3>2. CursorBefore(Spot(f), Spot(g)) /\ Spot(f) \in Cursor
      BY <3>1, FileFacts DEF Appended, SameStream, After, Store
    <3> QED BY <1>1, <1>2, <3>1, <3>2, CursorOrder
  <2> QED BY <2>1, <2>2
<1>4. CursorBefore(cur[s], Spot(g))
  BY <1>1, <1>2, <1>3, CursorOrder
<1> QED BY <1>4 DEF Eats

LEMMA AppendKeepsProgress ==
    ASSUME NEW F, NEW V, NEW C, Store(F, V, C), NEW g, Appended(F, V, g),
           NEW ck, NEW w, NEW cur, ~Eats(cur, g)
    PROVE  /\ Ordered(F, V, ck, w, cur) => Ordered(F \cup {g}, V, ck, w, cur)
           /\ \A row : Loaded(F, cur, row) => Loaded(F \cup {g}, cur, row)
           /\ Placed(F, cur) => Placed(F \cup {g}, cur)
<1>1. ASSUME Ordered(F, V, ck, w, cur) PROVE Ordered(F \cup {g}, V, ck, w, cur)
  <2>1. \A f \in F : f.version \in Nat /\ f.version <= g.version /\ g.version \in Nat
    BY DEF Store, Appended, File
  <2> QED BY <1>1, <2>1 DEF Ordered
<1>2. ASSUME NEW row, Loaded(F, cur, row) PROVE Loaded(F \cup {g}, cur, row)
  BY <1>2 DEF Loaded, Settled
<1>3. Placed(F, cur) => Placed(F \cup {g}, cur)
  BY DEF Placed
<1> QED BY <1>1, <1>2, <1>3

LEMMA AppendKeepsScan ==
    ASSUME NEW F, NEW V, NEW C, Store(F, V, C), NEW g, Appended(F, V, g),
           NEW ck, NEW w, NEW cur, NEW target, NEW W, NEW A,
           Scan(F, V, ck, w, cur, target, W, A),
           \A x \in g.rows : target < x.ts,
           \A f \in F : f.date <= g.date
    PROVE  Scan(F \cup {g}, V, ck, w, cur, target, W, A)
<1> DEFINE G == F \cup {g}
<1>1. /\ Apart(W, A) /\ RangesAreAhead(F, V, ck, w, cur, W)
      /\ PlacesAreAhead(F, V, ck, w, cur, A)
      /\ FilesAreCovered(F, V, ck, w, cur, target, W, A)
      /\ VersionsAreCovered(V, ck, w, target, W)
  BY DEF Scan
<1>2. F \subseteq G /\ g \in G /\ \A f \in G : f \in F \/ f = g
  OBVIOUS
<1> HIDE DEF G
<1>3. RangesAreAhead(G, V, ck, w, cur, W)
  BY <1>1, <1>2 DEF RangesAreAhead
<1>4. PlacesAreAhead(G, V, ck, w, cur, A)
  BY <1>1, <1>2 DEF PlacesAreAhead
<1>5. ASSUME ~\E a \in A : Within(g, a) PROVE Late(g, target, W, A)
  <2>1. ASSUME NEW r \in W
        PROVE  r.version <= g.version /\
               (~IsSchemaRange(r) /\ SameStream(r, g) => CursorBefore(End(r), Spot(g)))
    <3>1. r.version <= g.version
      BY <1>1 DEF RangesAreAhead, Appended
    <3>2. ASSUME ~IsSchemaRange(r), SameStream(r, g) PROVE CursorBefore(End(r), Spot(g))
      <4>1. PICK f \in F : SameStream(f, r) /\ Spot(f) = End(r)
        BY <1>1, <3>2 DEF RangesAreAhead
      <4> QED BY <3>2, <4>1 DEF Appended, After, SameStream
    <3> QED BY <3>1, <3>2
  <2>2. ASSUME NEW a \in A
        PROVE  a.version <= g.version /\ (a.date # NoDate /\ SameStream(a, g) => a.date < g.date)
    <3>1. a.version <= g.version
      BY <1>1 DEF PlacesAreAhead, Appended
    <3>2. ASSUME a.date # NoDate, SameStream(a, g) PROVE a.date < g.date
      <4>1. PICK f \in F : SameStream(f, a) /\ f.date = a.date
        BY <1>1, <3>2 DEF PlacesAreAhead
      <4>2. a.date <= g.date /\ a.date \in Nat /\ g.date \in Nat
        BY <4>1 DEF Store, File, Appended
      <4>3. a.date # g.date
        BY <1>5, <3>2 DEF Within, SameStream
      <4> QED BY <4>2, <4>3
    <3> QED BY <3>1, <3>2
  <2> QED BY <2>1, <2>2 DEF Late
<1>6. FilesAreCovered(G, V, ck, w, cur, target, W, A)
  BY <1>1, <1>2, <1>5 DEF FilesAreCovered
<1> QED BY <1>1, <1>3, <1>4, <1>6 DEF Scan, G

\* New versions, after the others and after whatever the loader has seen.
LEMMA NewVersionsKeepScan ==
    ASSUME NEW F, NEW V, NEW C, Store(F, V, C), NEW V2 \in SUBSET Nat, V \subseteq V2,
           NEW ck \in Nat, NEW w \in Nat, NEW cur, NEW target \in Nat, NEW W, NEW A,
           Scan(F, V, ck, w, cur, target, W, A),
           ck <= target, w # 0 => w \in V,
           \A v \in V2 \ V : target < v /\ \A u \in V : u < v
    PROVE  Scan(F, V2, ck, w, cur, target, W, A)
<1>1. /\ Apart(W, A) /\ RangesAreAhead(F, V, ck, w, cur, W)
      /\ PlacesAreAhead(F, V, ck, w, cur, A)
      /\ FilesAreCovered(F, V, ck, w, cur, target, W, A)
      /\ VersionsAreCovered(V, ck, w, target, W)
  BY DEF Scan
<1>2. V \in SUBSET Nat /\ \A f \in F : f.version \in Nat
  BY DEF Store
<1>3. ASSUME NEW v \in V, ~Crossed(V, ck, w, v) PROVE ~Crossed(V2, ck, w, v)
  <2> SUFFICES ASSUME NEW u \in V2 \ V, u <= w \/ u <= ck PROVE FALSE
    BY <1>3 DEF Crossed
  <2> QED BY <1>2
<1>4. RangesAreAhead(F, V2, ck, w, cur, W)
  BY <1>1, <1>3 DEF RangesAreAhead
<1>5. PlacesAreAhead(F, V2, ck, w, cur, A)
  BY <1>1, <1>3 DEF PlacesAreAhead
<1>6. FilesAreCovered(F, V2, ck, w, cur, target, W, A)
  BY <1>1, <1>2, CrossedGrows DEF FilesAreCovered
<1>7. VersionsAreCovered(V2, ck, w, target, W)
  BY <1>1, <1>2 DEF VersionsAreCovered
<1> QED BY <1>1, <1>4, <1>5, <1>6, <1>7 DEF Scan

----------------------------------------------------------------------------
(***************************************************************************)
(* The invariant.                                                          *)
(***************************************************************************)
\* A copy of the table's state in which a process may start again.
SavedIsTrue(t, saved) ==
    /\ \A s \in Streams : ~CursorBefore(cursor[t][s], saved.cursors[s])
    /\ Ordered(TableFiles(t), VersionsOf(t), mem.checkpoint, saved.watermark, saved.cursors)
    /\ PastCovered(Changes(t), mem.checkpoint, saved.watermark, rows[t])
    /\ IsVersion(VersionsOf(t), mem.checkpoint, saved.watermark)

ProgressIsTrue(t) ==
    /\ SavedIsTrue(t, obj.tables[t]) /\ SavedIsTrue(t, mem.tables[t])
    /\ Ordered(TableFiles(t), VersionsOf(t), mem.checkpoint, watermark[t], cursor[t])
    /\ Loaded(TableFiles(t), cursor[t], rows[t])
    /\ Placed(TableFiles(t), cursor[t])

\* A task that is done has loaded everything up to the target.
TargetLoaded(t) ==
    /\ \A x \in Changes(t) : x.ts <= bounds.target => x.ts <= rows[t][x.key]
    /\ watermark[t] # 0 => \A v \in VersionsOf(t) : v <= bounds.target => v <= watermark[t]

ScanIsTrue(t) ==
    /\ pc[t] \in {"list", "load", "watermark"} =>
          Scan(TableFiles(t), VersionsOf(t), mem.checkpoint, watermark[t], cursor[t],
               bounds.target, work[t], agenda[t])
    /\ pc[t] = "list" /\ watermark[t] # 0 => watermark[t] \in paths[t]
    /\ pc[t] \in {"load", "watermark"} => agenda[t] = {}
    /\ pc[t] = "watermark" => work[t] # {} /\ IsSchemaRange(First(work[t]))
    /\ pc[t] = "done" => TargetLoaded(t)
    /\ pc[t] # "failed" => obj.tables[t] = mem.tables[t]

\* The state object, the copy of it and what the loader keeps agree.
Agreement ==
    /\ obj.checkpoint = mem.checkpoint
    /\ mem.checkpoint <= tso /\ (mem.checkpoint <= metadata \/ mem.checkpoint = SnapshotTS)
    /\ scanning => /\ bounds.checkpoint = mem.checkpoint
                   /\ mem.checkpoint < bounds.target /\ bounds.target <= metadata
    /\ \A t \in Tables : scanning <=> pc[t] # "idle"
    /\ \A t \in Tables : watermark[t] = mem.tables[t].watermark
    /\ \A t \in Tables : \A s \in Streams :
          s \notin dirty[t] => cursor[t][s] = mem.tables[t].cursors[s]

LoaderInv ==
    /\ SinkInv /\ TypeOK /\ Agreement
    /\ \A t \in Tables : ProgressIsTrue(t) /\ ScanIsTrue(t)

LEMMA StoreHolds ==
    ASSUME SinkInv, NEW t \in Tables
    PROVE  /\ Store(TableFiles(t), VersionsOf(t), Changes(t))
           /\ \A v \in VersionsOf(t) : v \in 1..MaxTS
<1>1. \A v \in VersionsOf(t) : v \in 1..MaxTS
  BY EventParts, SinkAssumption DEF SinkInv, SinkTypes
<1>2. \A f \in TableFiles(t) : f.version \in VersionsOf(t) /\ f.part \in Partitions
  BY StoredIsSound, FileFacts
<1>3. \A f \in TableFiles(t) : <<f.version, f.part>> \in Streams
  BY <1>1, <1>2, LoaderAssumption
<1> QED BY <1>1, <1>2, <1>3, StoredIsSound DEF Store

\* A step of another table, or of none.
SameTable(t) ==
    /\ rows'[t] = rows[t] /\ watermark'[t] = watermark[t] /\ cursor'[t] = cursor[t]
    /\ work'[t] = work[t] /\ agenda'[t] = agenda[t] /\ paths'[t] = paths[t]
    /\ pc'[t] = pc[t] /\ mem'.tables[t] = mem.tables[t]
    /\ obj'.tables[t] = obj.tables[t] \/ obj'.tables[t] = mem.tables[t]

SameStore(t) ==
    /\ TableFiles(t)' = TableFiles(t) /\ VersionsOf(t)' = VersionsOf(t)
    /\ Changes(t)' = Changes(t)

LEMMA SameTableKeeps ==
    ASSUME NEW t \in Tables, ProgressIsTrue(t), ScanIsTrue(t), SameTable(t), SameStore(t),
           mem'.checkpoint = mem.checkpoint, bounds' = bounds
    PROVE  ProgressIsTrue(t)' /\ ScanIsTrue(t)'
<1>1. ASSUME NEW saved, SavedIsTrue(t, saved) PROVE SavedIsTrue(t, saved)'
  BY <1>1 DEF SavedIsTrue, SameTable, SameStore
<1>2. SavedIsTrue(t, obj.tables[t])' /\ SavedIsTrue(t, mem.tables[t])'
  BY <1>1 DEF ProgressIsTrue, SameTable
<1>3. ProgressIsTrue(t)'
  BY <1>2 DEF ProgressIsTrue, SameTable, SameStore
<1>4. ScanIsTrue(t)'
  BY DEF ScanIsTrue, TargetLoaded, SameTable, SameStore
<1> QED BY <1>3, <1>4

----------------------------------------------------------------------------
(***************************************************************************)
(* What the saves change.                                                  *)
(***************************************************************************)
LEMMA StateParts ==
    ASSUME NEW st \in State, NEW t \in Tables
    PROVE  /\ st.checkpoint \in Nat /\ st.tables \in [Tables -> TableState]
           /\ st.tables[t] \in TableState
           /\ st.tables[t].watermark \in Nat /\ st.tables[t].cursors \in Cursors
BY DEF State, TableState, Cursors

LEMMA SetWatermarkFacts ==
    ASSUME NEW st \in State, NEW t \in Tables, NEW v \in Nat, st.tables[t].watermark < v,
           NEW next \in SetDDLTableVersionWatermark(st, t, v)
    PROVE  /\ next \in State /\ next.checkpoint = st.checkpoint
           /\ next.tables[t].watermark = v /\ next.tables[t].cursors = st.tables[t].cursors
           /\ \A u \in Tables : u # t => next.tables[u] = st.tables[u]
<1>1. next = [st EXCEPT !.tables[t].watermark = IF v > @ THEN v ELSE @]
  BY DEF SetDDLTableVersionWatermark, Update
<1>2. next = [st EXCEPT !.tables[t].watermark = v]
  BY <1>1
<1> QED BY <1>2 DEF State, TableState

LEMMA SetCursorsFacts ==
    ASSUME NEW st \in State, NEW t \in Tables, NEW D \in SUBSET Streams, NEW cur \in Cursors,
           \A s \in Streams : s \notin D => cur[s] = st.tables[t].cursors[s],
           NEW next \in SetDMLCursors(st, t, [s \in D |-> cur[s]])
    PROVE  /\ next \in State /\ next.checkpoint = st.checkpoint
           /\ next.tables[t].watermark = st.tables[t].watermark /\ next.tables[t].cursors = cur
           /\ \A u \in Tables : u # t => next.tables[u] = st.tables[u]
<1> DEFINE c == [s \in D |-> cur[s]]
           all == [s \in Streams |-> IF s \in DOMAIN c THEN c[s] ELSE st.tables[t].cursors[s]]
<1>1. next = [st EXCEPT !.tables[t].cursors = all]
  BY DEF SetDMLCursors, Update
<1>2. all = cur
  BY DEF Cursors
<1> HIDE DEF c, all
<1>3. next = [st EXCEPT !.tables[t].cursors = cur]
  BY <1>1, <1>2
<1> QED BY <1>3 DEF State, TableState, Cursors

LEMMA SetCheckpointFacts ==
    ASSUME NEW st \in State, NEW ts \in Nat, NEW next \in SetCheckpointTS(st, ts)
    PROVE  next \in State /\ next.checkpoint = ts /\ next.tables = st.tables
<1>1. next = [st EXCEPT !.checkpoint = ts]
  BY DEF SetCheckpointTS, Update
<1> QED BY <1>1 DEF State

----------------------------------------------------------------------------
(***************************************************************************)
(* The steps of one table's task.                                          *)
(***************************************************************************)
LEMMA StoreStays ==
    ASSUME SinkInv, UNCHANGED sinkVars
    PROVE  SinkInv' /\ \A t \in Tables : SameStore(t)
<1>1. /\ tso' = tso /\ log' = log /\ unflushed' = unflushed /\ schemas' = schemas
      /\ files' = files /\ metadata' = metadata /\ today' = today /\ restarts' = restarts
  BY DEF sinkVars
<1>2. SinkTypes'
  BY <1>1 DEF SinkInv, SinkTypes
<1>3. ASSUME NEW t \in Tables PROVE TableInv(t)' /\ SameStore(t)
  <2>1. /\ VersionsOf(t)' = VersionsOf(t) /\ TableFiles(t)' = TableFiles(t)
        /\ Changes(t)' = Changes(t) /\ RowsIn(unflushed[t])' = RowsIn(unflushed[t])
        /\ \A v, p, d : DirOf(t, v, p, d)' = DirOf(t, v, p, d)
    BY <1>1 DEF VersionsOf, TableFiles, Changes, RowsIn, DirOf, FilesOf
  <2>2. /\ EventsAreOrdered(t) /\ VersionsAreLogged(t) /\ UnflushedIsRecent(t)
        /\ FilesAreVersioned(t) /\ DirsAreNumbered(t) /\ RowsAreFiled(t)
    BY DEF SinkInv
  <2>3. EventsAreOrdered(t)' /\ VersionsAreLogged(t)' /\ UnflushedIsRecent(t)'
    BY <1>1, <2>1, <2>2 DEF EventsAreOrdered, VersionsAreLogged, UnflushedIsRecent
  <2>4. FilesAreVersioned(t)' /\ DirsAreNumbered(t)' /\ RowsAreFiled(t)'
    BY <1>1, <2>1, <2>2 DEF FilesAreVersioned, DirsAreNumbered, RowsAreFiled
  <2> QED BY <2>1, <2>3, <2>4 DEF TableInv, SameStore
<1> QED BY <1>2, <1>3 DEF SinkInv, TableInv

\* A step that loads nothing of table t and saves nothing new.
SameProgress(t) ==
    /\ rows'[t] = rows[t] /\ watermark'[t] = watermark[t] /\ cursor'[t] = cursor[t]
    /\ mem'.checkpoint = mem.checkpoint /\ mem'.tables[t] = mem.tables[t]
    /\ obj'.tables[t] = obj.tables[t] \/ obj'.tables[t] = mem.tables[t]

LEMMA SameProgressKeeps ==
    ASSUME NEW t \in Tables, ProgressIsTrue(t), SameProgress(t), SameStore(t)
    PROVE  ProgressIsTrue(t)'
<1>1. ASSUME NEW saved, SavedIsTrue(t, saved) PROVE SavedIsTrue(t, saved)'
  BY <1>1 DEF SavedIsTrue, SameProgress, SameStore
<1>2. SavedIsTrue(t, obj.tables[t])' /\ SavedIsTrue(t, mem.tables[t])'
  BY <1>1 DEF ProgressIsTrue, SameProgress
<1> QED BY <1>2 DEF ProgressIsTrue, SameProgress, SameStore

\* A step of the task of table t, as far as the other tables are concerned.
StepOf(t) ==
    /\ UNCHANGED <<sinkVars, scanning, bounds>>
    /\ mem'.checkpoint = mem.checkpoint /\ obj'.checkpoint = obj.checkpoint
    /\ pc[t] # "idle" /\ pc'[t] # "idle"
    /\ \A u \in Tables : u # t => SameTable(u) /\ dirty'[u] = dirty[u]

LEMMA StepOfKeeps ==
    ASSUME LoaderInv, NEW t \in Tables, StepOf(t), TypeOK',
           ProgressIsTrue(t)', ScanIsTrue(t)', watermark'[t] = mem'.tables[t].watermark,
           \A s \in Streams : s \notin dirty'[t] => cursor'[t][s] = mem'.tables[t].cursors[s]
    PROVE  LoaderInv'
<1>1. SinkInv' /\ \A u \in Tables : SameStore(u)
  BY StoreStays DEF LoaderInv, StepOf
<1>2. ASSUME NEW u \in Tables, u # t PROVE ProgressIsTrue(u)' /\ ScanIsTrue(u)'
  BY <1>1, <1>2, SameTableKeeps DEF StepOf, LoaderInv
<1>3. tso' = tso /\ metadata' = metadata
  BY DEF StepOf, sinkVars
<1>4. Agreement
  BY DEF LoaderInv
<1>5. \A u \in Tables : scanning' <=> pc'[u] # "idle"
  <2>1. \A u \in Tables : u # t => pc'[u] = pc[u]
    BY DEF StepOf, SameTable
  <2> QED BY <1>4, <2>1 DEF StepOf, Agreement
<1>6. \A u \in Tables : watermark'[u] = mem'.tables[u].watermark
  <2>1. \A u \in Tables : u # t => watermark'[u] = watermark[u] /\ mem'.tables[u] = mem.tables[u]
    BY DEF StepOf, SameTable
  <2> QED BY <1>4, <2>1 DEF Agreement
<1>7. \A u \in Tables : \A s \in Streams :
         s \notin dirty'[u] => cursor'[u][s] = mem'.tables[u].cursors[s]
  <2>1. \A u \in Tables : u # t => /\ cursor'[u] = cursor[u] /\ mem'.tables[u] = mem.tables[u]
                                   /\ dirty'[u] = dirty[u]
    BY DEF StepOf, SameTable
  <2> QED BY <1>4, <2>1 DEF Agreement
<1>8. Agreement'
  BY <1>3, <1>4, <1>5, <1>6, <1>7 DEF Agreement, StepOf
<1> QED BY <1>1, <1>2, <1>8 DEF LoaderInv

\* The same for a step that neither loads nor saves.
LEMMA QuietStepKeeps ==
    ASSUME LoaderInv, NEW t \in Tables, TypeOK', ScanIsTrue(t)',
           pc[t] # "idle", pc'[t] # "idle",
           UNCHANGED <<sinkVars, rows, obj, mem, scanning, bounds, watermark, cursor, dirty>>,
           \A u \in Tables : u # t => /\ work'[u] = work[u] /\ agenda'[u] = agenda[u]
                                      /\ paths'[u] = paths[u] /\ pc'[u] = pc[u]
    PROVE  LoaderInv'
<1>1. StepOf(t) /\ SameProgress(t)
  BY DEF StepOf, SameTable, SameProgress
<1>2. ProgressIsTrue(t)'
  BY <1>1, StoreStays, SameProgressKeeps DEF LoaderInv
<1>3. watermark'[t] = mem'.tables[t].watermark
  BY DEF LoaderInv, Agreement
<1>4. \A s \in Streams : s \notin dirty'[t] => cursor'[t][s] = mem'.tables[t].cursors[s]
  BY DEF LoaderInv, Agreement
<1> QED BY <1>1, <1>2, <1>3, <1>4, StepOfKeeps

\* The types of the parts.
LEMMA TypeParts ==
    ASSUME TypeOK, NEW t \in Tables
    PROVE  /\ rows[t] \in [Keys -> Nat] /\ watermark[t] \in Nat /\ cursor[t] \in Cursors
           /\ dirty[t] \in SUBSET Streams /\ mem \in State /\ obj \in State
           /\ mem.checkpoint \in Nat /\ bounds.checkpoint \in Nat /\ bounds.target \in Nat
           /\ paths[t] \in SUBSET Nat /\ meta[t] \in Nat
BY StateParts DEF TypeOK, Cursors

LEMMA EntriesHaveTypes ==
    ASSUME SinkInv, NEW t \in Tables, NEW ck, NEW w, NEW cur, NEW target, NEW W, NEW A,
           Scan(TableFiles(t), VersionsOf(t), ck, w, cur, target, W, A)
    PROVE  W \in SUBSET Ranges /\ A \in SUBSET Places /\ \A r \in W : RangeOK(r)
<1>1. Apart(W, A) /\ \A r \in W : r.version \in 1..MaxTS
  BY StoreHolds DEF Scan, RangesAreAhead
<1>i. \A p \in Partitions \cup {NoPartition} : p \in Int
  BY SinkAssumption DEF NoPartition
<1>2. ASSUME NEW r \in W PROVE RangeOK(r) /\ r \in Ranges
  <2>1. IsRange(r) /\ r.version \in 1..MaxTS
    BY <1>1 DEF Apart
  <2>2. CASE IsSchemaRange(r)
    BY <2>1, <2>2, RangeFacts DEF RangeOK, Ranges, SchemaRange, NoPartition, NoDate
  <2>3. CASE ~IsSchemaRange(r)
    <3>1. IsFileRange(r)
      BY <2>1, <2>3, RangeFacts
    <3>2. <<r.version, r.part>> \in Streams
      BY <2>1, <3>1, LoaderAssumption DEF IsFileRange
    <3>3. r \in Ranges
      BY <3>1, <1>i DEF IsFileRange, Ranges
    <3> QED BY <3>1, <3>2, <3>3 DEF RangeOK, IsFileRange
  <2> QED BY <2>2, <2>3
<1>3. ASSUME NEW a \in A PROVE a \in Places
  BY <1>1, <1>i DEF Apart, IsPlace, Places
<1> QED BY <1>2, <1>3

\* The checkpoint of the scan is the saved one.
LEMMA ScanBounds ==
    ASSUME LoaderInv, NEW t \in Tables, pc[t] # "idle"
    PROVE  /\ scanning /\ bounds.checkpoint = mem.checkpoint
           /\ mem.checkpoint \in Nat /\ bounds.target \in Nat
           /\ mem.checkpoint < bounds.target /\ bounds.target <= metadata
BY TypeParts DEF LoaderInv, Agreement

LEMMA WalkKeeps ==
    ASSUME LoaderInv, NEW t \in Tables, WalkSchemas(t)
    PROVE  LoaderInv'
<1> DEFINE P == PendingVersions(t)
           K == CurrentVersion(t)
           W == {SchemaRange(v) : v \in P}
           A == {Place(v, NoPartition, NoDate) : v \in K \cup P}
<1>1. SinkInv /\ TypeOK /\ Agreement /\ ProgressIsTrue(t) /\ ScanIsTrue(t)
  BY DEF LoaderInv
<1>2. /\ pc[t] = "walk" /\ (watermark[t] > 0 => K # {})
      /\ paths' = [paths EXCEPT ![t] = K \cup P]
      /\ work' = [work EXCEPT ![t] = W] /\ pc' = [pc EXCEPT ![t] = "list"]
      /\ UNCHANGED <<sinkVars, rows, schema, obj, mem, scanning, bounds, watermark,
                     cursor, dirty, meta, faults>>
  BY DEF WalkSchemas
<1>3. agenda' = [agenda EXCEPT ![t] = {Place(v, NoPartition, NoDate) : v \in paths'[t]}]
  BY DEF WalkSchemas
<1>4. /\ watermark[t] \in Nat /\ mem.checkpoint \in Nat /\ bounds.target \in Nat
      /\ bounds.checkpoint = mem.checkpoint
  BY <1>1, <1>2, TypeParts, ScanBounds
<1>5. Store(TableFiles(t), VersionsOf(t), Changes(t)) /\ VersionsOf(t) \in SUBSET Nat
  BY <1>1, StoreHolds DEF Store
<1>6. P = {v \in VersionsOf(t) : v > IF watermark[t] > 0 THEN watermark[t] ELSE mem.checkpoint}
  BY <1>4 DEF PendingVersions
<1>7. /\ K \in SUBSET VersionsOf(t)
      /\ watermark[t] > 0 => K = {watermark[t]}
      /\ watermark[t] = 0 => \A v \in VersionsOf(t) : v <= mem.checkpoint =>
            \E k \in K : /\ v <= k /\ k <= mem.checkpoint /\ K = {k}
                         /\ \A u \in VersionsOf(t) : u <= mem.checkpoint => u <= k
  <2>1. CASE watermark[t] > 0
    BY <1>2, <2>1 DEF CurrentVersion
  <2>2. CASE watermark[t] = 0
    <3> DEFINE covered == {v \in VersionsOf(t) : v <= mem.checkpoint}
    <3>1. K = IF covered = {} THEN {} ELSE {MaxOf(covered)}
      BY <1>4, <2>2 DEF CurrentVersion
    <3>2. covered # {} => MaxOf(covered) \in covered /\ \A v \in covered : v <= MaxOf(covered)
      BY <1>4, <1>5, MaxOfFacts
    <3> QED BY <2>2, <3>1, <3>2
  <2> QED BY <1>4, <2>1, <2>2
<1> HIDE DEF P, K
<1>8. Scan(TableFiles(t), VersionsOf(t), mem.checkpoint, watermark[t], cursor[t],
           bounds.target, W, A)
  BY <1>1, <1>4, <1>5, <1>6, <1>7, WalkStartsScan DEF ProgressIsTrue, SavedIsTrue, Agreement
<1>9. /\ watermark[t] # 0 => watermark[t] \in K \cup P
      /\ K \cup P \in SUBSET Nat
  BY <1>4, <1>5, <1>6, <1>7
<1>10. W \in SUBSET Ranges /\ A \in SUBSET Places /\ \A r \in W : RangeOK(r)
  BY <1>1, <1>8, EntriesHaveTypes
<1>11. paths'[t] = K \cup P /\ agenda' = [agenda EXCEPT ![t] = A]
  BY <1>1, <1>2, <1>3 DEF TypeOK
<1> HIDE DEF W, A
<1>12. /\ work'[t] = W /\ pc'[t] = "list" /\ agenda'[t] = A
       /\ \A u \in Tables : u # t => /\ work'[u] = work[u] /\ pc'[u] = pc[u]
                                     /\ paths'[u] = paths[u] /\ agenda'[u] = agenda[u]
  BY <1>1, <1>2, <1>11 DEF TypeOK
<1>13. TypeOK'
  <2>1. /\ paths' \in [Tables -> SUBSET Nat] /\ agenda' \in [Tables -> SUBSET Places]
        /\ work' \in [Tables -> SUBSET Ranges]
    BY <1>1, <1>2, <1>9, <1>10, <1>11 DEF TypeOK
  <2>2. \A u \in Tables : \A r \in work'[u] : RangeOK(r)
    BY <1>1, <1>10, <1>12 DEF TypeOK
  <2> QED BY <1>1, <1>2, <2>1, <2>2 DEF TypeOK
<1>14. ScanIsTrue(t)'
  <2>1. SameStore(t)
    BY <1>1, <1>2, StoreStays
  <2> QED BY <1>1, <1>2, <1>8, <1>9, <1>11, <1>12, <2>1 DEF ScanIsTrue, SameStore
<1> QED BY <1>2, <1>12, <1>13, <1>14, QuietStepKeeps

\* What the listing of a stream finds: the dates its cursor is not past.
AreDates(F, cur, v, p, L) ==
    /\ \A b \in L : \E f \in F : /\ f.version = v /\ f.part = p
                                 /\ f.date >= cur[<<v, p>>].date
                                 /\ b = Place(v, p, f.date)
    /\ \A f \in F : f.version = v /\ f.part = p /\ f.date >= cur[<<v, p>>].date =>
                        Place(v, p, f.date) \in L

ListsDates(F, cur, v, p, L) ==
    /\ \A b \in L : /\ IsPlace(b) /\ b.version = v /\ b.part = p
                   /\ cur[<<b.version, b.part>>].date <= b.date
                   /\ \E f \in F : SameStream(f, b) /\ f.date = b.date
    /\ \A b \in L, c \in L : Within(b, c) => b = c
    /\ \A f \in F : f.version = v /\ f.part = p => Eats(cur, f) \/ \E b \in L : Within(f, b)

LEMMA DatesFacts ==
    ASSUME NEW F, \A f \in F : f \in File /\ <<f.version, f.part>> \in Streams,
           NEW cur \in Cursors, NEW v, v \in Nat, NEW p \in Partitions, NEW L,
           AreDates(F, cur, v, p, L)
    PROVE  ListsDates(F, cur, v, p, L)
<1>1. \A f \in F : f.date \in Nat \ {0} /\ f.index \in Nat
  BY FileFacts
<1>2. ASSUME NEW b \in L
      PROVE  /\ IsPlace(b) /\ b.version = v /\ b.part = p
             /\ cur[<<b.version, b.part>>].date <= b.date
             /\ \E f \in F : SameStream(f, b) /\ f.date = b.date
  <2>1. PICK f \in F : /\ f.version = v /\ f.part = p /\ f.date >= cur[<<v, p>>].date
                       /\ b = Place(v, p, f.date)
    BY DEF AreDates
  <2>2. f.date \in Nat \ {0} /\ cur[<<v, p>>].date \in Nat
    BY <1>1, <2>1 DEF Cursors, Cursor
  <2>3. b.version = v /\ b.part = p /\ b.date = f.date
    BY <2>1 DEF Place
  <2>4. IsPlace(b)
    BY <2>1, <2>2, <2>3, SinkAssumption DEF IsPlace, Place, NoPartition
  <2> QED BY <2>1, <2>2, <2>3, <2>4 DEF SameStream
<1>3. ASSUME NEW b \in L, NEW c \in L, Within(b, c) PROVE b = c
  <2>1. PICK f \in F : b = Place(v, p, f.date)
    BY DEF AreDates
  <2>2. PICK g \in F : c = Place(v, p, g.date)
    BY DEF AreDates
  <2>3. b.date = f.date /\ c.date = g.date /\ c.date # NoDate
    BY <1>1, <2>1, <2>2 DEF Place, NoDate
  <2> QED BY <1>3, <2>1, <2>2, <2>3 DEF Within
<1>4. ASSUME NEW f \in F, f.version = v, f.part = p, ~Eats(cur, f)
      PROVE  \E b \in L : Within(f, b)
  <2>1. cur[<<v, p>>] \in Cursor
    BY <1>4 DEF Cursors
  <2>2. f.date >= cur[<<v, p>>].date
    BY <1>1, <1>4, <2>1 DEF Eats, CursorBefore, Spot, Cursor
  <2>3. Place(v, p, f.date) \in L
    BY <1>4, <2>2 DEF AreDates
  <2> QED BY <1>4, <2>3 DEF Within, Place
<1> QED BY <1>2, <1>3, <1>4 DEF ListsDates

\* A version with partitions holds a directory for each that has files.
LEMMA PartitionsFacts ==
    ASSUME NEW F, \A f \in F : f \in File, NEW v \in Nat, NEW L,
           \A b \in L : \E p \in Partitions : b = Place(v, p, NoDate),
           \A f \in F : f.version = v => Place(v, f.part, NoDate) \in L
    PROVE  /\ \A b \in L : IsPlace(b) /\ b.version = v /\ b.date = NoDate
           /\ \A b \in L, c \in L : Within(b, c) => b = c
           /\ \A f \in F : f.version = v => \E b \in L : Within(f, b)
<1>1. ASSUME NEW b \in L PROVE IsPlace(b) /\ b.version = v /\ b.date = NoDate
  BY SinkAssumption DEF IsPlace, Place, NoDate, NoPartition
<1>2. ASSUME NEW b \in L, NEW c \in L, Within(b, c) PROVE b = c
  <2>1. PICK p \in Partitions, q \in Partitions : b = Place(v, p, NoDate) /\ c = Place(v, q, NoDate)
    OBVIOUS
  <2>2. q # NoPartition
    BY SinkAssumption DEF NoPartition
  <2> QED BY <1>2, <2>1, <2>2 DEF Within, Place
<1>3. ASSUME NEW f \in F, f.version = v PROVE \E b \in L : Within(f, b)
  BY <1>3 DEF Within, Place
<1> QED BY <1>1, <1>2, <1>3

\* What a directory tree holds.
LEMMA ListedFacts ==
    ASSUME SinkInv, NEW t \in Tables, NEW a, IsPlace(a), a.date = NoDate,
           cursor[t] \in Cursors
    PROVE  /\ \A b \in Listed(t, a) :
                  /\ IsPlace(b) /\ Within(b, a)
                  /\ b.date # NoDate =>
                        /\ cursor[t][<<b.version, b.part>>].date <= b.date
                        /\ \E f \in TableFiles(t) : SameStream(f, b) /\ f.date = b.date
           /\ \A b \in Listed(t, a), c \in Listed(t, a) : Within(b, c) => b = c
           /\ \A f \in TableFiles(t) :
                  Within(f, a) => Eats(cursor[t], f) \/ \E b \in Listed(t, a) : Within(f, b)
<1> DEFINE F == TableFiles(t)
           cur == cursor[t]
           L == Listed(t, a)
<1>1. a.version \in Nat /\ a.part \in Partitions \cup {NoPartition}
  BY DEF IsPlace
<1>2. \A f \in F : f \in File /\ <<f.version, f.part>> \in Streams
  BY StoredIsSound, StoreHolds DEF Store
<1>3. cur \in Cursors
  OBVIOUS
<1>5. ASSUME L = {Place(a.version, p, NoDate) : p \in PartitionDirs(t, a.version)}
      PROVE  /\ \A b \in L : \E p \in Partitions : b = Place(a.version, p, NoDate)
             /\ \A f \in F : f.version = a.version => Place(a.version, f.part, NoDate) \in L
  <2>1. \A f \in F : f.part \in Partitions
    BY <1>2, FileFacts
  <2>2. \A f \in F : f.version = a.version => f.part \in PartitionDirs(t, a.version)
    BY <2>1 DEF PartitionDirs, FilesOf, TableFiles
  <2>3. PartitionDirs(t, a.version) \subseteq Partitions
    BY DEF PartitionDirs
  <2> QED BY <1>5, <2>2, <2>3
<1>6. ASSUME NEW p \in Partitions, L = DatePlaces(t, a.version, p)
      PROVE  ListsDates(F, cur, a.version, p, L)
  <2>1. AreDates(F, cur, a.version, p, L)
    BY <1>6 DEF AreDates, DatePlaces, ActiveDates, CursorOf, DateDirs, FilesOf, TableFiles
  <2> HIDE DEF F, cur, L
  <2> QED BY <1>1, <1>2, <1>3, <2>1, DatesFacts
<1>7. (L = {Place(a.version, p, NoDate) : p \in PartitionDirs(t, a.version)}) =>
             /\ \A b \in L : IsPlace(b) /\ b.version = a.version /\ b.date = NoDate
             /\ \A b \in L, c \in L : Within(b, c) => b = c
             /\ \A f \in F : f.version = a.version => \E b \in L : Within(f, b)
  <2> HIDE DEF F, cur, L
  <2> QED BY <1>1, <1>2, <1>5, PartitionsFacts
<1>8. CASE a.part # NoPartition
  <2>1. L = DatePlaces(t, a.version, a.part) /\ a.part \in Partitions
    BY <1>1, <1>8 DEF Listed
  <2>2. ListsDates(F, cur, a.version, a.part, L)
    BY <1>6, <2>1
  <2> HIDE DEF F, cur, L
  <2>3. /\ \A b \in L : Within(b, a)
        /\ \A f \in F : Within(f, a) => f.version = a.version /\ f.part = a.part
    BY <1>8, <2>2 DEF Within, ListsDates
  <2> QED BY <2>2, <2>3 DEF F, cur, L, ListsDates
<1>9. CASE a.part = NoPartition /\ Partitions = {0}
  <2>1. L = DatePlaces(t, a.version, 0) /\ 0 \in Partitions
    BY <1>9 DEF Listed
  <2>2. \A f \in F : f.part = 0
    BY <1>2, <1>9, FileFacts
  <2>3. ListsDates(F, cur, a.version, 0, L)
    BY <1>6, <2>1
  <2> HIDE DEF F, cur, L
  <2>4. /\ \A b \in L : Within(b, a)
        /\ \A f \in F : Within(f, a) => f.version = a.version /\ f.part = 0
    BY <1>9, <2>2, <2>3 DEF Within, ListsDates
  <2> QED BY <2>3, <2>4 DEF F, cur, L, ListsDates
<1>10. CASE a.part = NoPartition /\ Partitions # {0}
  <2>1. L = {Place(a.version, p, NoDate) : p \in PartitionDirs(t, a.version)}
    BY <1>10 DEF Listed
  <2> HIDE DEF F, cur, L
  <2>2. /\ \A b \in L : Within(b, a)
        /\ \A f \in F : Within(f, a) => f.version = a.version
    BY <1>7, <1>10, <2>1 DEF Within
  <2>3. /\ \A b \in L : IsPlace(b) /\ b.date = NoDate
        /\ \A b \in L, c \in L : Within(b, c) => b = c
        /\ \A f \in F : Within(f, a) => \E b \in L : Within(f, b)
    BY <1>7, <2>1, <2>2
  <2> QED BY <2>2, <2>3 DEF F, cur, L
<1> QED BY <1>1, <1>8, <1>9, <1>10

LEMMA ListKeeps ==
    ASSUME LoaderInv, NEW t \in Tables, ListDirs(t)
    PROVE  LoaderInv'
<1> DEFINE a == First(agenda[t])
           B == (agenda[t] \ {a}) \cup Listed(t, a)
<1>1. SinkInv /\ TypeOK /\ Agreement /\ ProgressIsTrue(t) /\ ScanIsTrue(t)
  BY DEF LoaderInv
<1>2. /\ pc[t] = "list" /\ agenda[t] # {} /\ a.date = NoDate
      /\ agenda' = [agenda EXCEPT ![t] = B]
      /\ UNCHANGED <<sinkVars, rows, schema, obj, mem, scanning, bounds, pc,
                     watermark, cursor, dirty, meta, paths, work, faults>>
  BY DEF ListDirs
<1>3. Scan(TableFiles(t), VersionsOf(t), mem.checkpoint, watermark[t], cursor[t],
           bounds.target, work[t], agenda[t])
  BY <1>1, <1>2 DEF ScanIsTrue
<1>4. a \in agenda[t] /\ IsPlace(a)
  BY <1>2, <1>3, FirstOfAgenda DEF Scan
<1>5. Store(TableFiles(t), VersionsOf(t), Changes(t)) /\ cursor[t] \in Cursors
  BY <1>1, StoreHolds, TypeParts
<1> HIDE DEF a
<1>6. Scan(TableFiles(t), VersionsOf(t), mem.checkpoint, watermark[t], cursor[t],
           bounds.target, work[t], B)
  BY <1>1, <1>2, <1>3, <1>4, <1>5, ListedFacts, ListKeepsScan
<1> HIDE DEF B
<1>7. B \in SUBSET Places
  BY <1>1, <1>6, EntriesHaveTypes
<1>8. /\ agenda' \in [Tables -> SUBSET Places] /\ agenda'[t] = B
      /\ \A u \in Tables : u # t => agenda'[u] = agenda[u]
  BY <1>1, <1>2, <1>7 DEF TypeOK
<1>9. TypeOK'
  BY <1>1, <1>2, <1>8 DEF TypeOK
<1>10. ScanIsTrue(t)'
  <2>1. SameStore(t)
    BY <1>1, <1>2, StoreStays
  <2> QED BY <1>1, <1>2, <1>6, <1>8, <2>1 DEF ScanIsTrue, SameStore
<1> QED BY <1>2, <1>8, <1>9, <1>10, QuietStepKeeps

LEMMA IndexFacts ==
    ASSUME SinkInv, NEW t \in Tables, NEW a,
           \E f \in TableFiles(t) : SameStream(f, a) /\ f.date = a.date
    PROVE  /\ IndexFile(t, a.version, a.part, a.date) \in Nat
           /\ \A f \in TableFiles(t) : SameStream(f, a) /\ f.date = a.date =>
                  f.index <= IndexFile(t, a.version, a.part, a.date)
           /\ \E f \in TableFiles(t) : /\ SameStream(f, a) /\ f.date = a.date
                                       /\ f.index = IndexFile(t, a.version, a.part, a.date)
<1> DEFINE D == DirOf(t, a.version, a.part, a.date)
           S == {f.index : f \in D}
<1>1. \A f : f \in D <=> f \in TableFiles(t) /\ SameStream(f, a) /\ f.date = a.date
  BY DEF DirOf, FilesOf, TableFiles, SameStream
<1>2. \A f \in TableFiles(t) : f \in File
  BY StoredIsSound
<1>3. a.version \in Nat /\ a.part \in Partitions /\ a.date \in Nat \ {0}
  BY <1>2, FileFacts DEF SameStream
<1>4. IsFiniteSet(D) /\ \A f \in D : f.index <= Cardinality(D)
  BY <1>3 DEF SinkInv, DirsAreNumbered
<1>5. Cardinality(D) \in Nat
  BY <1>4, FS_CardinalityType
<1>6. IndexFile(t, a.version, a.part, a.date) = MaxOf(S)
  BY DEF IndexFile, DirOf
<1>7. S \in SUBSET Nat /\ S # {}
  BY <1>1, <1>2, FileFacts
<1>8. \A n \in S : n <= Cardinality(D)
  BY <1>4
<1> HIDE DEF D
<1>9. MaxOf(S) \in S /\ \A n \in S : n <= MaxOf(S)
  BY <1>5, <1>7, <1>8, MaxOfFacts
<1> QED BY <1>1, <1>6, <1>7, <1>9

LEMMA ReadKeeps ==
    ASSUME LoaderInv, NEW t \in Tables, ReadIndex(t)
    PROVE  LoaderInv'
<1> DEFINE a == First(agenda[t])
           N == NewRange(t, a)
           W == work[t] \cup N
           B == agenda[t] \ {a}
           last == IndexFile(t, a.version, a.part, a.date)
           from == Consumed(t, a)
<1>1. SinkInv /\ TypeOK /\ Agreement /\ ProgressIsTrue(t) /\ ScanIsTrue(t)
  BY DEF LoaderInv
<1>2. /\ pc[t] = "list" /\ agenda[t] # {} /\ a.date # NoDate
      /\ work' = [work EXCEPT ![t] = W] /\ agenda' = [agenda EXCEPT ![t] = B]
      /\ UNCHANGED <<sinkVars, rows, schema, obj, mem, scanning, bounds, pc,
                     watermark, cursor, dirty, meta, paths, faults>>
  BY DEF ReadIndex
<1>3. Scan(TableFiles(t), VersionsOf(t), mem.checkpoint, watermark[t], cursor[t],
           bounds.target, work[t], agenda[t])
  BY <1>1, <1>2 DEF ScanIsTrue
<1>4. a \in agenda[t] /\ IsPlace(a)
  BY <1>2, <1>3, FirstOfAgenda DEF Scan
<1>5. Store(TableFiles(t), VersionsOf(t), Changes(t)) /\ cursor[t] \in Cursors
  BY <1>1, StoreHolds, TypeParts
<1>6. \E f \in TableFiles(t) : SameStream(f, a) /\ f.date = a.date
  BY <1>2, <1>3, <1>4 DEF Scan, PlacesAreAhead
<1> HIDE DEF a
<1>7. /\ last \in Nat
      /\ \A f \in TableFiles(t) : SameStream(f, a) /\ f.date = a.date => f.index <= last
      /\ \E f \in TableFiles(t) : SameStream(f, a) /\ f.date = a.date /\ f.index = last
  BY <1>1, <1>6, IndexFacts
<1>8. from = IF cursor[t][<<a.version, a.part>>].date = a.date
             THEN cursor[t][<<a.version, a.part>>].index ELSE 0
  BY DEF Consumed, CursorOf
<1>9. from \in Nat
  <2>1. <<a.version, a.part>> \in Streams
    BY <1>5, <1>6 DEF Store, SameStream
  <2>2. cursor[t][<<a.version, a.part>>] \in Cursor
    BY <1>5, <2>1 DEF Cursors
  <2> QED BY <1>8, <2>2 DEF Cursor
<1>10. N = IF last > from THEN {FileRange(a.version, a.part, a.date, from + 1, last)} ELSE {}
  BY DEF NewRange
<1> HIDE DEF N, last, from
<1>11. Scan(TableFiles(t), VersionsOf(t), mem.checkpoint, watermark[t], cursor[t],
            bounds.target, W, B)
  BY <1>2, <1>3, <1>4, <1>5, <1>7, <1>8, <1>9, <1>10, ReadKeepsScan
<1> HIDE DEF W, B
<1>12. W \in SUBSET Ranges /\ B \in SUBSET Places /\ \A r \in W : RangeOK(r)
  BY <1>1, <1>11, EntriesHaveTypes
<1>13. /\ work' \in [Tables -> SUBSET Ranges] /\ work'[t] = W
       /\ agenda' \in [Tables -> SUBSET Places] /\ agenda'[t] = B
       /\ \A u \in Tables : u # t => agenda'[u] = agenda[u] /\ work'[u] = work[u]
  BY <1>1, <1>2, <1>12 DEF TypeOK
<1>14. TypeOK'
  <2>1. \A u \in Tables : \A r \in work'[u] : RangeOK(r)
    BY <1>1, <1>12, <1>13 DEF TypeOK
  <2> QED BY <1>1, <1>2, <1>13, <2>1 DEF TypeOK
<1>15. ScanIsTrue(t)'
  <2>1. SameStore(t)
    BY <1>1, <1>2, StoreStays
  <2> QED BY <1>1, <1>2, <1>11, <1>13, <2>1 DEF ScanIsTrue, SameStore
<1> QED BY <1>2, <1>13, <1>14, <1>15, QuietStepKeeps

\* A scan with nothing left has loaded everything up to its target.
LEMMA ScanIsOver ==
    ASSUME LoaderInv, NEW t \in Tables, pc[t] \in {"list", "load"},
           work[t] = {}, agenda[t] = {}
    PROVE  TargetLoaded(t)
<1>1. SinkInv /\ TypeOK /\ Agreement /\ ProgressIsTrue(t) /\ ScanIsTrue(t)
  BY DEF LoaderInv
<1>2. Scan(TableFiles(t), VersionsOf(t), mem.checkpoint, watermark[t], cursor[t],
           bounds.target, {}, {})
  BY <1>1 DEF ScanIsTrue
<1>3. Store(TableFiles(t), VersionsOf(t), Changes(t))
  BY <1>1, StoreHolds
<1>4. /\ Loaded(TableFiles(t), cursor[t], rows[t]) /\ rows[t] \in [Keys -> Nat]
      /\ PastCovered(Changes(t), mem.checkpoint, watermark[t], rows[t])
      /\ mem.checkpoint \in Nat /\ watermark[t] \in Nat
  BY <1>1, TypeParts DEF ProgressIsTrue, SavedIsTrue, Agreement
<1>5. \A x \in Changes(t) : x.ts <= bounds.target =>
          \E f \in TableFiles(t) : Settled(TableFiles(t), f, x)
  <2>1. bounds.target \in Nat /\ bounds.target <= metadata /\ metadata \in Nat
    BY <1>1, ScanBounds DEF SinkInv, SinkTypes
  <2>2. \A x \in Changes(t) : x.ts \in Nat
    BY <1>3 DEF Store, Change
  <2> QED BY <1>1, <2>1, <2>2, StoredIsSound
<1>6. bounds.target \in Nat
  BY <1>1, TypeParts
<1> QED BY <1>2, <1>3, <1>4, <1>5, <1>6, EmptyScanIsLoaded DEF TargetLoaded

LEMMA LoadSchemaKeeps ==
    ASSUME LoaderInv, NEW t \in Tables, LoadSchemaFiles(t)
    PROVE  LoaderInv'
<1> DEFINE m == IF RebuildsMeta(t) THEN Baseline(t) ELSE meta[t]
           next == IF work[t] = {} THEN "done" ELSE "load"
<1>1. SinkInv /\ TypeOK /\ Agreement /\ ProgressIsTrue(t) /\ ScanIsTrue(t)
  BY DEF LoaderInv
<1>2. /\ pc[t] = "list" /\ agenda[t] = {}
      /\ pc' = [pc EXCEPT ![t] = next] /\ paths' = [paths EXCEPT ![t] = {}]
      /\ UNCHANGED <<sinkVars, rows, schema, obj, mem, scanning, bounds, watermark,
                     cursor, dirty, agenda, work, faults>>
  BY DEF LoadSchemaFiles
<1>3. meta' = [meta EXCEPT ![t] = m]
  BY DEF LoadSchemaFiles
<1>4. m \in Nat
  <2>1. CASE RebuildsMeta(t)
    <3> DEFINE S == {v \in paths[t] : v <= watermark[t]}
    <3>1. watermark[t] # 0 /\ watermark[t] \in paths[t] /\ paths[t] \in SUBSET Nat
          /\ watermark[t] \in Nat
      BY <1>1, <1>2, <2>1, TypeParts DEF ScanIsTrue, RebuildsMeta
    <3>2. S \in SUBSET Nat /\ S # {} /\ \A v \in S : v <= watermark[t]
      BY <3>1
    <3> HIDE DEF S
    <3>3. MaxOf(S) \in Nat
      BY <3>1, <3>2, MaxOfFacts
    <3> QED BY <2>1, <3>3 DEF Baseline, S
  <2>2. CASE ~RebuildsMeta(t)
    BY <1>1, <2>2, TypeParts
  <2> QED BY <2>1, <2>2
<1> HIDE DEF m
<1>5. Scan(TableFiles(t), VersionsOf(t), mem.checkpoint, watermark[t], cursor[t],
           bounds.target, work[t], agenda[t])
  BY <1>1, <1>2 DEF ScanIsTrue
<1>6. work[t] = {} => TargetLoaded(t)
  BY <1>2, ScanIsOver
<1>7. /\ pc'[t] = next /\ meta' \in [Tables -> Nat] /\ paths'[t] = {}
      /\ \A u \in Tables : u # t => pc'[u] = pc[u] /\ paths'[u] = paths[u]
  BY <1>1, <1>2, <1>3, <1>4 DEF TypeOK
<1>8. TypeOK'
  BY <1>1, <1>2, <1>7 DEF TypeOK
<1>9. ScanIsTrue(t)'
  <2>1. SameStore(t)
    BY <1>1, <1>2, StoreStays
  <2>2. obj'.tables[t] = mem'.tables[t]
    BY <1>1, <1>2 DEF ScanIsTrue
  <2>3. pc'[t] \in {"done", "load"} /\ (pc'[t] = "done" => TargetLoaded(t)')
    BY <1>2, <1>6, <1>7, <2>1 DEF TargetLoaded, SameStore
  <2> QED BY <1>2, <1>5, <1>7, <2>1, <2>2, <2>3 DEF ScanIsTrue, SameStore
<1> QED BY <1>2, <1>7, <1>8, <1>9, QuietStepKeeps

\* Steps that only move the program counter, execute a DDL or fail.
LEMMA MoveKeeps ==
    ASSUME LoaderInv, NEW t \in Tables, pc[t] # "idle", TypeOK',
           UNCHANGED <<sinkVars, rows, obj, mem, scanning, bounds, watermark, cursor, dirty,
                       work, agenda, paths>>,
           \/ pc' = [pc EXCEPT ![t] = "failed"]
           \/ pc' = [pc EXCEPT ![t] = "watermark"] /\ AtSchema(t)
    PROVE  LoaderInv'
<1>1. SinkInv /\ TypeOK /\ ScanIsTrue(t)
  BY DEF LoaderInv
<1>2. \A u \in Tables : u # t => pc'[u] = pc[u]
  BY <1>1 DEF TypeOK
<1>3. pc'[t] = "failed" \/ (pc'[t] = "watermark" /\ AtSchema(t))
  BY <1>1 DEF TypeOK
<1>4. SameStore(t)
  BY <1>1, StoreStays
<1>5. ScanIsTrue(t)'
  BY <1>1, <1>3, <1>4 DEF ScanIsTrue, SameStore, AtSchema, Loading, Current
<1> QED BY <1>2, <1>3, <1>5, QuietStepKeeps

LEMMA ExecKeeps ==
    ASSUME LoaderInv, NEW t \in Tables, ExecDDL(t)
    PROVE  LoaderInv'
<1> DEFINE v == Current(t).version
<1>1. TypeOK /\ ScanIsTrue(t)
  BY DEF LoaderInv
<1>2. /\ AtSchema(t) /\ pc' = [pc EXCEPT ![t] = "watermark"]
      /\ schema' = [schema EXCEPT ![t] = v] /\ meta' = [meta EXCEPT ![t] = v]
      /\ UNCHANGED <<sinkVars, rows, obj, mem, scanning, bounds, watermark, cursor,
                     dirty, paths, agenda, work, faults>>
  BY DEF ExecDDL
<1>3. pc[t] = "load" /\ work[t] # {}
  BY <1>2 DEF AtSchema, Loading
<1>4. v \in Nat
  BY <1>1, <1>3, FirstOfWork, RangeFacts DEF ScanIsTrue, Scan, Current
<1> HIDE DEF v
<1>5. TypeOK'
  BY <1>1, <1>2, <1>4 DEF TypeOK
<1> QED BY <1>2, <1>3, <1>5, MoveKeeps

LEMMA FailKeeps ==
    ASSUME LoaderInv, NEW t \in Tables, RejectDDL(t) \/ Fail(t)
    PROVE  LoaderInv'
<1>1. TypeOK
  BY DEF LoaderInv
<1>2. /\ pc' = [pc EXCEPT ![t] = "failed"] /\ pc[t] # "idle"
      /\ UNCHANGED <<sinkVars, rows, schema, obj, mem, scanning, bounds, watermark, cursor,
                     dirty, meta, paths, agenda, work>>
  BY DEF RejectDDL, Fail, Running, AtSchema, Loading
<1>3. faults' \in Nat
  BY <1>1 DEF RejectDDL, Fail, Fault, TypeOK
<1>4. TypeOK'
  BY <1>1, <1>2, <1>3 DEF TypeOK
<1> QED BY <1>2, <1>4, MoveKeeps

----------------------------------------------------------------------------
(***************************************************************************)
(* The watermark.                                                          *)
(***************************************************************************)
LEMMA WatermarkIsReady ==
    ASSUME LoaderInv, NEW t \in Tables, NeedsWatermark(t),
           NEW v, v = Current(t).version
    PROVE  /\ v \in Nat /\ watermark[t] < v /\ pc[t] # "idle" /\ agenda[t] = {}
           /\ Scan(TableFiles(t), VersionsOf(t), mem.checkpoint, v, cursor[t],
                   bounds.target, work[t] \ {Current(t)}, {})
           /\ Ordered(TableFiles(t), VersionsOf(t), mem.checkpoint, v, cursor[t])
           /\ \A saved : saved.watermark = v /\ saved.cursors = mem.tables[t].cursors =>
                  SavedIsTrue(t, saved)
<1> DEFINE W == work[t]
<1>1. SinkInv /\ TypeOK /\ Agreement /\ ProgressIsTrue(t) /\ ScanIsTrue(t)
  BY DEF LoaderInv
<1>2. /\ pc[t] \in {"load", "watermark"} /\ W # {} /\ IsSchemaRange(First(W))
      /\ v = First(W).version
  BY <1>1 DEF NeedsWatermark, AtSchema, Loading, Current, ScanIsTrue
<1>3. /\ agenda[t] = {}
      /\ Scan(TableFiles(t), VersionsOf(t), mem.checkpoint, watermark[t], cursor[t],
              bounds.target, W, {})
  BY <1>1, <1>2 DEF ScanIsTrue
<1>4. Store(TableFiles(t), VersionsOf(t), Changes(t)) /\ VersionsOf(t) \in SUBSET Nat
  BY <1>1, StoreHolds DEF Store
<1>5. /\ rows[t] \in [Keys -> Nat] /\ watermark[t] \in Nat /\ mem.checkpoint \in Nat
      /\ bounds.target \in Nat
  BY <1>1, TypeParts
<1>6. /\ Loaded(TableFiles(t), cursor[t], rows[t])
      /\ PastCovered(Changes(t), mem.checkpoint, watermark[t], rows[t])
      /\ IsVersion(VersionsOf(t), mem.checkpoint, watermark[t])
      /\ Ordered(TableFiles(t), VersionsOf(t), mem.checkpoint, watermark[t], cursor[t])
      /\ Ordered(TableFiles(t), VersionsOf(t), mem.checkpoint, watermark[t], mem.tables[t].cursors)
      /\ \A s \in Streams : ~CursorBefore(cursor[t][s], mem.tables[t].cursors[s])
  BY <1>1 DEF ProgressIsTrue, SavedIsTrue, Agreement
<1>7. First(W) \in W /\ First(W).version \in VersionsOf(t)
  BY <1>2, <1>3, FirstOfWork DEF Scan, RangesAreAhead
<1>8. \A x \in Changes(t) : x.ts < First(W).version =>
          \E f \in TableFiles(t) : Settled(TableFiles(t), f, x)
  BY <1>1, <1>7, StoredIsSound
<1> HIDE DEF W
<1>9. /\ Scan(TableFiles(t), VersionsOf(t), mem.checkpoint, First(W).version, cursor[t],
              bounds.target, W \ {First(W)}, {})
      /\ PastCovered(Changes(t), mem.checkpoint, First(W).version, rows[t])
      /\ IsVersion(VersionsOf(t), mem.checkpoint, First(W).version)
      /\ watermark[t] < First(W).version
  BY <1>2, <1>3, <1>4, <1>5, <1>6, <1>8, WatermarkKeepsScan
<1>10. v \in Nat
  BY <1>2, <1>4, <1>7
<1>11. /\ Ordered(TableFiles(t), VersionsOf(t), mem.checkpoint, v, cursor[t])
       /\ Ordered(TableFiles(t), VersionsOf(t), mem.checkpoint, v, mem.tables[t].cursors)
  BY <1>2, <1>4, <1>5, <1>6, <1>9, <1>10, OrderedGrows
<1>12. \A saved : saved.watermark = v /\ saved.cursors = mem.tables[t].cursors =>
           SavedIsTrue(t, saved)
  BY <1>2, <1>6, <1>9, <1>11 DEF SavedIsTrue
<1> QED BY <1>2, <1>3, <1>9, <1>10, <1>11, <1>12 DEF W, Current

LEMMA SaveWatermarkKeeps ==
    ASSUME LoaderInv, NEW t \in Tables, SaveWatermark(t)
    PROVE  LoaderInv'
<1> DEFINE v == Current(t).version
           W == work[t] \ {Current(t)}
<1>1. SinkInv /\ TypeOK /\ Agreement /\ ProgressIsTrue(t) /\ ScanIsTrue(t)
  BY DEF LoaderInv
<1>2. /\ NeedsWatermark(t)
      /\ watermark' = [watermark EXCEPT ![t] = v] /\ meta' = [meta EXCEPT ![t] = v]
      /\ work' = [work EXCEPT ![t] = W] /\ pc' = [pc EXCEPT ![t] = "load"]
      /\ UNCHANGED <<sinkVars, rows, schema, scanning, bounds, cursor, dirty, paths,
                     agenda, faults>>
  BY DEF SaveWatermark, Rest
<1>3. PICK next \in SetDDLTableVersionWatermark(mem, t, v) : mem' = next /\ obj' = next
  BY DEF SaveWatermark, Saved
<1>4. /\ v \in Nat /\ watermark[t] < v /\ pc[t] # "idle" /\ agenda[t] = {}
      /\ Scan(TableFiles(t), VersionsOf(t), mem.checkpoint, v, cursor[t],
              bounds.target, W, {})
      /\ Ordered(TableFiles(t), VersionsOf(t), mem.checkpoint, v, cursor[t])
      /\ \A saved : saved.watermark = v /\ saved.cursors = mem.tables[t].cursors =>
             SavedIsTrue(t, saved)
  BY <1>2, WatermarkIsReady
<1> HIDE DEF v, W
<1>5. mem \in State /\ mem.tables[t].watermark < v
  BY <1>1, <1>4 DEF TypeOK, Agreement
<1>6. /\ next \in State /\ next.checkpoint = mem.checkpoint
      /\ next.tables[t].watermark = v /\ next.tables[t].cursors = mem.tables[t].cursors
      /\ \A u \in Tables : u # t => next.tables[u] = mem.tables[u]
  BY <1>3, <1>4, <1>5, SetWatermarkFacts
<1>7. SameStore(t)
  BY <1>1, <1>2, StoreStays
<1>8. W \in SUBSET Ranges /\ \A r \in W : RangeOK(r)
  BY <1>1, <1>4, EntriesHaveTypes
<1>9. /\ watermark'[t] = v /\ work'[t] = W /\ pc'[t] = "load"
      /\ \A u \in Tables : u # t => /\ watermark'[u] = watermark[u] /\ work'[u] = work[u]
                                    /\ pc'[u] = pc[u]
  BY <1>1, <1>2 DEF TypeOK
<1>10. TypeOK'
  <2>1. \A u \in Tables : \A r \in work'[u] : RangeOK(r)
    BY <1>1, <1>8, <1>9 DEF TypeOK
  <2> QED BY <1>1, <1>2, <1>3, <1>4, <1>6, <1>8, <2>1 DEF TypeOK
<1>11. SavedIsTrue(t, next.tables[t])'
  <2>1. SavedIsTrue(t, next.tables[t])
    BY <1>4, <1>6
  <2> QED BY <1>2, <1>3, <1>6, <1>7, <2>1 DEF SavedIsTrue, SameStore
<1>12. ProgressIsTrue(t)'
  <2>1. mem'.tables[t] = next.tables[t] /\ obj'.tables[t] = next.tables[t]
    BY <1>3
  <2> QED BY <1>1, <1>2, <1>3, <1>4, <1>6, <1>7, <1>9, <1>11, <2>1 DEF ProgressIsTrue, SameStore
<1>13. ScanIsTrue(t)'
  BY <1>1, <1>2, <1>3, <1>4, <1>6, <1>7, <1>9 DEF ScanIsTrue, SameStore
<1>14. StepOf(t)
  <2>1. Agreement
    BY <1>1
  <2> QED BY <1>2, <1>3, <1>4, <1>6, <1>9, <2>1 DEF StepOf, SameTable, Agreement
<1>15. /\ watermark'[t] = mem'.tables[t].watermark
       /\ \A s \in Streams : s \notin dirty'[t] => cursor'[t][s] = mem'.tables[t].cursors[s]
  BY <1>1, <1>2, <1>3, <1>6, <1>9 DEF Agreement
<1> QED BY <1>10, <1>12, <1>13, <1>14, <1>15, StepOfKeeps

LEMMA FailedSaveKeeps ==
    ASSUME LoaderInv, NEW t \in Tables, pc[t] # "idle", faults' \in Nat,
           pc' = [pc EXCEPT ![t] = "failed"],
           UNCHANGED <<sinkVars, rows, schema, scanning, bounds, watermark, cursor,
                       dirty, meta, paths, agenda, work>>,
           NEW next \in State, mem' = mem, obj' = next, next.checkpoint = mem.checkpoint,
           \A u \in Tables : u # t => next.tables[u] = mem.tables[u],
           SavedIsTrue(t, next.tables[t])
    PROVE  LoaderInv'
<1>1. SinkInv /\ TypeOK /\ Agreement /\ ProgressIsTrue(t) /\ ScanIsTrue(t)
  BY DEF LoaderInv
<1>2. TypeOK'
  BY <1>1 DEF TypeOK
<1>3. SameStore(t)
  BY <1>1, StoreStays
<1>4. \A saved : SavedIsTrue(t, saved) => SavedIsTrue(t, saved)'
  BY <1>3 DEF SavedIsTrue, SameStore
<1>5. ProgressIsTrue(t)'
  BY <1>1, <1>3, <1>4 DEF ProgressIsTrue, SameStore
<1>6. /\ pc'[t] = "failed"
      /\ \A u \in Tables : u # t => pc'[u] = pc[u]
  BY <1>1 DEF TypeOK
<1>7. ScanIsTrue(t)'
  BY <1>6 DEF ScanIsTrue
<1>8. StepOf(t)
  BY <1>1, <1>6 DEF StepOf, SameTable, Agreement
<1>9. /\ watermark'[t] = mem'.tables[t].watermark
      /\ \A s \in Streams : s \notin dirty'[t] => cursor'[t][s] = mem'.tables[t].cursors[s]
  BY <1>1 DEF Agreement
<1> QED BY <1>2, <1>5, <1>7, <1>8, <1>9, StepOfKeeps

----------------------------------------------------------------------------
(***************************************************************************)
(* The cursors.                                                            *)
(***************************************************************************)
\* The cursors of the loader may be saved at any time.
LEMMA CursorsAreReady ==
    ASSUME LoaderInv, NEW t \in Tables,
           NEW next \in SetDMLCursors(mem, t, DirtyCursors(t))
    PROVE  /\ next \in State /\ next.checkpoint = mem.checkpoint
           /\ next.tables[t].watermark = watermark[t] /\ next.tables[t].cursors = cursor[t]
           /\ \A u \in Tables : u # t => next.tables[u] = mem.tables[u]
<1>1. TypeOK /\ Agreement
  BY DEF LoaderInv
<1>2. /\ mem \in State /\ dirty[t] \in SUBSET Streams /\ cursor[t] \in Cursors
      /\ mem.tables[t].watermark = watermark[t]
      /\ \A s \in Streams : s \notin dirty[t] => cursor[t][s] = mem.tables[t].cursors[s]
  BY <1>1, TypeParts DEF Agreement
<1> QED BY <1>2, SetCursorsFacts DEF DirtyCursors

LEMMA CursorsAreTrue ==
    ASSUME LoaderInv, NEW t \in Tables, NEW saved,
           saved.watermark = watermark[t], saved.cursors = cursor[t]
    PROVE  SavedIsTrue(t, saved)
<1>1. TypeOK /\ Agreement /\ ProgressIsTrue(t)
  BY DEF LoaderInv
<1>2. \A s \in Streams : ~CursorBefore(cursor[t][s], cursor[t][s])
  BY <1>1, TypeParts, CursorOrder DEF Cursors
<1>3. SavedIsTrue(t, mem.tables[t]) /\ mem.tables[t].watermark = watermark[t]
  BY <1>1 DEF ProgressIsTrue, Agreement
<1> QED BY <1>1, <1>2, <1>3 DEF SavedIsTrue, ProgressIsTrue

LEMMA FailAfterSaveKeeps ==
    ASSUME LoaderInv, NEW t \in Tables, FailAfterSave(t)
    PROVE  LoaderInv'
<1>1. TypeOK /\ Agreement
  BY DEF LoaderInv
<1>2. /\ pc' = [pc EXCEPT ![t] = "failed"]
      /\ UNCHANGED <<sinkVars, rows, schema, scanning, bounds, watermark, cursor,
                     dirty, meta, paths, agenda, work>>
  BY DEF FailAfterSave
<1>3. faults' \in Nat
  BY <1>1 DEF FailAfterSave, Fault, TypeOK
<1>4. CASE NeedsWatermark(t) /\ \E next \in SetDDLTableVersionWatermark(mem, t, Current(t).version) :
               SavedButFailed(next)
  <2> DEFINE v == Current(t).version
  <2>1. PICK next \in SetDDLTableVersionWatermark(mem, t, v) : mem' = mem /\ obj' = next
    BY <1>4 DEF SavedButFailed
  <2>2. /\ v \in Nat /\ watermark[t] < v /\ pc[t] # "idle"
        /\ \A saved : saved.watermark = v /\ saved.cursors = mem.tables[t].cursors =>
               SavedIsTrue(t, saved)
    BY <1>4, WatermarkIsReady
  <2> HIDE DEF v
  <2>3. mem \in State /\ mem.tables[t].watermark < v
    BY <1>1, <2>2 DEF TypeOK, Agreement
  <2>4. /\ next \in State /\ next.checkpoint = mem.checkpoint
        /\ next.tables[t].watermark = v /\ next.tables[t].cursors = mem.tables[t].cursors
        /\ \A u \in Tables : u # t => next.tables[u] = mem.tables[u]
    BY <2>1, <2>2, <2>3, SetWatermarkFacts
  <2>5. SavedIsTrue(t, next.tables[t])
    BY <2>2, <2>4
  <2> QED BY <1>2, <1>3, <2>1, <2>2, <2>4, <2>5, FailedSaveKeeps
<1>5. CASE pc[t] = "load" /\ \E next \in SetDMLCursors(mem, t, DirtyCursors(t)) :
               SavedButFailed(next)
  <2>1. PICK next \in SetDMLCursors(mem, t, DirtyCursors(t)) : mem' = mem /\ obj' = next
    BY <1>5 DEF SavedButFailed
  <2>2. /\ next \in State /\ next.checkpoint = mem.checkpoint
        /\ next.tables[t].watermark = watermark[t] /\ next.tables[t].cursors = cursor[t]
        /\ \A u \in Tables : u # t => next.tables[u] = mem.tables[u]
    BY CursorsAreReady
  <2>3. SavedIsTrue(t, next.tables[t])
    BY <2>2, CursorsAreTrue
  <2> QED BY <1>2, <1>3, <1>5, <2>1, <2>2, <2>3, FailedSaveKeeps
<1> QED BY <1>4, <1>5 DEF FailAfterSave

LEMMA SaveCursorsKeeps ==
    ASSUME LoaderInv, NEW t \in Tables, SaveCursors(t)
    PROVE  LoaderInv'
<1>1. SinkInv /\ TypeOK /\ Agreement /\ ProgressIsTrue(t) /\ ScanIsTrue(t)
  BY DEF LoaderInv
<1>2. /\ pc[t] = "load" /\ work[t] = {}
      /\ dirty' = [dirty EXCEPT ![t] = {}] /\ pc' = [pc EXCEPT ![t] = "done"]
      /\ UNCHANGED <<sinkVars, rows, schema, scanning, bounds, watermark, cursor,
                     meta, paths, agenda, work, faults>>
  BY DEF SaveCursors
<1>3. SameStore(t)
  BY <1>1, <1>2, StoreStays
<1>4. TargetLoaded(t)
  <2>1. agenda[t] = {}
    BY <1>1, <1>2 DEF ScanIsTrue
  <2> QED BY <1>2, <2>1, ScanIsOver
<1>5. /\ mem' \in State /\ obj' \in State
      /\ mem'.checkpoint = mem.checkpoint /\ obj'.checkpoint = obj.checkpoint
      /\ mem'.tables[t].watermark = watermark[t] /\ mem'.tables[t].cursors = cursor[t]
      /\ obj'.tables[t] = mem'.tables[t]
      /\ \A u \in Tables : u # t => /\ mem'.tables[u] = mem.tables[u]
                                    /\ \/ obj'.tables[u] = mem.tables[u]
                                       \/ obj'.tables[u] = obj.tables[u]
  <2>1. CASE dirty[t] = {}
    <3>1. mem' = mem /\ obj' = obj
      BY <2>1 DEF SaveCursors
    <3>2. mem.tables[t].cursors = cursor[t]
      <4>1. \A s \in Streams : cursor[t][s] = mem.tables[t].cursors[s]
        BY <1>1, <2>1 DEF Agreement
      <4>2. cursor[t] \in Cursors /\ mem.tables[t].cursors \in Cursors
        BY <1>1, TypeParts, StateParts
      <4> QED BY <4>1, <4>2 DEF Cursors
    <3>3. /\ mem.tables[t].watermark = watermark[t] /\ mem \in State /\ obj \in State
          /\ obj.tables[t] = mem.tables[t]
      BY <1>1, <1>2 DEF Agreement, TypeOK, ScanIsTrue
    <3> QED BY <3>1, <3>2, <3>3
  <2>2. CASE dirty[t] # {}
    <3>1. PICK next \in SetDMLCursors(mem, t, DirtyCursors(t)) : mem' = next /\ obj' = next
      BY <2>2 DEF SaveCursors, Saved
    <3>2. /\ next \in State /\ next.checkpoint = mem.checkpoint
          /\ next.tables[t].watermark = watermark[t] /\ next.tables[t].cursors = cursor[t]
          /\ \A u \in Tables : u # t => next.tables[u] = mem.tables[u]
      BY CursorsAreReady
    <3>3. obj.checkpoint = mem.checkpoint
      BY <1>1 DEF Agreement
    <3> QED BY <3>1, <3>2, <3>3
  <2> QED BY <2>1, <2>2
<1>6. /\ dirty'[t] = {} /\ pc'[t] = "done"
      /\ \A u \in Tables : u # t => dirty'[u] = dirty[u] /\ pc'[u] = pc[u]
  BY <1>1, <1>2 DEF TypeOK
<1>7. TypeOK'
  BY <1>1, <1>2, <1>5 DEF TypeOK
<1>8. \A saved : SavedIsTrue(t, saved) => SavedIsTrue(t, saved)'
  BY <1>2, <1>3, <1>5 DEF SavedIsTrue, SameStore
<1>9. ProgressIsTrue(t)'
  <2>1. SavedIsTrue(t, mem'.tables[t])
    BY <1>5, CursorsAreTrue
  <2>2. SavedIsTrue(t, obj.tables[t])
    BY <1>1 DEF ProgressIsTrue
  <2>3. SavedIsTrue(t, mem.tables[t])' /\ SavedIsTrue(t, obj.tables[t])'
    BY <1>5, <1>8, <2>1, <2>2
  <2> QED BY <1>1, <1>2, <1>3, <1>5, <2>3 DEF ProgressIsTrue, SameStore
<1>10. ScanIsTrue(t)'
  <2>1. obj.tables[t] = mem.tables[t] /\ obj'.tables[t] = mem'.tables[t]
    BY <1>1, <1>2, <1>5 DEF ScanIsTrue
  <2> QED BY <1>2, <1>3, <1>4, <1>6, <2>1 DEF ScanIsTrue, TargetLoaded, SameStore
<1>11. StepOf(t)
  BY <1>2, <1>5, <1>6 DEF StepOf, SameTable
<1> QED BY <1>2, <1>5, <1>7, <1>9, <1>10, <1>11, StepOfKeeps

----------------------------------------------------------------------------
(***************************************************************************)
(* MergeFile.                                                              *)
(***************************************************************************)
LEMMA ChangesInFacts ==
    ASSUME SinkInv, NEW t \in Tables, NEW r, NEW k
    PROVE  /\ \A n \in ChangesIn(t, r, k) :
                  \E x \in Changes(t) : /\ Fresh(TableFiles(t), bounds.checkpoint, r, x)
                                        /\ x.key = k /\ x.ts = n
           /\ \A x \in Changes(t) :
                  Fresh(TableFiles(t), bounds.checkpoint, r, x) /\ x.key = k =>
                      x.ts \in ChangesIn(t, r, k)
           /\ ChangesIn(t, r, k) \in SUBSET Nat
           /\ \A n \in ChangesIn(t, r, k) : n <= tso
<1> DEFINE R == RowsOfFile(t, r.version, r.part, r.date, r.start)
           ck == bounds.checkpoint
<1>1. \A x : x \in R <=>
          \E f \in TableFiles(t) : SameStream(f, r) /\ Spot(f) = Start(r) /\ x \in f.rows
  BY DEF RowsOfFile, FilesOf, TableFiles, SameStream, Spot, Start
<1>2. \A x \in R : x \in Changes(t)
  BY <1>1, StoredIsSound
<1>3. \A x \in Changes(t) : x.ts \in Nat /\ x.ts <= tso /\ x.key \in Keys
  BY StoredIsSound DEF Change
<1>4. \A n : n \in ChangesIn(t, r, k) <=> \E x \in R : x.key = k /\ x.ts > ck /\ x.ts = n
  BY DEF ChangesIn
<1> HIDE DEF R
<1>5. \A x \in Changes(t) : Fresh(TableFiles(t), ck, r, x) <=> x \in R /\ x.ts > ck
  BY <1>1 DEF Fresh
<1> QED BY <1>2, <1>3, <1>4, <1>5

LEMMA MergedFacts ==
    ASSUME LoaderInv, NEW t \in Tables, pc[t] # "idle", NEW r
    PROVE  /\ Merged(t, r) \in [Keys -> Nat]
           /\ MergedFrom(TableFiles(t), Changes(t), mem.checkpoint, r, rows[t], Merged(t, r))
<1>1. SinkInv /\ rows[t] \in [Keys -> Nat] /\ bounds.checkpoint = mem.checkpoint /\ tso \in Nat
  BY TypeParts, ScanBounds DEF LoaderInv, SinkInv, SinkTypes
<1>2. ASSUME NEW k \in Keys, ChangesIn(t, r, k) # {}
      PROVE  /\ MaxOf(ChangesIn(t, r, k)) \in ChangesIn(t, r, k)
             /\ \A n \in ChangesIn(t, r, k) : n <= MaxOf(ChangesIn(t, r, k))
             /\ MaxOf(ChangesIn(t, r, k)) \in Nat
  <2>1. ChangesIn(t, r, k) \in SUBSET Nat /\ \A n \in ChangesIn(t, r, k) : n <= tso
    BY <1>1, ChangesInFacts
  <2> QED BY <1>1, <1>2, <2>1, MaxOfFacts
<1>3. Merged(t, r) \in [Keys -> Nat]
  BY <1>1, <1>2 DEF Merged
<1>4. ASSUME NEW k \in Keys
      PROVE  \/ /\ Merged(t, r)[k] = rows[t][k]
                /\ \A x \in Changes(t) : Fresh(TableFiles(t), mem.checkpoint, r, x) => x.key # k
             \/ /\ \E x \in Changes(t) : /\ Fresh(TableFiles(t), mem.checkpoint, r, x)
                                         /\ x.key = k /\ x.ts = Merged(t, r)[k]
                /\ \A x \in Changes(t) :
                       Fresh(TableFiles(t), mem.checkpoint, r, x) /\ x.key = k =>
                           x.ts <= Merged(t, r)[k]
  <2>1. CASE ChangesIn(t, r, k) = {}
    <3>1. Merged(t, r)[k] = rows[t][k]
      BY <2>1 DEF Merged
    <3> QED BY <1>1, <2>1, <3>1, ChangesInFacts
  <2>2. CASE ChangesIn(t, r, k) # {}
    <3>1. Merged(t, r)[k] = MaxOf(ChangesIn(t, r, k))
      BY <2>2 DEF Merged
    <3>2. /\ \A n \in ChangesIn(t, r, k) :
                 \E x \in Changes(t) : /\ Fresh(TableFiles(t), mem.checkpoint, r, x)
                                       /\ x.key = k /\ x.ts = n
          /\ \A x \in Changes(t) :
                 Fresh(TableFiles(t), mem.checkpoint, r, x) /\ x.key = k =>
                     x.ts \in ChangesIn(t, r, k)
      BY <1>1, ChangesInFacts
    <3> QED BY <1>2, <2>2, <3>1, <3>2
  <2> QED BY <2>1, <2>2
<1> QED BY <1>3, <1>4 DEF MergedFrom

LEMMA MergeKeeps ==
    ASSUME LoaderInv, NEW t \in Tables, MergeFile(t)
    PROVE  LoaderInv'
<1> DEFINE r == Current(t)
           s == <<r.version, r.part>>
           row == Merged(t, r)
           cur == [cursor[t] EXCEPT ![s] = Start(r)]
           N == IF r.start = r.end THEN {} ELSE {[r EXCEPT !.start = r.start + 1]}
           W == (work[t] \ {r}) \cup N
<1>1. SinkInv /\ TypeOK /\ Agreement /\ ProgressIsTrue(t) /\ ScanIsTrue(t)
  BY DEF LoaderInv
<1>2. /\ pc[t] = "load" /\ work[t] # {} /\ ~IsSchemaRange(r)
      /\ rows' = [rows EXCEPT ![t] = row]
      /\ cursor' = [cursor EXCEPT ![t][s] = [date |-> r.date, index |-> r.start]]
      /\ dirty' = [dirty EXCEPT ![t] = @ \cup {s}]
      /\ work' = [work EXCEPT ![t] = W]
      /\ UNCHANGED <<sinkVars, schema, obj, mem, scanning, bounds, pc, watermark,
                     meta, paths, agenda, faults>>
  BY DEF MergeFile, AtFile, Loading
<1>3. cursor' = [cursor EXCEPT ![t] = cur]
  BY <1>1, <1>2 DEF Start, TypeOK
<1>4. /\ agenda[t] = {}
      /\ Scan(TableFiles(t), VersionsOf(t), mem.checkpoint, watermark[t], cursor[t],
              bounds.target, work[t], {})
  BY <1>1, <1>2 DEF ScanIsTrue
<1>5. Store(TableFiles(t), VersionsOf(t), Changes(t))
  BY <1>1, StoreHolds
<1>6. /\ rows[t] \in [Keys -> Nat] /\ watermark[t] \in Nat /\ mem.checkpoint \in Nat
      /\ bounds.target \in Nat /\ cursor[t] \in Cursors
  BY <1>1, TypeParts
<1>7. /\ Loaded(TableFiles(t), cursor[t], rows[t])
      /\ PastCovered(Changes(t), mem.checkpoint, watermark[t], rows[t])
      /\ IsVersion(VersionsOf(t), mem.checkpoint, watermark[t])
      /\ Ordered(TableFiles(t), VersionsOf(t), mem.checkpoint, watermark[t], cursor[t])
      /\ Placed(TableFiles(t), cursor[t])
  BY <1>1 DEF ProgressIsTrue, SavedIsTrue, Agreement
<1>8. r = First(work[t]) /\ r \in work[t] /\ IsFileRange(r)
  BY <1>2, <1>4, FirstOfWork, RangeFacts DEF Scan, Current
<1>9. /\ r.version \in VersionsOf(t) /\ ~Crossed(VersionsOf(t), mem.checkpoint, watermark[t], r.version)
      /\ NextOf(cursor[t], r)
      /\ \E f \in TableFiles(t) : SameStream(f, r) /\ Spot(f) = End(r)
  BY <1>2, <1>4, <1>8 DEF Scan, RangesAreAhead
<1>10. s \in Streams
  BY <1>5, <1>9 DEF Store, SameStream
<1>11. row \in [Keys -> Nat] /\
       MergedFrom(TableFiles(t), Changes(t), mem.checkpoint, r, rows[t], row)
  BY <1>2, MergedFacts
<1> HIDE DEF r, row, N
<1>12. NextInOrder(TableFiles(t), VersionsOf(t), mem.checkpoint, watermark[t], cursor[t], r)
  BY <1>2, <1>4, <1>5, <1>6, <1>8, FirstIsNext
<1>d. /\ cur = [cursor[t] EXCEPT ![<<r.version, r.part>>] = Start(r)]
      /\ <<r.version, r.part>> \in Streams
  BY <1>10
<1> HIDE DEF cur, s
<1>q. MergeStep(TableFiles(t), VersionsOf(t), Changes(t), mem.checkpoint, watermark[t],
                cursor[t], rows[t], r, cur, row)
  BY <1>5, <1>6, <1>7, <1>8, <1>9, <1>d, <1>11, <1>12 DEF MergeStep
<1>13. /\ Loaded(TableFiles(t), cur, row)
       /\ PastCovered(Changes(t), mem.checkpoint, watermark[t], row)
       /\ Ordered(TableFiles(t), VersionsOf(t), mem.checkpoint, watermark[t], cur)
       /\ cur \in Cursors
       /\ \A q \in Streams : ~CursorBefore(cur[q], cursor[t][q])
       /\ \A f \in TableFiles(t) : Eats(cursor[t], f) => Eats(cur, f)
  BY <1>q, MergeLoads
<1>14. /\ Scan(TableFiles(t), VersionsOf(t), mem.checkpoint, watermark[t], cur,
               bounds.target, W, {})
       /\ Placed(TableFiles(t), cur)
  BY <1>2, <1>4, <1>5, <1>6, <1>7, <1>8, <1>d, <1>13, MergeKeepsScan DEF N
<1> HIDE DEF W
<1>15. W \in SUBSET Ranges /\ \A q \in W : RangeOK(q)
  BY <1>1, <1>14, EntriesHaveTypes
<1>16. /\ rows'[t] = row /\ cursor'[t] = cur /\ work'[t] = W /\ dirty'[t] = dirty[t] \cup {s}
       /\ \A u \in Tables : u # t => /\ rows'[u] = rows[u] /\ cursor'[u] = cursor[u]
                                     /\ work'[u] = work[u] /\ dirty'[u] = dirty[u]
  BY <1>1, <1>2, <1>3 DEF TypeOK
<1>17. TypeOK'
  <2>1. \A u \in Tables : \A q \in work'[u] : RangeOK(q)
    BY <1>1, <1>15, <1>16 DEF TypeOK
  <2>2. rows' \in [Tables -> [Keys -> Nat]]
    BY <1>1, <1>2, <1>11 DEF TypeOK
  <2>3. cursor' \in [Tables -> [Streams -> Cursor]]
    BY <1>1, <1>3, <1>13 DEF TypeOK, Cursors
  <2>4. dirty' \in [Tables -> SUBSET Streams]
    BY <1>1, <1>2, <1>10 DEF TypeOK
  <2>5. work' \in [Tables -> SUBSET Ranges]
    BY <1>1, <1>2, <1>15 DEF TypeOK
  <2> QED BY <1>1, <1>2, <2>1, <2>2, <2>3, <2>4, <2>5 DEF TypeOK
<1>18. SameStore(t)
  BY <1>1, <1>2, StoreStays
<1>19. ASSUME NEW saved, saved.cursors \in Cursors, SavedIsTrue(t, saved),
              PastCovered(Changes(t), mem.checkpoint, saved.watermark, row)
       PROVE  SavedIsTrue(t, saved)'
  <2>1. ASSUME NEW q \in Streams PROVE ~CursorBefore(cur[q], saved.cursors[q])
    <3>1. cur[q] \in Cursor /\ cursor[t][q] \in Cursor /\ saved.cursors[q] \in Cursor
      BY <1>6, <1>13, <1>19 DEF Cursors
    <3>2. ~CursorBefore(cursor[t][q], saved.cursors[q]) /\ ~CursorBefore(cur[q], cursor[t][q])
      BY <1>13, <1>19 DEF SavedIsTrue
    <3> QED BY <3>1, <3>2, CursorOrder
  <2> QED BY <1>2, <1>16, <1>18, <1>19, <2>1 DEF SavedIsTrue, SameStore
<1>20. ProgressIsTrue(t)'
  <2>1. /\ SavedIsTrue(t, obj.tables[t]) /\ SavedIsTrue(t, mem.tables[t])
        /\ obj.tables[t].cursors \in Cursors /\ mem.tables[t].cursors \in Cursors
        /\ mem.tables[t].watermark = watermark[t]
    BY <1>1, TypeParts, StateParts DEF ProgressIsTrue, Agreement
  <2>2. obj.tables[t] = mem.tables[t]
    BY <1>1, <1>2 DEF ScanIsTrue
  <2>3. SavedIsTrue(t, obj.tables[t])' /\ SavedIsTrue(t, mem.tables[t])'
    BY <1>2, <1>13, <1>19, <2>1, <2>2
  <2> QED BY <1>2, <1>13, <1>14, <1>16, <1>18, <2>3 DEF ProgressIsTrue, SameStore
<1>21. ScanIsTrue(t)'
  BY <1>1, <1>2, <1>4, <1>14, <1>16, <1>18 DEF ScanIsTrue, SameStore
<1>22. StepOf(t)
  BY <1>2, <1>16 DEF StepOf, SameTable
<1>23. /\ watermark'[t] = mem'.tables[t].watermark
       /\ \A q \in Streams : q \notin dirty'[t] => cursor'[t][q] = mem'.tables[t].cursors[q]
  <2>1. \A q \in Streams : q # s => cur[q] = cursor[t][q]
    BY <1>6, <1>d DEF s, Cursors
  <2> QED BY <1>1, <1>2, <1>16, <2>1 DEF Agreement
<1> QED BY <1>17, <1>20, <1>21, <1>22, <1>23, StepOfKeeps

----------------------------------------------------------------------------
(***************************************************************************)
(* The steps of the changefeed.  now is the clock, past its checkpoint.    *)
(***************************************************************************)
Grown(F, V, C, F2, V2, C2, now, past) ==
    /\ Store(F, V, C) /\ V2 \in SUBSET Nat /\ C2 \subseteq Change
    /\ now \in Nat /\ past \in Nat
    /\ \A v \in V : InitVersion <= v /\ v <= now
    /\ V \subseteq V2 /\ \A v \in V2 \ V : /\ past < v /\ (v = InitVersion \/ SnapshotTS < v)
                                           /\ \A u \in V : u < v
    /\ \A x \in C2 \ C : now < x.ts
    /\ \/ F2 = F
       \/ V2 = V /\ \E g : /\ Appended(F, V, g) /\ F2 = F \cup {g}
                           /\ <<g.version, g.part>> \in Streams
                           /\ \A x \in g.rows : past < x.ts
                           /\ \A f \in F : f.date <= g.date

LEMMA GrownKeepsSaved ==
    ASSUME NEW F, NEW V, NEW C, NEW F2, NEW V2, NEW C2, NEW now, NEW past,
           Grown(F, V, C, F2, V2, C2, now, past),
           NEW ck \in Nat, ck <= now, ck <= past \/ ck = SnapshotTS, NEW w \in Nat,
           NEW base \in Cursors, NEW cur \in Cursors, Placed(F, base),
           \A s \in Streams : ~CursorBefore(base[s], cur[s]), IsVersion(V, ck, w)
    PROVE  /\ IsVersion(V2, ck, w)
           /\ Ordered(F, V, ck, w, cur) => Ordered(F2, V2, ck, w, cur)
           /\ \A row : PastCovered(C, ck, w, row) => PastCovered(C2, ck, w, row)
           /\ \A row : Loaded(F, cur, row) => Loaded(F2, cur, row)
           /\ Placed(F, cur) => Placed(F2, cur)
<1>1. /\ Store(F, V, C) /\ V2 \in SUBSET Nat /\ V \subseteq V2
      /\ now \in Nat /\ past \in Nat /\ C2 \subseteq Change
      /\ SnapshotTS \in Nat /\ InitVersion \in Nat
  BY SinkAssumption DEF Grown
<1>2. w <= now
  BY <1>1 DEF Grown, IsVersion
<1>3. IsVersion(V2, ck, w)
  <2> SUFFICES ASSUME w # 0, NEW v \in V2 \ V PROVE ck < v
    BY <1>1 DEF IsVersion
  <2>1. w \in V /\ InitVersion <= w /\ w < v /\ past < v /\ (v = InitVersion \/ SnapshotTS < v)
    BY DEF IsVersion, Grown
  <2> QED BY <1>1, <2>1
<1>4. \A row : PastCovered(C, ck, w, row) => PastCovered(C2, ck, w, row)
  <2> SUFFICES ASSUME NEW row, PastCovered(C, ck, w, row), NEW x \in C2, x.ts <= w \/ x.ts <= ck
               PROVE  x.ts <= row[x.key]
    BY DEF PastCovered
  <2>1. x \in C
    BY <1>1, <1>2 DEF Grown, Change
  <2> QED BY <2>1 DEF PastCovered
<1>5. Ordered(F, V, ck, w, cur) => Ordered(F, V2, ck, w, cur)
  <2>1. ck <= ck /\ w <= w
    OBVIOUS
  <2> QED BY <1>1, <2>1, OrderedGrows
<1>6. CASE F2 = F
  BY <1>3, <1>4, <1>5, <1>6
<1>7. ASSUME V2 = V, NEW g, Appended(F, V, g), F2 = F \cup {g},
             <<g.version, g.part>> \in Streams
      PROVE  /\ Ordered(F, V, ck, w, cur) => Ordered(F2, V2, ck, w, cur)
             /\ \A row : Loaded(F, cur, row) => Loaded(F2, cur, row)
             /\ Placed(F, cur) => Placed(F2, cur)
  <2>1. ~Eats(cur, g)
    BY <1>1, <1>7, AppendIsNotEaten
  <2> QED BY <1>1, <1>7, <2>1, AppendKeepsProgress
<1> QED BY <1>3, <1>4, <1>6, <1>7 DEF Grown

LEMMA GrownKeepsScan ==
    ASSUME NEW F, NEW V, NEW C, NEW F2, NEW V2, NEW C2, NEW now, NEW past,
           Grown(F, V, C, F2, V2, C2, now, past),
           NEW ck \in Nat, NEW w \in Nat, NEW target \in Nat, ck <= target, target <= past,
           NEW cur, NEW W, NEW A, Scan(F, V, ck, w, cur, target, W, A), IsVersion(V, ck, w)
    PROVE  Scan(F2, V2, ck, w, cur, target, W, A)
<1>1. /\ Store(F, V, C) /\ V2 \in SUBSET Nat /\ V \subseteq V2 /\ past \in Nat
      /\ \A v \in V2 \ V : past < v /\ \A u \in V : u < v
  BY DEF Grown
<1>2. CASE F2 = F
  <2>1. \A v \in V2 \ V : target < v /\ \A u \in V : u < v
    BY <1>1
  <2>2. w # 0 => w \in V
    BY DEF IsVersion
  <2> QED BY <1>1, <1>2, <2>1, <2>2, NewVersionsKeepScan
<1>3. ASSUME V2 = V, NEW g, Appended(F, V, g), F2 = F \cup {g},
             \A x \in g.rows : past < x.ts, \A f \in F : f.date <= g.date
      PROVE  Scan(F2, V2, ck, w, cur, target, W, A)
  <2>1. \A x \in g.rows : target < x.ts
    BY <1>1, <1>3 DEF Appended, File, Change
  <2> QED BY <1>1, <1>3, <2>1, AppendKeepsScan
<1> QED BY <1>2, <1>3 DEF Grown

LEMMA StoreIsGrown ==
    ASSUME SinkInv, SinkInv', SinkNext, NEW t \in Tables
    PROVE  Grown(TableFiles(t), VersionsOf(t), Changes(t), TableFiles(t)', VersionsOf(t)',
                 Changes(t)', tso, metadata)
<1>1. Store(TableFiles(t), VersionsOf(t), Changes(t))
  BY StoreHolds
<1>2. VersionsOf(t)' \in SUBSET Nat /\ Changes(t)' \subseteq Change
  <2>1. /\ log'[t] \in SUBSET Event /\ \A e \in log'[t] : IsRow(e) => e.key \in Keys
        /\ schemas'[t] \in SUBSET [version : Nat, kind : AllDDLKinds]
    BY DEF SinkInv, SinkTypes, EventsAreOrdered
  <2>2. Changes(t)' \subseteq Change
    BY <2>1, RowsInFacts DEF Changes
  <2>3. VersionsOf(t)' \in SUBSET Nat
    BY <2>1 DEF VersionsOf
  <2> QED BY <2>2, <2>3
<1>3. Grows(t) /\ \A v \in VersionsOf(t) : InitVersion <= v /\ v <= tso
  BY SinkNextGrows, EventParts
<1>4. tso \in Nat /\ metadata \in Nat /\ \A f \in TableFiles(t) : f.date <= today
  BY DEF SinkInv, SinkTypes, FilesAreVersioned
<1>5. ASSUME NEW g, NewestIn(t, g)
      PROVE  /\ Appended(TableFiles(t), VersionsOf(t), g) /\ <<g.version, g.part>> \in Streams
             /\ \A x \in g.rows : metadata < x.ts
             /\ \A f \in TableFiles(t) : f.date <= g.date
  <2>1. g.version \in 1..MaxTS /\ g.part \in Partitions
    BY <1>5, StoreHolds DEF NewestIn, File
  <2> QED BY <1>4, <1>5, <2>1, LoaderAssumption DEF NewestIn, Appended
<1> QED BY <1>1, <1>2, <1>3, <1>4, <1>5 DEF Grown, Grows

LEMMA ChangefeedKeeps ==
    ASSUME LoaderInv, ChangefeedStep, SinkInv'
    PROVE  LoaderInv'
<1>1. SinkInv /\ TypeOK /\ Agreement
  BY DEF LoaderInv
<1>2. /\ SinkNext
      /\ UNCHANGED <<rows, schema, obj, mem, scanning, bounds, pc, watermark, cursor, dirty,
                     meta, paths, agenda, work, faults>>
  BY DEF ChangefeedStep, Quiet, loaderVars
<1>3. TypeOK'
  BY <1>1, <1>2 DEF TypeOK
<1>4. tso <= tso' /\ metadata <= metadata'
  BY <1>1, <1>2, ClocksGrow
<1>5. mem.checkpoint \in Nat /\ tso \in Nat /\ metadata \in Nat /\ tso' \in Nat /\ metadata' \in Nat
      /\ bounds.target \in Nat
  BY <1>1, StateParts DEF SinkInv, SinkTypes, TypeOK, State
<1>6. Agreement'
  BY <1>1, <1>2, <1>4, <1>5 DEF Agreement
<1>7. ASSUME NEW t \in Tables PROVE ProgressIsTrue(t)' /\ ScanIsTrue(t)'
  <2> DEFINE ck == mem.checkpoint
  <2>1. Grown(TableFiles(t), VersionsOf(t), Changes(t), TableFiles(t)', VersionsOf(t)',
              Changes(t)', tso, metadata)
    BY <1>1, <1>2, StoreIsGrown
  <2>2. ProgressIsTrue(t) /\ ScanIsTrue(t)
    BY DEF LoaderInv
  <2>3. /\ ck \in Nat /\ ck <= tso /\ (ck <= metadata \/ ck = SnapshotTS)
        /\ cursor[t] \in Cursors /\ watermark[t] \in Nat
        /\ obj.tables[t].cursors \in Cursors /\ mem.tables[t].cursors \in Cursors
        /\ obj.tables[t].watermark \in Nat /\ mem.tables[t].watermark \in Nat
        /\ watermark[t] = mem.tables[t].watermark
    BY <1>1, TypeParts, StateParts DEF Agreement
  <2>4. /\ Placed(TableFiles(t), cursor[t])
        /\ \A s \in Streams : ~CursorBefore(cursor[t][s], cursor[t][s])
    BY <2>2, <2>3, CursorOrder DEF ProgressIsTrue, Cursors
  <2>5. IsVersion(VersionsOf(t), ck, watermark[t])
    BY <2>2, <2>3 DEF ProgressIsTrue, SavedIsTrue
  <2>6. ASSUME NEW saved, saved.cursors \in Cursors, saved.watermark \in Nat,
               SavedIsTrue(t, saved)
        PROVE  SavedIsTrue(t, saved)'
    <3>1. /\ IsVersion(VersionsOf(t)', ck, saved.watermark)
          /\ Ordered(TableFiles(t)', VersionsOf(t)', ck, saved.watermark, saved.cursors)
          /\ PastCovered(Changes(t)', ck, saved.watermark, rows[t])
      BY <2>1, <2>3, <2>4, <2>6, GrownKeepsSaved DEF SavedIsTrue
    <3> QED BY <1>2, <2>6, <3>1 DEF SavedIsTrue
  <2>7. SavedIsTrue(t, obj.tables[t])' /\ SavedIsTrue(t, mem.tables[t])'
    <3>1. SavedIsTrue(t, obj.tables[t]) /\ SavedIsTrue(t, mem.tables[t])
      BY <2>2 DEF ProgressIsTrue
    <3> QED BY <1>2, <2>3, <2>6, <3>1
  <2>8. /\ Ordered(TableFiles(t)', VersionsOf(t)', ck, watermark[t], cursor[t])
        /\ Loaded(TableFiles(t)', cursor[t], rows[t])
        /\ Placed(TableFiles(t)', cursor[t])
    BY <2>1, <2>2, <2>3, <2>4, <2>5, GrownKeepsSaved DEF ProgressIsTrue
  <2>9. ProgressIsTrue(t)'
    BY <1>2, <2>7, <2>8 DEF ProgressIsTrue
  <2>10. ASSUME pc[t] \in {"list", "load", "watermark"}
         PROVE  Scan(TableFiles(t)', VersionsOf(t)', ck, watermark[t], cursor[t],
                     bounds.target, work[t], agenda[t])
    <3>1. ck <= bounds.target /\ bounds.target <= metadata /\ bounds.target \in Nat
      BY <2>3, <2>10, ScanBounds
    <3>2. Scan(TableFiles(t), VersionsOf(t), ck, watermark[t], cursor[t],
               bounds.target, work[t], agenda[t])
      BY <2>2, <2>10 DEF ScanIsTrue
    <3> QED BY <2>1, <2>3, <2>5, <3>1, <3>2, GrownKeepsScan
  <2>11. ASSUME pc[t] = "done" PROVE TargetLoaded(t)'
    <3>1. bounds.target <= metadata /\ bounds.target \in Nat /\ metadata <= tso
      BY <1>1, <2>11, ScanBounds DEF SinkInv, SinkTypes
    <3>2. TargetLoaded(t)
      BY <2>2, <2>11 DEF ScanIsTrue
    <3>3. \A x \in Changes(t)' : x.ts <= bounds.target => x \in Changes(t)
      BY <1>5, <2>1, <3>1 DEF Grown, Change
    <3>4. \A v \in VersionsOf(t)' : v <= bounds.target => v \in VersionsOf(t)
      BY <1>5, <2>1, <3>1 DEF Grown
    <3> QED BY <1>2, <3>2, <3>3, <3>4 DEF TargetLoaded
  <2>12. ScanIsTrue(t)'
    BY <1>2, <2>2, <2>10, <2>11 DEF ScanIsTrue
  <2> QED BY <2>9, <2>12
<1> QED BY <1>3, <1>6, <1>7 DEF LoaderInv

----------------------------------------------------------------------------
(***************************************************************************)
(* A scan begins and ends.                                                 *)
(***************************************************************************)
LEMMA BeginKeeps ==
    ASSUME LoaderInv, BeginScan
    PROVE  LoaderInv'
<1>1. SinkInv /\ TypeOK /\ Agreement
  BY DEF LoaderInv
<1>2. /\ ~scanning /\ metadata > mem.checkpoint /\ scanning' = TRUE
      /\ bounds' = [checkpoint |-> mem.checkpoint, target |-> metadata]
      /\ pc' = [t \in Tables |-> "walk"]
      /\ UNCHANGED <<sinkVars, rows, schema, obj, mem, watermark, cursor, dirty,
                     meta, paths, agenda, work, faults>>
  BY DEF BeginScan
<1>3. SinkInv' /\ \A t \in Tables : SameStore(t)
  BY <1>1, <1>2, StoreStays
<1>4. mem.checkpoint \in Nat /\ metadata \in Nat /\ tso' = tso /\ metadata' = metadata
  BY <1>1, <1>2, StateParts DEF TypeOK, State, SinkInv, SinkTypes, sinkVars
<1>5. TypeOK'
  BY <1>1, <1>2, <1>4 DEF TypeOK
<1>6. Agreement'
  BY <1>1, <1>2, <1>4 DEF Agreement
<1>7. ASSUME NEW t \in Tables PROVE ProgressIsTrue(t)' /\ ScanIsTrue(t)'
  <2>1. ProgressIsTrue(t) /\ ScanIsTrue(t) /\ pc[t] = "idle"
    BY <1>1, <1>2 DEF LoaderInv, Agreement
  <2>2. SameProgress(t)
    BY <1>2 DEF SameProgress
  <2>3. ScanIsTrue(t)'
    BY <1>2, <2>1 DEF ScanIsTrue
  <2> QED BY <1>3, <2>1, <2>2, <2>3, SameProgressKeeps
<1> QED BY <1>3, <1>5, <1>6, <1>7 DEF LoaderInv

LEMMA FinishKeeps ==
    ASSUME LoaderInv, FinishScan
    PROVE  LoaderInv'
<1> DEFINE target == bounds.target
<1>1. SinkInv /\ TypeOK /\ Agreement
  BY DEF LoaderInv
<1>2. /\ scanning /\ (\A t \in Tables : pc[t] = "done") /\ scanning' = FALSE
      /\ bounds' = Idle /\ pc' = [t \in Tables |-> "idle"]
      /\ UNCHANGED <<sinkVars, rows, schema, watermark, cursor, dirty, meta, paths,
                     agenda, work, faults>>
  BY DEF FinishScan
<1>3. /\ mem \in State /\ mem.checkpoint \in Nat /\ target \in Nat /\ metadata \in Nat
      /\ tso \in Nat /\ metadata <= tso /\ tso' = tso /\ metadata' = metadata
      /\ mem.checkpoint < target /\ target <= metadata
  BY <1>1, <1>2 DEF TypeOK, State, SinkInv, SinkTypes, sinkVars, Agreement
<1>4. PICK next \in SetCheckpointTS(mem, target) : mem' = next /\ obj' = next
  BY DEF FinishScan, Saved
<1>5. next \in State /\ next.checkpoint = target /\ next.tables = mem.tables
  BY <1>3, <1>4, SetCheckpointFacts
<1>6. SinkInv' /\ \A t \in Tables : SameStore(t)
  BY <1>1, <1>2, StoreStays
<1>7. TypeOK'
  BY <1>1, <1>2, <1>4, <1>5 DEF TypeOK, Idle
<1>8. Agreement'
  BY <1>1, <1>2, <1>3, <1>4, <1>5 DEF Agreement
<1>9. ASSUME NEW t \in Tables PROVE ProgressIsTrue(t)' /\ ScanIsTrue(t)'
  <2> DEFINE w == watermark[t]
  <2>1. ProgressIsTrue(t) /\ ScanIsTrue(t) /\ TargetLoaded(t)
    BY <1>2 DEF LoaderInv, ScanIsTrue
  <2>2. /\ Store(TableFiles(t), VersionsOf(t), Changes(t)) /\ VersionsOf(t) \in SUBSET Nat
        /\ w \in Nat /\ mem.tables[t].watermark = w
    BY <1>1, StoreHolds, TypeParts DEF Store, Agreement
  <2>3. SavedIsTrue(t, mem.tables[t])
    BY <2>1 DEF ProgressIsTrue
  <2>4. mem.checkpoint <= target /\ w <= w
    BY <1>3, <2>2
  <2>5. \A cur : Ordered(TableFiles(t), VersionsOf(t), mem.checkpoint, w, cur) =>
                 Ordered(TableFiles(t), VersionsOf(t), target, w, cur)
    BY <1>3, <2>2, <2>4, OrderedGrows
  <2>6. PastCovered(Changes(t), target, w, rows[t])
    BY <2>1, <2>2, <2>3 DEF SavedIsTrue, PastCovered, TargetLoaded
  <2>7. IsVersion(VersionsOf(t), target, w)
    BY <2>1, <2>2, <2>3 DEF SavedIsTrue, IsVersion, TargetLoaded
  <2> HIDE DEF w, target
  <2>8. /\ \A s \in Streams : ~CursorBefore(cursor[t][s], mem.tables[t].cursors[s])
        /\ Ordered(TableFiles(t), VersionsOf(t), target, w, mem.tables[t].cursors)
    BY <2>2, <2>3, <2>5 DEF SavedIsTrue
  <2>9. SavedIsTrue(t, mem.tables[t])'
    BY <1>2, <1>4, <1>5, <1>6, <2>2, <2>6, <2>7, <2>8 DEF SavedIsTrue, SameStore
  <2>10. SavedIsTrue(t, obj.tables[t])'
    BY <1>4, <2>9
  <2>11. Ordered(TableFiles(t), VersionsOf(t), target, w, cursor[t])
    BY <2>1, <2>5 DEF ProgressIsTrue, w
  <2>12. ProgressIsTrue(t)'
    BY <1>2, <1>4, <1>5, <1>6, <2>1, <2>9, <2>10, <2>11 DEF ProgressIsTrue, SameStore, w
  <2>13. ScanIsTrue(t)'
    BY <1>2, <1>4 DEF ScanIsTrue
  <2> QED BY <2>12, <2>13
<1> QED BY <1>6, <1>7, <1>8, <1>9 DEF LoaderInv

----------------------------------------------------------------------------
(***************************************************************************)
(* The process starts again: what is behind the saved cursors was behind   *)
(* those that are lost.                                                    *)
(***************************************************************************)
LEMMA SavedCursorsAreLoaded ==
    ASSUME NEW F, NEW V, NEW C, Store(F, V, C), NEW base \in Cursors, NEW cur \in Cursors,
           \A s \in Streams : ~CursorBefore(cur[s], base[s]), NEW row
    PROVE  /\ Loaded(F, cur, row) => Loaded(F, base, row)
           /\ Placed(F, cur) => Placed(F, base)
<1>1. \A f \in F : Spot(f) \in Cursor /\ <<f.version, f.part>> \in Streams
  BY FileFacts DEF Store
<1>2. \A s \in Streams : cur[s] \in Cursor /\ base[s] \in Cursor
  BY DEF Cursors
<1>3. \A f \in F : Eats(base, f) => Eats(cur, f)
  BY <1>1, <1>2, CursorOrder DEF Eats
<1>4. NoCursor \in Cursor /\ \A c \in Cursor : ~CursorBefore(NoCursor, c) => c = NoCursor
  <2>1. NoCursor \in Cursor
    BY DEF NoCursor, Cursor
  <2> QED BY <2>1, CursorOrder
<1>5. ASSUME Placed(F, cur), NEW s \in Streams, base[s] # NoCursor
      PROVE  \E f \in F : <<f.version, f.part>> = s /\ ~CursorBefore(Spot(f), base[s])
  <2>1. cur[s] # NoCursor
    BY <1>2, <1>4, <1>5
  <2>2. PICK f \in F : <<f.version, f.part>> = s /\ ~CursorBefore(Spot(f), cur[s])
    BY <1>5, <2>1 DEF Placed
  <2> QED BY <1>1, <1>2, <2>2, CursorOrder
<1> QED BY <1>3, <1>5 DEF Loaded, Placed

LEMMA NewLoaderKeeps ==
    ASSUME LoaderInv, NewLoader(obj), UNCHANGED <<sinkVars, rows, schema, obj>>, faults' \in Nat
    PROVE  LoaderInv'
<1>1. SinkInv /\ TypeOK /\ Agreement
  BY DEF LoaderInv
<1>2. /\ mem' = obj /\ scanning' = FALSE /\ bounds' = Idle
      /\ pc' = [t \in Tables |-> "idle"]
      /\ watermark' = [t \in Tables |-> obj.tables[t].watermark]
      /\ cursor' = [t \in Tables |-> obj.tables[t].cursors]
      /\ dirty' = [t \in Tables |-> {}] /\ meta' = [t \in Tables |-> 0]
      /\ paths' = [t \in Tables |-> {}] /\ agenda' = [t \in Tables |-> {}]
      /\ work' = [t \in Tables |-> {}]
  BY DEF NewLoader
<1>3. SinkInv' /\ \A t \in Tables : SameStore(t)
  BY <1>1, StoreStays
<1>4. obj \in State /\ obj.checkpoint = mem.checkpoint /\ tso' = tso /\ metadata' = metadata
  BY <1>1 DEF TypeOK, Agreement, sinkVars
<1>5. \A t \in Tables : obj.tables[t].watermark \in Nat /\ obj.tables[t].cursors \in Cursors
  BY <1>4, StateParts
<1>6. TypeOK'
  BY <1>1, <1>2, <1>4, <1>5 DEF TypeOK, Cursors, Idle
<1>7. Agreement'
  BY <1>1, <1>2, <1>4 DEF Agreement
<1>8. ASSUME NEW t \in Tables PROVE ProgressIsTrue(t)' /\ ScanIsTrue(t)'
  <2> DEFINE base == obj.tables[t].cursors
  <2>1. /\ SavedIsTrue(t, obj.tables[t]) /\ Loaded(TableFiles(t), cursor[t], rows[t])
        /\ Placed(TableFiles(t), cursor[t])
    BY DEF LoaderInv, ProgressIsTrue
  <2>2. /\ Store(TableFiles(t), VersionsOf(t), Changes(t)) /\ cursor[t] \in Cursors
        /\ base \in Cursors /\ \A s \in Streams : ~CursorBefore(cursor[t][s], base[s])
    BY <1>1, <1>5, <2>1, StoreHolds, TypeParts DEF SavedIsTrue
  <2>3. Loaded(TableFiles(t), base, rows[t]) /\ Placed(TableFiles(t), base)
    BY <2>1, <2>2, SavedCursorsAreLoaded
  <2>4. \A s \in Streams : ~CursorBefore(base[s], base[s])
    BY <2>2, CursorOrder DEF Cursors
  <2>5. SavedIsTrue(t, obj.tables[t])'
    BY <1>2, <1>3, <1>4, <2>1, <2>4 DEF SavedIsTrue, SameStore
  <2>6. ProgressIsTrue(t)'
    BY <1>2, <1>3, <1>4, <2>1, <2>3, <2>5 DEF ProgressIsTrue, SavedIsTrue, SameStore
  <2>7. ScanIsTrue(t)'
    BY <1>2 DEF ScanIsTrue
  <2> QED BY <2>6, <2>7
<1> QED BY <1>3, <1>6, <1>7, <1>8 DEF LoaderInv

----------------------------------------------------------------------------
(***************************************************************************)
(* What a reader at ts sees of a row.                                      *)
(***************************************************************************)
LEMMA LatestFacts ==
    ASSUME SinkInv, NEW t \in Tables, NEW k \in Keys, NEW ts \in Nat
    PROVE  /\ LatestAt(t, k, ts) \in Nat
           /\ \A x \in Changes(t) : x.key = k /\ x.ts <= ts => x.ts <= LatestAt(t, k, ts)
           /\ \/ LatestAt(t, k, ts) = 0
              \/ \E x \in Changes(t) : x.key = k /\ x.ts = LatestAt(t, k, ts) /\ x.ts <= ts
<1> DEFINE S == {0} \cup {c \in ChangesOf(t, k) : c <= ts}
<1>1. \A e \in log[t] : e.ts \in Nat /\ (IsRow(e) <=> e.key \in Keys)
  BY EventParts
<1>2. \A c : c \in ChangesOf(t, k) <=> \E x \in Changes(t) : x.key = k /\ x.ts = c
  <2>1. \A x : x \in Changes(t) <=> \E e \in log[t] : IsRow(e) /\ x = [key |-> e.key, ts |-> e.ts]
    BY DEF Changes, RowsIn
  <2>2. \A c : c \in ChangesOf(t, k) <=> \E e \in log[t] : e.key = k /\ e.ts = c
    BY DEF ChangesOf
  <2>3. ASSUME NEW c, NEW e \in log[t], e.key = k, e.ts = c
        PROVE  \E x \in Changes(t) : x.key = k /\ x.ts = c
    <3>1. [key |-> e.key, ts |-> e.ts] \in Changes(t)
      BY <1>1, <2>1, <2>3
    <3> QED BY <2>3, <3>1
  <2>4. ASSUME NEW c, NEW x \in Changes(t), x.key = k, x.ts = c
        PROVE  \E e \in log[t] : e.key = k /\ e.ts = c
    BY <2>1, <2>4
  <2> QED BY <2>2, <2>3, <2>4
<1>3. S \in SUBSET Nat /\ S # {} /\ \A c \in S : c <= ts
  BY <1>1 DEF ChangesOf
<1>4. LatestAt(t, k, ts) = MaxOf(S)
  BY DEF LatestAt
<1>5. MaxOf(S) \in S /\ \A c \in S : c <= MaxOf(S)
  BY <1>3, MaxOfFacts
<1> QED BY <1>2, <1>3, <1>4, <1>5

LEMMA InitInv == Init => LoaderInv
<1> SUFFICES ASSUME Init PROVE LoaderInv
  OBVIOUS
<1>1. SinkInv /\ tso = SnapshotTS /\ metadata = 0 /\ files = {}
  BY InitialSink DEF Init, SinkInit
<1>2. /\ SnapshotTS \in Nat /\ InitVersion \in Nat /\ NoCursor \in Cursor /\ NoSource \notin Sources
  BY SinkAssumption, IdAssumption DEF NoCursor, Cursor
<1>3. /\ obj = InitState /\ mem = InitState /\ InitState \in State
      /\ InitState.checkpoint = SnapshotTS
      /\ \A t \in Tables : /\ InitState.tables[t].watermark = 0
                           /\ InitState.tables[t].cursors = [s \in Streams |-> NoCursor]
  BY <1>2 DEF Init, InitState, NewState, NewTableState, State, TableState
<1>4. /\ \A t \in Tables : /\ rows[t] = [k \in Keys |-> LatestAt(t, k, SnapshotTS)]
                           /\ watermark[t] = 0 /\ cursor[t] = [s \in Streams |-> NoCursor]
                           /\ pc[t] = "idle" /\ dirty[t] = {}
      /\ ~scanning
  BY DEF Init
<1>5. TypeOK
  <2>1. \A t \in Tables, k \in Keys : LatestAt(t, k, SnapshotTS) \in Nat
    BY <1>1, <1>2, LatestFacts
  <2> QED BY <1>2, <1>3, <2>1 DEF Init, TypeOK, Idle
<1>6. Agreement
  <2>1. obj.checkpoint = SnapshotTS /\ mem.checkpoint = SnapshotTS
    BY <1>3
  <2>2. \A t \in Tables : /\ watermark[t] = mem.tables[t].watermark
                          /\ \A s \in Streams : cursor[t][s] = mem.tables[t].cursors[s]
    BY <1>3, <1>4
  <2>3. mem.checkpoint <= tso /\ mem.checkpoint = SnapshotTS
    BY <1>1, <1>2, <2>1
  <2>4. ~scanning /\ \A t \in Tables : scanning <=> pc[t] # "idle"
    BY <1>4
  <2> QED BY <2>1, <2>2, <2>3, <2>4 DEF Agreement
<1>7. ASSUME NEW t \in Tables PROVE ProgressIsTrue(t) /\ ScanIsTrue(t)
  <2>1. TableFiles(t) = {}
    BY <1>1 DEF TableFiles
  <2>2. Loaded({}, cursor[t], rows[t]) /\ Placed({}, cursor[t])
        /\ \A V, ck, w, cur : Ordered({}, V, ck, w, cur)
    BY <1>4 DEF Loaded, Placed, Ordered
  <2>3. PastCovered(Changes(t), SnapshotTS, 0, rows[t])
    <3> SUFFICES ASSUME NEW x \in Changes(t), x.ts <= 0 \/ x.ts <= SnapshotTS
                 PROVE  x.ts <= rows[t][x.key]
      BY DEF PastCovered
    <3>1. x \in Change
      BY <1>1, StoredIsSound
    <3>2. x.key \in Keys /\ x.ts \in Nat /\ x.ts <= SnapshotTS
      BY <1>2, <3>1 DEF Change
    <3>3. x.ts <= LatestAt(t, x.key, SnapshotTS)
      BY <1>1, <1>2, <3>2, LatestFacts
    <3> QED BY <1>4, <3>2, <3>3
  <2>4. IsVersion(VersionsOf(t), SnapshotTS, 0)
    BY DEF IsVersion
  <2>5. \A s \in Streams : ~CursorBefore(cursor[t][s], cursor[t][s])
    <3>1. \A s \in Streams : cursor[t][s] = NoCursor
      BY <1>4
    <3>2. ~CursorBefore(NoCursor, NoCursor)
      BY <1>2, CursorOrder
    <3> QED BY <3>1, <3>2
  <2>6. SavedIsTrue(t, InitState.tables[t])
    <3>1. /\ mem.checkpoint = SnapshotTS /\ InitState.tables[t].watermark = 0
          /\ InitState.tables[t].cursors = cursor[t]
      BY <1>3, <1>4
    <3> QED BY <2>1, <2>2, <2>3, <2>4, <2>5, <3>1 DEF SavedIsTrue
  <2>7. ProgressIsTrue(t)
    BY <1>3, <2>1, <2>2, <2>6 DEF ProgressIsTrue
  <2>8. ScanIsTrue(t)
    BY <1>3, <1>4 DEF ScanIsTrue
  <2> QED BY <2>7, <2>8
<1> QED BY <1>1, <1>5, <1>6, <1>7 DEF LoaderInv

----------------------------------------------------------------------------
LEMMA StutterKeeps ==
    ASSUME LoaderInv, UNCHANGED vars
    PROVE  LoaderInv'
<1>1. SinkInv /\ TypeOK /\ Agreement
  BY DEF LoaderInv
<1>2. UNCHANGED <<sinkVars, rows, schema, obj, mem, scanning, bounds, pc, watermark, cursor,
                  dirty, meta, paths, agenda, work, faults>>
  BY DEF vars, loaderVars
<1>3. SinkInv' /\ \A t \in Tables : SameStore(t)
  BY <1>1, <1>2, StoreStays
<1>4. TypeOK'
  BY <1>1, <1>2 DEF TypeOK
<1>5. Agreement'
  BY <1>1, <1>2 DEF Agreement, sinkVars
<1>6. ASSUME NEW t \in Tables PROVE ProgressIsTrue(t)' /\ ScanIsTrue(t)'
  <2>1. ProgressIsTrue(t) /\ ScanIsTrue(t) /\ SameTable(t)
    BY <1>2 DEF LoaderInv, SameTable
  <2> QED BY <1>2, <1>3, <2>1, SameTableKeeps
<1> QED BY <1>3, <1>4, <1>5, <1>6 DEF LoaderInv

LEMMA NextInv ==
    ASSUME DDLBarrier \/ MaxRestarts = 0, LoaderInv, [Next]_vars
    PROVE  LoaderInv'
<1>1. CASE ChangefeedStep
  <2>1. SinkInv /\ SinkNext
    BY <1>1 DEF LoaderInv, ChangefeedStep
  <2> QED BY <1>1, <2>1, SinkNextKeeps, ChangefeedKeeps
<1>2. ASSUME NEW t \in Tables, TableStep(t) PROVE LoaderInv'
  BY <1>2, WalkKeeps, ListKeeps, ReadKeeps, LoadSchemaKeeps, ExecKeeps, FailKeeps,
     SaveWatermarkKeeps, MergeKeeps, SaveCursorsKeeps DEF TableStep
<1>3. ASSUME NEW t \in Tables, Fail(t) \/ FailAfterSave(t) PROVE LoaderInv'
  BY <1>3, FailKeeps, FailAfterSaveKeeps
<1>4. CASE Exit \/ Crash
  <2>1. faults \in Nat
    BY DEF LoaderInv, TypeOK
  <2>2. /\ NewLoader(obj) /\ faults' \in Nat
        /\ UNCHANGED <<sinkVars, rows, schema, obj>>
    BY <1>4, <2>1 DEF Exit, Crash
  <2> QED BY <2>2, NewLoaderKeeps
<1>5. CASE UNCHANGED vars
  BY <1>5, StutterKeeps
<1> QED BY <1>1, <1>2, <1>3, <1>4, <1>5, BeginKeeps, FinishKeeps DEF Next, LoaderNext

LEMMA Invariance ==
    ASSUME DDLBarrier \/ MaxRestarts = 0
    PROVE  Spec => []LoaderInv
<1>1. Init => LoaderInv
  BY InitInv
<1>2. LoaderInv /\ [Next]_vars => LoaderInv'
  BY NextInv
<1> QED BY <1>1, <1>2, PTL DEF Spec

(***************************************************************************)
(* The loader stays within its types: no range of files left to load is    *)
(* empty or inverted, whatever the changefeed delivers meanwhile           *)
(* (loader.go getNewFiles, handleNewFiles).                                *)
(***************************************************************************)
THEOREM TypesHold ==
    ASSUME DDLBarrier \/ MaxRestarts = 0
    PROVE  Spec => []TypeOK
<1>1. LoaderInv => TypeOK
  BY DEF LoaderInv
<1> QED BY <1>1, Invariance, PTL

(***************************************************************************)
(* No committed row is lost: at the saved checkpoint Snowflake has at      *)
(* least what upstream had, whatever crashed, failed or was replayed       *)
(* (loader.go run, which saves the checkpoint after every table).          *)
(***************************************************************************)
THEOREM NoRowIsLost ==
    ASSUME DDLBarrier \/ MaxRestarts = 0
    PROVE  Spec => []NoLostRows
<1>1. ASSUME LoaderInv PROVE NoLostRows
  <2> SUFFICES ASSUME NEW t \in Tables, NEW k \in Keys
               PROVE  rows[t][k] >= LatestAt(t, k, obj.checkpoint)
    BY DEF NoLostRows
  <2>1. /\ SinkInv /\ obj.checkpoint \in Nat /\ rows[t] \in [Keys -> Nat]
        /\ PastCovered(Changes(t), obj.checkpoint, obj.tables[t].watermark, rows[t])
    BY <1>1, TypeParts, StateParts DEF LoaderInv, Agreement, ProgressIsTrue, SavedIsTrue
  <2> QED BY <2>1, LatestFacts DEF PastCovered
<1> QED BY <1>1, Invariance, PTL

(***************************************************************************)
(* A saved watermark is true: every row committed at or before it is in    *)
(* Snowflake, so a process that starts again may skip older versions       *)
(* (loader.go applyDDL, getNewFiles).                                      *)
(***************************************************************************)
THEOREM WatermarkIsCovered ==
    ASSUME DDLBarrier \/ MaxRestarts = 0
    PROVE  Spec => []WatermarkCovered
<1>1. ASSUME LoaderInv PROVE WatermarkCovered
  <2> SUFFICES ASSUME NEW t \in Tables, NEW k \in Keys
               PROVE  rows[t][k] >= LatestAt(t, k, obj.tables[t].watermark)
    BY DEF WatermarkCovered
  <2> DEFINE w == obj.tables[t].watermark
  <2>1. /\ SinkInv /\ w \in Nat /\ rows[t] \in [Keys -> Nat]
        /\ PastCovered(Changes(t), obj.checkpoint, w, rows[t])
    BY <1>1, TypeParts, StateParts DEF LoaderInv, Agreement, ProgressIsTrue, SavedIsTrue
  <2> HIDE DEF w
  <2>2. rows[t][k] >= LatestAt(t, k, w)
    BY <2>1, LatestFacts DEF PastCovered
  <2> QED BY <2>2 DEF w
<1> QED BY <1>1, Invariance, PTL

(***************************************************************************)
(* A saved cursor is true: as long as the changefeed is not restarted,     *)
(* every change of a file up to it is in Snowflake, or a newer one of the  *)
(* row, and no later replay undoes it (loader.go processTable,             *)
(* listDMLDates).                                                          *)
(***************************************************************************)
THEOREM CursorsAreCovered ==
    ASSUME MaxRestarts = 0
    PROVE  Spec => []CursorsCovered
<1> DEFINE Inv == LoaderInv /\ \A t \in Tables : FilesAreSettled(t)
<1>1. Init => Inv
  <2>1. Init => \A t \in Tables : FilesAreSettled(t)
    BY DEF Init, SinkInit, FilesAreSettled, TableFiles
  <2> QED BY <2>1, InitInv
<1>2. Inv /\ [Next]_vars => Inv'
  <2> SUFFICES ASSUME Inv, [Next]_vars PROVE Inv'
    OBVIOUS
  <2>1. LoaderInv'
    BY NextInv
  <2>2. ASSUME NEW t \in Tables PROVE FilesAreSettled(t)'
    <3>1. CASE SinkNext
      BY <3>1, SinkNextKeepsSettled DEF LoaderInv
    <3>2. CASE UNCHANGED sinkVars
      BY <3>2 DEF sinkVars, FilesAreSettled, TableFiles
    <3>3. SinkNext \/ UNCHANGED sinkVars
      BY DEF Next, ChangefeedStep, LoaderNext, TableStep, vars, BeginScan, WalkSchemas, ListDirs,
         ReadIndex, LoadSchemaFiles, ExecDDL, RejectDDL, SaveWatermark, MergeFile, SaveCursors,
         FinishScan, Fail, FailAfterSave, Exit, Crash
    <3> QED BY <3>1, <3>2, <3>3
  <2> QED BY <2>1, <2>2
<1>3. Inv => CursorsCovered
  <2> SUFFICES ASSUME Inv, NEW f \in files,
                      Eats(obj.tables[f.table].cursors, f), NEW x \in f.rows
               PROVE  rows[f.table][x.key] >= x.ts
    BY DEF CursorsCovered, Eats, Spot
  <2> DEFINE t == f.table
             saved == obj.tables[t].cursors
  <2>1. t \in Tables /\ f \in TableFiles(t)
    BY DEF LoaderInv, SinkInv, SinkTypes, File, TableFiles
  <2>2. /\ Loaded(TableFiles(t), cursor[t], rows[t]) /\ Settled(TableFiles(t), f, x)
        /\ \A s \in Streams : ~CursorBefore(cursor[t][s], saved[s])
    BY <2>1 DEF LoaderInv, ProgressIsTrue, SavedIsTrue, FilesAreSettled
  <2>3. cursor[t] \in Cursors /\ saved \in Cursors /\ rows[t] \in [Keys -> Nat]
    BY <2>1, TypeParts, StateParts DEF LoaderInv
  <2>4. Store(TableFiles(t), VersionsOf(t), Changes(t)) /\ x \in Change
    BY <2>1, StoreHolds, StoredIsSound DEF LoaderInv
  <2> HIDE DEF t, saved
  <2>5. Loaded(TableFiles(t), saved, rows[t])
    BY <2>2, <2>3, <2>4, SavedCursorsAreLoaded
  <2>6. x.ts <= rows[t][x.key]
    BY <2>1, <2>2, <2>5 DEF Loaded, t, saved
  <2> QED BY <2>3, <2>4, <2>6 DEF Change, t
<1> QED BY <1>1, <1>2, <1>3, PTL DEF Spec

----------------------------------------------------------------------------
(***************************************************************************)
(* The refinement of ReplicationContract.                                  *)
(***************************************************************************)
ChangesByKey == [t \in Tables |-> [k \in Keys |-> ChangesOf(t, k)]]

LEMMA ContractLatest ==
    ASSUME NEW t \in Tables, NEW k \in Keys, NEW ts
    PROVE  Contract!Latest(t, k, ts) = LatestAt(t, k, ts)
BY DEF Contract!Latest, LatestAt, MaxOf

LEMMA ContractInit == Init => Contract!Init
<1> SUFFICES ASSUME Init PROVE Contract!Init
  OBVIOUS
<1>1. SinkInv /\ tso = SnapshotTS /\ obj.checkpoint = SnapshotTS
  BY InitialSink DEF Init, SinkInit, InitState, NewState
<1>2. ASSUME NEW t \in Tables, NEW k \in Keys, NEW c \in ChangesOf(t, k) PROVE c <= SnapshotTS
  BY <1>1, EventParts DEF ChangesOf
<1>3. rows = [t \in Tables |-> [k \in Keys |-> Contract!Latest(t, k, SnapshotTS)]]
  BY ContractLatest DEF Init
<1> QED BY <1>1, <1>2, <1>3 DEF Contract!Init

LEMMA LogKeepsChanges ==
    ASSUME log' = log
    PROVE  ChangesByKey' = ChangesByKey
BY DEF ChangesByKey, ChangesOf

LEMMA CaptureCommits ==
    ASSUME SinkInv, NEW u \in Tables, NEW e, Captured(u, e), e.ts = tso + 1
    PROVE  \/ ChangesByKey' = ChangesByKey
           \/ \E t \in Tables, k \in Keys :
                  ChangesByKey' = [ChangesByKey EXCEPT ![t][k] = @ \cup {tso + 1}]
<1>1. log' = [log EXCEPT ![u] = @ \cup {e}] /\ log \in [Tables -> SUBSET Event]
  BY DEF Captured, SinkInv, SinkTypes
<1>2. /\ log'[u] = log[u] \cup {e}
      /\ \A t \in Tables : t # u => log'[t] = log[t]
  BY <1>1
<1>3. \A t \in Tables, k \in Keys :
          ChangesOf(t, k)' = IF t = u /\ k = e.key THEN ChangesOf(t, k) \cup {tso + 1}
                             ELSE ChangesOf(t, k)
  BY <1>2 DEF ChangesOf
<1>4. CASE e.key \in Keys
  <2>1. ChangesByKey' = [ChangesByKey EXCEPT ![u][e.key] = @ \cup {tso + 1}]
    BY <1>3, <1>4 DEF ChangesByKey
  <2> QED BY <1>4, <2>1
<1>5. CASE e.key \notin Keys
  BY <1>3, <1>5 DEF ChangesByKey
<1> QED BY <1>4, <1>5

LEMMA ChangefeedCommits ==
    ASSUME LoaderInv, ChangefeedStep
    PROVE  \/ Contract!Commit
           \/ UNCHANGED <<tso, ChangesByKey, rows, obj>>
<1>1. SinkInv /\ SinkNext /\ rows' = rows /\ obj' = obj
  BY DEF LoaderInv, ChangefeedStep, Quiet
<1>2. ASSUME NEW u \in Tables, NEW e, Captured(u, e), e.ts = tso + 1 PROVE Contract!Commit
  <2>1. tso' = tso + 1
    BY <1>2 DEF Captured
  <2> QED BY <1>1, <1>2, <2>1, CaptureCommits DEF Contract!Commit, ChangesByKey
<1>3. ASSUME tso' = tso, log' = log PROVE UNCHANGED <<tso, ChangesByKey, rows, obj>>
  BY <1>1, <1>3, LogKeepsChanges
<1>4. \A u \in Tables, k \in Keys : Commit(u, k) => Contract!Commit
  BY <1>2 DEF Commit, RowEvent
<1>5. \A u \in Tables, kind \in DDLKinds : ChangeSchema(u, kind) => Contract!Commit
  BY <1>2 DEF ChangeSchema, SchemaEvent
<1>6. \A u : WriteSchemaFile(u) => tso' = tso /\ log' = log
  BY DEF WriteSchemaFile
<1>7. \A u, p, n : Flush(u, p, n) => tso' = tso /\ log' = log
  BY DEF Flush
<1>8. NextDay \/ RestartChangefeed \/ (\E ts \in 1..MaxTS : AdvanceMetadata(ts)) =>
          tso' = tso /\ log' = log
  BY DEF NextDay, RestartChangefeed, AdvanceMetadata
<1> QED BY <1>1, <1>3, <1>4, <1>5, <1>6, <1>7, <1>8 DEF SinkNext

LEMMA MergeReplicates ==
    ASSUME LoaderInv, NEW t \in Tables, MergeFile(t)
    PROVE  Contract!Replicate(t)
<1> DEFINE r == Current(t)
           moved == {k \in Keys : ChangesIn(t, r, k) # {}}
           to == [k \in moved |-> MaxOf(ChangesIn(t, r, k))]
<1>1. /\ SinkInv /\ TypeOK /\ pc[t] # "idle" /\ rows' = [rows EXCEPT ![t] = Merged(t, r)]
      /\ UNCHANGED <<sinkVars, obj>>
  BY DEF LoaderInv, MergeFile, AtFile, Loading
<1>2. /\ bounds.checkpoint = obj.checkpoint /\ obj.checkpoint \in Nat /\ tso \in Nat
  BY <1>1, ScanBounds DEF LoaderInv, Agreement, SinkInv, SinkTypes
<1> HIDE DEF r
<1>3. ASSUME NEW k \in moved
      PROVE  to[k] \in ChangesOf(t, k) /\ to[k] >= LatestAt(t, k, obj.checkpoint)
  <2> DEFINE n == MaxOf(ChangesIn(t, r, k))
  <2>1. /\ ChangesIn(t, r, k) \in SUBSET Nat /\ ChangesIn(t, r, k) # {}
        /\ \A m \in ChangesIn(t, r, k) : m <= tso
    BY <1>1, ChangesInFacts
  <2>2. n \in ChangesIn(t, r, k) /\ n \in Nat
    BY <1>2, <2>1, MaxOfFacts
  <2> HIDE DEF n
  <2>3. PICK x \in Changes(t) : Fresh(TableFiles(t), bounds.checkpoint, r, x)
                                /\ x.key = k /\ x.ts = n
    BY <1>1, <2>2, ChangesInFacts
  <2>4. n > obj.checkpoint
    BY <1>2, <2>3 DEF Fresh
  <2>5. n \in ChangesOf(t, k)
    BY <2>3 DEF Changes, RowsIn, ChangesOf
  <2>6. k \in Keys /\ LatestAt(t, k, obj.checkpoint) \in Nat
        /\ LatestAt(t, k, obj.checkpoint) <= obj.checkpoint
    BY <1>1, <1>2, LatestFacts
  <2> QED BY <1>2, <2>2, <2>4, <2>5, <2>6 DEF n
<1>4. Merged(t, r) = [k \in Keys |-> IF k \in moved THEN to[k] ELSE rows[t][k]]
  BY DEF Merged
<1>5. moved \in SUBSET Keys /\ to \in [moved -> UNION {ChangesOf(t, k) : k \in Keys}]
  BY <1>3
<1> HIDE DEF moved, to
<1>6. /\ \A k \in moved : /\ to[k] \in ChangesByKey[t][k]
                          /\ to[k] >= Contract!Latest(t, k, obj.checkpoint)
      /\ to \in [moved -> UNION {ChangesByKey[t][k] : k \in Keys}]
      /\ rows' = [rows EXCEPT ![t] = [k \in Keys |-> IF k \in moved THEN to[k] ELSE @[k]]]
  <2>1. \A k \in Keys : ChangesByKey[t][k] = ChangesOf(t, k)
    BY DEF ChangesByKey
  <2>2. UNION {ChangesByKey[t][k] : k \in Keys} = UNION {ChangesOf(t, k) : k \in Keys}
    BY <2>1
  <2> QED BY <1>1, <1>3, <1>4, <1>5, <2>1, <2>2, ContractLatest
<1>7. tso' = tso /\ ChangesByKey' = ChangesByKey /\ obj' = obj
  BY <1>1, LogKeepsChanges DEF sinkVars
<1> QED BY <1>5, <1>6, <1>7 DEF Contract!Replicate, ChangesByKey

LEMMA FinishAdvances ==
    ASSUME LoaderInv, FinishScan
    PROVE  Contract!Advance
<1>1. /\ SinkInv /\ TypeOK /\ scanning /\ \A t \in Tables : pc[t] = "done" /\ TargetLoaded(t)
      /\ UNCHANGED <<sinkVars, rows>>
  BY DEF LoaderInv, FinishScan, ScanIsTrue
<1>2. /\ mem \in State /\ bounds.target \in Nat /\ mem.checkpoint \in Nat /\ metadata \in Nat
      /\ tso \in Nat /\ metadata <= tso /\ rows \in [Tables -> [Keys -> Nat]]
      /\ obj.checkpoint = mem.checkpoint
      /\ mem.checkpoint < bounds.target /\ bounds.target <= metadata
  BY <1>1 DEF LoaderInv, Agreement, TypeOK, State, SinkInv, SinkTypes
<1>3. obj'.checkpoint = bounds.target
  <2>1. PICK next \in SetCheckpointTS(mem, bounds.target) : obj' = next
    BY DEF FinishScan, Saved
  <2> QED BY <1>2, <2>1, SetCheckpointFacts
<1>4. bounds.target \in (obj.checkpoint + 1)..tso
  BY <1>2
<1>5. ASSUME NEW t \in Tables, NEW k \in Keys
      PROVE  rows[t][k] >= Contract!Latest(t, k, bounds.target)
  <2> DEFINE ts == bounds.target
  <2>1. /\ ts \in Nat /\ rows[t][k] \in Nat
        /\ \A x \in Changes(t) : x.ts <= ts => x.ts <= rows[t][x.key]
    BY <1>1, <1>2 DEF TargetLoaded
  <2> HIDE DEF ts
  <2>2. rows[t][k] >= LatestAt(t, k, ts)
    BY <1>1, <2>1, LatestFacts
  <2> QED BY <2>2, ContractLatest DEF ts
<1>6. tso' = tso /\ ChangesByKey' = ChangesByKey /\ rows' = rows
  BY <1>1, LogKeepsChanges DEF sinkVars
<1> QED BY <1>3, <1>4, <1>5, <1>6 DEF Contract!Advance, Contract!Reached, ChangesByKey

LEMMA OtherSavesKeepCheckpoint ==
    ASSUME NEW st \in State, NEW t \in Tables, NEW next
    PROVE  /\ \A v : next \in SetDDLTableVersionWatermark(st, t, v) => next.checkpoint = st.checkpoint
           /\ \A c : next \in SetDMLCursors(st, t, c) => next.checkpoint = st.checkpoint
BY DEF SetDDLTableVersionWatermark, SetDMLCursors, Update, State

LEMMA OthersAreInvisible ==
    ASSUME LoaderInv, NEW t \in Tables,
           \/ WalkSchemas(t) \/ ListDirs(t) \/ ReadIndex(t) \/ LoadSchemaFiles(t)
           \/ ExecDDL(t) \/ RejectDDL(t) \/ SaveWatermark(t) \/ SaveCursors(t)
           \/ Fail(t) \/ FailAfterSave(t)
    PROVE  UNCHANGED <<sinkVars, rows>> /\ obj'.checkpoint = obj.checkpoint
<1>1. mem \in State /\ obj.checkpoint = mem.checkpoint
  BY DEF LoaderInv, TypeOK, Agreement
<1>2. CASE WalkSchemas(t) \/ ListDirs(t) \/ ReadIndex(t) \/ LoadSchemaFiles(t)
             \/ ExecDDL(t) \/ RejectDDL(t) \/ Fail(t)
  BY <1>2 DEF WalkSchemas, ListDirs, ReadIndex, LoadSchemaFiles, ExecDDL, RejectDDL, Fail
<1>3. CASE SaveWatermark(t)
  BY <1>1, <1>3, OtherSavesKeepCheckpoint DEF SaveWatermark, Saved
<1>4. CASE SaveCursors(t)
  BY <1>1, <1>4, OtherSavesKeepCheckpoint DEF SaveCursors, Saved
<1>5. CASE FailAfterSave(t)
  BY <1>1, <1>5, OtherSavesKeepCheckpoint DEF FailAfterSave, SavedButFailed
<1> QED BY <1>2, <1>3, <1>4, <1>5

LEMMA ContractSteps == LoaderInv /\ [Next]_vars => [Contract!Next]_(Contract!contractVars)
<1> SUFFICES ASSUME LoaderInv, [Next]_vars PROVE [Contract!Next]_(Contract!contractVars)
  OBVIOUS
<1>1. ASSUME UNCHANGED <<tso, ChangesByKey, rows>>, obj'.checkpoint = obj.checkpoint
      PROVE  UNCHANGED Contract!contractVars
  BY <1>1 DEF Contract!contractVars, ChangesByKey
<1>2. ASSUME UNCHANGED <<sinkVars, rows>>, obj'.checkpoint = obj.checkpoint
      PROVE  UNCHANGED Contract!contractVars
  BY <1>1, <1>2, LogKeepsChanges DEF sinkVars
<1>3. CASE ChangefeedStep
  BY <1>1, <1>3, ChangefeedCommits DEF Contract!Next
<1>4. ASSUME NEW t \in Tables, TableStep(t) \/ Fail(t) \/ FailAfterSave(t)
      PROVE  [Contract!Next]_(Contract!contractVars)
  <2>1. CASE MergeFile(t)
    BY <2>1, MergeReplicates DEF Contract!Next
  <2>2. CASE ~MergeFile(t)
    BY <1>2, <1>4, <2>2, OthersAreInvisible DEF TableStep
  <2> QED BY <2>1, <2>2
<1>5. CASE FinishScan
  BY <1>5, FinishAdvances DEF Contract!Next
<1>6. CASE BeginScan \/ Exit \/ Crash \/ UNCHANGED vars
  BY <1>2, <1>6 DEF BeginScan, Exit, Crash, vars
<1> QED BY <1>3, <1>4, <1>5, <1>6 DEF Next, LoaderNext

(***************************************************************************)
(* The loader implements the replication contract: the rows move only to   *)
(* committed changes, never behind the saved checkpoint, and the checkpoint *)
(* moves only to a point the rows have reached (loader.go run).            *)
(***************************************************************************)
THEOREM LoaderKeepsContract ==
    ASSUME DDLBarrier \/ MaxRestarts = 0
    PROVE  Spec => ImplementsContract
<1> QED BY ContractInit, Invariance, ContractSteps, PTL
           DEF Spec, ImplementsContract, Contract!Spec
=============================================================================
