----------------------- MODULE SnowflakeTable_proofs -----------------------
(***************************************************************************)
(* Theorems about SnowflakeTable. First what the statements of a DDL do to *)
(* the image of a table, then the log of upstream and the scan, then       *)
(* columns, and rows last. The folds of the model are functions on the     *)
(* sets of places of a sequence; their recursion is proved here, by        *)
(* induction on numbers.                                                   *)
(***************************************************************************)
EXTENDS SnowflakeTable, FiniteSetTheorems, SequenceTheorems, WellFoundedInduction, TLAPS

----------------------------------------------------------------------------
(***************************************************************************)
(* Sets of numbers, and the folds of the model.                            *)
(***************************************************************************)
LEMMA LeastExists ==
    ASSUME NEW S \in SUBSET Nat, S # {}
    PROVE  \E x \in S : \A y \in S : x <= y
<1> DEFINE Below(x) == 0..(x - 1)
           T == {Below(x) : x \in S}
<1>1. T \subseteq FiniteSubsetsOf(Nat) /\ T # {}
  <2>1. ASSUME NEW x \in S PROVE Below(x) \in SUBSET Nat /\ IsFiniteSet(Below(x))
    <3>1. x \in Nat
      OBVIOUS
    <3>2. IsFiniteSet(0..(x - 1))
      BY <3>1, FS_Interval
    <3> QED BY <3>1, <3>2
  <2> HIDE DEF Below
  <2> QED BY <2>1 DEF FiniteSubsetsOf
<1>2. PICK A \in T : \A B \in T : <<B, A>> \notin StrictSubsetOrdering(Nat)
  BY <1>1, FS_StrictSubsetOrderingWellFounded, WFMin
<1>3. PICK x \in S : A = Below(x)
  OBVIOUS
<1>4. ASSUME NEW y \in S, y < x PROVE FALSE
  <2>1. Below(y) \in T /\ Below(y) \subseteq Below(x) /\ y \in Below(x) /\ y \notin Below(y)
    BY <1>4
  <2>2. Below(x) \subseteq Nat
    BY <1>4
  <2> QED BY <1>2, <1>3, <2>1, <2>2 DEF StrictSubsetOrdering
<1> QED BY <1>4

\* A set of numbers that has 0 and, with each number, the next one has them all.
LEMMA Inductive ==
    ASSUME NEW P, 0 \in P, \A n \in Nat : n \in P => n + 1 \in P
    PROVE  \A n \in Nat : n \in P
<1> SUFFICES ASSUME Nat \ P # {} PROVE FALSE
  OBVIOUS
<1>1. PICK n \in Nat \ P : \A m \in Nat \ P : n <= m
  BY LeastExists
<1>2. n # 0 /\ n - 1 \in Nat /\ n - 1 \in P
  BY <1>1
<1> QED BY <1>1, <1>2

LEMMA MinOf ==
    ASSUME NEW S \in SUBSET Nat, S # {}
    PROVE  Min(S) \in S /\ \A y \in S : Min(S) <= y
<1>1. \E x \in S : \A y \in S : x =< y
  BY LeastExists
<1> QED BY <1>1 DEF Min

LEMMA MaxOf ==
    ASSUME NEW n \in Nat, NEW S \in SUBSET (1..n), S # {}
    PROVE  /\ Max(S) \in S /\ \A y \in S : y <= Max(S)
           /\ S \ {Max(S)} \subseteq 1..(n - 1)
<1> DEFINE D == {n - x : x \in S}
<1>1. \A x \in S : n - x \in Nat
  OBVIOUS
<1>2. D \in SUBSET Nat /\ D # {}
  BY <1>1
<1>3. PICK d \in D : \A e \in D : d <= e
  BY <1>2, LeastExists
<1>4. PICK x \in S : d = n - x
  OBVIOUS
<1>5. \A y \in S : x >= y
  <2> TAKE y \in S
  <2>1. n - x <= n - y
    BY <1>3, <1>4
  <2> QED BY <2>1
<1>6. Max(S) \in S /\ \A y \in S : Max(S) >= y
  BY <1>5 DEF Max
<1> DEFINE x0 == Max(S)
<1> HIDE DEF x0
<1>7. x0 \in S /\ \A y \in S : x0 >= y
  BY <1>6 DEF x0
<1>8. x0 \in S /\ (\A y \in S : y <= x0) /\ S \ {x0} \subseteq 1..(n - 1)
  <2>1. x0 \in 1..n
    BY <1>7
  <2>2. ASSUME NEW y \in S PROVE y <= x0 /\ (y # x0 => y \in 1..(n - 1))
    <3>1. y \in 1..n /\ x0 >= y
      BY <1>7
    <3> QED BY <2>1, <3>1
  <2> QED BY <1>7, <2>2
<1> QED BY <1>8 DEF x0

LEMMA MaxOfInterval ==
    ASSUME NEW n \in Nat, n # 0
    PROVE  Max(1..n) = n /\ (1..n) \ {n} = 1..(n - 1)
<1>1. 1..n \in SUBSET (1..n) /\ 1..n # {}
  OBVIOUS
<1>2. Max(1..n) \in 1..n /\ \A y \in 1..n : y <= Max(1..n)
  BY <1>1, MaxOf
<1> QED BY <1>2

(***************************************************************************)
(* The three folds of the model, told apart by f.op: over the specs of the *)
(* columns, of a row, and of the statements that are generated.  Each is   *)
(* the last value of a recursive function on the sets of the places of the *)
(* sequence (Folds.tla), which exists by induction on their number.        *)
(***************************************************************************)
Step(f, x, e) ==
    IF f.op = "columns" THEN ColumnsAfter(x, e)
    ELSE IF f.op = "row" THEN RowAfter(x, e)
    ELSE x \o StatementsOf(f.prev, f.next, e)

FoldOf(f, base, s) ==
    IF f.op = "columns" THEN ColumnsAfterAll(base, s)
    ELSE IF f.op = "row" THEN RowAfterAll(base, s)
    ELSE GenAlterTableDDLs(f.prev, f.next, s)

ColumnsFold == [op |-> "columns"]
RowFold == [op |-> "row"]
DDLFold(prev, next) == [op |-> "ddls", prev |-> prev, next |-> next]

IsFold(f, g, base, seq, n) ==
    g = [S \in SUBSET (1..n) |->
            IF S = {} THEN base ELSE Step(f, g[S \ {Max(S)}], seq[Max(S)])]

LEMMA FoldExists ==
    ASSUME NEW f, NEW base, NEW seq
    PROVE  \A n \in Nat : \E g : IsFold(f, g, base, seq, n)
<1> DEFINE P == {n \in Nat : \E g : IsFold(f, g, base, seq, n)}
<1>1. 0 \in P
  <2>1. IsFold(f, [S \in SUBSET (1..0) |-> base], base, seq, 0)
    BY DEF IsFold
  <2> QED BY <2>1
<1>2. ASSUME NEW n \in Nat, n \in P PROVE n + 1 \in P
  <2>1. PICK g : IsFold(f, g, base, seq, n)
    BY <1>2
  <2> DEFINE N == n + 1
             h == [S \in SUBSET (1..N) |->
                      IF S = {} THEN base ELSE Step(f, g[S \ {Max(S)}], seq[Max(S)])]
  <2>2. ASSUME NEW S \in SUBSET (1..n) PROVE h[S] = g[S]
    <3>1. S \in SUBSET (1..N)
      OBVIOUS
    <3>2. g[S] = IF S = {} THEN base ELSE Step(f, g[S \ {Max(S)}], seq[Max(S)])
      BY <2>1 DEF IsFold
    <3>3. h[S] = IF S = {} THEN base ELSE Step(f, g[S \ {Max(S)}], seq[Max(S)])
      BY <3>1
    <3> QED BY <3>2, <3>3
  <2>3. ASSUME NEW S \in SUBSET (1..N), S # {} PROVE h[S \ {Max(S)}] = g[S \ {Max(S)}]
    <3>1. S \ {Max(S)} \subseteq 1..(N - 1) /\ N - 1 = n
      BY <2>3, MaxOf
    <3> QED BY <3>1, <2>2
  <2>4. h = [S \in SUBSET (1..N) |->
                IF S = {} THEN base ELSE Step(f, h[S \ {Max(S)}], seq[Max(S)])]
    BY <2>3
  <2>5. IsFold(f, h, base, seq, n + 1)
    BY <2>4 DEF IsFold
  <2> QED BY <2>5
<1> HIDE DEF P
<1>3. \A n \in Nat : n \in P
  BY <1>1, <1>2, Inductive
<1> QED BY <1>3 DEF P

\* Two of them agree as far as their sequences do.
LEMMA FoldsAgree ==
    ASSUME NEW f, NEW base, NEW s, NEW t, NEW m \in Nat, NEW n \in Nat, NEW g, NEW h,
           IsFold(f, g, base, s, m), IsFold(f, h, base, t, n),
           NEW k \in Nat, k <= m, k <= n, \A i \in 1..k : s[i] = t[i]
    PROVE  g[1..k] = h[1..k]
<1> DEFINE P == {i \in Nat : i <= k => g[1..i] = h[1..i]}
<1>1. 0 \in P
  <2>1. 1..0 = {} /\ 1..0 \in SUBSET (1..m) /\ 1..0 \in SUBSET (1..n)
    OBVIOUS
  <2>2. g[1..0] = base /\ h[1..0] = base
    BY <2>1 DEF IsFold
  <2> QED BY <2>2
<1>2. ASSUME NEW i \in Nat, i \in P PROVE i + 1 \in P
  <2> SUFFICES ASSUME i + 1 <= k PROVE g[1..(i + 1)] = h[1..(i + 1)]
    OBVIOUS
  <2> DEFINE S == 1..(i + 1)
  <2>1. S # {} /\ S \in SUBSET (1..m) /\ S \in SUBSET (1..n)
    OBVIOUS
  <2>2. Max(S) = i + 1 /\ S \ {Max(S)} = 1..i
    BY MaxOfInterval
  <2> HIDE DEF S
  <2>3. g[S] = Step(f, g[S \ {Max(S)}], s[Max(S)])
    BY <2>1 DEF IsFold
  <2>4. h[S] = Step(f, h[S \ {Max(S)}], t[Max(S)])
    BY <2>1 DEF IsFold
  <2>5. g[1..i] = h[1..i] /\ s[i + 1] = t[i + 1]
    BY <1>2
  <2> QED BY <2>2, <2>3, <2>4, <2>5 DEF S
<1> HIDE DEF P
<1>3. \A i \in Nat : i \in P
  BY <1>1, <1>2, Inductive
<1> QED BY <1>3 DEF P

\* What a fold has of these functions.
LEMMA FoldIsFold ==
    ASSUME NEW prev, NEW next, NEW f \in {ColumnsFold, RowFold, DDLFold(prev, next)},
           NEW base, f = DDLFold(prev, next) => base = <<>>,
           NEW s, NEW n \in Nat, DOMAIN s = 1..n
    PROVE  \E g : IsFold(f, g, base, s, n) /\ FoldOf(f, base, s) = g[1..n]
<1> DEFINE I(g) == g = [S \in SUBSET DOMAIN s |->
                IF S = {} THEN base ELSE Step(f, g[S \ {Max(S)}], s[Max(S)])]
<1>1. FoldOf(f, base, s) = (CHOOSE g : I(g))[DOMAIN s]
  <2>1. CASE f = ColumnsFold
    BY <2>1 DEF FoldOf, Step, ColumnsFold, ColumnsAfterAll, FoldLeft, MapThenFoldSet
  <2>2. CASE f = RowFold
    BY <2>2 DEF FoldOf, Step, RowFold, RowAfterAll, FoldLeft, MapThenFoldSet
  <2>3. CASE f = DDLFold(prev, next)
    BY <2>3 DEF FoldOf, Step, DDLFold, GenAlterTableDDLs, FoldLeft, MapThenFoldSet
  <2> QED BY <2>1, <2>2, <2>3
<1>2. \E g : I(g)
  <2>1. \E g : IsFold(f, g, base, s, n)
    BY FoldExists
  <2> QED BY <2>1 DEF IsFold
<1>3. I(CHOOSE g : I(g))
  <2> HIDE DEF I
  <2> QED BY <1>2
<1> DEFINE G == CHOOSE g : I(g)
<1>4. IsFold(f, G, base, s, n)
  BY <1>3 DEF IsFold
<1> HIDE DEF G
<1> QED BY <1>1, <1>4 DEF G

LEMMA FoldOfNone ==
    ASSUME NEW prev, NEW next, NEW f \in {ColumnsFold, RowFold, DDLFold(prev, next)},
           NEW base, f = DDLFold(prev, next) => base = <<>>
    PROVE  FoldOf(f, base, <<>>) = base
<1>1. DOMAIN <<>> = 1..0 /\ 1..0 = {}
  OBVIOUS
<1>2. PICK g : IsFold(f, g, base, <<>>, 0) /\ FoldOf(f, base, <<>>) = g[1..0]
  BY <1>1, FoldIsFold
<1> QED BY <1>1, <1>2 DEF IsFold

LEMMA FoldOfOneMore ==
    ASSUME NEW prev, NEW next, NEW f \in {ColumnsFold, RowFold, DDLFold(prev, next)},
           NEW base, f = DDLFold(prev, next) => base = <<>>,
           NEW s, NEW n \in Nat, DOMAIN s = 1..n, 
           NEW t, DOMAIN t = 1..(n + 1), \A i \in 1..n : t[i] = s[i]
    PROVE  FoldOf(f, base, t) = Step(f, FoldOf(f, base, s), t[n + 1])
<1>1. PICK g : IsFold(f, g, base, s, n) /\ FoldOf(f, base, s) = g[1..n]
  BY FoldIsFold
<1>2. PICK h : IsFold(f, h, base, t, n + 1) /\ FoldOf(f, base, t) = h[1..(n + 1)]
  BY FoldIsFold
<1>3. g[1..n] = h[1..n]
  BY <1>1, <1>2, FoldsAgree
<1> DEFINE S == 1..(n + 1)
<1>4. S # {} /\ S \in SUBSET (1..(n + 1))
  <2>1. n + 1 \in S
    OBVIOUS
  <2> QED BY <2>1
<1>5. Max(S) = n + 1 /\ S \ {Max(S)} = 1..n
  BY MaxOfInterval
<1> HIDE DEF S
<1>6. h[S] = Step(f, h[S \ {Max(S)}], t[Max(S)])
  BY <1>2, <1>4 DEF IsFold, S
<1> QED BY <1>1, <1>2, <1>3, <1>5, <1>6 DEF S

\* The folds over nothing, and over one more.
LEMMA NoneAfter ==
           /\ \A x : ColumnsAfterAll(x, <<>>) = x
           /\ \A x : RowAfterAll(x, <<>>) = x
           /\ \A prev, next : GenAlterTableDDLs(prev, next, <<>>) = <<>>
<1> SUFFICES ASSUME NEW x, NEW prev, NEW next
             PROVE  /\ ColumnsAfterAll(x, <<>>) = x
                    /\ RowAfterAll(x, <<>>) = x
                    /\ GenAlterTableDDLs(prev, next, <<>>) = <<>>
  OBVIOUS
<1>1. FoldOf(ColumnsFold, x, <<>>) = x
  BY FoldOfNone DEF ColumnsFold, DDLFold
<1>2. FoldOf(RowFold, x, <<>>) = x
  BY FoldOfNone DEF RowFold, DDLFold
<1>3. FoldOf(DDLFold(prev, next), <<>>, <<>>) = <<>>
  BY FoldOfNone
<1> QED BY <1>1, <1>2, <1>3 DEF FoldOf, ColumnsFold, RowFold, DDLFold

LEMMA OneMoreColumn ==
    ASSUME NEW x, NEW s, NEW n \in Nat, DOMAIN s = 1..n,
           NEW t, DOMAIN t = 1..(n + 1), \A i \in 1..n : t[i] = s[i]
    PROVE  ColumnsAfterAll(x, t) = ColumnsAfter(ColumnsAfterAll(x, s), t[n + 1])
<1>1. ColumnsFold # DDLFold(0, 0)
  BY DEF ColumnsFold, DDLFold
<1>2. FoldOf(ColumnsFold, x, t) = Step(ColumnsFold, FoldOf(ColumnsFold, x, s), t[n + 1])
  BY <1>1, FoldOfOneMore
<1> QED BY <1>2 DEF FoldOf, Step, ColumnsFold

LEMMA OneMoreRow ==
    ASSUME NEW x, NEW s, NEW n \in Nat, DOMAIN s = 1..n,
           NEW t, DOMAIN t = 1..(n + 1), \A i \in 1..n : t[i] = s[i]
    PROVE  RowAfterAll(x, t) = RowAfter(RowAfterAll(x, s), t[n + 1])
<1>1. RowFold # DDLFold(0, 0)
  BY DEF RowFold, DDLFold
<1>2. FoldOf(RowFold, x, t) = Step(RowFold, FoldOf(RowFold, x, s), t[n + 1])
  BY <1>1, FoldOfOneMore
<1> QED BY <1>2 DEF FoldOf, Step, RowFold

LEMMA OneMoreDDL ==
    ASSUME NEW prev, NEW next, NEW s, NEW n \in Nat, DOMAIN s = 1..n,
           NEW t, DOMAIN t = 1..(n + 1), \A i \in 1..n : t[i] = s[i]
    PROVE  GenAlterTableDDLs(prev, next, t) =
                GenAlterTableDDLs(prev, next, s) \o StatementsOf(prev, next, t[n + 1])
<1>1. FoldOf(DDLFold(prev, next), <<>>, t) =
        Step(DDLFold(prev, next), FoldOf(DDLFold(prev, next), <<>>, s), t[n + 1])
  BY FoldOfOneMore
<1> QED BY <1>1 DEF FoldOf, Step, DDLFold

----------------------------------------------------------------------------
(***************************************************************************)
(* Parts of sequences, tables, and the columns after the specs of an ALTER TABLE.*)
(***************************************************************************)
\* ... over a part of a sequence that is one longer.
LEMMA SliceFacts ==
    ASSUME NEW V, NEW s \in Seq(V),
           NEW a \in 1..(Len(s) + 1), NEW b \in (a - 1)..(Len(s) - 1)
    PROVE  LET p == SubSeq(s, a, b)
               q == SubSeq(s, a, b + 1)
               n == b + 1 - a
           IN  /\ n \in Nat /\ DOMAIN p = 1..n /\ DOMAIN q = 1..(n + 1)
               /\ q[n + 1] = s[b + 1]
               /\ \A i \in 1..n : q[i] = p[i]
<1> DEFINE p == SubSeq(s, a, b)
           q == SubSeq(s, a, b + 1)
           n == b + 1 - a
<1>1. /\ n \in Nat /\ Len(s) \in Nat
      /\ b + 1 \in 1..Len(s)
  OBVIOUS
<1>2. DOMAIN p = 1..n /\ \A i \in 1..n : p[i] = s[a + i - 1]
  OBVIOUS
<1>3. DOMAIN q = 1..(n + 1) /\ \A i \in 1..(n + 1) : q[i] = s[a + i - 1]
  OBVIOUS
<1> HIDE DEF p, q
<1>4. q[n + 1] = s[b + 1] /\ \A i \in 1..n : q[i] = p[i]
  <2>1. n + 1 \in 1..(n + 1) /\ a + (n + 1) - 1 = b + 1
    BY <1>1
  <2>2. \A i \in 1..n : i \in 1..(n + 1)
    BY <1>1
  <2> QED BY <1>2, <1>3, <2>1, <2>2
<1> QED BY <1>1, <1>2, <1>3, <1>4 DEF p, q

LEMMA Slices ==
    ASSUME NEW V, NEW s \in Seq(V),
           NEW a \in 1..(Len(s) + 1), NEW b \in (a - 1)..(Len(s) - 1)
    PROVE  /\ \A x : ColumnsAfterAll(x, SubSeq(s, a, b + 1)) =
                        ColumnsAfter(ColumnsAfterAll(x, SubSeq(s, a, b)), s[b + 1])
           /\ \A x : RowAfterAll(x, SubSeq(s, a, b + 1)) =
                        RowAfter(RowAfterAll(x, SubSeq(s, a, b)), s[b + 1])
           /\ \A prev, next : GenAlterTableDDLs(prev, next, SubSeq(s, a, b + 1)) =
                        GenAlterTableDDLs(prev, next, SubSeq(s, a, b))
                            \o StatementsOf(prev, next, s[b + 1])
<1> DEFINE p == SubSeq(s, a, b)
           q == SubSeq(s, a, b + 1)
           n == b + 1 - a
<1>1. /\ n \in Nat /\ DOMAIN p = 1..n /\ DOMAIN q = 1..(n + 1)
      /\ q[n + 1] = s[b + 1]
      /\ \A i \in 1..n : q[i] = p[i]
  BY SliceFacts
<1> HIDE DEF p, q, n
<1>2. \A x : ColumnsAfterAll(x, q) = ColumnsAfter(ColumnsAfterAll(x, p), q[n + 1])
  BY <1>1, OneMoreColumn
<1>3. \A x : RowAfterAll(x, q) = RowAfter(RowAfterAll(x, p), q[n + 1])
  BY <1>1, OneMoreRow
<1>4. \A prev, next : GenAlterTableDDLs(prev, next, q) =
            GenAlterTableDDLs(prev, next, p) \o StatementsOf(prev, next, q[n + 1])
  BY <1>1, OneMoreDDL
<1> QED BY <1>1, <1>2, <1>3, <1>4 DEF p, q

LEMMA EmptySlice ==
    ASSUME NEW V, NEW s \in Seq(V), NEW a \in 1..(Len(s) + 1)
    PROVE  SubSeq(s, a, a - 1) = <<>> /\ SubSeq(s, 1, Len(s)) = s
OBVIOUS

----------------------------------------------------------------------------
Agree(f, g, n) == (n \in DOMAIN f <=> n \in DOMAIN g) /\ (n \in DOMAIN f => f[n] = g[n])

IsTable(cols) ==
    /\ cols \in Columns
    /\ \A m, n \in DOMAIN cols : Fold[m] = Fold[n] => m = n

WellFormed(spec) ==
    /\ spec.op \notin {"truncate table", "drop table"}
    /\ Leaves(spec) \cup Enters(spec) \subseteq Names
    /\ spec.op \in {"add", "modify", "change"} => spec.type \in Types
    /\ spec.op = "modify" => spec.old = spec.new

LEMMA ColumnsFacts ==
    ASSUME NEW cols
    PROVE  cols \in Columns <=> DOMAIN cols \subseteq Names /\ cols \in [DOMAIN cols -> Types]
BY DEF Columns

LEMMA AlterStep ==
    ASSUME NEW cols, IsTable(cols), NEW spec, WellFormed(spec), Valid(cols, spec)
    PROVE  /\ IsTable(ColumnsAfter(cols, spec))
           /\ \A n \in Names : Fold[n] \notin Touched(spec) => Agree(ColumnsAfter(cols, spec), cols, n)
<1> DEFINE e == IF spec.op = "rename" THEN cols[spec.old] ELSE spec.type
           D == (DOMAIN cols \ Leaves(spec)) \cup Enters(spec)
           new == [n \in D |-> IF n \in Enters(spec) THEN e ELSE cols[n]]
<1>1. ColumnsAfter(cols, spec) = new
  BY DEF ColumnsAfter, After
<1>2. DOMAIN cols \subseteq Names /\ cols \in [DOMAIN cols -> Types]
  BY ColumnsFacts DEF IsTable
<1>3. Enters(spec) # {} => e \in Types
  BY <1>2 DEF WellFormed, Enters, Valid, Leaves
<1>4. D \subseteq Names
  BY <1>2 DEF WellFormed
<1>5. \A n \in D : new[n] \in Types
  BY <1>2, <1>3
<1> HIDE DEF e
<1>6. DOMAIN new = D /\ new \in [D -> Types]
  BY <1>5
<1>7. \A m, n \in D : Fold[m] = Fold[n] => m = n
  <2>1. \A m, n \in Enters(spec) : m = n
    BY DEF Enters
  <2>2. \A m \in Enters(spec), n \in DOMAIN cols \ Leaves(spec) : Fold[m] # Fold[n]
    BY DEF Valid
  <2>3. \A m, n \in DOMAIN cols : Fold[m] = Fold[n] => m = n
    BY DEF IsTable
  <2> QED BY <2>1, <2>2, <2>3
<1>8. ASSUME NEW n \in Names, Fold[n] \notin Touched(spec) PROVE Agree(new, cols, n)
  <2>1. n \notin Leaves(spec) /\ n \notin Enters(spec)
    BY <1>8 DEF Touched
  <2> QED BY <2>1 DEF Agree
<1> HIDE DEF D, new
<1>9. IsTable(new)
  BY <1>4, <1>6, <1>7, ColumnsFacts DEF IsTable
<1> QED BY <1>1, <1>8, <1>9

\* What a statement of Alters is.
LEMMA AlterFacts ==
    ASSUME NEW specs \in Alters
    PROVE  /\ \E V : specs \in Seq(V)
           /\ Len(specs) \in Nat /\ DOMAIN specs = 1..Len(specs)
           /\ \A i \in 1..Len(specs) : WellFormed(specs[i])
           /\ \A i, j \in 1..Len(specs) :
                 i # j => Touched(specs[i]) \cap Touched(specs[j]) = {}
<1>1. specs \in Seq([op : STRING, old : Names \cup {NoName},
                          new : Names \cup {NoName}, type : Types \cup {0}])
  BY AltersAssumption
<1>2. Len(specs) \in Nat /\ DOMAIN specs = 1..Len(specs)
  BY <1>1
<1> QED BY <1>1, <1>2, AltersAssumption DEF WellFormed

ValidAlter(cols, specs) ==
    /\ IsTable(cols)
    /\ specs \in Alters
    /\ \A i \in DOMAIN specs : Valid(cols, specs[i])

\* The columns after the first specs.
AfterSpecs(cols, specs, i) == ColumnsAfterAll(cols, SubSeq(specs, 1, i))

LEMMA AfterSpecsStep ==
    ASSUME NEW cols, NEW specs \in Alters
    PROVE  /\ AfterSpecs(cols, specs, 0) = cols
           /\ \A i \in 0..(Len(specs) - 1) :
                 AfterSpecs(cols, specs, i + 1) = ColumnsAfter(AfterSpecs(cols, specs, i), specs[i + 1])
           /\ AfterSpecs(cols, specs, Len(specs)) = ColumnsAfterAll(cols, specs)
<1>1. PICK V : specs \in Seq(V)
  BY AlterFacts
<1>2. SubSeq(specs, 1, 0) = <<>> /\ SubSeq(specs, 1, Len(specs)) = specs
  BY <1>1, EmptySlice
<1>3. 1 \in 1..(Len(specs) + 1)
  BY AlterFacts
<1>4. ASSUME NEW i \in 0..(Len(specs) - 1)
      PROVE AfterSpecs(cols, specs, i + 1) = ColumnsAfter(AfterSpecs(cols, specs, i), specs[i + 1])
  <2>1. i \in (1 - 1)..(Len(specs) - 1)
    OBVIOUS
  <2> QED BY <1>1, <1>3, <2>1, Slices DEF AfterSpecs
<1> QED BY <1>2, <1>4, NoneAfter DEF AfterSpecs

LEMMA Untouched ==
    ASSUME NEW cols, NEW specs, ValidAlter(cols, specs), NEW i \in 0..Len(specs)
    PROVE  /\ IsTable(AfterSpecs(cols, specs, i))
           /\ \A n \in Names : (\A l \in 1..i : Fold[n] \notin Touched(specs[l]))
                => Agree(AfterSpecs(cols, specs, i), cols, n)
           /\ \A l \in (i + 1)..Len(specs) : Valid(AfterSpecs(cols, specs, i), specs[l])
<1> DEFINE C(j) == AfterSpecs(cols, specs, j)
           Q(j) == /\ IsTable(C(j))
                   /\ \A n \in Names : (\A l \in 1..j : Fold[n] \notin Touched(specs[l]))
                         => Agree(C(j), cols, n)
           V(j) == \A l \in (j + 1)..Len(specs) : Valid(C(j), specs[l])
           P == {j \in Nat : j <= Len(specs) => Q(j)}
<1>0. specs \in Alters
  BY DEF ValidAlter
<1>1. /\ Len(specs) \in Nat
      /\ \A j \in 1..Len(specs) : WellFormed(specs[j]) /\ Valid(cols, specs[j])
      /\ \A j, l \in 1..Len(specs) : j # l => Touched(specs[j]) \cap Touched(specs[l]) = {}
  BY AlterFacts DEF ValidAlter
<1>2. C(0) = cols /\ \A j \in 0..(Len(specs) - 1) : C(j + 1) = ColumnsAfter(C(j), specs[j + 1])
  BY <1>0, AfterSpecsStep
<1> HIDE DEF C
<1>3. 0 \in P
  BY <1>2 DEF Agree, ValidAlter
<1>4. ASSUME NEW j \in 0..Len(specs), Q(j) PROVE V(j)
  <2> SUFFICES ASSUME NEW l \in (j + 1)..Len(specs) PROVE Valid(C(j), specs[l])
    OBVIOUS
  <2>1. l \in 1..Len(specs) /\ \A h \in 1..j : h \in 1..Len(specs) /\ h # l
    BY <1>1
  <2>2. \A n \in Names : Fold[n] \in Touched(specs[l]) => Agree(C(j), cols, n)
    BY <1>1, <1>4, <2>1
  <2>3. Leaves(specs[l]) \cup Enters(specs[l]) \subseteq Names
    BY <1>1, <2>1 DEF WellFormed
  <2>4. \A n \in Leaves(specs[l]) : n \in DOMAIN C(j)
    BY <1>1, <2>1, <2>2, <2>3 DEF Valid, Touched, Agree
  <2>5. ASSUME NEW n \in Enters(specs[l]), NEW c \in DOMAIN C(j) \ Leaves(specs[l]), Fold[n] = Fold[c]
        PROVE FALSE
    <3>1. Fold[c] \in Touched(specs[l])
      BY <2>5 DEF Touched
    <3>2. c \in Names
      BY <1>4, ColumnsFacts DEF IsTable
    <3>3. c \in DOMAIN cols
      BY <2>2, <3>1, <3>2 DEF Agree
    <3> QED BY <1>1, <2>1, <2>5, <3>3 DEF Valid
  <2> QED BY <2>4, <2>5 DEF Valid
<1>5. ASSUME NEW j \in Nat, j \in P PROVE j + 1 \in P
  <2> SUFFICES ASSUME j + 1 <= Len(specs) PROVE Q(j + 1)
    OBVIOUS
  <2>1. Q(j) /\ V(j) /\ j \in 0..(Len(specs) - 1) /\ j + 1 \in 1..Len(specs)
    BY <1>1, <1>4, <1>5
  <2>2. WellFormed(specs[j + 1]) /\ Valid(C(j), specs[j + 1])
    BY <1>1, <2>1
  <2>3. C(j + 1) = ColumnsAfter(C(j), specs[j + 1])
    BY <1>2, <2>1
  <2>4. /\ IsTable(C(j + 1))
        /\ \A n \in Names : Fold[n] \notin Touched(specs[j + 1]) => Agree(C(j + 1), C(j), n)
    BY <2>1, <2>2, <2>3, AlterStep
  <2>5. ASSUME NEW n \in Names, \A l \in 1..(j + 1) : Fold[n] \notin Touched(specs[l])
        PROVE Agree(C(j + 1), cols, n)
    <3>1. Agree(C(j + 1), C(j), n)
      BY <2>1, <2>4, <2>5
    <3>2. Agree(C(j), cols, n)
      BY <2>1, <2>5
    <3> QED BY <3>1, <3>2 DEF Agree
  <2> QED BY <2>4, <2>5
<1> HIDE DEF P, Q
<1>6. \A j \in Nat : j \in P
  BY <1>3, <1>5, Inductive
<1>7. Q(i) /\ V(i)
  BY <1>1, <1>4, <1>6 DEF P
<1> QED BY <1>7 DEF Q, C

\* The columns at the end are, of a name that no later spec touches, those before.
LEMMA LaterUntouched ==
    ASSUME NEW cols, NEW specs, ValidAlter(cols, specs), NEW i \in 0..Len(specs),
           NEW n \in Names, \A l \in (i + 1)..Len(specs) : Fold[n] \notin Touched(specs[l])
    PROVE  Agree(ColumnsAfterAll(cols, specs), AfterSpecs(cols, specs, i), n)
<1> DEFINE C(j) == AfterSpecs(cols, specs, j)
           P == {j \in Nat : i + j <= Len(specs) => Agree(C(i + j), C(i), n)}
<1>0. specs \in Alters
  BY DEF ValidAlter
<1>1. Len(specs) \in Nat /\ \A j \in 1..Len(specs) : WellFormed(specs[j])
  BY <1>0, AlterFacts
<1>2. /\ \A j \in 0..(Len(specs) - 1) : C(j + 1) = ColumnsAfter(C(j), specs[j + 1])
      /\ C(Len(specs)) = ColumnsAfterAll(cols, specs)
  BY <1>0, AfterSpecsStep
<1>3. \A j \in 0..Len(specs) : IsTable(C(j)) /\ \A l \in (j + 1)..Len(specs) : Valid(C(j), specs[l])
  BY Untouched
<1> HIDE DEF C
<1>4. 0 \in P
  BY DEF Agree
<1>5. ASSUME NEW j \in Nat, j \in P PROVE j + 1 \in P
  <2> SUFFICES ASSUME i + (j + 1) <= Len(specs) PROVE Agree(C(i + (j + 1)), C(i), n)
    OBVIOUS
  <2> DEFINE d == i + j
  <2>1. /\ d \in 0..(Len(specs) - 1) /\ d + 1 \in 1..Len(specs) /\ d + 1 \in (d + 1)..Len(specs)
        /\ d + 1 \in (i + 1)..Len(specs) /\ d \in 0..Len(specs) /\ i + (j + 1) = d + 1
    BY <1>1
  <2>2. Agree(C(d), C(i), n)
    BY <1>1, <1>5, <2>1
  <2> HIDE DEF d
  <2>3. IsTable(C(d)) /\ WellFormed(specs[d + 1]) /\ Valid(C(d), specs[d + 1])
    BY <1>1, <1>3, <2>1
  <2>4. Fold[n] \notin Touched(specs[d + 1]) /\ C(d + 1) = ColumnsAfter(C(d), specs[d + 1])
    BY <1>2, <2>1
  <2>5. Agree(C(d + 1), C(d), n)
    BY <2>3, <2>4, AlterStep
  <2> QED BY <2>1, <2>2, <2>5 DEF Agree
<1> HIDE DEF P
<1>6. \A j \in Nat : j \in P
  BY <1>4, <1>5, Inductive
<1>7. Len(specs) - i \in Nat /\ i + (Len(specs) - i) = Len(specs)
  BY <1>1
<1> DEFINE e == Len(specs) - i
<1>8. Agree(C(i + e), C(i), n)
  <2>1. e \in P /\ i + e <= Len(specs)
    BY <1>1, <1>6, <1>7
  <2> HIDE DEF e
  <2> QED BY <2>1 DEF P
<1> QED BY <1>2, <1>7, <1>8 DEF C

----------------------------------------------------------------------------
(***************************************************************************)
(* Identifiers: the image of a table, and of a row.                        *)
(***************************************************************************)
Idents(S) == {Ident[n] : n \in S}
OneIdent(S) == \A m, n \in S : Ident[m] = Ident[n] => m = n

Replace(f, L, E, e) == [n \in (DOMAIN f \ L) \cup E |-> IF n \in E THEN e ELSE f[n]]

LEMMA AfterIsReplace ==
    ASSUME NEW f, NEW spec, NEW e
    PROVE  After(f, spec, e) = Replace(f, Leaves(spec), Enters(spec), e)
BY DEF After, Replace

LEMMA ImageFacts ==
    ASSUME NEW f, OneIdent(DOMAIN f)
    PROVE  /\ DOMAIN Image(f) = Idents(DOMAIN f)
           /\ \A n \in DOMAIN f : Image(f)[Ident[n]] = f[n]
           /\ Image(f) = [c \in Idents(DOMAIN f) |-> Image(f)[c]]
<1>1. DOMAIN Image(f) = Idents(DOMAIN f) /\ Image(f) = [c \in Idents(DOMAIN f) |-> Image(f)[c]]
  BY DEF Image, Idents
<1>2. ASSUME NEW n \in DOMAIN f PROVE Image(f)[Ident[n]] = f[n]
  <2>1. Ident[n] \in {Ident[m] : m \in DOMAIN f}
    OBVIOUS
  <2>2. Image(f)[Ident[n]] = f[CHOOSE m \in DOMAIN f : Ident[m] = Ident[n]]
    BY <2>1 DEF Image
  <2>3. (CHOOSE m \in DOMAIN f : Ident[m] = Ident[n]) = n
    BY DEF OneIdent
  <2> QED BY <2>2, <2>3
<1> QED BY <1>1, <1>2

\* A function with these values is the image.
LEMMA ImageIs ==
    ASSUME NEW f, OneIdent(DOMAIN f), NEW g, g = [c \in DOMAIN g |-> g[c]],
           DOMAIN g = Idents(DOMAIN f), \A n \in DOMAIN f : g[Ident[n]] = f[n]
    PROVE  Image(f) = g
<1>1. ASSUME NEW c \in DOMAIN g PROVE g[c] = Image(f)[c]
  <2>1. PICK n \in DOMAIN f : c = Ident[n]
    BY DEF Idents
  <2> QED BY <2>1, ImageFacts
<1> QED BY <1>1, ImageFacts

LEMMA ImageReplace ==
    ASSUME NEW f, OneIdent(DOMAIN f), NEW L \in SUBSET DOMAIN f, NEW E,
           OneIdent((DOMAIN f \ L) \cup E), NEW e
    PROVE  Image(Replace(f, L, E, e)) = Replace(Image(f), Idents(L), Idents(E), e)
<1> DEFINE g == Replace(f, L, E, e)
           h == Replace(Image(f), Idents(L), Idents(E), e)
<1>1. /\ DOMAIN g = (DOMAIN f \ L) \cup E
      /\ \A n \in DOMAIN g : g[n] = IF n \in E THEN e ELSE f[n]
  BY DEF Replace
<1>2. /\ DOMAIN h = (Idents(DOMAIN f) \ Idents(L)) \cup Idents(E)
      /\ h = [c \in DOMAIN h |-> h[c]]
      /\ \A c \in DOMAIN h : h[c] = IF c \in Idents(E) THEN e ELSE Image(f)[c]
  BY ImageFacts DEF Replace
<1>3. Idents(DOMAIN f \ L) = Idents(DOMAIN f) \ Idents(L)
  BY DEF Idents, OneIdent
<1>4. DOMAIN h = Idents(DOMAIN g)
  <2>1. Idents(DOMAIN g) = Idents(DOMAIN f \ L) \cup Idents(E)
    BY <1>1 DEF Idents
  <2> QED BY <1>2, <1>3, <2>1
<1>5. ASSUME NEW n \in DOMAIN g PROVE h[Ident[n]] = g[n]
  <2>1. Ident[n] \in DOMAIN h
    BY <1>4 DEF Idents
  <2>2. CASE n \in E
    BY <1>1, <1>2, <2>1, <2>2 DEF Idents
  <2>3. CASE n \notin E
    <3>1. n \in DOMAIN f
      BY <1>1, <2>3
    <3>2. Ident[n] \notin Idents(E)
      BY <1>1, <2>3 DEF Idents, OneIdent
    <3>3. Image(f)[Ident[n]] = f[n]
      BY <3>1, ImageFacts
    <3> QED BY <1>1, <1>2, <2>1, <2>3, <3>2, <3>3
  <2> QED BY <2>2, <2>3
<1>6. OneIdent(DOMAIN g)
  BY <1>1
<1> HIDE DEF g, h
<1>7. Image(g) = h
  BY <1>2, <1>4, <1>5, <1>6, ImageIs
<1> QED BY <1>7 DEF g, h

LEMMA TableIdents ==
    ASSUME NEW cols, IsTable(cols)
    PROVE  /\ OneIdent(DOMAIN cols)
           /\ DOMAIN cols \subseteq Names /\ cols \in [DOMAIN cols -> Types]
           /\ Image(cols) \in [Idents(DOMAIN cols) -> Types]
<1>1. DOMAIN cols \subseteq Names /\ cols \in [DOMAIN cols -> Types]
  BY ColumnsFacts DEF IsTable
<1>2. OneIdent(DOMAIN cols)
  BY <1>1, NamesAssumption DEF OneIdent, IsTable, NamesAssumption
<1>3. ASSUME NEW c \in Idents(DOMAIN cols) PROVE Image(cols)[c] \in Types
  <2>1. PICK n \in DOMAIN cols : c = Ident[n]
    BY DEF Idents
  <2> QED BY <1>1, <1>2, <2>1, ImageFacts
<1> QED BY <1>1, <1>2, <1>3, ImageFacts

LEMMA RowImage ==
    ASSUME NEW D \in SUBSET Names, OneIdent(D), NEW r \in [D -> Nat]
    PROVE  /\ Image(r) \in [Idents(D) -> Nat]
           /\ r # NoRow /\ Image(r) # NoRow
<1>1. ASSUME NEW c \in Idents(D) PROVE Image(r)[c] \in Nat
  <2>1. PICK n \in D : c = Ident[n]
    BY DEF Idents
  <2>2. DOMAIN r = D /\ r[n] \in Nat
    OBVIOUS
  <2> QED BY <2>1, <2>2, ImageFacts
<1>0. DOMAIN r = D
  OBVIOUS
<1>2. Image(r) \in [Idents(D) -> Nat]
  BY <1>0, <1>1, ImageFacts
<1>3. Idents(D) \in SUBSET (Names \cup {Ident[n] : n \in Names})
  BY DEF Idents
<1>4. D \in SUBSET (Names \cup {Ident[n] : n \in Names})
  OBVIOUS
<1> QED BY <1>2, <1>3, <1>4, TableAssumption DEF TableAssumption

----------------------------------------------------------------------------
(***************************************************************************)
(* One statement, and one spec that does the same.                         *)
(***************************************************************************)
Statements == [op : {"add", "drop", "rename", "modify"}, old : Idents(Names) \cup {NoName},
               new : Idents(Names) \cup {NoName}, type : Types \cup {0}]

IsStatement(s) ==
    /\ s \in Statements
    /\ Leaves(s) \cup Enters(s) \subseteq Idents(Names)
    /\ s.op \in {"add", "modify"} => s.type \in Types
    /\ s.op = "modify" => s.old = s.new

\* A statement has nothing to do for these columns.
Settled(s, cols) ==
    /\ s.op = "add" => s.new \in DOMAIN cols
    /\ s.op = "drop" => s.old \notin DOMAIN cols
    /\ s.op = "rename" => s.old = s.new \/ s.old \notin DOMAIN cols
    /\ s.op = "modify" => s.new \in DOMAIN cols /\ cols[s.new] = s.type

IsFunction(f) == f = [x \in DOMAIN f |-> f[x]]

LEMMA AfterIsFunction ==
    ASSUME NEW f, NEW s
    PROVE  IsFunction(ColumnsAfter(f, s)) /\ DOMAIN ColumnsAfter(f, s) = (DOMAIN f \ Leaves(s)) \cup Enters(s)
BY DEF IsFunction, ColumnsAfter, After

LEMMA SettledAfter ==
    ASSUME NEW cols, NEW s, IsStatement(s)
    PROVE  Settled(s, ColumnsAfter(cols, s))
BY DEF Settled, IsStatement, ColumnsAfter, After, Leaves, Enters

\* It is refused or changes nothing, neither the columns nor a row with them.
LEMMA SettledChangesNothing ==
    ASSUME NEW cols, IsFunction(cols), NEW s, IsStatement(s), Settled(s, cols),
           Legal(TRUE, cols, s)
    PROVE  /\ ColumnsAfter(cols, s) = cols
           /\ \A r : r = NoRow \/ (IsFunction(r) /\ DOMAIN r = DOMAIN cols)
                 => RowAfter(r, s) = r
<1>1. /\ s.op \in {"rename", "modify"} /\ s.old = s.new /\ s.old \in DOMAIN cols
      /\ s.op = "modify" => cols[s.old] = s.type
      /\ Leaves(s) = {s.old} /\ Enters(s) = {s.old}
  BY DEF Legal, Settled, IsStatement, Statements, Leaves, Enters
<1>2. (DOMAIN cols \ Leaves(s)) \cup Enters(s) = DOMAIN cols
  BY <1>1
<1>3. ColumnsAfter(cols, s) = cols
  BY <1>1, <1>2 DEF ColumnsAfter, After, IsFunction
<1>4. ASSUME NEW r, IsFunction(r), DOMAIN r = DOMAIN cols, r # NoRow
      PROVE  RowAfter(r, s) = r
  BY <1>1, <1>2, <1>4 DEF RowAfter, After, IsFunction, Empties
<1>5. RowAfter(NoRow, s) = NoRow
  BY DEF RowAfter
<1> QED BY <1>3, <1>4, <1>5

----------------------------------------------------------------------------
\* What a spec looks up in the columns before and after its statement, when
\* cols are those right before the spec.
LookUps(prev, next, cols, spec) ==
    /\ IsTable(prev) /\ IsTable(next) /\ IsTable(cols)
    /\ WellFormed(spec) /\ Valid(cols, spec)
    /\ \A n \in Names : Fold[n] \in Touched(spec) =>
          /\ Agree(prev, cols, n)
          /\ Agree(next, ColumnsAfter(cols, spec), n)

LEMMA FindColumn ==
    ASSUME NEW cols, IsTable(cols), NEW n \in DOMAIN cols
    PROVE  ColumnInMeta(cols, n) = n
BY DEF IsTable, ColumnInMeta

LEMMA Found ==
    ASSUME NEW prev, NEW next, NEW cols, NEW spec, LookUps(prev, next, cols, spec)
    PROVE  /\ Leaves(spec) # {} => /\ spec.old \in DOMAIN cols
                                   /\ ColumnInMeta(prev, spec.old) = spec.old
                                   /\ prev[spec.old] = cols[spec.old]
                                   /\ cols[spec.old] \in Types
           /\ Enters(spec) # {} => /\ ColumnInMeta(next, spec.new) = spec.new
                                   /\ next[spec.new] = IF spec.op = "rename" THEN cols[spec.old]
                                                       ELSE spec.type
<1>1. ASSUME Leaves(spec) # {}
      PROVE  /\ spec.old \in DOMAIN cols
             /\ ColumnInMeta(prev, spec.old) = spec.old
             /\ prev[spec.old] = cols[spec.old]
             /\ cols[spec.old] \in Types
  <2>1. Leaves(spec) = {spec.old}
    BY <1>1 DEF Leaves
  <2>2. spec.old \in DOMAIN cols /\ spec.old \in Names /\ Fold[spec.old] \in Touched(spec)
    BY <2>1 DEF LookUps, Valid, WellFormed, Touched
  <2>3. Agree(prev, cols, spec.old) /\ cols[spec.old] \in Types
    BY <2>2, TableIdents DEF LookUps
  <2>4. spec.old \in DOMAIN prev /\ prev[spec.old] = cols[spec.old]
    BY <2>2, <2>3 DEF Agree
  <2> QED BY <2>2, <2>3, <2>4, FindColumn DEF LookUps
<1>2. ASSUME Enters(spec) # {}
      PROVE  /\ ColumnInMeta(next, spec.new) = spec.new
             /\ next[spec.new] = IF spec.op = "rename" THEN cols[spec.old] ELSE spec.type
  <2>1. Enters(spec) = {spec.new}
    BY <1>2 DEF Enters
  <2>2. spec.new \in Names /\ Fold[spec.new] \in Touched(spec)
    BY <2>1 DEF LookUps, WellFormed, Touched
  <2>3. Agree(next, ColumnsAfter(cols, spec), spec.new)
    BY <2>2 DEF LookUps
  <2> DEFINE new == ColumnsAfter(cols, spec)
  <2>4. spec.new \in DOMAIN new /\ new[spec.new] = IF spec.op = "rename" THEN cols[spec.old] ELSE spec.type
    BY <2>1 DEF ColumnsAfter, After
  <2> HIDE DEF new
  <2>5. spec.new \in DOMAIN next /\ next[spec.new] = new[spec.new]
    BY <2>3, <2>4 DEF Agree, new
  <2> QED BY <2>4, <2>5, FindColumn DEF LookUps
<1> QED BY <1>1, <1>2

\* One spec and one statement that do the same to a table and to its image.
SameEffect(cols, spec, s) ==
    /\ IsStatement(s)
    /\ Leaves(s) = Idents(Leaves(spec)) /\ Enters(s) = Idents(Enters(spec))
    /\ Legal(TRUE, Image(cols), s)
    /\ ColumnsAfter(Image(cols), s) = Image(ColumnsAfter(cols, spec))
    /\ \A r \in [DOMAIN cols -> Nat] :
          RowAfter(Image(r), s) = Image(RowAfter(r, spec))

LEMMA EffectOfOne ==
    ASSUME NEW cols, NEW spec, IsTable(cols), WellFormed(spec), Valid(cols, spec),
           spec.op \notin Empties,
           NEW s, IsStatement(s), s.op = "add" <=> spec.op = "add",
           Leaves(s) = Idents(Leaves(spec)), Enters(s) = Idents(Enters(spec)),
           Leaves(s) # {} => s.old = Ident[spec.old],
           Enters(spec) # {} =>
              (IF spec.op = "rename" THEN cols[spec.old] ELSE spec.type) =
              (IF s.op = "rename" THEN cols[spec.old] ELSE s.type)
    PROVE  SameEffect(cols, spec, s)
<1> DEFINE L == Leaves(spec)
           E == Enters(spec)
           e == IF spec.op = "rename" THEN cols[spec.old] ELSE spec.type
           f == IF s.op = "rename" THEN Image(cols)[s.old] ELSE s.type
<1>0. /\ OneIdent(DOMAIN cols) /\ DOMAIN cols \subseteq Names
      /\ L \in SUBSET DOMAIN cols /\ L \cup E \subseteq Names
  BY TableIdents DEF Valid, WellFormed
<1>1. OneIdent((DOMAIN cols \ L) \cup E)
  <2>1. IsTable(ColumnsAfter(cols, spec))
    BY AlterStep
  <2>2. DOMAIN ColumnsAfter(cols, spec) = (DOMAIN cols \ L) \cup E
    BY AfterIsFunction
  <2> QED BY <2>1, <2>2, TableIdents
<1>2. ColumnsAfter(cols, spec) = Replace(cols, L, E, e)
  BY AfterIsReplace DEF ColumnsAfter
<1>3. ColumnsAfter(Image(cols), s) = Replace(Image(cols), Idents(L), Idents(E), f)
  BY AfterIsReplace DEF ColumnsAfter
<1>4. E # {} => e = f
  <2>1. CASE s.op = "rename"
    <3>1. Leaves(s) # {}
      BY <2>1 DEF Leaves
    <3>2. Leaves(spec) # {}
      BY <3>1 DEF Idents
    <3>3. Leaves(spec) = {spec.old}
      BY <3>2 DEF Leaves
    <3>4. Image(cols)[s.old] = cols[spec.old]
      BY <1>0, <3>1, <3>3, ImageFacts
    <3> QED BY <2>1, <3>4
  <2> QED BY <2>1
<1>6. ASSUME NEW g, NEW x, NEW y, E # {} => x = y
      PROVE Replace(g, Idents(L), Idents(E), x) = Replace(g, Idents(L), Idents(E), y)
  BY <1>6 DEF Replace, Idents
<1>7. Image(ColumnsAfter(cols, spec)) = Replace(Image(cols), Idents(L), Idents(E), e)
  <2> HIDE DEF e, L, E
  <2> QED BY <1>0, <1>1, <1>2, ImageReplace
<1>8. ColumnsAfter(Image(cols), s) = Image(ColumnsAfter(cols, spec))
  <2> HIDE DEF e, f, L, E
  <2> QED BY <1>3, <1>4, <1>6, <1>7
<1>9. Legal(TRUE, Image(cols), s)
  <2>0. DOMAIN Image(cols) = Idents(DOMAIN cols)
    BY <1>0, ImageFacts
  <2>1. Leaves(s) \subseteq DOMAIN Image(cols)
    BY <1>0, <2>0 DEF Idents
  <2>2. ASSUME NEW c \in Enters(s), NEW d \in DOMAIN Image(cols) \ Leaves(s), c = d PROVE FALSE
    <3>1. PICK n \in E : c = Ident[n]
      BY DEF Idents
    <3>2. PICK m \in DOMAIN cols : d = Ident[m]
      BY <2>0 DEF Idents
    <3>3. m \notin L
      BY <3>2 DEF Idents
    <3>4. Fold[n] = Fold[m]
      BY <1>0, <2>2, <3>1, <3>2, NamesAssumption DEF NamesAssumption
    <3> QED BY <3>3, <3>4 DEF Valid
  <2> QED BY <2>1, <2>2 DEF Legal
<1>10. ASSUME NEW r \in [DOMAIN cols -> Nat]
       PROVE  RowAfter(Image(r), s) = Image(RowAfter(r, spec))
  <2> DEFINE x == IF spec.op = "add" THEN NoFill ELSE r[spec.old]
             y == IF s.op = "add" THEN NoFill ELSE Image(r)[s.old]
  <2>1. DOMAIN r = DOMAIN cols /\ r # NoRow /\ Image(r) # NoRow
    BY <1>0, RowImage
  <2>2. s.op \notin Empties
    BY DEF IsStatement, Statements, Empties
  <2>3. RowAfter(r, spec) = Replace(r, L, E, x)
    BY <2>1, <2>2, AfterIsReplace DEF RowAfter
  <2>4. RowAfter(Image(r), s) = Replace(Image(r), Idents(L), Idents(E), y)
    BY <2>1, <2>2, AfterIsReplace DEF RowAfter
  <2>5. E # {} => x = y
    <3>1. CASE spec.op # "add" /\ E # {}
      <4>1. Leaves(spec) = {spec.old}
        BY <3>1 DEF Leaves, Enters
      <4>2. spec.old \in DOMAIN r /\ Leaves(s) # {}
        BY <1>0, <2>1, <4>1 DEF Idents
      <4> QED BY <1>0, <2>1, <3>1, <4>2, ImageFacts
    <3> QED BY <3>1
  <2> HIDE DEF x, y, L, E
  <2>6. Image(RowAfter(r, spec)) = Replace(Image(r), Idents(L), Idents(E), x)
    BY <1>0, <1>1, <2>1, <2>3, ImageReplace
  <2> QED BY <1>6, <2>4, <2>5, <2>6
<1> QED BY <1>8, <1>9, <1>10 DEF SameEffect

----------------------------------------------------------------------------
(***************************************************************************)
(* The statements of one spec.                                             *)
(***************************************************************************)
CaseKept(spec) ==
    spec.op = "change" /\ Fold[spec.old] = Fold[spec.new] => Ident[spec.old] = Ident[spec.new]

SameRows(cols, spec) == \A r \in [DOMAIN cols -> Nat] : Image(RowAfter(r, spec)) = Image(r)

Translated(cols, spec, block) ==
    \/ /\ block = <<>>
       /\ Image(ColumnsAfter(cols, spec)) = Image(cols)
       /\ spec.op # "partition" => SameRows(cols, spec)
    \/ \E s : block = <<s>> /\ SameEffect(cols, spec, s)
    \/ \E s, t, one, two :
          /\ block = <<s, t>>
          /\ SameEffect(cols, one, s)
          /\ IsTable(ColumnsAfter(cols, one))
          /\ SameEffect(ColumnsAfter(cols, one), two, t)
          /\ ColumnsAfter(ColumnsAfter(cols, one), two) = ColumnsAfter(cols, spec)
          /\ \A r \in [DOMAIN cols -> Nat] :
                /\ RowAfter(r, one) \in [DOMAIN ColumnsAfter(cols, one) -> Nat]
                /\ RowAfter(RowAfter(r, one), two) = RowAfter(r, spec)
          /\ Touched(one) \subseteq Touched(spec) /\ Touched(two) \subseteq Touched(spec)
          /\ WellFormed(one) /\ WellFormed(two) /\ Leaves(one) = Leaves(spec)
          /\ s.op = "rename" /\ s.old # s.new /\ t.op = "modify" /\ t.new = s.new

LEMMA IdentsOfOne == 
    /\ Idents({}) = {}
    /\ \A n : Idents({n}) = {Ident[n]}
BY DEF Idents

LEMMA OneThenMore ==
    /\ \A s : <<>> \o <<s>> = <<s>>
    /\ <<>> \o <<>> = <<>>
    /\ \A s, t : <<s>> \o <<t>> = <<s, t>>
<1>1. <<>> \o <<>> = <<>>
  OBVIOUS
<1>2. ASSUME NEW s PROVE <<>> \o <<s>> = <<s>>
  <2>1. <<s>> \in Seq({s})
    OBVIOUS
  <2> QED BY <2>1
<1>3. ASSUME NEW s, NEW t PROVE <<s>> \o <<t>> = <<s, t>>
  <2> DEFINE a == <<s>>
             b == <<t>>
             c == <<s, t>>
  <2>1. a \in Seq({s, t}) /\ b \in Seq({s, t}) /\ c \in Seq({s, t})
    OBVIOUS
  <2>2. Len(a) = 1 /\ Len(b) = 1 /\ Len(c) = 2 /\ a[1] = s /\ b[1] = t /\ c[1] = s /\ c[2] = t
    OBVIOUS
  <2> HIDE DEF a, b, c
  <2>3. a \o b \in Seq({s, t}) /\ Len(a \o b) = 2 /\ (a \o b)[1] = s /\ (a \o b)[2] = t
    <3>1. a \o b \in Seq({s, t})
      BY <2>1
    <3>2. Len(a \o b) = Len(a) + Len(b)
      BY <2>1
    <3>3. \A i \in 1..(Len(a) + Len(b)) : (a \o b)[i] = IF i <= Len(a) THEN a[i] ELSE b[i - Len(a)]
      BY <2>1
    <3> QED BY <2>2, <3>1, <3>2, <3>3
  <2>4. a \o b = c
    BY <2>1, <2>2, <2>3
  <2> QED BY <2>4 DEF a, b, c
<1> QED BY <1>1, <1>2, <1>3

\* The statements are statements.
LEMMA StatementFacts ==
    ASSUME NEW m \in Names, NEW n \in Names, NEW type \in Types
    PROVE  /\ IsStatement(Statement("add", NoName, Ident[n], type))
           /\ IsStatement(Statement("drop", Ident[m], NoName, 0))
           /\ IsStatement(Statement("rename", Ident[m], Ident[n], 0))
           /\ IsStatement(Statement("modify", Ident[n], Ident[n], type))
<1>1. Ident[m] \in Idents(Names) /\ Ident[n] \in Idents(Names)
  BY DEF Idents
<1>2. IsStatement(Statement("add", NoName, Ident[n], type))
  <2> DEFINE s == Statement("add", NoName, Ident[n], type)
  <2>1. s \in Statements
    BY <1>1 DEF Statement, Statements
  <2>2. s.op = "add" /\ s.old = NoName /\ s.new = Ident[n] /\ s.type = type
    BY DEF Statement
  <2> HIDE DEF s
  <2>3. IsStatement(s)
    BY <1>1, <2>1, <2>2 DEF IsStatement, Leaves, Enters
  <2> QED BY <2>3 DEF s
<1>3. IsStatement(Statement("drop", Ident[m], NoName, 0))
  <2> DEFINE s == Statement("drop", Ident[m], NoName, 0)
  <2>1. s \in Statements
    BY <1>1 DEF Statement, Statements
  <2>2. s.op = "drop" /\ s.old = Ident[m] /\ s.new = NoName /\ s.type = 0
    BY DEF Statement
  <2> HIDE DEF s
  <2>3. IsStatement(s)
    BY <1>1, <2>1, <2>2 DEF IsStatement, Leaves, Enters
  <2> QED BY <2>3 DEF s
<1>4. IsStatement(Statement("rename", Ident[m], Ident[n], 0))
  <2> DEFINE s == Statement("rename", Ident[m], Ident[n], 0)
  <2>1. s \in Statements
    BY <1>1 DEF Statement, Statements
  <2>2. s.op = "rename" /\ s.old = Ident[m] /\ s.new = Ident[n] /\ s.type = 0
    BY DEF Statement
  <2> HIDE DEF s
  <2>3. IsStatement(s)
    BY <1>1, <2>1, <2>2 DEF IsStatement, Leaves, Enters
  <2> QED BY <2>3 DEF s
<1>5. IsStatement(Statement("modify", Ident[n], Ident[n], type))
  <2> DEFINE s == Statement("modify", Ident[n], Ident[n], type)
  <2>1. s \in Statements
    BY <1>1 DEF Statement, Statements
  <2>2. s.op = "modify" /\ s.old = Ident[n] /\ s.new = Ident[n] /\ s.type = type
    BY DEF Statement
  <2> HIDE DEF s
  <2>3. IsStatement(s)
    BY <1>1, <2>1, <2>2 DEF IsStatement, Leaves, Enters
  <2> QED BY <2>3 DEF s
<1> QED BY <1>2, <1>3, <1>4, <1>5

LEMMA NothingChanges ==
    ASSUME NEW cols, NEW spec, IsTable(cols), WellFormed(spec), Valid(cols, spec),
           \/ Leaves(spec) = {} /\ Enters(spec) = {}
           \/ /\ spec.op \in {"modify", "change"} /\ Ident[spec.old] = Ident[spec.new]
              /\ cols[spec.old] = spec.type
    PROVE  /\ Image(ColumnsAfter(cols, spec)) = Image(cols)
           /\ spec.op # "partition" => SameRows(cols, spec)
<1> DEFINE L == Leaves(spec)
           E == Enters(spec)
           e == IF spec.op = "rename" THEN cols[spec.old] ELSE spec.type
<1>0. /\ OneIdent(DOMAIN cols) /\ DOMAIN cols \subseteq Names
      /\ L \in SUBSET DOMAIN cols
  BY TableIdents DEF Valid, WellFormed
<1>1. OneIdent((DOMAIN cols \ L) \cup E)
  <2>1. IsTable(ColumnsAfter(cols, spec))
    BY AlterStep
  <2>2. DOMAIN ColumnsAfter(cols, spec) = (DOMAIN cols \ L) \cup E
    BY AfterIsFunction
  <2> QED BY <2>1, <2>2, TableIdents
<1>2. Idents(L) = Idents(E)
  BY IdentsOfOne DEF Leaves, Enters
<1>3. ASSUME NEW f, DOMAIN f = DOMAIN cols, NEW x, L # {} => x = f[spec.old]
      PROVE  Image(Replace(f, L, E, x)) = Image(f)
  <2>1. Image(Replace(f, L, E, x)) = Replace(Image(f), Idents(L), Idents(E), x)
    BY <1>0, <1>1, <1>3, ImageReplace
  <2>2. DOMAIN Image(f) = Idents(DOMAIN cols) /\ IsFunction(Image(f))
    BY <1>0, <1>3, ImageFacts DEF IsFunction
  <2>3. Idents(L) \subseteq Idents(DOMAIN cols)
    BY <1>0 DEF Idents
  <2>4. \A c \in Idents(E) : x = Image(f)[c]
    <3>1. CASE L = {}
      BY <1>2, <3>1, IdentsOfOne
    <3>2. CASE L # {}
      <4>1. L = {spec.old} /\ spec.old \in DOMAIN f
        BY <1>0, <1>3, <3>2 DEF Leaves
      <4>2. Image(f)[Ident[spec.old]] = f[spec.old]
        BY <1>0, <1>3, <4>1, ImageFacts
      <4>3. Idents(E) = {Ident[spec.old]}
        BY <1>2, <4>1, IdentsOfOne
      <4>4. x = f[spec.old]
        BY <1>3, <3>2
      <4> QED BY <4>2, <4>3, <4>4
    <3> QED BY <3>1, <3>2
  <2>5. Replace(Image(f), Idents(L), Idents(E), x) = Image(f)
    BY <1>2, <2>2, <2>3, <2>4 DEF Replace, IsFunction
  <2> QED BY <2>1, <2>5
<1>4. ColumnsAfter(cols, spec) = Replace(cols, L, E, e)
  BY AfterIsReplace DEF ColumnsAfter
<1>5. L # {} => e = cols[spec.old]
  BY DEF Leaves
<1>6. Image(ColumnsAfter(cols, spec)) = Image(cols)
  <2> HIDE DEF L, E, e
  <2> QED BY <1>3, <1>4, <1>5
<1>7. ASSUME spec.op # "partition", NEW r \in [DOMAIN cols -> Nat]
      PROVE  Image(RowAfter(r, spec)) = Image(r)
  <2> DEFINE x == IF spec.op = "add" THEN NoFill ELSE r[spec.old]
  <2>1. DOMAIN r = DOMAIN cols /\ r # NoRow
    BY <1>0, RowImage
  <2>2. RowAfter(r, spec) = Replace(r, L, E, x)
    BY <1>7, <2>1, AfterIsReplace DEF RowAfter, Empties, WellFormed
  <2>3. L # {} => x = r[spec.old]
    BY DEF Leaves
  <2> HIDE DEF L, E, x
  <2> QED BY <1>3, <2>1, <2>2, <2>3
<1> QED BY <1>6, <1>7 DEF SameRows

\* CHANGE COLUMN with a new name and a new type: a rename and a modification.
LEMMA TwoStatements ==
    ASSUME NEW prev, NEW next, NEW cols, NEW spec, LookUps(prev, next, cols, spec),
           spec.op = "change", Fold[spec.old] # Fold[spec.new]
    PROVE  LET s == Statement("rename", Ident[spec.old], Ident[spec.new], 0)
               t == Statement("modify", Ident[spec.new], Ident[spec.new], spec.type)
           IN  Translated(cols, spec, <<s, t>>)
<1> DEFINE s == Statement("rename", Ident[spec.old], Ident[spec.new], 0)
           t == Statement("modify", Ident[spec.new], Ident[spec.new], spec.type)
           one == Statement("rename", spec.old, spec.new, 0)
           two == Statement("modify", spec.new, spec.new, spec.type)
           mid == ColumnsAfter(cols, one)
<1>0. /\ IsTable(cols) /\ WellFormed(spec) /\ Valid(cols, spec)
      /\ Leaves(spec) = {spec.old} /\ Enters(spec) = {spec.new}
      /\ spec.old \in DOMAIN cols /\ spec.old \in Names /\ spec.new \in Names
      /\ spec.type \in Types
  BY DEF LookUps, WellFormed, Valid, Leaves, Enters
<1>1. /\ one.op = "rename" /\ one.old = spec.old /\ one.new = spec.new
      /\ two.op = "modify" /\ two.old = spec.new /\ two.new = spec.new /\ two.type = spec.type
      /\ s.op = "rename" /\ s.old = Ident[spec.old] /\ s.new = Ident[spec.new]
      /\ t.op = "modify" /\ t.old = Ident[spec.new] /\ t.new = Ident[spec.new]
      /\ t.type = spec.type
  BY DEF Statement
<1>2. IsStatement(s) /\ IsStatement(t)
  BY <1>0, StatementFacts
<1> HIDE DEF s, t, one, two
<1>3. /\ Leaves(one) = {spec.old} /\ Enters(one) = {spec.new}
      /\ Leaves(two) = {spec.new} /\ Enters(two) = {spec.new}
      /\ Leaves(s) = {Ident[spec.old]} /\ Enters(s) = {Ident[spec.new]}
      /\ Leaves(t) = {Ident[spec.new]} /\ Enters(t) = {Ident[spec.new]}
  BY <1>1 DEF Leaves, Enters
<1>4. WellFormed(one) /\ Valid(cols, one) /\ WellFormed(two)
  BY <1>0, <1>1, <1>3 DEF WellFormed, Valid
<1>5. IsTable(mid)
  BY <1>0, <1>4, AlterStep
<1>6. mid = Replace(cols, {spec.old}, {spec.new}, cols[spec.old])
  BY <1>1, <1>3, AfterIsReplace DEF ColumnsAfter
<1>7. /\ DOMAIN mid = (DOMAIN cols \ {spec.old}) \cup {spec.new}
      /\ mid[spec.new] = cols[spec.old]
  BY <1>6 DEF Replace
<1>8. Valid(mid, two)
  BY <1>3, <1>5, <1>7 DEF Valid, IsTable
<1>9. SameEffect(cols, one, s)
  BY <1>0, <1>1, <1>2, <1>3, <1>4, EffectOfOne, IdentsOfOne DEF Empties
<1>10. SameEffect(mid, two, t)
  <2> HIDE DEF mid
  <2> QED BY <1>1, <1>2, <1>3, <1>4, <1>5, <1>8, EffectOfOne, IdentsOfOne DEF Empties
<1>11. ColumnsAfter(mid, two) = ColumnsAfter(cols, spec)
  <2>1. ColumnsAfter(mid, two) = Replace(mid, {spec.new}, {spec.new}, spec.type)
    BY <1>1, <1>3, AfterIsReplace DEF ColumnsAfter
  <2>2. ColumnsAfter(cols, spec) = Replace(cols, {spec.old}, {spec.new}, spec.type)
    BY <1>0, AfterIsReplace DEF ColumnsAfter
  <2> QED BY <1>6, <2>1, <2>2 DEF Replace
<1>12. ASSUME NEW r \in [DOMAIN cols -> Nat]
       PROVE  /\ RowAfter(r, one) \in [DOMAIN mid -> Nat]
              /\ RowAfter(RowAfter(r, one), two) = RowAfter(r, spec)
  <2>1. DOMAIN r = DOMAIN cols /\ r # NoRow
    BY <1>0, TableIdents, RowImage
  <2>2. RowAfter(r, one) = Replace(r, {spec.old}, {spec.new}, r[spec.old])
    BY <1>1, <1>3, <2>1, AfterIsReplace DEF RowAfter, Empties
  <2>3. RowAfter(r, one) \in [DOMAIN mid -> Nat]
    BY <1>0, <1>7, <2>1, <2>2 DEF Replace
  <2>4. RowAfter(r, one) # NoRow
    BY <1>5, <2>3, TableIdents, RowImage
  <2>5. RowAfter(RowAfter(r, one), two) =
            Replace(RowAfter(r, one), {spec.new}, {spec.new}, RowAfter(r, one)[spec.new])
    BY <1>1, <1>3, <2>4, AfterIsReplace DEF RowAfter, Empties
  <2>6. RowAfter(r, spec) = Replace(r, {spec.old}, {spec.new}, r[spec.old])
    BY <1>0, <2>1, AfterIsReplace DEF RowAfter, Empties
  <2> QED BY <2>2, <2>3, <2>5, <2>6 DEF Replace
<1>13. Touched(one) \subseteq Touched(spec) /\ Touched(two) \subseteq Touched(spec)
  BY <1>0, <1>3 DEF Touched
<1>14. s.op = "rename" /\ s.old # s.new /\ t.op = "modify" /\ t.new = s.new
  BY <1>0, <1>1, NamesAssumption DEF NamesAssumption
<1>15. Translated(cols, spec, <<s, t>>)
  BY <1>0, <1>3, <1>4, <1>5, <1>9, <1>10, <1>11, <1>12, <1>13, <1>14 DEF Translated
<1> QED BY <1>15 DEF s, t

(***************************************************************************)
(* The statements of one spec do to the image of the table what the spec   *)
(* does to the table (genAlterTableDDLs).                                  *)
(***************************************************************************)
LEMMA SpecTranslated ==
    ASSUME NEW prev, NEW next, NEW cols, NEW spec, LookUps(prev, next, cols, spec),
           CaseKept(spec)
    PROVE  Translated(cols, spec, StatementsOf(prev, next, spec))
<1> DEFINE B == StatementsOf(prev, next, spec)
<1>0. /\ IsTable(cols) /\ WellFormed(spec) /\ Valid(cols, spec)
      /\ Leaves(spec) # {} => spec.old \in DOMAIN cols /\ spec.old \in Names
      /\ Enters(spec) # {} => spec.new \in Names
      /\ spec.op \in {"add", "modify", "change"} => spec.type \in Types
  BY Found DEF LookUps, WellFormed, Enters, Leaves
<1>1. ASSUME NEW s, B = <<s>>, IsStatement(s), s.op = "add" <=> spec.op = "add",
             spec.op \notin Empties,
             Leaves(s) = Idents(Leaves(spec)), Enters(s) = Idents(Enters(spec)),
             Leaves(s) # {} => s.old = Ident[spec.old],
             Enters(spec) # {} =>
                (IF spec.op = "rename" THEN cols[spec.old] ELSE spec.type) =
                (IF s.op = "rename" THEN cols[spec.old] ELSE s.type)
      PROVE  Translated(cols, spec, B)
  <2>1. SameEffect(cols, spec, s)
    BY <1>0, <1>1, EffectOfOne
  <2> QED BY <1>1, <2>1 DEF Translated
<1>2. CASE spec.op = "add"
  <2> DEFINE s == Statement("add", NoName, Ident[spec.new], spec.type)
  <2>1. Leaves(spec) = {} /\ Enters(spec) = {spec.new}
    BY <1>2 DEF Leaves, Enters
  <2>2. B = <<s>>
    BY <1>2, <2>1, Found DEF StatementsOf, AddColumn
  <2>3. IsStatement(s)
    BY <1>0, <1>2, <2>1, StatementFacts
  <2>4. s.op = "add" /\ s.new = Ident[spec.new] /\ s.type = spec.type
    BY DEF Statement
  <2> HIDE DEF s, B
  <2>5. Leaves(s) = {} /\ Enters(s) = {Ident[spec.new]}
    BY <2>4 DEF Leaves, Enters
  <2> QED BY <1>1, <1>2, <2>1, <2>2, <2>3, <2>4, <2>5, IdentsOfOne DEF Empties, B
<1>3. CASE spec.op = "drop"
  <2> DEFINE s == Statement("drop", Ident[spec.old], NoName, 0)
  <2>1. Leaves(spec) = {spec.old} /\ Enters(spec) = {}
    BY <1>3 DEF Leaves, Enters
  <2>2. B = <<s>>
    BY <1>3 DEF StatementsOf, DropColumn
  <2>3. IsStatement(s)
    <3>1. spec.old \in Names
      BY <1>0, <2>1
    <3>2. cols[spec.old] \in Types
      BY <1>0, <2>1, Found
    <3> QED BY <3>1, <3>2, StatementFacts
  <2>4. s.op = "drop" /\ s.old = Ident[spec.old]
    BY DEF Statement
  <2> HIDE DEF s, B
  <2>5. Leaves(s) = {Ident[spec.old]} /\ Enters(s) = {}
    BY <2>4 DEF Leaves, Enters
  <2> QED BY <1>1, <1>3, <2>1, <2>2, <2>3, <2>4, <2>5, IdentsOfOne DEF Empties, B
<1>4. CASE spec.op = "rename"
  <2> DEFINE s == Statement("rename", Ident[spec.old], Ident[spec.new], 0)
  <2>1. Leaves(spec) = {spec.old} /\ Enters(spec) = {spec.new}
    BY <1>4 DEF Leaves, Enters
  <2>2. B = <<s>>
    BY <1>4 DEF StatementsOf, RenameColumn
  <2>3. IsStatement(s)
    <3>1. spec.old \in Names /\ spec.new \in Names
      BY <1>0, <2>1
    <3>2. cols[spec.old] \in Types
      BY <1>0, <2>1, Found
    <3> QED BY <3>1, <3>2, StatementFacts
  <2>4. s.op = "rename" /\ s.old = Ident[spec.old] /\ s.new = Ident[spec.new]
    BY DEF Statement
  <2> HIDE DEF s, B
  <2>5. Leaves(s) = {Ident[spec.old]} /\ Enters(s) = {Ident[spec.new]}
    BY <2>4 DEF Leaves, Enters
  <2> QED BY <1>1, <1>4, <2>1, <2>2, <2>3, <2>4, <2>5, IdentsOfOne DEF Empties, B
<1>5. CASE spec.op \in {"modify", "change"}
  <2> DEFINE s == Statement("modify", Ident[spec.new], Ident[spec.new], spec.type)
             t == Statement("rename", Ident[spec.old], Ident[spec.new], 0)
             M == IF cols[spec.old] = spec.type THEN <<>> ELSE <<s>>
             N == IF Fold[spec.old] # Fold[spec.new] THEN <<t>> ELSE <<>>
  <2>1. Leaves(spec) = {spec.old} /\ Enters(spec) = {spec.new}
    BY <1>5 DEF Leaves, Enters
  <2>2. IsStatement(s) /\ IsStatement(t)
    <3>1. spec.old \in Names /\ spec.new \in Names /\ spec.type \in Types
      BY <1>0, <1>5, <2>1
    <3> QED BY <3>1, StatementFacts
  <2>3. /\ s.op = "modify" /\ s.old = Ident[spec.new] /\ s.new = Ident[spec.new]
        /\ s.type = spec.type
        /\ t.op = "rename" /\ t.old = Ident[spec.old] /\ t.new = Ident[spec.new]
    BY DEF Statement
  <2>4. /\ ColumnInMeta(prev, spec.old) = spec.old /\ ColumnInMeta(next, spec.new) = spec.new
        /\ prev[spec.old] = cols[spec.old] /\ next[spec.new] = spec.type
    BY <1>5, <2>1, Found
  <2>5. B = IF spec.op = "modify" THEN M ELSE N \o M
    BY <1>5, <2>4 DEF StatementsOf, ModifyColumn, ChangedColumn, RenameColumn
  <2> HIDE DEF s, t, B
  <2>6. /\ Leaves(s) = {Ident[spec.new]} /\ Enters(s) = {Ident[spec.new]}
        /\ Leaves(t) = {Ident[spec.old]} /\ Enters(t) = {Ident[spec.new]}
    BY <2>3 DEF Leaves, Enters
  <2>7. CASE spec.op = "modify" \/ Fold[spec.old] = Fold[spec.new]
    <3>0. Ident[spec.old] = Ident[spec.new]
      BY <1>0, <1>5, <2>7 DEF CaseKept, WellFormed
    <3>4. B = M
      <4>1. CASE spec.op = "modify"
        BY <2>5, <4>1
      <4>2. CASE spec.op # "modify"
        <5>1. N = <<>> /\ B = N \o M
          BY <2>5, <2>7, <4>2
        <5>2. <<>> \o M = M
          <6>1. M = <<>> \/ M = <<s>>
            OBVIOUS
          <6> HIDE DEF M
          <6> QED BY <6>1, OneThenMore
        <5> HIDE DEF M, N
        <5> QED BY <5>1, <5>2
      <4> QED BY <4>1, <4>2
    <3>1. Ident[spec.old] = Ident[spec.new] /\ B = M
      BY <3>0, <3>4
    <3>2. CASE cols[spec.old] = spec.type
      <4>1. B = <<>>
        BY <3>1, <3>2
      <4>2. /\ Image(ColumnsAfter(cols, spec)) = Image(cols)
            /\ spec.op # "partition" => SameRows(cols, spec)
        BY <1>0, <1>5, <3>1, <3>2, NothingChanges
      <4> QED BY <4>1, <4>2 DEF Translated, B
    <3>3. CASE cols[spec.old] # spec.type
      <4>1. B = <<s>>
        BY <3>1, <3>3
      <4> QED BY <1>1, <1>5, <2>1, <2>2, <2>3, <2>6, <3>1, <4>1, IdentsOfOne DEF Empties, B
    <3> QED BY <3>2, <3>3
  <2>8. CASE spec.op = "change" /\ Fold[spec.old] # Fold[spec.new]
    <3>1. B = <<t>> \o M
      BY <2>5, <2>8
    <3>2. CASE cols[spec.old] = spec.type
      <4>1. B = <<t>>
        BY <3>1, <3>2
      <4> QED BY <1>1, <2>1, <2>2, <2>3, <2>6, <2>8, <3>2, <4>1, IdentsOfOne DEF Empties, B
    <3>3. CASE cols[spec.old] # spec.type
      <4>0. <<t>> \o <<s>> = <<t, s>>
        BY OneThenMore
      <4>1. B = <<t, s>>
        BY <3>1, <3>3, <4>0
      <4>2. Translated(cols, spec, <<t, s>>)
        BY <2>8, TwoStatements DEF s, t
      <4> QED BY <4>1, <4>2 DEF B
    <3> QED BY <3>2, <3>3
  <2> QED BY <1>5, <2>7, <2>8
<1>6. CASE spec.op \notin {"add", "drop", "rename", "modify", "change"}
  <2>1. Leaves(spec) = {} /\ Enters(spec) = {}
    BY <1>6 DEF Leaves, Enters
  <2>2. B = <<>>
    BY <1>6 DEF StatementsOf
  <2>3. /\ Image(ColumnsAfter(cols, spec)) = Image(cols)
        /\ spec.op # "partition" => SameRows(cols, spec)
    BY <1>0, <2>1, NothingChanges
  <2> QED BY <2>2, <2>3 DEF Translated
<1> QED BY <1>2, <1>3, <1>4, <1>5, <1>6

----------------------------------------------------------------------------
(***************************************************************************)
(* Statements one after the other.                                         *)
(***************************************************************************)
\* The identifiers of a statement are those of names that a spec touches.
Of(t, spec) ==
    \A c \in Leaves(t) \cup Enters(t) : \E n \in Names : c = Ident[n] /\ Fold[n] \in Touched(spec)

\* The columns after the first j statements.
AfterExecuting(first, T, j) == ColumnsAfterAll(first, SubSeq(T, 1, j))

AreStatements(T) == T \in Seq(Statements) /\ \A l \in 1..Len(T) : IsStatement(T[l])

Orderly(first, T) ==
    /\ \A j \in 0..Len(T) : \A l \in 1..j : Settled(T[l], AfterExecuting(first, T, j))
    /\ \A j \in 0..(Len(T) - 1) : Legal(TRUE, AfterExecuting(first, T, j), T[j + 1])
    /\ \A l \in 1..Len(T) : T[l].op \in {"drop", "rename"} => T[l].old \in DOMAIN first

LEMMA OneMoreStatement ==
    ASSUME NEW V, NEW T \in Seq(V), NEW s \in V
    PROVE  LET U == T \o <<s>>
           IN  /\ U \in Seq(V) /\ Len(U) = Len(T) + 1 /\ U[Len(T) + 1] = s
               /\ \A l \in 1..Len(T) : U[l] = T[l]
               /\ \A j \in 0..Len(T) : SubSeq(U, 1, j) = SubSeq(T, 1, j)
               /\ \A x : ColumnsAfterAll(x, U) = ColumnsAfter(ColumnsAfterAll(x, T), s)
               /\ \A x : RowAfterAll(x, U) = RowAfter(RowAfterAll(x, T), s)
<1> DEFINE U == T \o <<s>>
           n == Len(T)
<1>1. n \in Nat /\ DOMAIN T = 1..n
  OBVIOUS
<1>2. <<s>> \in Seq(V) /\ Len(<<s>>) = 1 /\ <<s>>[1] = s
  OBVIOUS
<1>3. U \in Seq(V) /\ Len(U) = n + 1
  BY <1>2, ConcatProperties
<1>4. \A i \in 1..(n + 1) : U[i] = IF i <= n THEN T[i] ELSE <<s>>[i - n]
  BY <1>2, ConcatProperties
<1> HIDE DEF U
<1>5. U[n + 1] = s /\ \A l \in 1..n : U[l] = T[l]
  <2>1. (n + 1) - n = 1 /\ n + 1 \in 1..(n + 1) /\ ~(n + 1 <= n)
    BY <1>1
  <2>2. \A l \in 1..n : l \in 1..(n + 1) /\ l <= n
    BY <1>1
  <2> QED BY <1>2, <1>4, <2>1, <2>2
<1>6. ASSUME NEW j \in 0..n PROVE SubSeq(U, 1, j) = SubSeq(T, 1, j)
  <2>1. /\ SubSeq(U, 1, j) = [i \in 1..j |-> U[i]]
        /\ SubSeq(T, 1, j) = [i \in 1..j |-> T[i]]
    BY <1>1, <1>3
  <2>2. \A i \in 1..j : U[i] = T[i]
    BY <1>1, <1>5
  <2> QED BY <2>1, <2>2
<1>7. DOMAIN U = 1..(n + 1)
  BY <1>3
<1>8. \A x : ColumnsAfterAll(x, U) = ColumnsAfter(ColumnsAfterAll(x, T), U[n + 1])
  BY <1>1, <1>5, <1>7, OneMoreColumn
<1>9. \A x : RowAfterAll(x, U) = RowAfter(RowAfterAll(x, T), U[n + 1])
  BY <1>1, <1>5, <1>7, OneMoreRow
<1> QED BY <1>3, <1>5, <1>6, <1>8, <1>9 DEF U

\* A statement does not unsettle one that names none of its identifiers.
LEMMA StaysSettled ==
    ASSUME NEW cols, NEW s, NEW t, IsStatement(t), Settled(t, cols),
           (Leaves(s) \cup Enters(s)) \cap (Leaves(t) \cup Enters(t)) = {}
    PROVE  Settled(t, ColumnsAfter(cols, s))
<1> DEFINE new == ColumnsAfter(cols, s)
<1>1. \A c \in Leaves(t) \cup Enters(t) :
          (c \in DOMAIN new <=> c \in DOMAIN cols) /\ (c \in DOMAIN new => new[c] = cols[c])
  BY DEF ColumnsAfter, After
<1> HIDE DEF new
<1>2. Settled(t, new)
  BY <1>1 DEF Settled, IsStatement, Leaves, Enters
<1> QED BY <1>2 DEF new

LEMMA Extend ==
    ASSUME NEW first, NEW T, AreStatements(T), Orderly(first, T),
           NEW s, IsStatement(s), Legal(TRUE, ColumnsAfterAll(first, T), s),
           s.op \in {"drop", "rename"} => s.old \in DOMAIN first,
           \A l \in 1..Len(T) : Settled(T[l], ColumnsAfter(ColumnsAfterAll(first, T), s))
    PROVE  AreStatements(T \o <<s>>) /\ Orderly(first, T \o <<s>>)
<1> DEFINE U == T \o <<s>>
           n == Len(T)
           S(j) == AfterExecuting(first, T, j)
           R(j) == AfterExecuting(first, U, j)
<1>0. T \in Seq(Statements) /\ s \in Statements
  BY DEF AreStatements, IsStatement
<1>1. /\ U \in Seq(Statements) /\ Len(U) = n + 1 /\ U[n + 1] = s
      /\ \A l \in 1..n : U[l] = T[l]
      /\ \A j \in 0..n : SubSeq(U, 1, j) = SubSeq(T, 1, j)
      /\ \A x : ColumnsAfterAll(x, U) = ColumnsAfter(ColumnsAfterAll(x, T), s)
  BY <1>0, OneMoreStatement
<1>2. n \in Nat /\ SubSeq(T, 1, n) = T
  BY <1>0
<1>3. SubSeq(U, 1, n + 1) = U
  BY <1>1, <1>2
<1> HIDE DEF U
<1>4. /\ \A j \in 0..n : R(j) = S(j)
      /\ S(n) = ColumnsAfterAll(first, T)
      /\ R(n + 1) = ColumnsAfter(ColumnsAfterAll(first, T), s)
  BY <1>1, <1>2, <1>3 DEF AfterExecuting
<1> HIDE DEF R, S
<1>5. \A j \in 0..n : \A l \in 1..j : Settled(T[l], S(j))
  BY DEF Orderly, S
<1>6. \A j \in 0..(n - 1) : Legal(TRUE, S(j), T[j + 1])
  BY DEF Orderly, S
<1>7. ASSUME NEW j \in 0..(n + 1), NEW l \in 1..j PROVE Settled(U[l], R(j))
  <2>1. CASE j <= n
    <3>1. j \in 0..n /\ l \in 1..n
      BY <1>2, <2>1
    <3> QED BY <1>1, <1>4, <1>5, <3>1
  <2>2. CASE j = n + 1 /\ l = n + 1
    BY <1>1, <1>4, <2>2, SettledAfter
  <2>3. CASE j = n + 1 /\ l <= n
    <3>1. l \in 1..n
      BY <1>2, <2>3
    <3> QED BY <1>1, <1>4, <2>3, <3>1
  <2> QED BY <1>2, <2>1, <2>2, <2>3
<1>8. ASSUME NEW j \in 0..n PROVE Legal(TRUE, R(j), U[j + 1])
  <2>1. CASE j = n
    BY <1>1, <1>4, <2>1
  <2>2. CASE j # n
    <3>1. j \in 0..(n - 1) /\ j + 1 \in 1..n
      BY <1>2, <2>2
    <3> QED BY <1>1, <1>4, <1>6, <3>1
  <2> QED BY <2>1, <2>2
<1>9. ASSUME NEW l \in 1..(n + 1), U[l].op \in {"drop", "rename"} PROVE U[l].old \in DOMAIN first
  <2>1. CASE l = n + 1
    BY <1>1, <1>9, <2>1
  <2>2. CASE l # n + 1
    <3>1. l \in 1..n
      BY <1>2, <2>2
    <3> QED BY <1>1, <1>9, <3>1 DEF Orderly
  <2> QED BY <2>1, <2>2
<1>10. \A l \in 1..(n + 1) : IsStatement(U[l])
  <2> SUFFICES ASSUME NEW l \in 1..(n + 1) PROVE IsStatement(U[l])
    OBVIOUS
  <2>1. l = n + 1 \/ l \in 1..n
    BY <1>2
  <2> QED BY <1>1, <2>1 DEF AreStatements
<1>11. (n + 1) - 1 = n
  BY <1>2
<1>12. AreStatements(U)
  BY <1>1, <1>10 DEF AreStatements
<1>13. Orderly(first, U)
  BY <1>1, <1>7, <1>8, <1>9, <1>11 DEF Orderly, R
<1> QED BY <1>12, <1>13 DEF U

\* Of different statements of one ALTER TABLE the identifiers are different.
LEMMA Apart ==
    ASSUME NEW specs \in Alters, NEW i \in 1..Len(specs), NEW p \in 1..Len(specs), i # p,
           NEW s, NEW t, Of(s, specs[i]), Of(t, specs[p])
    PROVE  (Leaves(s) \cup Enters(s)) \cap (Leaves(t) \cup Enters(t)) = {}
<1> SUFFICES ASSUME NEW c \in Leaves(s) \cup Enters(s), c \in Leaves(t) \cup Enters(t)
             PROVE  FALSE
  OBVIOUS
<1>1. PICK n \in Names : c = Ident[n] /\ Fold[n] \in Touched(specs[i])
  BY DEF Of
<1>2. PICK m \in Names : c = Ident[m] /\ Fold[m] \in Touched(specs[p])
  BY DEF Of
<1>3. Fold[n] = Fold[m]
  BY <1>1, <1>2, NamesAssumption DEF NamesAssumption
<1>4. Touched(specs[i]) \cap Touched(specs[p]) = {}
  BY AlterFacts
<1> QED BY <1>1, <1>2, <1>3, <1>4

LEMMA SpecLookUps ==
    ASSUME NEW cols, NEW specs, ValidAlter(cols, specs), NEW i \in 0..(Len(specs) - 1)
    PROVE  LookUps(cols, ColumnsAfterAll(cols, specs), AfterSpecs(cols, specs, i), specs[i + 1])
<1> DEFINE next == ColumnsAfterAll(cols, specs)
           C(j) == AfterSpecs(cols, specs, j)
<1>0. specs \in Alters /\ IsTable(cols)
  BY DEF ValidAlter
<1>1. /\ Len(specs) \in Nat
      /\ \A j \in 1..Len(specs) : WellFormed(specs[j])
      /\ \A j, l \in 1..Len(specs) : j # l => Touched(specs[j]) \cap Touched(specs[l]) = {}
  BY <1>0, AlterFacts
<1>2. /\ i \in 0..Len(specs) /\ i + 1 \in 0..Len(specs) /\ i + 1 \in 1..Len(specs)
      /\ i + 1 \in (i + 1)..Len(specs) /\ Len(specs) \in 0..Len(specs)
  BY <1>1
<1>3. C(i + 1) = ColumnsAfter(C(i), specs[i + 1]) /\ C(Len(specs)) = next
  BY <1>0, AfterSpecsStep
<1>4. IsTable(C(i)) /\ Valid(C(i), specs[i + 1])
  BY <1>2, Untouched
<1>5. IsTable(next)
  BY <1>2, <1>3, Untouched
<1>6. ASSUME NEW n \in Names, Fold[n] \in Touched(specs[i + 1])
      PROVE  Agree(cols, C(i), n) /\ Agree(next, C(i + 1), n)
  <2>1. \A l \in 1..i : Fold[n] \notin Touched(specs[l])
    <3> TAKE l \in 1..i
    <3>1. l \in 1..Len(specs) /\ l # i + 1
      BY <1>1
    <3> QED BY <1>1, <1>2, <1>6, <3>1
  <2>2. \A l \in ((i + 1) + 1)..Len(specs) : Fold[n] \notin Touched(specs[l])
    <3> TAKE l \in ((i + 1) + 1)..Len(specs)
    <3>1. l \in 1..Len(specs) /\ l # i + 1
      BY <1>1
    <3> QED BY <1>1, <1>2, <1>6, <3>1
  <2>3. Agree(C(i), cols, n)
    BY <1>2, <2>1, Untouched
  <2>4. Agree(next, C(i + 1), n)
    BY <1>2, <2>2, LaterUntouched
  <2> QED BY <2>3, <2>4 DEF Agree
<1> HIDE DEF C, next
<1>7. LookUps(cols, next, C(i), specs[i + 1])
  BY <1>0, <1>1, <1>2, <1>3, <1>4, <1>5, <1>6 DEF LookUps
<1> QED BY <1>7 DEF C, next

----------------------------------------------------------------------------
(***************************************************************************)
(* ... that follow the specs.                                              *)
(***************************************************************************)
LEMMA RowType ==
    ASSUME NEW cols, NEW spec, Valid(cols, spec), spec.op \notin Empties,
           NEW r \in [DOMAIN cols -> Nat], r # NoRow
    PROVE  RowAfter(r, spec) \in [DOMAIN ColumnsAfter(cols, spec) -> Nat]
<1>1. DOMAIN ColumnsAfter(cols, spec) = (DOMAIN cols \ Leaves(spec)) \cup Enters(spec)
  BY AfterIsFunction
<1>2. Enters(spec) # {} /\ spec.op # "add" => r[spec.old] \in Nat
  BY DEF Valid, Leaves, Enters
<1> QED BY <1>1, <1>2 DEF RowAfter, After, NoFill

SameIdents(s, spec) ==
    Leaves(s) = Idents(Leaves(spec)) /\ Enters(s) = Idents(Enters(spec))

LEMMA OfSpec ==
    ASSUME NEW s, NEW one, NEW spec, SameIdents(s, one), WellFormed(one),
           Touched(one) \subseteq Touched(spec)
    PROVE  Of(s, spec)
<1> SUFFICES ASSUME NEW c \in Leaves(s) \cup Enters(s)
             PROVE  \E n \in Names : c = Ident[n] /\ Fold[n] \in Touched(spec)
  BY DEF Of
<1>1. PICK n \in Leaves(one) \cup Enters(one) : c = Ident[n]
  BY DEF SameIdents, Idents
<1>2. n \in Names /\ Fold[n] \in Touched(one)
  BY DEF WellFormed, Touched
<1> QED BY <1>1, <1>2

\* The statements T have come to cols, a table, from first, the image of one.
Come(first, T, cols) ==
    /\ AreStatements(T) /\ Orderly(first, T)
    /\ ColumnsAfterAll(first, T) = Image(cols)

RowsCome(T, U, cols, spec) ==
    \A r \in [DOMAIN cols -> Nat] : \A x :
        RowAfterAll(x, T) = Image(r) => RowAfterAll(x, U) = Image(RowAfter(r, spec))

LEMMA OneMoreComes ==
    ASSUME NEW first, NEW T, NEW cols, Come(first, T, cols),
           NEW spec, NEW s, SameEffect(cols, spec, s),
           s.op \in {"drop", "rename"} => s.old \in DOMAIN first,
           \A l \in 1..Len(T) : Settled(T[l], ColumnsAfter(Image(cols), s))
    PROVE  /\ Come(first, T \o <<s>>, ColumnsAfter(cols, spec))
           /\ Len(T \o <<s>>) = Len(T) + 1 /\ (T \o <<s>>)[Len(T) + 1] = s
           /\ \A l \in 1..Len(T) : (T \o <<s>>)[l] = T[l]
           /\ RowsCome(T, T \o <<s>>, cols, spec)
<1>0. IsStatement(s) /\ T \in Seq(Statements) /\ s \in Statements
  BY DEF SameEffect, Come, AreStatements, IsStatement
<1>1. AreStatements(T \o <<s>>) /\ Orderly(first, T \o <<s>>)
  BY <1>0, Extend DEF SameEffect, Come
<1> DEFINE U == T \o <<s>>
<1>2. /\ Len(U) = Len(T) + 1 /\ U[Len(T) + 1] = s
      /\ \A l \in 1..Len(T) : U[l] = T[l]
      /\ \A x : ColumnsAfterAll(x, U) = ColumnsAfter(ColumnsAfterAll(x, T), s)
      /\ \A x : RowAfterAll(x, U) = RowAfter(RowAfterAll(x, T), s)
  BY <1>0, OneMoreStatement
<1> HIDE DEF U
<1>3. ColumnsAfterAll(first, U) = Image(ColumnsAfter(cols, spec))
  BY <1>2 DEF Come, SameEffect
<1>4. RowsCome(T, U, cols, spec)
  BY <1>2 DEF RowsCome, SameEffect
<1> QED BY <1>1, <1>2, <1>3, <1>4 DEF Come, U

\* ... and with the statements of one spec they come to what is after it.
LEMMA BlockComes ==
    ASSUME NEW first, NEW T, NEW cols, Come(first, T, cols),
           NEW spec, WellFormed(spec), NEW B, Translated(cols, spec, B),
           Idents(Leaves(spec)) \subseteq DOMAIN first,
           \A l \in 1..Len(T) : \A s : Of(s, spec) =>
               (Leaves(s) \cup Enters(s)) \cap (Leaves(T[l]) \cup Enters(T[l])) = {}
    PROVE  LET U == T \o B
           IN  /\ Come(first, U, ColumnsAfter(cols, spec))
               /\ \A l \in 1..Len(U) : (l \in 1..Len(T) /\ U[l] = T[l]) \/ Of(U[l], spec)
               /\ spec.op # "partition" => RowsCome(T, U, cols, spec)
<1> DEFINE Q(U, new, one) ==
               /\ Come(first, U, new)
               /\ \A l \in 1..Len(U) : (l \in 1..Len(T) /\ U[l] = T[l]) \/ Of(U[l], spec)
               /\ one.op # "partition" => RowsCome(T, U, cols, one)
<1> SUFFICES Q(T \o B, ColumnsAfter(cols, spec), spec)
  OBVIOUS
<1>0. /\ T \in Seq(Statements) /\ Len(T) \in Nat
      /\ ColumnsAfterAll(first, T) = Image(cols)
      /\ \A l \in 1..Len(T) : IsStatement(T[l])
      /\ \A l \in 1..Len(T) : Settled(T[l], Image(cols))
  <2>1. T \in Seq(Statements) /\ Len(T) \in Nat /\ ColumnsAfterAll(first, T) = Image(cols)
    BY DEF Come, AreStatements
  <2>2. SubSeq(T, 1, Len(T)) = T /\ Len(T) \in 0..Len(T)
    BY <2>1
  <2> QED BY <2>1, <2>2 DEF Come, AreStatements, Orderly, AfterExecuting
<1>1. CASE B = <<>> /\ Image(ColumnsAfter(cols, spec)) = Image(cols)
           /\ (spec.op # "partition" => SameRows(cols, spec))
  <2>1. T \o B = T
    BY <1>0, <1>1
  <2>2. Come(first, T, ColumnsAfter(cols, spec))
    BY <1>1 DEF Come
  <2>3. spec.op # "partition" => RowsCome(T, T, cols, spec)
    BY <1>1 DEF RowsCome, SameRows
  <2> QED BY <2>1, <2>2, <2>3
<1>2. ASSUME NEW s, NEW one, SameEffect(cols, one, s), WellFormed(one),
             Touched(one) \subseteq Touched(spec), Leaves(one) = Leaves(spec)
      PROVE  Q(T \o <<s>>, ColumnsAfter(cols, one), one) /\ Len(T \o <<s>>) = Len(T) + 1
             /\ (T \o <<s>>)[Len(T) + 1] = s /\ RowsCome(T, T \o <<s>>, cols, one)
             /\ \A l \in 1..Len(T) : (T \o <<s>>)[l] = T[l]
  <2>1. Of(s, spec) /\ Leaves(s) \subseteq DOMAIN first
    BY <1>2, OfSpec DEF SameEffect, SameIdents
  <2>2. s.op \in {"drop", "rename"} => s.old \in DOMAIN first
    BY <2>1 DEF Leaves
  <2>3. \A l \in 1..Len(T) : Settled(T[l], ColumnsAfter(Image(cols), s))
    BY <1>0, <2>1, StaysSettled
  <2> DEFINE U == T \o <<s>>
  <2>4. /\ Come(first, U, ColumnsAfter(cols, one))
        /\ Len(U) = Len(T) + 1 /\ U[Len(T) + 1] = s
        /\ \A l \in 1..Len(T) : U[l] = T[l]
        /\ RowsCome(T, U, cols, one)
    BY <1>2, <2>2, <2>3, OneMoreComes
  <2> HIDE DEF U
  <2>5. \A l \in 1..Len(U) : (l \in 1..Len(T) /\ U[l] = T[l]) \/ Of(U[l], spec)
    <3> TAKE l \in 1..Len(U)
    <3>1. l \in 1..Len(T) \/ l = Len(T) + 1
      BY <1>0, <2>4
    <3> QED BY <2>1, <2>4, <3>1
  <2> QED BY <2>4, <2>5 DEF U
<1>3. CASE \E s : B = <<s>> /\ SameEffect(cols, spec, s)
  <2>1. PICK s : B = <<s>> /\ SameEffect(cols, spec, s)
    BY <1>3
  <2> QED BY <1>2, <2>1
<1>4. ASSUME NEW s, NEW t, NEW one, NEW two,
             B = <<s, t>>, SameEffect(cols, one, s),
             SameEffect(ColumnsAfter(cols, one), two, t),
             ColumnsAfter(ColumnsAfter(cols, one), two) = ColumnsAfter(cols, spec),
             \A r \in [DOMAIN cols -> Nat] :
                /\ RowAfter(r, one) \in [DOMAIN ColumnsAfter(cols, one) -> Nat]
                /\ RowAfter(RowAfter(r, one), two) = RowAfter(r, spec),
             Touched(one) \subseteq Touched(spec), Touched(two) \subseteq Touched(spec),
             WellFormed(one), WellFormed(two), Leaves(one) = Leaves(spec),
             s.op = "rename", s.old # s.new, t.op = "modify", t.new = s.new
      PROVE  Q(T \o B, ColumnsAfter(cols, spec), spec)
  <2> DEFINE U == T \o <<s>>
             W == U \o <<t>>
             mid == ColumnsAfter(cols, one)
  <2>1. /\ Come(first, U, mid) /\ Len(U) = Len(T) + 1 /\ U[Len(T) + 1] = s
        /\ \A l \in 1..Len(U) : (l \in 1..Len(T) /\ U[l] = T[l]) \/ Of(U[l], spec)
        /\ RowsCome(T, U, cols, one)
        /\ \A l \in 1..Len(T) : U[l] = T[l]
    BY <1>2, <1>4
  <2>2. T \o B = W
    <3>1. B = <<s>> \o <<t>>
      BY <1>4, OneThenMore
    <3>2. <<s>> \in Seq(Statements) /\ <<t>> \in Seq(Statements)
      BY <1>4 DEF SameEffect, IsStatement
    <3> QED BY <1>0, <3>1, <3>2, ConcatAssociative
  <2> HIDE DEF U, mid
  <2>3. Of(t, spec)
    BY <1>4, OfSpec DEF SameEffect, SameIdents
  <2>4. /\ AreStatements(U) /\ ColumnsAfterAll(first, U) = Image(mid) /\ Len(U) \in Nat
        /\ \A l \in 1..Len(U) : IsStatement(U[l]) /\ Settled(U[l], Image(mid))
    <3>1. AreStatements(U) /\ ColumnsAfterAll(first, U) = Image(mid) /\ U \in Seq(Statements) /\ Len(U) \in Nat
      BY <2>1 DEF Come, AreStatements
    <3>2. SubSeq(U, 1, Len(U)) = U /\ Len(U) \in 0..Len(U)
      BY <3>1
    <3> QED BY <2>1, <3>1, <3>2 DEF Come, Orderly, AreStatements, AfterExecuting
  <2>5. ASSUME NEW l \in 1..Len(U) PROVE Settled(U[l], ColumnsAfter(Image(mid), t))
    <3>1. CASE l = Len(T) + 1
      <4>1. U[l] = s /\ Leaves(s) = {s.old} /\ Enters(s) = {s.new}
            /\ Leaves(t) \subseteq {t.new} /\ Enters(t) = {t.new}
        BY <1>4, <2>1, <3>1 DEF Leaves, Enters, SameEffect, IsStatement
      <4>2. s.old \notin DOMAIN Image(mid)
        BY <1>4, <2>4, <4>1 DEF Settled
      <4>3. s.old \notin DOMAIN ColumnsAfter(Image(mid), t)
        <5>1. DOMAIN ColumnsAfter(Image(mid), t) = (DOMAIN Image(mid) \ Leaves(t)) \cup Enters(t)
          BY AfterIsFunction
        <5>2. s.old \notin Enters(t)
          BY <1>4, <4>1
        <5> QED BY <4>2, <5>1, <5>2
      <4> QED BY <1>4, <4>1, <4>3 DEF Settled
    <3>2. CASE l # Len(T) + 1
      <4>1. l \in 1..Len(T) /\ U[l] = T[l]
        BY <1>0, <2>1, <3>2
      <4>2. (Leaves(t) \cup Enters(t)) \cap (Leaves(U[l]) \cup Enters(U[l])) = {}
        BY <2>3, <4>1
      <4> QED BY <2>4, <4>2, StaysSettled
    <3> QED BY <3>1, <3>2
  <2>6. /\ Come(first, W, ColumnsAfter(mid, two))
        /\ Len(W) = Len(U) + 1 /\ W[Len(U) + 1] = t
        /\ \A l \in 1..Len(U) : W[l] = U[l]
        /\ RowsCome(U, W, mid, two)
    <3>1. SameEffect(mid, two, t)
      BY <1>4 DEF mid
    <3>2. t.op \notin {"drop", "rename"}
      BY <1>4
    <3> QED BY <2>1, <2>5, <3>1, <3>2, OneMoreComes
  <2> HIDE DEF W
  <2>7. \A l \in 1..Len(W) : (l \in 1..Len(T) /\ W[l] = T[l]) \/ Of(W[l], spec)
    <3> TAKE l \in 1..Len(W)
    <3>1. l \in 1..Len(U) \/ l = Len(U) + 1
      BY <2>4, <2>6
    <3> QED BY <2>1, <2>3, <2>6, <3>1
  <2>8. RowsCome(T, W, cols, spec)
    BY <1>4, <2>1, <2>6 DEF RowsCome, mid
  <2>9. ColumnsAfter(mid, two) = ColumnsAfter(cols, spec)
    BY <1>4 DEF mid
  <2> QED BY <2>2, <2>6, <2>7, <2>8, <2>9
<1> HIDE DEF Q
<1> QED BY <1>1, <1>3, <1>4 DEF Translated

----------------------------------------------------------------------------
(***************************************************************************)
(* The statements of an ALTER TABLE.                                       *)
(***************************************************************************)
AllCaseKept(specs) == \A i \in DOMAIN specs : CaseKept(specs[i])
NoPartition(specs) == \A i \in DOMAIN specs : specs[i].op # "partition"

DDLsUpTo(cols, specs, i) == GenAlterTableDDLs(cols, ColumnsAfterAll(cols, specs), SubSeq(specs, 1, i))

\* After the statements of the first i specs.
Midway(cols, specs, i) ==
    LET T == DDLsUpTo(cols, specs, i)
    IN  /\ Come(Image(cols), T, AfterSpecs(cols, specs, i))
        /\ \A l \in 1..Len(T) : \E p \in 1..i : Of(T[l], specs[p])
        /\ NoPartition(specs) => \A r \in [DOMAIN cols -> Nat] :
              /\ RowAfterAll(r, SubSeq(specs, 1, i)) \in [DOMAIN AfterSpecs(cols, specs, i) -> Nat]
              /\ RowAfterAll(Image(r), T) = Image(RowAfterAll(r, SubSeq(specs, 1, i)))

LEMMA MidwayFirst ==
    ASSUME NEW cols, NEW specs, ValidAlter(cols, specs)
    PROVE  Midway(cols, specs, 0)
<1>0. specs \in Alters
  BY DEF ValidAlter
<1>1. PICK V : specs \in Seq(V)
  BY <1>0, AlterFacts
<1>2. SubSeq(specs, 1, 0) = <<>>
  BY <1>1, EmptySlice
<1>3. DDLsUpTo(cols, specs, 0) = <<>> /\ AfterSpecs(cols, specs, 0) = cols
  BY <1>0, <1>2, NoneAfter, AfterSpecsStep DEF DDLsUpTo
<1>4. AreStatements(<<>>) /\ Orderly(Image(cols), <<>>)
  BY DEF AreStatements, Orderly
<1>5. Come(Image(cols), <<>>, cols)
  BY <1>4, NoneAfter DEF Come
<1>6. \A l \in 1..Len(<<>>) : \E p \in 1..0 : Of(<<>>[l], specs[p])
  OBVIOUS
<1>7. \A x : RowAfterAll(x, <<>>) = x
  BY NoneAfter
<1> QED BY <1>2, <1>3, <1>5, <1>6, <1>7 DEF Midway

LEMMA MidwayNext ==
    ASSUME NEW cols, NEW specs, ValidAlter(cols, specs), AllCaseKept(specs),
           NEW i \in 0..(Len(specs) - 1), Midway(cols, specs, i)
    PROVE  Midway(cols, specs, i + 1)
<1> DEFINE T == DDLsUpTo(cols, specs, i)
           U == DDLsUpTo(cols, specs, i + 1)
           next == ColumnsAfterAll(cols, specs)
           C == AfterSpecs(cols, specs, i)
           spec == specs[i + 1]
           B == StatementsOf(cols, next, spec)
           first == Image(cols)
<1>0. specs \in Alters
  BY DEF ValidAlter
<1>1. /\ Len(specs) \in Nat /\ i \in Nat /\ i \in 0..Len(specs)
      /\ i + 1 \in 1..Len(specs) /\ DOMAIN specs = 1..Len(specs)
      /\ WellFormed(spec)
  BY <1>0, AlterFacts
<1>2. PICK V : specs \in Seq(V)
  BY <1>0, AlterFacts
<1>3. /\ U = T \o B
      /\ \A x : RowAfterAll(x, SubSeq(specs, 1, i + 1)) =
                   RowAfter(RowAfterAll(x, SubSeq(specs, 1, i)), spec)
  <2>1. 1 \in 1..(Len(specs) + 1) /\ i \in (1 - 1)..(Len(specs) - 1)
    BY <1>1
  <2> QED BY <1>2, <2>1, Slices DEF DDLsUpTo
<1>4. AfterSpecs(cols, specs, i + 1) = ColumnsAfter(C, spec)
  BY <1>0, AfterSpecsStep
<1>5. IsTable(C) /\ Valid(C, spec)
  BY <1>1, Untouched
<1>6. Translated(C, spec, B)
  BY <1>1, SpecLookUps, SpecTranslated DEF AllCaseKept
<1>7. Idents(Leaves(spec)) \subseteq DOMAIN first
  <2>1. Leaves(spec) \subseteq DOMAIN cols /\ IsTable(cols)
    BY <1>1 DEF ValidAlter, Valid
  <2>2. DOMAIN first = Idents(DOMAIN cols)
    BY <2>1, TableIdents, ImageFacts
  <2> QED BY <2>1, <2>2 DEF Idents
<1> HIDE DEF T, U, B, C, first, spec
<1>8. Come(first, T, C) /\ \A l \in 1..Len(T) : \E p \in 1..i : Of(T[l], specs[p])
  BY DEF Midway, T, C, first
<1>9. ASSUME NEW l \in 1..Len(T), NEW s, Of(s, spec)
      PROVE  (Leaves(s) \cup Enters(s)) \cap (Leaves(T[l]) \cup Enters(T[l])) = {}
  <2>1. PICK p \in 1..i : Of(T[l], specs[p])
    BY <1>8
  <2>2. p \in 1..Len(specs) /\ p # i + 1
    BY <1>1
  <2> QED BY <1>0, <1>1, <1>9, <2>1, <2>2, Apart DEF spec
<1>10. /\ Come(first, U, ColumnsAfter(C, spec))
       /\ \A l \in 1..Len(U) : (l \in 1..Len(T) /\ U[l] = T[l]) \/ Of(U[l], spec)
       /\ spec.op # "partition" => RowsCome(T, U, C, spec)
  <2>1. WellFormed(spec)
    BY <1>1 DEF spec
  <2> QED BY <1>3, <1>6, <1>7, <1>8, <1>9, <2>1, BlockComes
<1>11. \A l \in 1..Len(U) : \E p \in 1..(i + 1) : Of(U[l], specs[p])
  <2> TAKE l \in 1..Len(U)
  <2>1. CASE l \in 1..Len(T) /\ U[l] = T[l]
    <3>1. PICK p \in 1..i : Of(T[l], specs[p])
      BY <1>8, <2>1
    <3>2. p \in 1..(i + 1)
      BY <1>1
    <3> QED BY <2>1, <3>1, <3>2
  <2>2. CASE Of(U[l], spec)
    <3>1. i + 1 \in 1..(i + 1)
      BY <1>1
    <3> QED BY <2>2, <3>1 DEF spec
  <2> QED BY <1>10, <2>1, <2>2
<1>12. ASSUME NoPartition(specs), NEW r \in [DOMAIN cols -> Nat]
       PROVE  /\ RowAfterAll(r, SubSeq(specs, 1, i + 1)) \in [DOMAIN ColumnsAfter(C, spec) -> Nat]
              /\ RowAfterAll(Image(r), U) = Image(RowAfterAll(r, SubSeq(specs, 1, i + 1)))
  <2> DEFINE q == RowAfterAll(r, SubSeq(specs, 1, i))
  <2>1. q \in [DOMAIN C -> Nat] /\ RowAfterAll(Image(r), T) = Image(q)
    BY <1>12 DEF Midway, T, C
  <2>2. RowAfterAll(r, SubSeq(specs, 1, i + 1)) = RowAfter(q, spec)
    BY <1>3
  <2> HIDE DEF q
  <2>3. spec.op # "partition" /\ spec.op \notin Empties
    BY <1>1, <1>12 DEF NoPartition, WellFormed, Empties, spec
  <2>4. q # NoRow
    BY <1>5, <2>1, TableIdents, RowImage
  <2>5. RowAfter(q, spec) \in [DOMAIN ColumnsAfter(C, spec) -> Nat]
    BY <1>5, <2>1, <2>3, <2>4, RowType
  <2>6. RowAfterAll(Image(r), U) = Image(RowAfter(q, spec))
    BY <1>10, <2>1, <2>3 DEF RowsCome
  <2> QED BY <2>2, <2>5, <2>6
<1> QED BY <1>4, <1>10, <1>11, <1>12 DEF Midway, U, first

(***************************************************************************)
(* The statements of an ALTER TABLE bring the image of the table before it *)
(* to the image of the table after it, each legal where it comes and with  *)
(* nothing left for it to do from there on; and the image of a row to the  *)
(* image of that row after it (genAlterTableDDLs).                         *)
(***************************************************************************)
LEMMA AlterTranslated ==
    ASSUME NEW cols, NEW specs, ValidAlter(cols, specs), AllCaseKept(specs)
    PROVE  LET next == ColumnsAfterAll(cols, specs)
               T == GenAlterTableDDLs(cols, next, specs)
           IN  /\ IsTable(next)
               /\ Come(Image(cols), T, next)
               /\ NoPartition(specs) => \A r \in [DOMAIN cols -> Nat] :
                     /\ RowAfterAll(r, specs) \in [DOMAIN next -> Nat]
                     /\ RowAfterAll(Image(r), T) = Image(RowAfterAll(r, specs))
<1> DEFINE P == {i \in Nat : i <= Len(specs) => Midway(cols, specs, i)}
<1>0. specs \in Alters
  BY DEF ValidAlter
<1>1. Len(specs) \in Nat
  BY <1>0, AlterFacts
<1>2. 0 \in P
  BY MidwayFirst
<1>3. ASSUME NEW i \in Nat, i \in P PROVE i + 1 \in P
  <2> SUFFICES ASSUME i + 1 <= Len(specs) PROVE Midway(cols, specs, i + 1)
    OBVIOUS
  <2>1. i \in 0..(Len(specs) - 1) /\ i <= Len(specs)
    BY <1>1
  <2> QED BY <1>3, <2>1, MidwayNext
<1> HIDE DEF P
<1>4. \A i \in Nat : i \in P
  BY <1>2, <1>3, Inductive
<1>5. Midway(cols, specs, Len(specs))
  BY <1>1, <1>4 DEF P
<1>6. PICK V : specs \in Seq(V)
  BY <1>0, AlterFacts
<1>7. SubSeq(specs, 1, Len(specs)) = specs
  BY <1>1, <1>6, EmptySlice
<1>8. AfterSpecs(cols, specs, Len(specs)) = ColumnsAfterAll(cols, specs)
  BY <1>0, AfterSpecsStep
<1>9. IsTable(ColumnsAfterAll(cols, specs))
  <2>1. Len(specs) \in 0..Len(specs)
    BY <1>1
  <2> QED BY <1>8, <2>1, Untouched
<1> QED BY <1>5, <1>7, <1>8, <1>9 DEF Midway, DDLsUpTo

----------------------------------------------------------------------------
(***************************************************************************)
(* Upstream and its log.                                                   *)
(***************************************************************************)
\* Rows, of a table or of its image.
IsRow(r, cols) == r = NoRow \/ r \in [DOMAIN cols -> Nat]

ChangeOK(c, cols, now) == c.ts \in 1..now /\ c.key \in Keys /\ IsRow(c.row, cols)

EntryOK(e, now) ==
    /\ e.version \in 1..now
    /\ e.kind \in {"schema", "file"}
    /\ IsTable(e.columns)
    /\ e.kind = "schema" => e.action \in {"none", "alter table"} \cup Actions
    /\ e.kind = "file" => /\ "changes" \in DOMAIN e
                          /\ \A c \in e.changes : ChangeOK(c, e.columns, now)

Follows(before, e) ==
    /\ before.version <= e.version
    /\ e.kind = "schema" => before.version < e.version
    /\ e.kind = "schema" =>
          \/ /\ e.action = "alter table" /\ ValidAlter(before.columns, e.specs)
             /\ e.columns = ColumnsAfterAll(before.columns, e.specs)
          \/ e.action \in Actions /\ e.specs = <<>> /\ e.columns = before.columns
    /\ e.kind = "file" => e.version = before.version /\ e.columns = before.columns

Before(d, e) ==
    /\ d.version <= e.version
    /\ e.kind = "schema" => d.version < e.version
    /\ d.version = e.version => d.columns = e.columns

\* After such a schema file the table goes on.
Stays == {"none", "alter table", "truncate table"}

LogOK(l, now) ==
    /\ \E V : l \in Seq(V)
    /\ Len(l) > 0
    /\ l[1].kind = "schema" /\ l[1].action = "none"
    /\ \A i \in 1..Len(l) : EntryOK(l[i], now)
    /\ \A i \in 1..(Len(l) - 1) : Follows(l[i], l[i + 1])
    /\ \A i, j \in 1..Len(l) : i < j => Before(l[i], l[j])
    /\ \A i \in 1..Len(l) : \E s \in 1..i : l[s].kind = "schema" /\ l[s].version = l[i].version
    /\ \A i \in 1..(Len(l) - 1) : l[i].kind = "schema" => l[i].action \in Stays

Ends(e) == e.kind = "schema" /\ e.action \notin Stays

UpstreamOK ==
    /\ clock \in 1..MaxTS
    /\ LogOK(log, clock)
    /\ columns = log[Len(log)].columns
    /\ DOMAIN rows = Keys /\ \A k \in Keys : IsRow(rows[k], columns)
    /\ present \in BOOLEAN /\ (present <=> ~Ends(log[Len(log)]))

----------------------------------------------------------------------------
LEMMA Appended ==
    ASSUME NEW l, \E V : l \in Seq(V), NEW e
    PROVE  /\ \E V : Append(l, e) \in Seq(V)
           /\ Len(l) \in Nat /\ DOMAIN l = 1..Len(l)
           /\ Len(Append(l, e)) = Len(l) + 1 /\ DOMAIN Append(l, e) = 1..(Len(l) + 1)
           /\ Append(l, e)[Len(l) + 1] = e
           /\ \A i \in 1..Len(l) : Append(l, e)[i] = l[i]
<1>1. PICK V : l \in Seq(V)
  OBVIOUS
<1> DEFINE W == V \cup {e}
<1>2. l \in Seq(W) /\ e \in W
  BY <1>1
<1> HIDE DEF W
<1>3. Append(l, e) \in Seq(W) /\ Len(l) \in Nat /\ DOMAIN l = 1..Len(l)
  BY <1>2
<1>4. Len(Append(l, e)) = Len(l) + 1 /\ DOMAIN Append(l, e) = 1..(Len(l) + 1)
  BY <1>2, <1>3
<1> QED BY <1>2, <1>3, <1>4

LEMMA EntryLater ==
    ASSUME NEW now \in Nat, NEW e, EntryOK(e, now)
    PROVE  EntryOK(e, now + 1)
<1>1. 1..now \subseteq 1..(now + 1)
  OBVIOUS
<1>2. \A c, cols : ChangeOK(c, cols, now) => ChangeOK(c, cols, now + 1)
  BY <1>1 DEF ChangeOK
<1> QED BY <1>1, <1>2 DEF EntryOK

LEMMA LogAppended ==
    ASSUME NEW now \in Nat, NEW l, LogOK(l, now), ~Ends(l[Len(l)]), NEW e, EntryOK(e, now + 1),
           Follows(l[Len(l)], e), e.kind = "schema" => e.version = now + 1
    PROVE  LogOK(Append(l, e), now + 1)
<1> DEFINE m == Append(l, e)
           n == Len(l)
<1>1. /\ \E V : m \in Seq(V)
      /\ n \in Nat /\ DOMAIN l = 1..n /\ Len(m) = n + 1 /\ m[n + 1] = e
      /\ \A i \in 1..n : m[i] = l[i]
  BY Appended DEF LogOK
<1> HIDE DEF m
<1>2. n > 0 /\ n \in 1..n /\ 1 \in 1..n /\ m[n] = l[n] /\ (n + 1) - 1 = n
  BY <1>1 DEF LogOK
<1>3. \A i \in 1..(n + 1) : i = n + 1 \/ (i \in 1..n /\ m[i] = l[i])
  BY <1>1
<1>4. \A i \in 1..(n + 1) : EntryOK(m[i], now + 1)
  <2>1. \A i \in 1..n : EntryOK(l[i], now + 1)
    BY EntryLater DEF LogOK
  <2> QED BY <1>1, <1>3, <2>1
<1>5. \A i \in 1..n : Follows(m[i], m[i + 1])
  <2> TAKE i \in 1..n
  <2>1. CASE i = n
    BY <1>1, <1>2, <2>1
  <2>2. CASE i # n
    <3>1. i \in 1..(n - 1) /\ i + 1 \in 1..n
      BY <1>1, <2>2
    <3> QED BY <1>1, <3>1 DEF LogOK
  <2> QED BY <2>1, <2>2
<1>6. \A i, j \in 1..(n + 1) : i < j => Before(m[i], m[j])
  <2> SUFFICES ASSUME NEW i \in 1..(n + 1), NEW j \in 1..(n + 1), i < j
               PROVE  Before(m[i], m[j])
    OBVIOUS
  <2>1. CASE j \in 1..n
    <3>1. i \in 1..n
      BY <1>1, <2>1
    <3> QED BY <1>1, <2>1, <3>1 DEF LogOK
  <2>2. CASE j = n + 1
    <3>1. i \in 1..n /\ m[i] = l[i] /\ m[j] = e
      BY <1>1, <2>2
    <3>6. i = n \/ i < n
      <4> HIDE DEF n
      <4> QED BY <1>1, <3>1
    <3>2. EntryOK(l[i], now) /\ EntryOK(l[n], now) /\ (i = n \/ Before(l[i], l[n]))
      <4>1. EntryOK(l[i], now) /\ EntryOK(l[n], now)
        BY <1>2, <3>1 DEF LogOK
      <4>2. i < n => Before(l[i], l[n])
        BY <1>2, <3>1 DEF LogOK
      <4> QED BY <3>6, <4>1, <4>2
    <3>3. l[i].version <= now /\ l[n].version <= now /\ l[i].version \in Nat /\ l[n].version \in Nat /\ e.version \in Nat
      <4>1. l[i].version \in 1..now /\ l[n].version \in 1..now /\ e.version \in 1..(now + 1)
        BY <3>2 DEF EntryOK
      <4> QED BY <4>1
    <3>4. CASE e.kind = "schema"
      BY <3>1, <3>3, <3>4 DEF Before
    <3>5. CASE e.kind = "file"
      <4>1. e.version = l[n].version /\ e.columns = l[n].columns
        BY <3>5 DEF Follows
      <4>2. l[i].version <= l[n].version /\ (l[i].version = l[n].version => l[i].columns = l[n].columns)
        BY <3>2, <3>3 DEF Before
      <4> QED BY <3>1, <3>5, <4>1, <4>2 DEF Before
    <3> QED BY <3>4, <3>5 DEF EntryOK
  <2> QED BY <1>3, <2>1, <2>2
<1>7. \A i \in 1..(n + 1) : \E s \in 1..i : m[s].kind = "schema" /\ m[s].version = m[i].version
  <2>0. \A i \in 1..n : \E s \in 1..i : m[s].kind = "schema" /\ m[s].version = l[i].version
    <3> TAKE i \in 1..n
    <3>1. PICK s \in 1..i : l[s].kind = "schema" /\ l[s].version = l[i].version
      BY DEF LogOK
    <3>2. s \in 1..n
      BY <1>1
    <3> QED BY <1>1, <3>1, <3>2
  <2> TAKE i \in 1..(n + 1)
  <2>1. CASE i \in 1..n
    BY <1>1, <2>0, <2>1
  <2>2. CASE i = n + 1 /\ e.kind = "schema"
    BY <1>1, <2>2
  <2>3. CASE i = n + 1 /\ e.kind = "file"
    <3>1. e.version = l[n].version
      BY <2>3 DEF Follows
    <3>2. PICK s \in 1..n : m[s].kind = "schema" /\ m[s].version = l[n].version
      BY <1>2, <2>0
    <3>3. s \in 1..(n + 1)
      BY <1>1
    <3> QED BY <1>1, <2>3, <3>1, <3>2, <3>3
  <2> QED BY <1>3, <2>1, <2>2, <2>3 DEF EntryOK
<1>8. \A i \in 1..n : m[i].kind = "schema" => m[i].action \in Stays
  <2> TAKE i \in 1..n
  <2>1. CASE i = n
    BY <1>1, <2>1 DEF Ends
  <2>2. CASE i # n
    <3>1. i \in 1..(n - 1)
      <4> HIDE DEF n
      <4> QED BY <1>1, <2>2
    <3> QED BY <1>1, <3>1 DEF LogOK
  <2> QED BY <2>1, <2>2
<1>9. m[1].kind = "schema" /\ m[1].action = "none"
  BY <1>1, <1>2 DEF LogOK
<1>10. LogOK(m, now + 1)
  BY <1>1, <1>2, <1>4, <1>5, <1>6, <1>7, <1>8, <1>9 DEF LogOK
<1> QED BY <1>10 DEF m

\* The last data file takes further changes.
Grown(l, changes) == [l EXCEPT ![Len(l)].changes = @ \cup changes]

LEMMA GrownFacts ==
    ASSUME NEW l, \E V : l \in Seq(V), Len(l) > 0, NEW changes
    PROVE  LET m == Grown(l, changes)
               n == Len(l)
           IN  /\ \E V : m \in Seq(V)
               /\ n \in Nat /\ Len(m) = n /\ DOMAIN m = 1..n
               /\ \A i \in 1..n : i # n => m[i] = l[i]
               /\ m[n] = [l[n] EXCEPT !.changes = @ \cup changes]
<1> DEFINE m == Grown(l, changes)
           n == Len(l)
           e == [l[n] EXCEPT !.changes = @ \cup changes]
<1>1. PICK V : l \in Seq(V)
  OBVIOUS
<1>2. n \in Nat /\ n \in 1..n /\ DOMAIN l = 1..n /\ \A i \in 1..n : l[i] \in V
  BY <1>1
<1> DEFINE W == V \cup {e}
<1> HIDE DEF e
<1>3. m = [i \in 1..n |-> IF i = n THEN e ELSE l[i]]
  BY <1>2 DEF Grown, e
<1>4. m \in Seq(W) /\ Len(m) = n
  <2>1. \A i \in 1..n : (IF i = n THEN e ELSE l[i]) \in W
    BY <1>2
  <2> HIDE DEF W, m, n
  <2>2. m \in [1..n -> W]
    BY <1>3, <2>1
  <2> QED BY <1>2, <2>2
<1> QED BY <1>2, <1>3, <1>4 DEF e

LEMMA LogGrown ==
    ASSUME NEW now \in Nat, NEW l, LogOK(l, now), l[Len(l)].kind = "file",
           NEW changes, \A c \in changes : ChangeOK(c, l[Len(l)].columns, now + 1)
    PROVE  LogOK(Grown(l, changes), now + 1)
<1> DEFINE m == Grown(l, changes)
           n == Len(l)
<1>1. /\ \E V : m \in Seq(V)
      /\ n \in Nat /\ Len(m) = n
      /\ \A i \in 1..n : i # n => m[i] = l[i]
      /\ m[n] = [l[n] EXCEPT !.changes = @ \cup changes]
  BY GrownFacts DEF LogOK
<1> HIDE DEF m
<1>2. /\ m[n].kind = l[n].kind /\ m[n].version = l[n].version /\ m[n].columns = l[n].columns
      /\ m[n].changes = l[n].changes \cup changes
  <2>1. n > 0 /\ n \in 1..n
    BY <1>1 DEF LogOK
  <2>2. "changes" \in DOMAIN l[n]
    BY <2>1 DEF LogOK, EntryOK
  <2> QED BY <1>1, <2>2
<1>3. \A i \in 1..n : /\ m[i].kind = l[i].kind /\ m[i].version = l[i].version
                      /\ m[i].columns = l[i].columns
                      /\ l[i].kind = "schema" => m[i] = l[i]
  BY <1>1, <1>2
<1>4. \A i \in 1..n : EntryOK(m[i], now + 1)
  <2> TAKE i \in 1..n
  <2>1. EntryOK(l[i], now + 1)
    BY EntryLater DEF LogOK
  <2>2. CASE i # n
    BY <1>1, <2>1, <2>2
  <2>3. CASE i = n
    <3>1. "changes" \in DOMAIN m[n]
      BY <1>1, <2>1, <2>3 DEF EntryOK
    <3> QED BY <1>2, <2>1, <2>3, <3>1 DEF EntryOK
  <2> QED BY <2>2, <2>3
<1>5. \A i \in 1..(n - 1) : Follows(m[i], m[i + 1])
  <2> TAKE i \in 1..(n - 1)
  <2>1. i \in 1..n /\ i + 1 \in 1..n
    BY <1>1
  <2>2. Follows(l[i], l[i + 1])
    BY DEF LogOK
  <2> QED BY <1>3, <2>1, <2>2 DEF Follows
<1>6. \A i, j \in 1..n : i < j => Before(m[i], m[j])
  <2> SUFFICES ASSUME NEW i \in 1..n, NEW j \in 1..n, i < j PROVE Before(m[i], m[j])
    OBVIOUS
  <2>1. Before(l[i], l[j])
    BY DEF LogOK
  <2> QED BY <1>3, <2>1 DEF Before
<1>7. \A i \in 1..n : \E s \in 1..i : m[s].kind = "schema" /\ m[s].version = m[i].version
  <2> TAKE i \in 1..n
  <2>1. PICK s \in 1..i : l[s].kind = "schema" /\ l[s].version = l[i].version
    BY DEF LogOK
  <2>2. s \in 1..n
    BY <1>1
  <2> QED BY <1>3, <2>1, <2>2
<1>8. \A i \in 1..(n - 1) : m[i].kind = "schema" => m[i].action \in Stays
  <2> TAKE i \in 1..(n - 1)
  <2>1. i \in 1..n /\ (l[i].kind = "schema" => l[i].action \in Stays)
    BY <1>1 DEF LogOK
  <2> QED BY <1>3, <2>1
<1>9. n > 0 /\ m[1].kind = "schema" /\ m[1].action = "none"
  <2>1. n > 0 /\ l[1].kind = "schema" /\ l[1].action = "none" /\ 1 \in 1..n
    BY <1>1 DEF LogOK
  <2> QED BY <1>3, <2>1
<1>10. LogOK(m, now + 1)
  BY <1>1, <1>4, <1>5, <1>6, <1>7, <1>8, <1>9 DEF LogOK
<1> QED BY <1>10 DEF m

----------------------------------------------------------------------------
(***************************************************************************)
(* ... after each of its steps.                                            *)
(***************************************************************************)
LEMMA Bounds ==
    MaxTS \in Nat /\ MaxTS > 0 /\ MaxFaults \in Nat
<1>1. MaxTS \in Nat \ {0} /\ MaxFaults \in Nat
  BY TableAssumption, Zenon DEF TableAssumption
<1> QED BY <1>1

LEMMA RowStep ==
    ASSUME NEW cols, NEW spec, Leaves(spec) \subseteq DOMAIN cols,
           NEW r, IsRow(r, cols)
    PROVE  IsRow(RowAfter(r, spec), ColumnsAfter(cols, spec))
<1>1. DOMAIN ColumnsAfter(cols, spec) = (DOMAIN cols \ Leaves(spec)) \cup Enters(spec)
  BY AfterIsFunction
<1>2. CASE r = NoRow \/ spec.op \in Empties
  BY <1>2 DEF RowAfter, IsRow
<1>3. CASE r # NoRow /\ spec.op \notin Empties
  <2>1. r \in [DOMAIN cols -> Nat]
    BY <1>3 DEF IsRow
  <2>2. Enters(spec) # {} /\ spec.op # "add" => r[spec.old] \in Nat
    BY <2>1 DEF Leaves, Enters
  <2>3. RowAfter(r, spec) \in [DOMAIN ColumnsAfter(cols, spec) -> Nat]
    BY <1>1, <1>3, <2>1, <2>2 DEF RowAfter, After, NoFill
  <2> QED BY <2>3 DEF IsRow
<1> QED BY <1>2, <1>3

\* A row of the table is one after an ALTER TABLE, too.
LEMMA AlterRows ==
    ASSUME NEW cols, NEW specs, ValidAlter(cols, specs), NEW r, IsRow(r, cols)
    PROVE  IsRow(RowAfterAll(r, specs), ColumnsAfterAll(cols, specs))
<1> DEFINE C(j) == AfterSpecs(cols, specs, j)
           R(j) == RowAfterAll(r, SubSeq(specs, 1, j))
           P == {j \in Nat : j <= Len(specs) => IsRow(R(j), C(j))}
<1>0. specs \in Alters
  BY DEF ValidAlter
<1>1. Len(specs) \in Nat
  BY <1>0, AlterFacts
<1>2. PICK V : specs \in Seq(V)
  BY <1>0, AlterFacts
<1>3. R(0) = r /\ C(0) = cols /\ R(Len(specs)) = RowAfterAll(r, specs)
      /\ C(Len(specs)) = ColumnsAfterAll(cols, specs)
  <2>1. SubSeq(specs, 1, 0) = <<>> /\ SubSeq(specs, 1, Len(specs)) = specs
    BY <1>2, EmptySlice
  <2>2. RowAfterAll(r, <<>>) = r
    BY NoneAfter
  <2> QED BY <1>0, <2>1, <2>2, AfterSpecsStep
<1>4. ASSUME NEW j \in 0..(Len(specs) - 1)
      PROVE  /\ C(j + 1) = ColumnsAfter(C(j), specs[j + 1])
             /\ R(j + 1) = RowAfter(R(j), specs[j + 1])
             /\ Leaves(specs[j + 1]) \subseteq DOMAIN C(j)
  <2>1. C(j + 1) = ColumnsAfter(C(j), specs[j + 1])
    BY <1>0, AfterSpecsStep
  <2>2. R(j + 1) = RowAfter(R(j), specs[j + 1])
    <3>1. 1 \in 1..(Len(specs) + 1) /\ j \in (1 - 1)..(Len(specs) - 1)
      BY <1>1
    <3> QED BY <1>2, <3>1, Slices
  <2>3. j \in 0..Len(specs) /\ j + 1 \in (j + 1)..Len(specs)
    BY <1>1
  <2> QED BY <2>1, <2>2, <2>3, Untouched DEF Valid
<1> HIDE DEF C, R
<1>5. 0 \in P
  BY <1>3
<1>6. ASSUME NEW j \in Nat, j \in P PROVE j + 1 \in P
  <2> SUFFICES ASSUME j + 1 <= Len(specs) PROVE IsRow(R(j + 1), C(j + 1))
    OBVIOUS
  <2>1. j \in 0..(Len(specs) - 1) /\ j <= Len(specs)
    BY <1>1
  <2>2. IsRow(R(j), C(j))
    BY <1>6, <2>1
  <2> QED BY <1>4, <2>1, <2>2, RowStep
<1> HIDE DEF P
<1>7. \A j \in Nat : j \in P
  BY <1>5, <1>6, Inductive
<1>8. IsRow(R(Len(specs)), C(Len(specs)))
  BY <1>1, <1>7 DEF P
<1> QED BY <1>3, <1>8

----------------------------------------------------------------------------
LEMMA InitUpstream ==
    Init => UpstreamOK
<1> SUFFICES ASSUME Init PROVE UpstreamOK
  OBVIOUS
<1> DEFINE e == SchemaFile(FirstVersion, "none", <<>>, FirstColumns)
<1>1. /\ e.kind = "schema" /\ e.version = 1 /\ e.action = "none" /\ e.columns = FirstColumns
  BY DEF SchemaFile, FirstVersion
<1>2. log = <<e>> /\ clock = 1 /\ columns = FirstColumns /\ present = TRUE
  BY DEF Init, FirstVersion
<1> HIDE DEF e
<1>3. Len(log) = 1 /\ log[1] = e /\ \E V : log \in Seq(V)
  <2>1. log \in Seq({e})
    BY <1>2
  <2> QED BY <1>2, <2>1
<1>4. IsTable(FirstColumns)
  BY NamesAssumption DEF NamesAssumption, IsTable, Columns
<1>5. EntryOK(e, 1)
  BY <1>1, <1>4 DEF EntryOK
<1>6. LogOK(log, clock)
  BY <1>1, <1>2, <1>3, <1>5 DEF LogOK
<1>7. DOMAIN rows = Keys /\ \A k \in Keys : IsRow(rows[k], columns)
  <2>1. rows \in [Keys -> {NoRow, [n \in DOMAIN FirstColumns |-> FirstVersion]}]
    BY DEF Init
  <2>2. \A k \in Keys : rows[k] = NoRow \/ rows[k] = [n \in DOMAIN FirstColumns |-> 1]
    BY <2>1 DEF FirstVersion
  <2>3. [n \in DOMAIN FirstColumns |-> 1] \in [DOMAIN FirstColumns -> Nat]
    OBVIOUS
  <2> QED BY <1>2, <2>1, <2>2, <2>3 DEF IsRow
<1>8. 1 \in 1..MaxTS
  BY Bounds
<1> QED BY <1>1, <1>2, <1>3, <1>6, <1>7, <1>8 DEF UpstreamOK, Ends, Stays

LEMMA Successor ==
    ASSUME NEW n \in Nat, NEW m \in 1..n, m < n
    PROVE  m + 1 \in 1..n /\ m \in Nat
OBVIOUS

LEMMA LogEnd ==
    ASSUME NEW now, NEW l, LogOK(l, now)
    PROVE  /\ Len(l) \in Nat /\ Len(l) > 0 /\ Len(l) \in 1..Len(l)
           /\ 1 \in 1..Len(l) /\ DOMAIN l = 1..Len(l)
           /\ EntryOK(l[Len(l)], now) /\ IsTable(l[Len(l)].columns)
<1> DEFINE n == Len(l)
<1>1. n \in Nat /\ n > 0 /\ DOMAIN l = 1..n
  BY Appended DEF LogOK
<1> HIDE DEF n
<1>2. n \in 1..n /\ 1 \in 1..n
  BY <1>1
<1>3. EntryOK(l[n], now)
  BY <1>2 DEF LogOK, n
<1> QED BY <1>1, <1>2, <1>3 DEF EntryOK, n

LEMMA UpstreamFacts ==
    ASSUME UpstreamOK
    PROVE  /\ clock \in Nat /\ clock \in 1..MaxTS /\ MaxTS \in Nat
           /\ LogOK(log, clock) /\ columns = log[Len(log)].columns
           /\ Len(log) \in Nat /\ Len(log) > 0 /\ Len(log) \in 1..Len(log)
           /\ EntryOK(log[Len(log)], clock) /\ IsTable(columns)
           /\ log[Len(log)].version \in 1..clock /\ log[Len(log)].version \in Nat
           /\ log[Len(log)].version < clock + 1 /\ log[Len(log)].version <= clock + 1
           /\ log[Len(log)].version \in 1..(clock + 1)
           /\ clock + 1 \in 1..(clock + 1)
           /\ present \in BOOLEAN /\ (present <=> ~Ends(log[Len(log)]))
           /\ \A k \in Keys : IsRow(rows[k], columns)
<1>1. clock \in 1..MaxTS /\ MaxTS \in Nat
  BY Bounds DEF UpstreamOK
<1>2. clock \in Nat
  BY <1>1
<1>3. LogOK(log, clock) /\ columns = log[Len(log)].columns
  BY DEF UpstreamOK
<1>4. log[Len(log)].version \in 1..clock
  BY <1>3, LogEnd DEF EntryOK
<1> DEFINE v == log[Len(log)].version
<1>5. v \in 1..clock
  BY <1>4
<1> HIDE DEF v
<1>6. v \in Nat /\ v < clock + 1 /\ v <= clock + 1 /\ v \in 1..(clock + 1) /\ clock + 1 \in 1..(clock + 1)
  BY <1>2, <1>5
<1> QED BY <1>1, <1>2, <1>3, <1>4, <1>6, LogEnd DEF UpstreamOK, v

LEMMA CommitUpstream ==
    ASSUME UpstreamOK, Commit
    PROVE  UpstreamOK'
<1> DEFINE n == Len(log)
<1>1. /\ clock \in 1..MaxTS /\ clock < MaxTS /\ clock' = clock + 1 /\ clock \in Nat
      /\ LogOK(log, clock) /\ columns = log[n].columns /\ columns' = columns
      /\ present /\ present' = present /\ ~Ends(log[n])
  BY UpstreamFacts DEF Commit
<1>2. clock' \in 1..MaxTS
  BY <1>1, UpstreamFacts, Successor
<1>3. PICK changes \in Transactions :
          /\ rows' = [k \in Keys |-> Written(changes, k)]
          /\ \/ /\ Len(log) > seen /\ ~IsSchema(Len(log))
                /\ log' = [log EXCEPT ![Len(log)].changes = @ \cup changes]
             \/ log' = Append(log, DataFile(Version, columns, changes))
  BY DEF Commit
<1>4. \A k \in Keys : IsRow(rows[k], columns)
  BY DEF UpstreamOK
<1>5. n \in Nat /\ n > 0 /\ n \in 1..n /\ EntryOK(log[n], clock) /\ IsTable(columns)
  BY UpstreamFacts
<1>6. \A c \in changes : ChangeOK(c, columns, clock + 1)
  <2> SUFFICES ASSUME NEW c \in changes PROVE ChangeOK(c, columns, clock + 1)
    OBVIOUS
  <2> DEFINE full == [m \in DOMAIN columns |-> clock + 1]
             there == {k \in Keys : rows[k] # NoRow}
  <2>1. IsRow(full, columns) /\ IsRow(NoRow, columns)
    BY <1>1 DEF IsRow
  <2>2. \E k \in Keys : \E row : c = Put(k, row) /\ IsRow(row, columns)
    <3>1. CASE changes \in {{Put(k, full)} : k \in Keys}
      BY <2>1, <3>1
    <3>2. CASE changes \in {{Put(k, NoRow)} : k \in there}
      BY <2>1, <3>2
    <3>3. CASE changes \in {{Put(p[1], NoRow), Put(p[2], NoRow),
                Put(p[1], rows[p[2]]), Put(p[2], rows[p[1]])} :
                  p \in MovedKeys \cap (there \X there)}
      <4>1. PICK p \in MovedKeys \cap (there \X there) :
                changes = {Put(p[1], NoRow), Put(p[2], NoRow),
                           Put(p[1], rows[p[2]]), Put(p[2], rows[p[1]])}
        BY <3>3
      <4>2. p[1] \in Keys /\ p[2] \in Keys
        OBVIOUS
      <4> HIDE DEF there, full
      <4> QED BY <1>4, <2>1, <4>1, <4>2
    <3> QED BY <3>1, <3>2, <3>3 DEF Transactions
  <2>3. PICK k, row : k \in Keys /\ c = Put(k, row) /\ IsRow(row, columns)
    BY <2>2
  <2> QED BY <1>1, <2>3 DEF ChangeOK, Put
<1>7. DOMAIN rows' = Keys /\ \A k \in Keys : IsRow(rows'[k], columns)
  <2> SUFFICES ASSUME NEW k \in Keys PROVE IsRow(Written(changes, k), columns)
    BY <1>3
  <2> DEFINE of == {c \in changes : c.key = k}
             written == {c \in of : c.row # NoRow}
  <2>1. \/ Written(changes, k) \in {rows[k], NoRow}
        \/ written # {} /\ Written(changes, k) = (CHOOSE c \in written : TRUE).row
    BY DEF Written
  <2>2. \A c \in written : IsRow(c.row, columns)
    BY <1>6 DEF ChangeOK
  <2>3. IsRow(NoRow, columns)
    BY DEF IsRow
  <2>4. written # {} => (CHOOSE c \in written : TRUE) \in written
    OBVIOUS
  <2> HIDE DEF written
  <2> QED BY <1>4, <2>1, <2>2, <2>3, <2>4
<1>8. CASE Len(log) > seen /\ ~IsSchema(Len(log))
           /\ log' = [log EXCEPT ![Len(log)].changes = @ \cup changes]
  <2>1. log' = Grown(log, changes) /\ log[n].kind = "file"
    BY <1>5, <1>8 DEF Grown, IsSchema, EntryOK
  <2>2. LogOK(log', clock')
    BY <1>1, <1>6, <2>1, LogGrown
  <2>3. Len(log') = n /\ log'[n].kind = log[n].kind /\ log'[n].columns = log[n].columns
    <3>1. /\ Len(Grown(log, changes)) = n
          /\ Grown(log, changes)[n] = [log[n] EXCEPT !.changes = @ \cup changes]
      BY <1>1, GrownFacts DEF LogOK
    <3> QED BY <2>1, <3>1
  <2> QED BY <1>1, <1>2, <1>7, <2>1, <2>2, <2>3 DEF UpstreamOK, Ends
<1>9. CASE log' = Append(log, DataFile(Version, columns, changes))
  <2> DEFINE e == DataFile(Version, columns, changes)
  <2>1. /\ e.kind = "file" /\ e.version = log[n].version /\ e.columns = columns
        /\ e.changes = changes /\ "changes" \in DOMAIN e
    BY DEF DataFile, Version
  <2> HIDE DEF e
  <2>2. EntryOK(e, clock + 1)
    <3>1. e.version \in 1..(clock + 1)
      BY <2>1, UpstreamFacts
    <3> QED BY <1>5, <1>6, <2>1, <3>1 DEF EntryOK
  <2>3. Follows(log[n], e)
    <3>1. log[n].version \in Nat
      BY UpstreamFacts
    <3> QED BY <1>1, <2>1, <3>1 DEF Follows
  <2>4. LogOK(log', clock')
    BY <1>1, <1>9, <2>1, <2>2, <2>3, LogAppended DEF e
  <2>5. Len(log') = n + 1 /\ log'[n + 1] = e
    BY <1>1, <1>9, Appended DEF LogOK, e
  <2> QED BY <1>1, <1>2, <1>7, <2>1, <2>4, <2>5 DEF UpstreamOK, Ends
<1> QED BY <1>3, <1>8, <1>9

LEMMA SchemaAppended ==
    ASSUME UpstreamOK, present, clock < MaxTS, clock' = clock + 1,
           NEW action, NEW specs,
           log' = Append(log, SchemaFile(clock', action, specs, columns')),
           \/ /\ action = "alter table" /\ ValidAlter(columns, specs)
              /\ columns' = ColumnsAfterAll(columns, specs) /\ IsTable(columns')
           \/ action \in Actions /\ specs = <<>> /\ columns' = columns
    PROVE  /\ clock' \in 1..MaxTS /\ LogOK(log', clock')
           /\ columns' = log'[Len(log')].columns
           /\ log'[Len(log')].kind = "schema" /\ log'[Len(log')].action = action
           /\ IsTable(columns)
<1> DEFINE n == Len(log)
           e == SchemaFile(clock', action, specs, columns')
<1>1. /\ clock \in 1..MaxTS /\ clock \in Nat
      /\ LogOK(log, clock) /\ columns = log[n].columns /\ ~Ends(log[n])
  BY UpstreamFacts
<1>2. clock' \in 1..MaxTS
  BY <1>1, UpstreamFacts, Successor
<1>3. n \in Nat /\ n > 0 /\ n \in 1..n /\ EntryOK(log[n], clock) /\ IsTable(columns)
  BY UpstreamFacts
<1>4. /\ e.kind = "schema" /\ e.version = clock + 1 /\ e.action = action
      /\ e.specs = specs /\ e.columns = columns'
  BY DEF SchemaFile
<1> HIDE DEF e
<1>5. EntryOK(e, clock + 1)
  <2>1. e.version \in 1..(clock + 1)
    BY <1>4, UpstreamFacts
  <2> QED BY <1>3, <1>4, <2>1 DEF EntryOK
<1>6. Follows(log[n], e)
  <2>1. log[n].version < e.version /\ log[n].version <= e.version
    BY <1>4, UpstreamFacts
  <2> QED BY <1>1, <1>4, <2>1 DEF Follows
<1>7. LogOK(log', clock')
  BY <1>1, <1>4, <1>5, <1>6, LogAppended DEF e
<1>8. Len(log') = n + 1 /\ log'[n + 1] = e
  BY <1>1, Appended DEF LogOK, e
<1> QED BY <1>2, <1>3, <1>4, <1>7, <1>8

LEMMA AlterUpstream ==
    ASSUME UpstreamOK, NEW specs \in Alters, Alter(specs)
    PROVE  UpstreamOK'
<1>1. /\ present /\ clock < MaxTS /\ clock' = clock + 1
      /\ columns' = ColumnsAfterAll(columns, specs)
      /\ rows' = [k \in Keys |-> RowAfterAll(rows[k], specs)]
      /\ log' = Append(log, SchemaFile(clock', "alter table", specs, columns'))
      /\ present' = present
      /\ \A i \in DOMAIN specs : Valid(columns, specs[i])
  BY DEF Alter
<1>2. ValidAlter(columns, specs)
  BY <1>1, UpstreamFacts DEF ValidAlter
<1>3. IsTable(columns')
  <2>1. Len(specs) \in 0..Len(specs)
    BY AlterFacts
  <2>2. IsTable(AfterSpecs(columns, specs, Len(specs)))
    BY <1>2, <2>1, Untouched
  <2> QED BY <1>1, <2>2, AfterSpecsStep
<1>4. /\ clock' \in 1..MaxTS /\ LogOK(log', clock')
      /\ columns' = log'[Len(log')].columns
      /\ log'[Len(log')].kind = "schema" /\ log'[Len(log')].action = "alter table"
  BY <1>1, <1>2, <1>3, SchemaAppended
<1>5. \A k \in Keys : IsRow(rows'[k], columns')
  <2> TAKE k \in Keys
  <2>1. IsRow(rows[k], columns)
    BY DEF UpstreamOK
  <2> QED BY <1>1, <1>2, <2>1, AlterRows
<1> QED BY <1>1, <1>4, <1>5 DEF UpstreamOK, Ends, Stays

LEMMA OtherUpstream ==
    ASSUME UpstreamOK, NEW action \in Actions, OtherDDL(action)
    PROVE  UpstreamOK'
<1>1. /\ present /\ clock < MaxTS /\ clock' = clock + 1
      /\ present' = (action = "truncate table")
      /\ rows' = [k \in Keys |-> NoRow]
      /\ log' = Append(log, SchemaFile(clock', action, <<>>, columns'))
      /\ columns' = columns
  BY DEF OtherDDL
<1>2. /\ clock' \in 1..MaxTS /\ LogOK(log', clock')
      /\ columns' = log'[Len(log')].columns
      /\ log'[Len(log')].kind = "schema" /\ log'[Len(log')].action = action
  BY <1>1, SchemaAppended
<1>3. action \in Stays <=> action = "truncate table"
  BY TableAssumption DEF TableAssumption, Stays
<1> QED BY <1>1, <1>2, <1>3 DEF UpstreamOK, Ends, IsRow

LEMMA UpstreamStays ==
    UpstreamOK /\ [Next]_vars => UpstreamOK'
<1> SUFFICES ASSUME UpstreamOK, [Next]_vars PROVE UpstreamOK'
  OBVIOUS
<1>1. CASE Commit
  BY <1>1, CommitUpstream
<1>2. ASSUME NEW specs \in Alters, Alter(specs) PROVE UpstreamOK'
  BY <1>2, AlterUpstream
<1>3. ASSUME NEW action \in Actions, OtherDDL(action) PROVE UpstreamOK'
  BY <1>3, OtherUpstream
<1>4. CASE UNCHANGED upstream
  BY <1>4 DEF upstream, UpstreamOK, LogOK
<1>5. Loader \/ Crash \/ Restart \/ Repair \/ UNCHANGED vars => UNCHANGED upstream
  BY DEF Loader, BeginScan, StartDDL, ExecDDL, ExecDDLFails, SaveWatermark, LoadIncrement,
         LoadIncrementFails, SaveCursors, SaveCheckpoint, Crash, Restart, Repair, vars
<1> QED BY <1>1, <1>2, <1>3, <1>4, <1>5 DEF Next, Upstream

----------------------------------------------------------------------------
(***************************************************************************)
(* What a scan has done and still has to do.                               *)
(***************************************************************************)
\* What the log l says of a version and of a saved state.
SchemaIn(l, v) == l[CHOOSE i \in DOMAIN l : l[i].kind = "schema" /\ l[i].version = v]

PendingIn(l, s) ==
    {i \in DOMAIN l : \/ l[i].version > s.watermark
                      \/ l[i].version = s.watermark /\ l[i].kind # "schema"} \ s.consumed

LEMMA InLog ==
    /\ \A v : SchemaFileAt(v) = SchemaIn(log, v) /\ ColumnsAt(v) = SchemaIn(log, v).columns
    /\ \A s : Pending(s) = PendingIn(log, s)
BY DEF SchemaFileAt, ColumnsAt, SchemaIn, Pending, PendingIn, IsSchema

LEMMA InLogNext ==
    /\ \A v : SchemaFileAt(v)' = SchemaIn(log', v) /\ ColumnsAt(v)' = SchemaIn(log', v).columns
    /\ ColumnsAt(saved.watermark)' = SchemaIn(log', saved'.watermark).columns
    /\ Pending(saved)' = PendingIn(log', saved')
BY DEF SchemaFileAt, ColumnsAt, SchemaIn, Pending, PendingIn, IsSchema

LEMMA Entries ==
    ASSUME NEW now, NEW l, LogOK(l, now), NEW i \in 1..Len(l)
    PROVE  /\ EntryOK(l[i], now) /\ l[i].version \in 1..now /\ l[i].version \in Nat
           /\ IsTable(l[i].columns) /\ l[i].kind \in {"schema", "file"}
<1>1. EntryOK(l[i], now)
  BY DEF LogOK
<1>2. l[i].version \in 1..now
  BY <1>1 DEF EntryOK
<1>3. l[i].version \in Nat
  <2> DEFINE v == l[i].version
  <2>1. v \in 1..now
    BY <1>2
  <2> HIDE DEF v
  <2>2. v \in Nat
    BY <2>1
  <2> QED BY <2>2 DEF v
<1> QED BY <1>1, <1>2, <1>3 DEF EntryOK

\* A version has one schema file, and the columns of all its files.
LEMMA OfVersion ==
    ASSUME NEW now, NEW l, LogOK(l, now), NEW s \in 1..Len(l), l[s].kind = "schema"
    PROVE  /\ SchemaIn(l, l[s].version) = l[s]
           /\ \A i \in 1..Len(l) : l[i].version = l[s].version =>
                 l[i].columns = l[s].columns /\ (l[i].kind = "schema" => i = s) /\ s <= i
<1>1. Len(l) \in Nat /\ DOMAIN l = 1..Len(l)
  BY LogEnd
<1>2. ASSUME NEW i \in 1..Len(l), l[i].version = l[s].version
      PROVE  l[i].columns = l[s].columns /\ (l[i].kind = "schema" => i = s) /\ s <= i
  <2>1. l[i].version \in Nat
    BY Entries
  <2>2. CASE i < s
    <3>1. Before(l[i], l[s])
      BY <2>2 DEF LogOK
    <3> QED BY <1>2, <2>1, <3>1 DEF Before
  <2>3. CASE s < i
    <3>1. Before(l[s], l[i])
      BY <2>3 DEF LogOK
    <3>2. l[i].kind # "schema" /\ l[i].columns = l[s].columns
      BY <1>2, <2>1, <3>1 DEF Before
    <3> QED BY <2>3, <3>2
  <2>4. i < s \/ s < i \/ i = s
    OBVIOUS
  <2> QED BY <2>2, <2>3, <2>4
<1>3. (CHOOSE i \in DOMAIN l : l[i].kind = "schema" /\ l[i].version = l[s].version) = s
  BY <1>1, <1>2
<1> QED BY <1>2, <1>3 DEF SchemaIn

LEMMA Ordered ==
    ASSUME NEW now, NEW l, LogOK(l, now), NEW i \in 1..Len(l), NEW j \in 1..Len(l), i < j
    PROVE  /\ l[i].version \in Nat /\ l[j].version \in Nat
           /\ l[i].version <= l[j].version
           /\ l[j].kind = "schema" => l[i].version < l[j].version
<1>1. Before(l[i], l[j])
  BY DEF LogOK
<1> QED BY <1>1, Entries DEF Before

----------------------------------------------------------------------------
InScan == pc \in {"load", "apply", "told"}

States == [watermark : Nat, consumed : SUBSET Nat, checkpoint : Nat]

Later(changes, ts) == \A c \in changes : c.ts > ts

(***************************************************************************)
(* What a scan has done and still has to do: all that is pending of what   *)
(* was seen, but for what it merged.                                       *)
(***************************************************************************)
ScanOK ==
    /\ saved \in States
    /\ seen \in 1..Len(log)
    /\ \E s \in 1..seen : log[s].kind = "schema" /\ log[s].version = saved.watermark
    /\ saved.consumed \subseteq 1..seen /\ dirty \subseteq 1..seen
    /\ \A i \in saved.consumed \cup dirty : log[i].kind # "schema"
    /\ \A i \in saved.consumed, j \in Pending(saved) : i < j
    /\ work \subseteq Pending(saved) \cap (1..seen)
    /\ \A d \in dirty, w \in work : d < w
    /\ pc \in {"idle", "load", "apply", "finish", "told", "stopped"}
    /\ pc \in {"idle", "finish"} => work = {} /\ dirty = {}
    /\ InScan => Pending(saved) \cap (1..seen) \subseteq work \cup dirty
    /\ pc = "finish" => Pending(saved) \cap (1..seen) = {}
    /\ pc \in {"apply", "told"} => work # {} /\ log[Current].kind = "schema"
    /\ meta \in {NoMeta, ColumnsAt(saved.watermark)}
    /\ InScan /\ (\E w \in work : log[w].kind = "schema") => meta # NoMeta

\* The changes still to merge are later than the checkpoint, and those not
\* seen than what the next checkpoint will be.
ClockOK ==
    /\ saved.checkpoint \in 1..clock
    /\ \A i \in Pending(saved) : log[i].kind = "file" => Later(log[i].changes, saved.checkpoint)
    /\ InScan \/ pc = "finish" =>
          /\ target \in 1..clock /\ saved.checkpoint <= target
          /\ \A i \in 1..Len(log) : i > seen /\ log[i].kind = "file" => Later(log[i].changes, target)

\* What a step of upstream does to the log.
Grows ==
    /\ clock' = clock + 1
    /\ Len(log') \in {Len(log), Len(log) + 1} /\ DOMAIN log' = 1..Len(log')
    /\ \A i \in 1..Len(log) :
          /\ log'[i].kind = log[i].kind /\ log'[i].version = log[i].version
          /\ log'[i].columns = log[i].columns
          /\ log[i].kind = "schema" \/ i <= seen => log'[i] = log[i]
    /\ \A i \in 1..Len(log') : log'[i].kind = "file" => \A c \in log'[i].changes :
          \/ i \in 1..Len(log) /\ c \in log[i].changes
          \/ c.ts = clock + 1
    /\ UNCHANGED <<table, saved, process, faults>>

LEMMA AppendGrows ==
    ASSUME NEW now, LogOK(log, now), NEW e, log' = Append(log, e), clock' = clock + 1,
           e.kind = "file" => \A c \in e.changes : c.ts = clock + 1,
           UNCHANGED <<table, saved, process, faults>>
    PROVE  Grows
<1>1. /\ Len(log) \in Nat /\ Len(log') = Len(log) + 1 /\ DOMAIN log' = 1..Len(log')
      /\ log'[Len(log) + 1] = e /\ \A i \in 1..Len(log) : log'[i] = log[i]
  BY Appended DEF LogOK
<1> DEFINE n == Len(log)
           m == Len(log')
<1>2. n \in Nat /\ m = n + 1 /\ log'[n + 1] = e /\ \A i \in 1..n : log'[i] = log[i]
  BY <1>1
<1> HIDE DEF n, m
<1>3. \A i \in 1..m : i \in 1..n \/ i = n + 1
  BY <1>2
<1>4. \A i \in 1..m : log'[i].kind = "file" => \A c \in log'[i].changes :
          (i \in 1..n /\ c \in log[i].changes) \/ c.ts = clock + 1
  BY <1>2, <1>3
<1> QED BY <1>1, <1>4 DEF Grows, n, m

LEMMA UpstreamGrows ==
    ASSUME UpstreamOK, seen \in 1..Len(log), Upstream
    PROVE  Grows
<1>0. LogOK(log, clock) /\ Len(log) \in Nat /\ Len(log) > 0
  BY UpstreamFacts
<1>1. CASE Commit
  <2>1. PICK changes \in Transactions :
           \/ /\ Len(log) > seen /\ ~IsSchema(Len(log))
              /\ log' = [log EXCEPT ![Len(log)].changes = @ \cup changes]
           \/ log' = Append(log, DataFile(Version, columns, changes))
    BY <1>1 DEF Commit
  <2>2. \A c \in changes : c.ts = clock + 1
    BY DEF Transactions, Put
  <2>3. clock' = clock + 1 /\ UNCHANGED <<table, saved, process, faults>>
    BY <1>1 DEF Commit
  <2>4. CASE log' = Append(log, DataFile(Version, columns, changes))
    <3>1. DataFile(Version, columns, changes).changes = changes
      BY DEF DataFile
    <3> QED BY <1>0, <2>2, <2>3, <2>4, <3>1, AppendGrows
  <2>5. CASE /\ Len(log) > seen /\ ~IsSchema(Len(log))
             /\ log' = [log EXCEPT ![Len(log)].changes = @ \cup changes]
    <3> DEFINE n == Len(log)
    <3>1. /\ n \in Nat /\ Len(log') = n /\ DOMAIN log' = 1..n
          /\ \A i \in 1..n : i # n => log'[i] = log[i]
          /\ log'[n] = [log[n] EXCEPT !.changes = @ \cup changes]
      BY <1>0, <2>5, GrownFacts DEF LogOK, Grown
    <3>2. /\ log'[n].kind = log[n].kind /\ log'[n].version = log[n].version
          /\ log'[n].columns = log[n].columns /\ log[n].kind # "schema"
          /\ \A c \in log'[n].changes : c \in log[n].changes \/ c \in changes
      <4>1. EntryOK(log[n], clock) /\ log[n].kind # "schema"
        BY <2>5, UpstreamFacts DEF IsSchema
      <4>2. "changes" \in DOMAIN log[n]
        BY <4>1 DEF EntryOK
      <4> HIDE DEF n
      <4> QED BY <3>1, <4>1, <4>2
    <3>3. n > seen
      BY <2>5
    <3> HIDE DEF n
    <3>4. \A i \in 1..n :
            /\ log'[i].kind = log[i].kind /\ log'[i].version = log[i].version
            /\ log'[i].columns = log[i].columns
            /\ log[i].kind = "schema" \/ i # n => log'[i] = log[i]
      BY <3>1, <3>2
    <3>5. \A i \in 1..n : \A c \in log'[i].changes : c \in log[i].changes \/ c.ts = clock + 1
      BY <2>2, <3>1, <3>2
    <3>6. ~(n <= seen)
      <4>1. seen \in Int
        OBVIOUS
      <4> QED BY <3>1, <3>3, <4>1
    <3> QED BY <2>3, <3>1, <3>4, <3>5, <3>6 DEF Grows, n
  <2> QED BY <2>1, <2>4, <2>5
<1>2. ASSUME NEW specs \in Alters, Alter(specs) PROVE Grows
  <2>1. SchemaFile(clock', "alter table", specs, columns').kind # "file"
    BY DEF SchemaFile
  <2>2. clock' = clock + 1 /\ UNCHANGED <<table, saved, process, faults>>
        /\ log' = Append(log, SchemaFile(clock', "alter table", specs, columns'))
    BY <1>2 DEF Alter
  <2> QED BY <1>0, <2>1, <2>2, AppendGrows
<1>3. ASSUME NEW action \in Actions, OtherDDL(action) PROVE Grows
  <2>1. SchemaFile(clock', action, <<>>, columns).kind # "file"
    BY DEF SchemaFile
  <2>2. clock' = clock + 1 /\ UNCHANGED <<table, saved, process, faults>>
        /\ log' = Append(log, SchemaFile(clock', action, <<>>, columns))
    BY <1>3 DEF OtherDDL
  <2> QED BY <1>0, <2>1, <2>2, AppendGrows
<1> QED BY <1>1, <1>2, <1>3 DEF Upstream

----------------------------------------------------------------------------
(***************************************************************************)
(* ... while upstream goes on.                                             *)
(***************************************************************************)
LEMMA TableIsMeta ==
    ASSUME NEW cols, IsTable(cols)
    PROVE  cols # NoMeta
<1>1. DOMAIN cols \in SUBSET Names /\ cols \in [DOMAIN cols -> Types]
  BY TableIdents
<1>2. \A S \in SUBSET Names : NoMeta \notin [S -> Types]
  BY TableAssumption, Zenon DEF TableAssumption
<1> QED BY <1>1, <1>2

\* The schema file of the watermark.
LEMMA AtWatermark ==
    ASSUME UpstreamOK, ScanOK
    PROVE  \E s \in 1..seen :
              /\ s \in 1..Len(log) /\ log[s].kind = "schema"
              /\ log[s].version = saved.watermark
              /\ SchemaIn(log, saved.watermark) = log[s]
<1>0. LogOK(log, clock) /\ Len(log) \in Nat
  BY UpstreamFacts
<1>1. PICK s \in 1..seen : log[s].kind = "schema" /\ log[s].version = saved.watermark
  BY DEF ScanOK
<1>2. s \in 1..Len(log)
  <2> DEFINE n == Len(log)
  <2>1. n \in Nat /\ seen \in 1..n
    BY <1>0 DEF ScanOK
  <2> HIDE DEF n
  <2>2. s \in 1..n
    BY <2>1
  <2> QED BY <2>2 DEF n
<1> QED BY <1>0, <1>1, <1>2, OfVersion

LEMMA Intervals ==
    ASSUME NEW n \in Nat, NEW s \in 1..n, NEW m \in {n, n + 1}
    PROVE  /\ \A i \in 1..m : i \in 1..n \/ i = n + 1
           /\ \A i \in 1..n : i \in 1..m
           /\ s \in 1..m
           /\ \A i \in 1..s : i \in 1..n /\ i <= s
           /\ \A i \in 1..m : i <= s => i \in 1..n
<1>1. CASE m = n
  BY <1>1
<1>2. CASE m = n + 1
  BY <1>2
<1> QED BY <1>1, <1>2

LEMMA GrowsPending ==
    ASSUME UpstreamOK, ScanOK, Grows, UpstreamOK'
    PROVE  /\ \A i \in 1..Len(log) : i \in Pending(saved)' <=> i \in Pending(saved)
           /\ \A i \in Pending(saved)' : i \in 1..Len(log')
                 /\ (i \in 1..Len(log) \/ i = Len(log) + 1)
           /\ \A i \in 1..Len(log') : i \in 1..Len(log) \/ i = Len(log) + 1
           /\ ColumnsAt(saved.watermark)' = ColumnsAt(saved.watermark)
           /\ seen' \in 1..Len(log')
           /\ \A i \in 1..Len(log') : i <= seen => i \in 1..Len(log) /\ log'[i] = log[i]
           /\ \A i \in 1..seen : i \in 1..Len(log) /\ log'[i] = log[i]
<1>0. LogOK(log, clock) /\ Len(log) \in Nat /\ DOMAIN log = 1..Len(log) /\ seen \in 1..Len(log)
  BY UpstreamFacts, LogEnd DEF ScanOK
<1> DEFINE n == Len(log)
           m == Len(log')
<1>1. /\ n \in Nat /\ seen \in 1..n /\ m \in {n, n + 1} /\ saved' = saved /\ seen' = seen
      /\ DOMAIN log = 1..n /\ DOMAIN log' = 1..m
      /\ \A i \in 1..n : /\ log'[i].kind = log[i].kind /\ log'[i].version = log[i].version
                         /\ (log[i].kind = "schema" \/ i <= seen => log'[i] = log[i])
  BY <1>0 DEF Grows, process
<1> HIDE DEF n, m
<1>2. /\ \A i \in 1..m : i \in 1..n \/ i = n + 1
      /\ \A i \in 1..n : i \in 1..m
      /\ seen' \in 1..m
      /\ \A i \in 1..seen : i \in 1..n /\ i <= seen
      /\ \A i \in 1..m : i <= seen => i \in 1..n
  BY <1>1, Intervals
<1>3. \A i \in 1..n : i \in PendingIn(log', saved') <=> i \in PendingIn(log, saved)
  BY <1>1, <1>2 DEF PendingIn
<1>4. \A i \in PendingIn(log', saved') : i \in 1..m
  BY <1>1 DEF PendingIn
<1>5. SchemaIn(log', saved'.watermark) = SchemaIn(log, saved.watermark)
  <2>1. PICK s \in 1..seen :
              /\ s \in 1..Len(log) /\ log[s].kind = "schema"
              /\ log[s].version = saved.watermark
              /\ SchemaIn(log, saved.watermark) = log[s]
    BY AtWatermark
  <2>2. s \in 1..m /\ log'[s] = log[s]
    BY <1>1, <1>2, <2>1 DEF n
  <2>3. LogOK(log', clock')
    BY DEF UpstreamOK
  <2>4. SchemaIn(log', log'[s].version) = log'[s]
    BY <2>1, <2>2, <2>3, OfVersion DEF m
  <2> QED BY <1>1, <2>1, <2>2, <2>4
<1> QED BY <1>1, <1>2, <1>3, <1>4, <1>5, InLog, InLogNext DEF n, m

LEMMA UpstreamScan ==
    ASSUME UpstreamOK, ScanOK, Grows, UpstreamOK'
    PROVE  ScanOK'
<1> DEFINE n == Len(log)
           P == Pending(saved)
           Q == Pending(saved)'
<1>1. /\ n \in Nat /\ seen \in 1..n
      /\ \A i \in 1..n : i \in Q <=> i \in P
      /\ \A i \in Q : i \in 1..n \/ i = n + 1
      /\ \A i \in 1..seen : i \in 1..n /\ log'[i] = log[i]
      /\ seen' \in 1..Len(log')
      /\ ColumnsAt(saved.watermark)' = ColumnsAt(saved.watermark)
  BY UpstreamFacts, GrowsPending DEF ScanOK
<1>2. /\ saved' = saved /\ seen' = seen /\ dirty' = dirty /\ work' = work /\ pc' = pc /\ meta' = meta
  BY DEF Grows, process
<1>3. /\ saved \in States
      /\ \E s \in 1..seen : log[s].kind = "schema" /\ log[s].version = saved.watermark
      /\ saved.consumed \subseteq 1..seen /\ dirty \subseteq 1..seen
      /\ \A i \in saved.consumed \cup dirty : log[i].kind # "schema"
      /\ work \subseteq P \cap (1..seen)
      /\ meta \in {NoMeta, ColumnsAt(saved.watermark)}
  BY DEF ScanOK
<1>4. \A i \in saved.consumed, j \in P : i < j
  BY DEF ScanOK
<1>5. Current' = Current /\ (InScan' <=> InScan)
  BY <1>2 DEF Current, InScan
<1> HIDE DEF n, P, Q
<1>6. Q \cap (1..seen) = P \cap (1..seen)
  BY <1>1
<1>7. \A i \in saved.consumed, j \in Q : i < j
  <2> SUFFICES ASSUME NEW i \in saved.consumed, NEW j \in Q PROVE i < j
    OBVIOUS
  <2>1. i \in 1..seen /\ i \in 1..n
    BY <1>1, <1>3
  <2>2. CASE j \in 1..n
    BY <1>1, <1>4, <2>2
  <2>3. CASE j = n + 1
    BY <1>1, <2>1, <2>3
  <2> QED BY <1>1, <2>2, <2>3
<1>8. /\ \E s \in 1..seen : log'[s].kind = "schema" /\ log'[s].version = saved.watermark
      /\ \A i \in saved.consumed \cup dirty : log'[i].kind # "schema"
      /\ \A w \in work : w \in 1..seen /\ log'[w].kind = log[w].kind
  BY <1>1, <1>3
<1>9. pc \in {"apply", "told"} => work # {} /\ log'[Current].kind = "schema"
  <2> SUFFICES ASSUME pc \in {"apply", "told"} PROVE work # {} /\ log'[Current].kind = "schema"
    OBVIOUS
  <2>1. work # {} /\ log[Current].kind = "schema"
    BY DEF ScanOK
  <2>2. work \in SUBSET Nat
    BY <1>8
  <2>3. Current \in work
    BY <2>1, <2>2, MinOf DEF Current
  <2> QED BY <1>8, <2>1, <2>3
<1>10. InScan /\ (\E w \in work : log'[w].kind = "schema") => meta # NoMeta
  BY <1>8 DEF ScanOK
<1>11. /\ \A d \in dirty, w \in work : d < w
       /\ pc \in {"idle", "load", "apply", "finish", "told", "stopped"}
       /\ pc \in {"idle", "finish"} => work = {} /\ dirty = {}
       /\ InScan => P \cap (1..seen) \subseteq work \cup dirty
       /\ pc = "finish" => P \cap (1..seen) = {}
  BY DEF ScanOK, P
<1>12. work \subseteq Q \cap (1..seen)
  BY <1>3, <1>6
<1>13. ScanOK' <=>
    /\ saved' \in States
    /\ seen' \in 1..Len(log')
    /\ \E s \in 1..seen' : log'[s].kind = "schema" /\ log'[s].version = saved'.watermark
    /\ saved'.consumed \subseteq 1..seen' /\ dirty' \subseteq 1..seen'
    /\ \A i \in saved'.consumed \cup dirty' : log'[i].kind # "schema"
    /\ \A i \in saved'.consumed, j \in Q : i < j
    /\ work' \subseteq Q \cap (1..seen')
    /\ \A d \in dirty', w \in work' : d < w
    /\ pc' \in {"idle", "load", "apply", "finish", "told", "stopped"}
    /\ pc' \in {"idle", "finish"} => work' = {} /\ dirty' = {}
    /\ InScan' => Q \cap (1..seen') \subseteq work' \cup dirty'
    /\ pc' = "finish" => Q \cap (1..seen') = {}
    /\ pc' \in {"apply", "told"} => work' # {} /\ log'[Current'].kind = "schema"
    /\ meta' \in {NoMeta, ColumnsAt(saved.watermark)'}
    /\ InScan' /\ (\E w \in work' : log'[w].kind = "schema") => meta' # NoMeta
  BY DEF ScanOK, Q
<1> QED BY <1>1, <1>2, <1>3, <1>5, <1>6, <1>7, <1>8, <1>9, <1>10, <1>11, <1>12, <1>13

LEMMA UpstreamClock ==
    ASSUME UpstreamOK, ScanOK, ClockOK, Grows, UpstreamOK'
    PROVE  ClockOK'
<1> DEFINE n == Len(log)
           m == Len(log')
           P == Pending(saved)
           Q == Pending(saved)'
<1>1. /\ n \in Nat /\ seen \in 1..n /\ clock \in Nat
      /\ \A i \in 1..n : i \in Q <=> i \in P
      /\ \A i \in Q : i \in 1..m /\ (i \in 1..n \/ i = n + 1)
      /\ \A i \in 1..m : i \in 1..n \/ i = n + 1
  BY UpstreamFacts, GrowsPending DEF ScanOK
<1>2. /\ saved' = saved /\ seen' = seen /\ pc' = pc /\ target' = target /\ clock' = clock + 1
      /\ (InScan' <=> InScan)
  BY DEF Grows, process, InScan
<1>3. /\ saved.checkpoint \in 1..clock
      /\ \A i \in P : log[i].kind = "file" => Later(log[i].changes, saved.checkpoint)
      /\ InScan \/ pc = "finish" =>
            /\ target \in 1..clock /\ saved.checkpoint <= target
            /\ \A i \in 1..n : i > seen /\ log[i].kind = "file" => Later(log[i].changes, target)
  BY DEF ClockOK
<1>4. /\ \A i \in 1..m : log'[i].kind = "file" => \A c \in log'[i].changes :
              (i \in 1..n /\ c \in log[i].changes) \/ c.ts = clock + 1
      /\ \A i \in 1..n : log'[i].kind = log[i].kind
  BY DEF Grows
<1> HIDE DEF n, m, P, Q
<1>5. saved.checkpoint \in 1..(clock + 1) /\ clock + 1 > saved.checkpoint
  BY <1>1, <1>3
<1>6. ASSUME NEW i \in Q, log'[i].kind = "file" PROVE Later(log'[i].changes, saved.checkpoint)
  <2> SUFFICES ASSUME NEW c \in log'[i].changes PROVE c.ts > saved.checkpoint
    BY DEF Later
  <2>1. i \in 1..m
    BY <1>1
  <2>2. CASE i \in 1..n /\ c \in log[i].changes
    <3>1. i \in P /\ log[i].kind = "file"
      BY <1>1, <1>4, <1>6, <2>2
    <3> QED BY <1>3, <2>2, <3>1 DEF Later
  <2>3. CASE c.ts = clock + 1
    BY <1>5, <2>3
  <2> QED BY <1>4, <1>6, <2>1, <2>2, <2>3
<1>7. ASSUME InScan \/ pc = "finish"
      PROVE  /\ target \in 1..(clock + 1)
             /\ \A i \in 1..m : i > seen /\ log'[i].kind = "file" => Later(log'[i].changes, target)
  <2>1. target \in 1..(clock + 1) /\ clock + 1 > target
    BY <1>1, <1>3, <1>7
  <2>2. ASSUME NEW i \in 1..m, i > seen, log'[i].kind = "file", NEW c \in log'[i].changes
        PROVE  c.ts > target
    <3>1. CASE i \in 1..n /\ c \in log[i].changes
      <4>1. log[i].kind = "file"
        BY <1>4, <2>2, <3>1
      <4> QED BY <1>3, <1>7, <2>2, <3>1, <4>1 DEF Later
    <3>2. CASE c.ts = clock + 1
      BY <2>1, <3>2
    <3> QED BY <1>4, <2>2, <3>1, <3>2
  <2> QED BY <2>1, <2>2 DEF Later
<1>8. ClockOK' <=>
    /\ saved'.checkpoint \in 1..clock'
    /\ \A i \in Q : log'[i].kind = "file" => Later(log'[i].changes, saved'.checkpoint)
    /\ InScan' \/ pc' = "finish" =>
          /\ target' \in 1..clock' /\ saved'.checkpoint <= target'
          /\ \A i \in 1..m : i > seen' /\ log'[i].kind = "file" => Later(log'[i].changes, target')
  BY DEF ClockOK, Q, m, Later
<1> QED BY <1>2, <1>3, <1>5, <1>6, <1>7, <1>8

----------------------------------------------------------------------------
(***************************************************************************)
(* ... and what a step of the loader makes of it.                          *)
(***************************************************************************)
\* The invariant in the next state, of a step that leaves the log alone.
LEMMA ScanNext ==
    ASSUME UNCHANGED upstream
    PROVE  /\ ScanOK' <=>
              /\ saved' \in States
              /\ seen' \in 1..Len(log)
              /\ \E s \in 1..seen' : log[s].kind = "schema" /\ log[s].version = saved'.watermark
              /\ saved'.consumed \subseteq 1..seen' /\ dirty' \subseteq 1..seen'
              /\ \A i \in saved'.consumed \cup dirty' : log[i].kind # "schema"
              /\ \A i \in saved'.consumed, j \in PendingIn(log, saved') : i < j
              /\ work' \subseteq PendingIn(log, saved') \cap (1..seen')
              /\ \A d \in dirty', w \in work' : d < w
              /\ pc' \in {"idle", "load", "apply", "finish", "told", "stopped"}
              /\ pc' \in {"idle", "finish"} => work' = {} /\ dirty' = {}
              /\ pc' \in {"load", "apply", "told"} =>
                    PendingIn(log, saved') \cap (1..seen') \subseteq work' \cup dirty'
              /\ pc' = "finish" => PendingIn(log, saved') \cap (1..seen') = {}
              /\ pc' \in {"apply", "told"} => work' # {} /\ log[Min(work')].kind = "schema"
              /\ meta' \in {NoMeta, SchemaIn(log, saved'.watermark).columns}
              /\ pc' \in {"load", "apply", "told"} /\ (\E w \in work' : log[w].kind = "schema")
                    => meta' # NoMeta
           /\ ClockOK' <=>
              /\ saved'.checkpoint \in 1..clock
              /\ \A i \in PendingIn(log, saved') :
                    log[i].kind = "file" => Later(log[i].changes, saved'.checkpoint)
              /\ pc' \in {"load", "apply", "told", "finish"} =>
                    /\ target' \in 1..clock /\ saved'.checkpoint <= target'
                    /\ \A i \in 1..Len(log) : i > seen' /\ log[i].kind = "file" =>
                          Later(log[i].changes, target')
<1>1. log' = log /\ clock' = clock
  BY DEF upstream
<1>2. Pending(saved)' = PendingIn(log, saved')
      /\ ColumnsAt(saved.watermark)' = SchemaIn(log, saved'.watermark).columns
  BY <1>1, InLogNext
<1>3. Current' = Min(work') /\ (InScan' <=> pc' \in {"load", "apply", "told"})
  BY DEF Current, InScan
<1>4. \A c, t : Later(c, t)' <=> Later(c, t)
  BY DEF Later
<1>5. ClockOK' <=>
              /\ saved'.checkpoint \in 1..clock
              /\ \A i \in PendingIn(log, saved') :
                    log[i].kind = "file" => Later(log[i].changes, saved'.checkpoint)
              /\ pc' \in {"load", "apply", "told", "finish"} =>
                    /\ target' \in 1..clock /\ saved'.checkpoint <= target'
                    /\ \A i \in 1..Len(log) : i > seen' /\ log[i].kind = "file" =>
                          Later(log[i].changes, target')
  BY <1>1, <1>2, <1>3 DEF ClockOK, Later
<1> QED BY <1>1, <1>2, <1>3, <1>5 DEF ScanOK

\* ... and in this one.
LEMMA ScanNow ==
    ASSUME UpstreamOK, ScanOK, ClockOK
    PROVE  /\ saved \in States /\ Len(log) \in Nat /\ LogOK(log, clock) /\ clock \in Nat
           /\ seen \in 1..Len(log)
           /\ \E s \in 1..seen : log[s].kind = "schema" /\ log[s].version = saved.watermark
           /\ saved.consumed \subseteq 1..seen /\ dirty \subseteq 1..seen
           /\ \A i \in saved.consumed \cup dirty : log[i].kind # "schema"
           /\ \A i \in saved.consumed, j \in PendingIn(log, saved) : i < j
           /\ work \subseteq PendingIn(log, saved) \cap (1..seen)
           /\ \A d \in dirty, w \in work : d < w
           /\ pc \in {"idle", "load", "apply", "finish", "told", "stopped"}
           /\ pc \in {"idle", "finish"} => work = {} /\ dirty = {}
           /\ pc \in {"load", "apply", "told"} =>
                 PendingIn(log, saved) \cap (1..seen) \subseteq work \cup dirty
           /\ pc = "finish" => PendingIn(log, saved) \cap (1..seen) = {}
           /\ pc \in {"apply", "told"} => work # {} /\ log[Min(work)].kind = "schema"
           /\ meta \in {NoMeta, SchemaIn(log, saved.watermark).columns}
           /\ pc \in {"load", "apply", "told"} /\ (\E w \in work : log[w].kind = "schema")
                 => meta # NoMeta
           /\ saved.checkpoint \in 1..clock
           /\ \A i \in PendingIn(log, saved) :
                 log[i].kind = "file" => Later(log[i].changes, saved.checkpoint)
           /\ pc \in {"load", "apply", "told", "finish"} =>
                 /\ target \in 1..clock /\ saved.checkpoint <= target
                 /\ \A i \in 1..Len(log) : i > seen /\ log[i].kind = "file" =>
                       Later(log[i].changes, target)
           /\ \A i \in PendingIn(log, saved) : i \in 1..Len(log)
           /\ \A i \in 1..seen : i \in 1..Len(log)
<1>1. Pending(saved) = PendingIn(log, saved)
      /\ ColumnsAt(saved.watermark) = SchemaIn(log, saved.watermark).columns
  BY InLog
<1>2. Current = Min(work) /\ (InScan <=> pc \in {"load", "apply", "told"})
  BY DEF Current, InScan
<1>3. Len(log) \in Nat /\ LogOK(log, clock) /\ clock \in Nat /\ DOMAIN log = 1..Len(log)
  BY UpstreamFacts, LogEnd
<1>4. seen \in 1..Len(log)
  BY DEF ScanOK
<1> DEFINE n == Len(log)
<1>5. n \in Nat /\ seen \in 1..n
  BY <1>3, <1>4
<1> HIDE DEF n
<1>6. \A i \in 1..seen : i \in 1..n
  BY <1>5
<1>7. \A i \in PendingIn(log, saved) : i \in 1..n
  BY <1>3 DEF PendingIn, n
<1>8. /\ saved.checkpoint \in 1..clock
      /\ \A i \in PendingIn(log, saved) :
            log[i].kind = "file" => Later(log[i].changes, saved.checkpoint)
      /\ pc \in {"load", "apply", "told", "finish"} =>
            /\ target \in 1..clock /\ saved.checkpoint <= target
            /\ \A i \in 1..Len(log) : i > seen /\ log[i].kind = "file" =>
                  Later(log[i].changes, target)
  BY <1>1, <1>2 DEF ClockOK
<1> QED BY <1>1, <1>2, <1>3, <1>4, <1>6, <1>7, <1>8 DEF ScanOK, n

LEMMA CurrentFacts ==
    ASSUME UpstreamOK, ScanOK, work # {}
    PROVE  /\ Current = Min(work) /\ Current \in work /\ \A w \in work : Current <= w
           /\ Current \in 1..seen /\ Current \in 1..Len(log) /\ Current \in Pending(saved)
           /\ work \subseteq 1..seen /\ File = log[Current]
<1>1. work \subseteq 1..seen /\ work \subseteq Pending(saved)
  BY DEF ScanOK
<1>2. work \in SUBSET Nat
  BY <1>1
<1>3. Current = Min(work) /\ Current \in work /\ \A w \in work : Current <= w
  BY <1>2, MinOf DEF Current
<1>4. \A i \in 1..seen : i \in 1..Len(log)
  <2> DEFINE n == Len(log)
  <2>1. n \in Nat /\ seen \in 1..n
    BY UpstreamFacts DEF ScanOK
  <2> HIDE DEF n
  <2>2. \A i \in 1..seen : i \in 1..n
    BY <2>1
  <2> QED BY <2>2 DEF n
<1> QED BY <1>1, <1>3, <1>4 DEF File

\* The watermark after the DDL at work.
Passed == [saved EXCEPT !.watermark = File.version]

LEMMA PassedFacts ==
    ASSUME UpstreamOK, ScanOK, ClockOK, pc \in {"apply", "told"}
    PROVE  /\ Passed \in States /\ Passed.watermark = File.version
           /\ Passed.consumed = saved.consumed /\ Passed.checkpoint = saved.checkpoint
           /\ work # {} /\ File.kind = "schema" /\ File = log[Current]
           /\ PendingIn(log, Passed) \subseteq PendingIn(log, saved) \ {Current}
           /\ work \ {Current} \subseteq PendingIn(log, Passed)
           /\ SchemaIn(log, File.version) = File
           /\ File.version > saved.watermark
<1>0. /\ work # {} /\ log[Min(work)].kind = "schema" /\ saved \in States
      /\ LogOK(log, clock) /\ DOMAIN log = 1..Len(log) /\ Len(log) \in Nat
  BY ScanNow, LogEnd
<1>1. /\ Current \in work /\ (\A w \in work : Current <= w) /\ Current \in 1..seen
      /\ Current \in 1..Len(log) /\ Current \in Pending(saved) /\ File = log[Current]
      /\ Current = Min(work)
  BY <1>0, CurrentFacts
<1>2. File.kind = "schema"
  BY <1>0, <1>1
<1>3. File.version \in Nat
  BY <1>0, <1>1, Entries
<1>4. /\ Passed \in States /\ Passed.watermark = File.version
      /\ Passed.consumed = saved.consumed /\ Passed.checkpoint = saved.checkpoint
  BY <1>0, <1>3 DEF Passed, States
<1>5. Current \in PendingIn(log, saved) /\ saved.watermark \in Nat
  BY <1>0, <1>1, InLog DEF States
<1>6. File.version > saved.watermark
  BY <1>1, <1>2, <1>5 DEF PendingIn
<1>7. \A i \in 1..Len(log) : log[i].version \in Nat
  BY <1>0, Entries
<1>8. PendingIn(log, Passed) \subseteq PendingIn(log, saved) \ {Current}
  <2> SUFFICES ASSUME NEW i \in PendingIn(log, Passed)
               PROVE  i \in PendingIn(log, saved) /\ i # Current
    OBVIOUS
  <2>1. i \in 1..Len(log) /\ i \notin saved.consumed
    BY <1>0, <1>4 DEF PendingIn
  <2>2. log[i].version > File.version \/ (log[i].version = File.version /\ log[i].kind # "schema")
    BY <1>4 DEF PendingIn
  <2>3. log[i].version > saved.watermark
    BY <1>3, <1>5, <1>6, <1>7, <2>1, <2>2
  <2>4. i # Current
    BY <1>1, <1>2, <1>3, <2>2
  <2> QED BY <1>0, <2>1, <2>3, <2>4 DEF PendingIn
<1>9. work \ {Current} \subseteq PendingIn(log, Passed)
  <2> SUFFICES ASSUME NEW i \in work, i # Current PROVE i \in PendingIn(log, Passed)
    OBVIOUS
  <2>1. i \in 1..seen /\ i \in PendingIn(log, saved)
    BY InLog DEF ScanOK
  <2>2. i \in 1..Len(log) /\ i \notin saved.consumed
    BY <1>0, <2>1 DEF PendingIn
  <2>3. Current < i
    BY <1>1, <2>1
  <2>4. File.version <= log[i].version /\ (log[i].kind = "schema" => File.version < log[i].version)
    BY <1>0, <1>1, <2>2, <2>3, Ordered
  <2>5. log[i].version > File.version \/ (log[i].version = File.version /\ log[i].kind # "schema")
    BY <1>3, <1>7, <2>2, <2>4
  <2> QED BY <1>0, <1>4, <2>2, <2>5 DEF PendingIn
<1>10. SchemaIn(log, File.version) = File
  BY <1>0, <1>1, <1>2, OfVersion
<1> QED BY <1>0, <1>1, <1>2, <1>4, <1>6, <1>8, <1>9, <1>10

----------------------------------------------------------------------------
(***************************************************************************)
(* ... and each step of the loader.                                        *)
(***************************************************************************)
ScanInv == UpstreamOK /\ ScanOK /\ ClockOK

LEMMA BeginScanScan ==
    ASSUME ScanInv, BeginScan
    PROVE  ScanOK' /\ ClockOK'
<1>0. UpstreamOK /\ ScanOK /\ ClockOK
  BY DEF ScanInv
<1>1. /\ UNCHANGED upstream /\ pc = "idle" /\ pc' = "load" /\ seen' = Len(log) /\ target' = clock
      /\ saved' = saved /\ dirty' = dirty
      /\ work' = PendingIn(log, saved)
      /\ meta' = IF meta = NoMeta /\ \E i \in work' : log[i].kind = "schema"
                 THEN SchemaIn(log, saved.watermark).columns ELSE meta
  BY InLog DEF BeginScan, IsSchema
<1>2. PICK s \in 1..seen : /\ s \in 1..Len(log) /\ log[s].kind = "schema"
                           /\ log[s].version = saved.watermark
                           /\ SchemaIn(log, saved.watermark) = log[s]
  BY <1>0, AtWatermark
<1>3. SchemaIn(log, saved.watermark).columns # NoMeta
  BY <1>0, <1>2, UpstreamFacts, Entries, TableIsMeta
<1>4. dirty = {} /\ Len(log) \in 1..Len(log) /\ clock \in 1..clock
      /\ \A i \in 1..Len(log) : ~(i > Len(log))
  <2>1. dirty = {} /\ Len(log) \in 1..Len(log)
    BY <1>0, <1>1, ScanNow, UpstreamFacts
  <2> DEFINE n == Len(log)
  <2>2. n \in Nat /\ clock \in Nat /\ clock \in 1..MaxTS
    BY <1>0, UpstreamFacts
  <2> HIDE DEF n
  <2>3. clock \in 1..clock /\ \A i \in 1..n : ~(i > n)
    BY <2>2
  <2> QED BY <2>1, <2>3 DEF n
<1>5. /\ saved \in States /\ saved.consumed \subseteq 1..Len(log)
      /\ \A i \in saved.consumed : log[i].kind # "schema"
      /\ \A i \in saved.consumed, j \in PendingIn(log, saved) : i < j
      /\ PendingIn(log, saved) \subseteq 1..Len(log)
      /\ meta \in {NoMeta, SchemaIn(log, saved.watermark).columns}
      /\ saved.checkpoint \in 1..clock /\ saved.checkpoint <= clock
      /\ \A i \in PendingIn(log, saved) :
            log[i].kind = "file" => Later(log[i].changes, saved.checkpoint)
  <2>1. saved.checkpoint \in 1..clock /\ clock \in Nat
    BY <1>0, ScanNow
  <2>2. saved.checkpoint <= clock
    BY <2>1
  <2> QED BY <1>0, <2>1, <2>2, ScanNow
<1>6. ScanOK'
  BY <1>1, <1>2, <1>3, <1>4, <1>5, ScanNext
<1>7. ClockOK'
  BY <1>1, <1>4, <1>5, ScanNext
<1> QED BY <1>6, <1>7

\* Steps of the DDL at work, and a stop.
LEMMA SamePlaceScan ==
    ASSUME ScanInv, UNCHANGED <<upstream, saved, work, seen, target, dirty, meta>>,
           \/ pc' = pc
           \/ pc' = "stopped"
           \/ pc = "load" /\ pc' = "apply" /\ work # {} /\ log[Min(work)].kind = "schema"
           \/ pc = "apply" /\ pc' = "told"
    PROVE  ScanOK' /\ ClockOK'
<1>0. UpstreamOK /\ ScanOK /\ ClockOK /\ UNCHANGED upstream
      /\ saved' = saved /\ work' = work /\ seen' = seen /\ target' = target
      /\ dirty' = dirty /\ meta' = meta
  BY DEF ScanInv
<1>1. ScanOK'
  BY <1>0, ScanNow, ScanNext
<1>2. ClockOK'
  BY <1>0, ScanNow, ScanNext
<1> QED BY <1>1, <1>2

LEMMA SaveWatermarkScan ==
    ASSUME ScanInv, SaveWatermark
    PROVE  ScanOK' /\ ClockOK'
<1>0. UpstreamOK /\ ScanOK /\ ClockOK
  BY DEF ScanInv
<1>1. /\ UNCHANGED upstream /\ pc = "apply" /\ pc' = "load"
      /\ saved' = Passed /\ meta' = File.columns /\ work' = work \ {Current}
      /\ seen' = seen /\ target' = target /\ dirty' = dirty
  BY DEF SaveWatermark, Applied, Passed
<1>2. /\ Passed \in States /\ Passed.watermark = File.version
      /\ Passed.consumed = saved.consumed /\ Passed.checkpoint = saved.checkpoint
      /\ work # {} /\ File.kind = "schema" /\ File = log[Current]
      /\ PendingIn(log, Passed) \subseteq PendingIn(log, saved) \ {Current}
      /\ work \ {Current} \subseteq PendingIn(log, Passed)
      /\ SchemaIn(log, File.version) = File
  BY <1>0, <1>1, PassedFacts
<1>3. Current \in work /\ Current \in 1..seen /\ Current \in 1..Len(log)
  BY <1>0, <1>2, CurrentFacts
<1>4. IsTable(File.columns) /\ File.columns # NoMeta
  BY <1>0, <1>2, <1>3, UpstreamFacts, Entries, TableIsMeta
<1>5. ScanOK'
  BY <1>0, <1>1, <1>2, <1>3, <1>4, ScanNow, ScanNext
<1>6. ClockOK'
  BY <1>0, <1>1, <1>2, ScanNow, ScanNext
<1> QED BY <1>5, <1>6

LEMMA LoadIncrementScan ==
    ASSUME ScanInv, LoadIncrement
    PROVE  ScanOK' /\ ClockOK'
<1>0. UpstreamOK /\ ScanOK /\ ClockOK
  BY DEF ScanInv
<1>1. /\ UNCHANGED upstream /\ pc = "load" /\ pc' = "load" /\ work # {}
      /\ log[Current].kind # "schema"
      /\ saved' = saved /\ work' = work \ {Current} /\ dirty' = dirty \cup {Current}
      /\ seen' = seen /\ target' = target /\ meta' = meta
  BY DEF LoadIncrement, Loading, IsSchema, Rest
<1>2. Current \in work /\ (\A w \in work : Current <= w) /\ Current \in 1..seen /\ work \subseteq 1..seen
  BY <1>0, <1>1, CurrentFacts
<1>3. \A w \in work \ {Current} : Current < w
  BY <1>2
<1>4. ScanOK'
  BY <1>0, <1>1, <1>2, <1>3, ScanNow, ScanNext
<1>5. ClockOK'
  BY <1>0, <1>1, ScanNow, ScanNext
<1> QED BY <1>4, <1>5

LEMMA SaveCursorsScan ==
    ASSUME ScanInv, SaveCursors
    PROVE  ScanOK' /\ ClockOK'
<1>0. UpstreamOK /\ ScanOK /\ ClockOK
  BY DEF ScanInv
<1>1. /\ UNCHANGED upstream /\ pc = "load" /\ pc' = "finish" /\ work = {} /\ work' = {}
      /\ saved' = [saved EXCEPT !.consumed = @ \cup dirty] /\ dirty' = {}
      /\ seen' = seen /\ target' = target /\ meta' = meta
  BY DEF SaveCursors
<1>2. /\ saved \in States /\ dirty \subseteq 1..seen /\ saved.consumed \subseteq 1..seen
      /\ PendingIn(log, saved) \cap (1..seen) \subseteq dirty
  BY <1>0, <1>1, ScanNow
<1>3. /\ saved' \in States /\ saved'.consumed = saved.consumed \cup dirty
      /\ saved'.watermark = saved.watermark /\ saved'.checkpoint = saved.checkpoint
  <2>1. dirty \subseteq Nat
    BY <1>2
  <2> QED BY <1>1, <1>2, <2>1 DEF States
<1>4. PendingIn(log, saved') = PendingIn(log, saved) \ dirty
  BY <1>3 DEF PendingIn
<1>5. PendingIn(log, saved') \cap (1..seen) = {}
  BY <1>2, <1>4
<1>6. \A i \in saved'.consumed, j \in PendingIn(log, saved') : i < j
  <2> SUFFICES ASSUME NEW i \in saved'.consumed, NEW j \in PendingIn(log, saved') PROVE i < j
    OBVIOUS
  <2>1. i \in 1..seen /\ j \in Nat /\ j \notin 1..seen /\ j > 0 /\ seen \in Nat
    <3>1. j \in 1..Len(log) /\ seen \in 1..Len(log)
      BY <1>0, <1>4, ScanNow
    <3>2. j \in Nat /\ j > 0 /\ seen \in Nat
      BY <3>1
    <3> QED BY <1>2, <1>3, <1>5, <3>2
  <2> QED BY <2>1
<1>7. ScanOK'
  BY <1>0, <1>1, <1>3, <1>4, <1>5, <1>6, ScanNow, ScanNext
<1>8. ClockOK'
  BY <1>0, <1>1, <1>3, <1>4, ScanNow, ScanNext
<1> QED BY <1>7, <1>8

LEMMA SaveCheckpointScan ==
    ASSUME ScanInv, SaveCheckpoint
    PROVE  ScanOK' /\ ClockOK'
<1>0. UpstreamOK /\ ScanOK /\ ClockOK
  BY DEF ScanInv
<1>1. /\ UNCHANGED upstream /\ pc = "finish" /\ pc' = "idle" /\ work' = work /\ dirty' = dirty
      /\ saved' = [saved EXCEPT !.checkpoint = target] /\ seen' = seen /\ meta' = meta
  BY DEF SaveCheckpoint
<1>2. saved \in States /\ target \in Nat /\ target \in 1..clock
      /\ PendingIn(log, saved) \cap (1..seen) = {}
  BY <1>0, <1>1, ScanNow
<1>3. /\ saved' \in States /\ saved'.consumed = saved.consumed
      /\ saved'.watermark = saved.watermark /\ saved'.checkpoint = target
  BY <1>1, <1>2 DEF States
<1>4. PendingIn(log, saved') = PendingIn(log, saved)
  BY <1>3 DEF PendingIn
<1>5. \A i \in PendingIn(log, saved) : i > seen
  <2> SUFFICES ASSUME NEW i \in PendingIn(log, saved) PROVE i > seen
    OBVIOUS
  <2>1. i \in 1..Len(log) /\ seen \in 1..Len(log) /\ i \notin 1..seen
    BY <1>0, <1>2, ScanNow
  <2> QED BY <2>1
<1>6. ScanOK'
  BY <1>0, <1>1, <1>3, <1>4, ScanNow, ScanNext
<1>7. ClockOK'
  BY <1>0, <1>1, <1>2, <1>3, <1>4, <1>5, ScanNow, ScanNext
<1> QED BY <1>6, <1>7

\* A process that starts, where the state object is as it was or a DDL further.
LEMMA StartedScan ==
    ASSUME ScanInv, UNCHANGED upstream, Started,
           saved' = saved \/ (saved' = Passed /\ pc = "told")
    PROVE  ScanOK' /\ ClockOK'
<1>0. UpstreamOK /\ ScanOK /\ ClockOK
  BY DEF ScanInv
<1>1. pc' = "idle" /\ work' = {} /\ dirty' = {} /\ seen' = seen /\ meta' = NoMeta
  BY DEF Started
<1>2. CASE saved' = saved
  BY <1>0, <1>1, <1>2, ScanNow, ScanNext
<1>3. CASE saved' = Passed /\ pc = "told"
  <2>1. /\ Passed \in States /\ Passed.watermark = File.version
        /\ Passed.consumed = saved.consumed /\ Passed.checkpoint = saved.checkpoint
        /\ work # {} /\ File.kind = "schema" /\ File = log[Current]
        /\ PendingIn(log, Passed) \subseteq PendingIn(log, saved) \ {Current}
    BY <1>0, <1>3, PassedFacts
  <2>2. Current \in 1..seen
    BY <1>0, <2>1, CurrentFacts
  <2>3. ScanOK'
    BY <1>0, <1>1, <1>3, <2>1, <2>2, ScanNow, ScanNext
  <2>4. ClockOK'
    BY <1>0, <1>1, <1>3, <2>1, ScanNow, ScanNext
  <2> QED BY <2>3, <2>4
<1> QED BY <1>2, <1>3

LEMMA InitScan ==
    Init => ScanInv
<1> SUFFICES ASSUME Init PROVE ScanInv
  OBVIOUS
<1>1. UpstreamOK
  BY InitUpstream
<1> DEFINE e == SchemaFile(FirstVersion, "none", <<>>, FirstColumns)
<1>2. e.kind = "schema" /\ e.version = 1
  BY DEF SchemaFile, FirstVersion
<1>3. log = <<e>>
  BY DEF Init
<1> HIDE DEF e
<1>4. Len(log) = 1 /\ log[1] = e /\ DOMAIN log = {1}
  BY <1>3
<1>5. /\ saved = [watermark |-> 1, consumed |-> {}, checkpoint |-> 1] /\ pc = "idle"
      /\ work = {} /\ seen = 1 /\ dirty = {} /\ meta = NoMeta /\ clock = 1
  BY DEF Init, FirstVersion
<1>6. saved \in States /\ saved.watermark = 1 /\ saved.consumed = {} /\ saved.checkpoint = 1
  BY <1>5 DEF States
<1>7. Pending(saved) = {}
  BY <1>2, <1>4, <1>6 DEF Pending, IsSchema
<1>8. ScanOK
  BY <1>2, <1>4, <1>5, <1>6, <1>7 DEF ScanOK, InScan
<1>9. ClockOK
  BY <1>5, <1>6, <1>7 DEF ClockOK, InScan
<1> QED BY <1>1, <1>8, <1>9 DEF ScanInv

LEMMA ScanStays ==
    ScanInv /\ [Next]_vars => ScanInv'
<1> SUFFICES ASSUME ScanInv, [Next]_vars PROVE ScanInv'
  OBVIOUS
<1>0. UpstreamOK /\ ScanOK /\ ClockOK /\ UpstreamOK'
  BY UpstreamStays DEF ScanInv
<1> SUFFICES ScanOK' /\ ClockOK'
  BY <1>0 DEF ScanInv
<1>1. CASE Upstream
  <2>1. Grows
    BY <1>0, <1>1, UpstreamGrows DEF ScanOK
  <2> QED BY <1>0, <2>1, UpstreamScan, UpstreamClock
<1>2. CASE BeginScan
  BY <1>2, BeginScanScan
<1>3. CASE StartDDL
  <2>1. /\ UNCHANGED <<upstream, saved, work, seen, target, dirty, meta>>
        /\ \/ pc' = "stopped"
           \/ pc = "load" /\ pc' = "apply" /\ work # {} /\ log[Min(work)].kind = "schema"
    BY <1>3 DEF StartDDL, Loading, IsSchema, Current
  <2> QED BY <2>1, SamePlaceScan
<1>4. CASE ExecDDL
  <2>1. UNCHANGED <<upstream, saved, work, seen, target, dirty, meta>> /\ pc' = pc
    BY <1>4 DEF ExecDDL
  <2> QED BY <2>1, SamePlaceScan
<1>5. CASE ExecDDLFails
  <2>1. UNCHANGED <<upstream, saved, work, seen, target, dirty, meta>> /\ pc = "apply" /\ pc' = "told"
    BY <1>5 DEF ExecDDLFails
  <2> QED BY <2>1, SamePlaceScan
<1>6. CASE SaveWatermark
  BY <1>6, SaveWatermarkScan
<1>7. CASE LoadIncrement
  BY <1>7, LoadIncrementScan
<1>8. CASE LoadIncrementFails
  <2>1. UNCHANGED <<upstream, saved, work, seen, target, dirty, meta>> /\ pc' = "stopped"
    BY <1>8 DEF LoadIncrementFails
  <2> QED BY <2>1, SamePlaceScan
<1>9. CASE SaveCursors
  BY <1>9, SaveCursorsScan
<1>10. CASE SaveCheckpoint
  BY <1>10, SaveCheckpointScan
<1>11. CASE Crash \/ Restart
  <2>1. UNCHANGED upstream /\ Started /\ saved' = saved
    BY <1>11 DEF Crash, Restart
  <2> QED BY <2>1, StartedScan
<1>12. CASE Repair
  <2>1. UNCHANGED upstream /\ Started /\ saved' = Passed /\ pc = "told"
    BY <1>12 DEF Repair, Passed
  <2> QED BY <2>1, StartedScan
<1>13. CASE UNCHANGED vars
  <2>1. UNCHANGED <<upstream, saved, work, seen, target, dirty, meta>> /\ pc' = pc
    BY <1>13 DEF vars, process
  <2> QED BY <2>1, SamePlaceScan
<1> QED BY <1>1, <1>2, <1>3, <1>4, <1>5, <1>6, <1>7, <1>8, <1>9, <1>10, <1>11, <1>12, <1>13
        DEF Next, Loader

(***************************************************************************)
(* What is in the log, what the scan has in work and what the checkpoint   *)
(* stands for stay together: no file between the checkpoint and the end of *)
(* the scan is forgotten, whatever fails or is restarted (processTable).   *)
(***************************************************************************)
THEOREM ScanStaysOK == Spec => []ScanInv
<1>1. Init => ScanInv
  BY InitScan
<1>2. ScanInv /\ [Next]_vars => ScanInv'
  BY ScanStays
<1> QED BY <1>1, <1>2, PTL DEF Spec

----------------------------------------------------------------------------
(***************************************************************************)
(* Merges.                                                                 *)
(***************************************************************************)
LEMMA NothingExecuted ==
    \A x, y : SubSeq(x, 1, 0) = <<>> /\ ColumnsAfterAll(y, SubSeq(x, 1, 0)) = y
              /\ ~Dropped(SubSeq(x, 1, 0))
<1> SUFFICES ASSUME NEW x, NEW y
             PROVE  SubSeq(x, 1, 0) = <<>> /\ ColumnsAfterAll(y, SubSeq(x, 1, 0)) = y
                    /\ ~Dropped(SubSeq(x, 1, 0))
  OBVIOUS
<1>1. SubSeq(x, 1, 0) = <<>>
  OBVIOUS
<1>2. ~Dropped(<<>>)
  BY DEF Dropped
<1> QED BY <1>1, <1>2, NoneAfter

\* No schema file comes before a file: it is of the watermark's version.
LEMMA FileOfWatermark ==
    ASSUME ScanInv, pc = "load", work # {}, log[Current].kind # "schema"
    PROVE  File.version = saved.watermark
<1>0. UpstreamOK /\ ScanOK /\ ClockOK
  BY DEF ScanInv
<1>2. /\ Current \in work /\ (\A w \in work : Current <= w) /\ Current \in 1..seen
      /\ Current \in 1..Len(log) /\ Current \in Pending(saved) /\ File = log[Current]
  BY <1>0, CurrentFacts
<1>4. /\ LogOK(log, clock) /\ Len(log) \in Nat /\ DOMAIN log = 1..Len(log)
      /\ \A i \in saved.consumed \cup dirty : log[i].kind # "schema"
      /\ PendingIn(log, saved) \cap (1..seen) \subseteq work \cup dirty
      /\ saved.watermark \in Nat
  BY <1>0, ScanNow, LogEnd DEF States
<1>11. PICK t \in 1..Current : log[t].kind = "schema" /\ log[t].version = log[Current].version
  BY <1>2, <1>4 DEF LogOK
<1>12. t \in 1..seen /\ t \in 1..Len(log) /\ t # Current /\ t < Current
  <2>1. t # Current
    BY <1>11
  <2> DEFINE n == Len(log)
  <2>2. n \in Nat /\ Current \in 1..n /\ Current \in 1..seen /\ seen \in 1..n
    BY <1>0, <1>2, <1>4, ScanNow
  <2> HIDE DEF n
  <2>3. t \in 1..seen /\ t \in 1..n /\ t < Current
    BY <2>1, <2>2
  <2> QED BY <2>1, <2>3 DEF n
<1>13. ASSUME log[t].version > saved.watermark PROVE FALSE
  <2>1. t \in PendingIn(log, saved)
    BY <1>4, <1>11, <1>12, <1>13 DEF PendingIn
  <2>2. t \in work
    BY <1>4, <1>11, <1>12, <2>1
  <2>3. Current <= t /\ t < Current /\ Current \in Nat /\ t \in Nat
    BY <1>2, <1>12, <2>2
  <2> QED BY <2>3
<1>14. log[t].version \in Nat
  BY <1>4, <1>12, Entries
<1>15. log[Current].version >= saved.watermark
  <2>1. Current \in PendingIn(log, saved)
    BY <1>2, InLog
  <2>2. log[Current].version \in Nat
    BY <1>2, <1>4, Entries
  <2> QED BY <1>4, <2>1, <2>2 DEF PendingIn
<1> QED BY <1>2, <1>4, <1>11, <1>13, <1>14, <1>15

LEMMA MergeFits ==
    ScanInv => MergeStopsOnlyInsideDDL
<1> SUFFICES ASSUME ScanInv, Loading, ~IsSchema(Current), ExplainedBy(NextStatements, 0)
             PROVE  Fits
  BY DEF MergeStopsOnlyInsideDDL
<1>0. UpstreamOK /\ ScanOK /\ ClockOK
  BY DEF ScanInv
<1>1. pc = "load" /\ work # {} /\ log[Current].kind # "schema"
  BY DEF Loading, IsSchema
<1>2. /\ Current \in work /\ (\A w \in work : Current <= w) /\ Current \in 1..seen
      /\ Current \in 1..Len(log) /\ Current \in Pending(saved) /\ File = log[Current]
  BY <1>0, <1>1, CurrentFacts
<1>3. PICK s \in 1..seen : /\ s \in 1..Len(log) /\ log[s].kind = "schema"
                           /\ log[s].version = saved.watermark
                           /\ SchemaIn(log, saved.watermark) = log[s]
  BY <1>0, AtWatermark
<1>4. /\ LogOK(log, clock) /\ Len(log) \in Nat /\ DOMAIN log = 1..Len(log)
      /\ \A i \in saved.consumed \cup dirty : log[i].kind # "schema"
      /\ PendingIn(log, saved) \cap (1..seen) \subseteq work \cup dirty
      /\ saved.watermark \in Nat
  BY <1>0, <1>1, ScanNow, LogEnd DEF States
<1>5. File.version = saved.watermark
  BY <1>1, FileOfWatermark
<1>6. log[s].columns = File.columns /\ s < Current
  <2>1. log[s].columns = File.columns /\ s <= Current
    BY <1>2, <1>3, <1>4, <1>5, OfVersion
  <2>2. s # Current
    BY <1>1, <1>3
  <2>3. s \in Nat /\ Current \in Nat
    BY <1>2, <1>3
  <2> QED BY <2>1, <2>2, <2>3
<1>7. sfColumns = Image(File.columns) /\ (exists <=> log[s].action # "drop table")
  BY <1>3, <1>6, InLog, NothingExecuted DEF ExplainedBy
<1>8. log[s].action \in Stays
  <2> DEFINE n == Len(log)
  <2>1. s \in 1..(n - 1)
    <3>1. n \in Nat /\ Current \in 1..n /\ s \in 1..n /\ s < Current
      BY <1>2, <1>3, <1>4, <1>6
    <3> HIDE DEF n
    <3> QED BY <3>1
  <2> QED BY <1>3, <1>4, <2>1 DEF LogOK
<1>9. {Ident[n] : n \in DOMAIN File.columns} = DOMAIN sfColumns
  BY <1>7 DEF Image
<1> QED BY <1>7, <1>8, <1>9 DEF Fits, Stays

(***************************************************************************)
(* A MERGE that names a missing column happens only where a DDL was        *)
(* executed and its watermark not saved (LoadIncrement, applyDDL).         *)
(***************************************************************************)
THEOREM MergeStopsInside == Spec => []MergeStopsOnlyInsideDDL
<1>1. Spec => []ScanInv
  BY ScanStaysOK
<1>2. ScanInv => MergeStopsOnlyInsideDDL
  BY MergeFits
<1> QED BY <1>1, <1>2, PTL

----------------------------------------------------------------------------
(***************************************************************************)
(* The statements of the next DDL, from the watermark on.                  *)
(***************************************************************************)
CasesKept == \A specs \in Alters : AllCaseKept(specs)

NextIn(l, v) == {i \in DOMAIN l : l[i].kind = "schema" /\ l[i].version > v}

StatementsIn(l, v) ==
    LET f == l[Min(NextIn(l, v))]
        cols == SchemaIn(l, v).columns
    IN  IF NextIn(l, v) = {} \/ ~Accepted(cols, f) THEN <<>> ELSE Translation(cols, f)

LEMMA NextInLog ==
    /\ NextDDLs = NextIn(log, saved.watermark)
    /\ NextStatements = StatementsIn(log, saved.watermark)
    /\ NextDDLs' = NextIn(log', saved'.watermark)
    /\ NextStatements' = StatementsIn(log', saved'.watermark)
<1>1. NextDDLs = NextIn(log, saved.watermark) /\ NextDDLs' = NextIn(log', saved'.watermark)
  BY DEF NextDDLs, NextIn, IsSchema
<1>2. NextStatements = StatementsIn(log, saved.watermark)
  BY <1>1, InLog DEF NextStatements, StatementsIn
<1>3. NextStatements' = StatementsIn(log', saved'.watermark)
  BY <1>1, InLogNext DEF NextStatements, StatementsIn
<1> QED BY <1>1, <1>2, <1>3

\* What the schema file after a version is to the columns of that version.
IsDDL(f, cols) ==
    \/ /\ f.action = "alter table" /\ ValidAlter(cols, f.specs)
       /\ f.columns = ColumnsAfterAll(cols, f.specs)
    \/ f.action \in Actions /\ f.specs = <<>> /\ f.columns = cols

LEMMA NextFacts ==
    ASSUME NEW now, NEW l, LogOK(l, now), NEW s \in 1..Len(l), l[s].kind = "schema",
           NextIn(l, l[s].version) # {}
    PROVE  LET j == Min(NextIn(l, l[s].version))
           IN  /\ j \in 1..Len(l) /\ s < j /\ l[j].kind = "schema" /\ l[j].version > l[s].version
               /\ \A i \in NextIn(l, l[s].version) : j <= i
               /\ IsDDL(l[j], l[s].columns)
               /\ l[s].action \in Stays
               /\ SchemaIn(l, l[j].version) = l[j]
               /\ \A i \in 1..Len(l) : i < j /\ s <= i => l[i].version = l[s].version
<1> DEFINE D == NextIn(l, l[s].version)
           j == Min(D)
           n == Len(l)
<1>0. DOMAIN l = 1..n /\ n \in Nat
  BY LogEnd
<1>1. D \in SUBSET Nat /\ D # {}
  BY <1>0 DEF NextIn
<1>2. j \in D /\ \A i \in D : j <= i
  BY <1>1, MinOf
<1> HIDE DEF j, n
<1>3. j \in 1..n /\ l[j].kind = "schema" /\ l[j].version > l[s].version
  BY <1>0, <1>2 DEF NextIn
<1>4. l[s].version \in Nat /\ l[j].version \in Nat
  BY <1>3, Entries DEF n
<1>5. s < j
  <2>1. s \in 1..n
    BY DEF n
  <2>2. ASSUME j < s PROVE FALSE
    <3>1. l[j].version < l[s].version
      BY <1>3, <2>1, <2>2, Ordered DEF n
    <3> QED BY <1>3, <1>4, <3>1
  <2>3. j # s
    BY <1>3, <1>4
  <2> QED BY <1>3, <2>1, <2>2, <2>3
<1>6. ASSUME NEW i \in 1..n, i < j, s <= i PROVE l[i].version = l[s].version
  <2>1. PICK t \in 1..i : l[t].kind = "schema" /\ l[t].version = l[i].version
    BY <1>6 DEF LogOK, n
  <2>2. t \in 1..n /\ t < j /\ ~(j <= t)
    BY <1>0, <1>3, <1>6
  <2>3. ~(l[t].version > l[s].version)
    BY <1>0, <1>2, <2>1, <2>2 DEF NextIn
  <2>4. l[i].version \in Nat /\ s \in 1..n
    BY <1>6, Entries DEF n
  <2>5. s = i \/ s < i
    BY <1>6, <2>4
  <2>6. l[s].version <= l[i].version
    <3>1. CASE s < i
      BY <1>6, <2>4, <3>1, Ordered DEF n
    <3>2. CASE s = i
      BY <1>4, <3>2
    <3> QED BY <2>5, <3>1, <3>2
  <2> QED BY <1>4, <2>1, <2>3, <2>4, <2>6
<1>7. j - 1 \in 1..(n - 1) /\ j - 1 < j /\ s <= j - 1 /\ j - 1 \in 1..n /\ (j - 1) + 1 = j
  <2>1. s \in 1..n
    BY DEF n
  <2> QED BY <1>0, <1>3, <1>5, <2>1
<1>8. l[j - 1].columns = l[s].columns
  <2>1. l[j - 1].version = l[s].version
    BY <1>6, <1>7
  <2> QED BY <1>7, <2>1, OfVersion DEF n
<1>9. Follows(l[j - 1], l[j])
  <2> DEFINE i == j - 1
  <2>1. i \in 1..(n - 1) /\ i + 1 = j
    BY <1>7
  <2> HIDE DEF i
  <2>2. Follows(l[i], l[i + 1])
    BY <2>1 DEF LogOK, n
  <2> QED BY <2>1, <2>2 DEF i
<1>10. IsDDL(l[j], l[s].columns)
  BY <1>3, <1>8, <1>9 DEF Follows, IsDDL
<1>11. l[s].action \in Stays
  <2>1. s \in 1..(n - 1)
    <3>1. s \in 1..n
      BY DEF n
    <3> QED BY <1>0, <1>3, <1>5, <3>1
  <2> QED BY <2>1 DEF LogOK, n
<1>12. SchemaIn(l, l[j].version) = l[j]
  BY <1>3, OfVersion DEF n
<1> QED BY <1>2, <1>3, <1>5, <1>6, <1>10, <1>11, <1>12 DEF j, n

----------------------------------------------------------------------------
\* What executing statements, from the first or again, comes to.
Runs(first, T) ==
    /\ \E V : T \in Seq(V)
    /\ \A j \in 0..Len(T) : AfterExecuting(first, T, j) \in SfColumns
    /\ \A j \in 0..(Len(T) - 1) : Leaves(T[j + 1]) \subseteq DOMAIN AfterExecuting(first, T, j)
    /\ \A m \in 0..Len(T) : \A d \in 0..(m - 1) :
          Legal(TRUE, AfterExecuting(first, T, m), T[d + 1]) =>
             ColumnsAfter(AfterExecuting(first, T, m), T[d + 1]) = AfterExecuting(first, T, m)

SfColumn(f) == f \in [DOMAIN f -> Types] /\ DOMAIN f \subseteq Idents(Names)

LEMMA SfColumnsFacts ==
    \A f : f \in SfColumns <=> SfColumn(f)
BY DEF SfColumns, SfColumn, Idents

LEMMA ImageOfTable ==
    ASSUME NEW cols, IsTable(cols)
    PROVE  Image(cols) \in SfColumns
<1>1. DOMAIN cols \subseteq Names /\ Image(cols) \in [Idents(DOMAIN cols) -> Types]
  BY TableIdents
<1>2. DOMAIN Image(cols) = Idents(DOMAIN cols)
  BY <1>1
<1>3. Idents(DOMAIN cols) \subseteq Idents(Names)
  BY <1>1 DEF Idents
<1> QED BY <1>1, <1>2, <1>3, SfColumnsFacts DEF SfColumn

LEMMA StatementKeepsType ==
    ASSUME NEW cols \in SfColumns, NEW s, IsStatement(s), Legal(TRUE, cols, s)
    PROVE  ColumnsAfter(cols, s) \in SfColumns
<1>1. SfColumn(cols)
  BY SfColumnsFacts
<1>2. Leaves(s) \subseteq DOMAIN cols /\ Enters(s) \subseteq Idents(Names)
  BY DEF Legal, IsStatement, Statements
<1> DEFINE e == IF s.op = "rename" THEN cols[s.old] ELSE s.type
<1>3. Enters(s) # {} => e \in Types
  BY <1>1, <1>2 DEF SfColumn, IsStatement, Statements, Leaves, Enters
<1> HIDE DEF e
<1>4. ColumnsAfter(cols, s) = Replace(cols, Leaves(s), Enters(s), e)
  BY AfterIsReplace DEF ColumnsAfter, e
<1> DEFINE g == Replace(cols, Leaves(s), Enters(s), e)
<1>5. DOMAIN g = (DOMAIN cols \ Leaves(s)) \cup Enters(s) /\ g \in [DOMAIN g -> Types]
  BY <1>1, <1>3 DEF Replace, SfColumn
<1> HIDE DEF g
<1>6. SfColumn(g)
  BY <1>1, <1>2, <1>5 DEF SfColumn
<1> QED BY <1>4, <1>6, SfColumnsFacts DEF g

LEMMA SfIsFunction ==
    \A f \in SfColumns : IsFunction(f)
BY SfColumnsFacts DEF SfColumn, IsFunction

LEMMA ColumnsAtStep ==
    ASSUME NEW first, NEW T, \E V : T \in Seq(V)
    PROVE  /\ AfterExecuting(first, T, 0) = first
           /\ AfterExecuting(first, T, Len(T)) = ColumnsAfterAll(first, T)
           /\ Len(T) \in Nat
           /\ \A j \in 0..(Len(T) - 1) :
                 AfterExecuting(first, T, j + 1) = ColumnsAfter(AfterExecuting(first, T, j), T[j + 1])
<1>1. PICK V : T \in Seq(V)
  OBVIOUS
<1>2. Len(T) \in Nat /\ SubSeq(T, 1, Len(T)) = T
  BY <1>1
<1>3. ASSUME NEW j \in 0..(Len(T) - 1)
      PROVE AfterExecuting(first, T, j + 1) = ColumnsAfter(AfterExecuting(first, T, j), T[j + 1])
  <2>1. 1 \in 1..(Len(T) + 1) /\ j \in (1 - 1)..(Len(T) - 1)
    BY <1>2
  <2> QED BY <1>1, <2>1, Slices DEF AfterExecuting
<1> QED BY <1>2, <1>3, NothingExecuted DEF AfterExecuting

LEMMA OrderlyRuns ==
    ASSUME NEW first \in SfColumns, NEW T, AreStatements(T), Orderly(first, T)
    PROVE  Runs(first, T)
<1> DEFINE S(j) == AfterExecuting(first, T, j)
           n == Len(T)
           P == {j \in Nat : j <= n => S(j) \in SfColumns}
<1>1. \E V : T \in Seq(V)
  BY DEF AreStatements
<1>2. /\ S(0) = first /\ n \in Nat
      /\ \A j \in 0..(n - 1) : S(j + 1) = ColumnsAfter(S(j), T[j + 1])
  BY <1>1, ColumnsAtStep
<1>3. \A j \in 0..(n - 1) : Legal(TRUE, S(j), T[j + 1])
  BY DEF Orderly
<1>4. \A j \in 0..n : \A l \in 1..j : Settled(T[l], S(j))
  BY DEF Orderly
<1>5. \A l \in 1..n : IsStatement(T[l])
  BY DEF AreStatements
<1> HIDE DEF S, n
<1>6. 0 \in P
  BY <1>2
<1>7. ASSUME NEW j \in Nat, j \in P PROVE j + 1 \in P
  <2> SUFFICES ASSUME j + 1 <= n PROVE S(j + 1) \in SfColumns
    OBVIOUS
  <2>1. j \in 0..(n - 1) /\ j <= n /\ j + 1 \in 1..n
    BY <1>2
  <2>2. S(j) \in SfColumns /\ IsStatement(T[j + 1])
    BY <1>5, <1>7, <2>1
  <2> QED BY <1>2, <1>3, <2>1, <2>2, StatementKeepsType
<1> HIDE DEF P
<1>8. \A j \in Nat : j \in P
  BY <1>6, <1>7, Inductive
<1>9. \A j \in 0..n : S(j) \in SfColumns
  BY <1>2, <1>8 DEF P
<1>10. \A j \in 0..(n - 1) : Leaves(T[j + 1]) \subseteq DOMAIN S(j)
  <2> TAKE j \in 0..(n - 1)
  <2>1. j + 1 \in 1..n
    BY <1>2
  <2>2. IsStatement(T[j + 1]) /\ Legal(TRUE, S(j), T[j + 1])
    BY <1>3, <1>5, <2>1
  <2> QED BY <2>2 DEF Legal, IsStatement, Statements
<1>11. ASSUME NEW m \in 0..n, NEW d \in 0..(m - 1), Legal(TRUE, S(m), T[d + 1])
       PROVE  ColumnsAfter(S(m), T[d + 1]) = S(m)
  <2>1. d + 1 \in 1..m /\ d + 1 \in 1..n
    BY <1>2
  <2>2. IsStatement(T[d + 1]) /\ Settled(T[d + 1], S(m)) /\ IsFunction(S(m))
    BY <1>4, <1>5, <1>9, <2>1, SfIsFunction
  <2> QED BY <1>11, <2>2, SettledChangesNothing
<1> QED BY <1>1, <1>9, <1>10, <1>11 DEF Runs, S, n

\* TRUNCATE TABLE and DROP TABLE.
Whole(T) == T = <<OfTable("truncate table")>> \/ T = <<OfTable("drop table")>>

LEMMA WholeRuns ==
    ASSUME NEW first \in SfColumns, NEW T, Whole(T)
    PROVE  /\ Runs(first, T) /\ ColumnsAfterAll(first, T) = first
           /\ Len(T) = 1 /\ T[1].op \in {"truncate table", "drop table"}
           /\ Dropped(T) <=> T[1].op = "drop table"
<1>1. PICK s : T = <<s>> /\ s.op \in {"truncate table", "drop table"}
  <2>1. CASE T = <<OfTable("truncate table")>>
    <3>1. OfTable("truncate table").op = "truncate table"
      BY DEF OfTable, Statement
    <3> QED BY <2>1, <3>1
  <2>2. CASE T = <<OfTable("drop table")>>
    <3>1. OfTable("drop table").op = "drop table"
      BY DEF OfTable, Statement
    <3> QED BY <2>2, <3>1
  <2> QED BY <2>1, <2>2 DEF Whole
<1>2. T \in Seq({s}) /\ Len(T) = 1 /\ T[1] = s /\ DOMAIN T = {1}
  <2>1. <<s>> \in Seq({s}) /\ Len(<<s>>) = 1 /\ <<s>>[1] = s
    OBVIOUS
  <2>2. DOMAIN <<s>> = 1..Len(<<s>>) /\ 1..1 = {1}
    BY <2>1
  <2> QED BY <1>1, <2>1, <2>2
<1>3. Leaves(s) = {} /\ Enters(s) = {}
  BY <1>1 DEF Leaves, Enters
<1>4. ColumnsAfter(first, s) = first
  BY <1>3, SfIsFunction DEF ColumnsAfter, After, IsFunction
<1>5. /\ AfterExecuting(first, T, 0) = first
      /\ AfterExecuting(first, T, 1) = first
      /\ ColumnsAfterAll(first, T) = first
  <2>0. \E V : T \in Seq(V)
    BY <1>2
  <2>1. /\ AfterExecuting(first, T, 0) = first
        /\ AfterExecuting(first, T, Len(T)) = ColumnsAfterAll(first, T)
        /\ \A j \in 0..(Len(T) - 1) :
              AfterExecuting(first, T, j + 1) = ColumnsAfter(AfterExecuting(first, T, j), T[j + 1])
    BY <2>0, ColumnsAtStep
  <2>2. 0 \in 0..(Len(T) - 1) /\ 0 + 1 = 1
    BY <1>2
  <2>3. AfterExecuting(first, T, 1) = ColumnsAfter(AfterExecuting(first, T, 0), T[1])
    BY <2>1, <2>2
  <2> QED BY <1>2, <1>4, <2>1, <2>3
<1>6. /\ \A m \in 0..Len(T) : m = 0 \/ m = 1
      /\ \A m \in 0..(Len(T) - 1) : m = 0
      /\ \A m \in 0..Len(T) : \A d \in 0..(m - 1) : d = 0
  BY <1>2
<1>8. Runs(first, T)
  <2>1. \E V : T \in Seq(V)
    BY <1>2
  <2>2. \A j \in 0..Len(T) : AfterExecuting(first, T, j) = first
    BY <1>5, <1>6
  <2>3. \A j \in 0..(Len(T) - 1) : T[j + 1] = s
    BY <1>2, <1>6
  <2>4. \A m \in 0..Len(T) : \A d \in 0..(m - 1) : T[d + 1] = s
    BY <1>2, <1>6
  <2>5. \A j \in 0..(Len(T) - 1) : Leaves(T[j + 1]) \subseteq DOMAIN AfterExecuting(first, T, j)
    BY <1>3, <2>3
  <2>6. \A m \in 0..Len(T) : \A d \in 0..(m - 1) :
             ColumnsAfter(AfterExecuting(first, T, m), T[d + 1]) = AfterExecuting(first, T, m)
    BY <1>4, <2>2, <2>4
  <2> QED BY <2>1, <2>2, <2>5, <2>6 DEF Runs
<1>9. Dropped(T) <=> s.op = "drop table"
  <2>1. \A i \in DOMAIN T : T[i] = s
    BY <1>2
  <2> QED BY <1>2, <2>1 DEF Dropped
<1> QED BY <1>1, <1>2, <1>5, <1>8, <1>9

----------------------------------------------------------------------------
(***************************************************************************)
(* Statements executed once, again, and to their end.                      *)
(***************************************************************************)
LEMMA SliceOf ==
    ASSUME NEW T, \E V : T \in Seq(V), NEW a \in 1..(Len(T) + 1), NEW b \in (a - 1)..Len(T)
    PROVE  /\ Dropped(SubSeq(T, a, b)) <=> \E i \in a..b : T[i].op = "drop table"
           /\ Len(SubSeq(T, a, b)) = b + 1 - a
           /\ a <= b => /\ SubSeq(T, a, b) # <<>>
                        /\ Head(SubSeq(T, a, b)) = T[a]
                        /\ Tail(SubSeq(T, a, b)) = SubSeq(T, a + 1, b)
<1> DEFINE U == SubSeq(T, a, b)
           n == Len(T)
<1>1. PICK V : T \in Seq(V)
  OBVIOUS
<1>2. n \in Nat /\ a \in Nat /\ b \in Int /\ b + 1 - a \in Nat /\ b <= n /\ 1 <= a
  BY <1>1
<1>3. /\ U \in Seq(V) /\ Len(U) = b + 1 - a
      /\ \A i \in 1..(b + 1 - a) : U[i] = T[a + i - 1]
  BY <1>1, <1>2, SubSeqProperties
<1> HIDE DEF U, n
<1>4. DOMAIN U = 1..(b + 1 - a)
  BY <1>2, <1>3
<1>5. Dropped(U) <=> \E i \in a..b : T[i].op = "drop table"
  <2>1. ASSUME NEW i \in DOMAIN U, U[i].op = "drop table"
        PROVE  \E j \in a..b : T[j].op = "drop table"
    <3>1. i \in 1..(b + 1 - a) /\ a + i - 1 \in a..b
      BY <1>2, <1>4
    <3> QED BY <1>3, <2>1, <3>1
  <2>2. ASSUME NEW j \in a..b, T[j].op = "drop table"
        PROVE  \E i \in DOMAIN U : U[i].op = "drop table"
    <3>1. j - a + 1 \in 1..(b + 1 - a) /\ a + (j - a + 1) - 1 = j
      BY <1>2
    <3> QED BY <1>3, <1>4, <2>2, <3>1
  <2> QED BY <2>1, <2>2 DEF Dropped
<1>6. ASSUME a <= b
      PROVE  /\ U # <<>> /\ Head(U) = T[a]
             /\ Tail(U) = SubSeq(T, a + 1, b)
  <2>1. 1 \in 1..(b + 1 - a) /\ a + 1 - 1 = a /\ Len(U) > 0
    BY <1>2, <1>3, <1>6
  <2>2. U # <<>> /\ Head(U) = U[1] /\ U[1] = T[a]
    <3>1. U[1] = T[a]
      BY <1>3, <2>1
    <3> QED BY <1>3, <2>1, <3>1
  <2>3. Tail(U) = SubSeq(U, 2, Len(U))
    BY <1>3, <2>2, TailIsSubSeq
  <2>4. /\ SubSeq(U, 2, Len(U)) = [i \in 1..(Len(U) + 1 - 2) |-> U[2 + i - 1]]
        /\ SubSeq(T, a + 1, b) = [i \in 1..(b + 1 - (a + 1)) |-> T[(a + 1) + i - 1]]
    OBVIOUS
  <2>5. /\ Len(U) + 1 - 2 = b + 1 - (a + 1)
        /\ \A i \in 1..(Len(U) + 1 - 2) :
              2 + i - 1 \in 1..(b + 1 - a) /\ a + (2 + i - 1) - 1 = (a + 1) + i - 1
    BY <1>2, <1>3, <1>6
  <2>6. \A i \in 1..(Len(U) + 1 - 2) : U[2 + i - 1] = T[(a + 1) + i - 1]
    BY <1>3, <2>5
  <2> QED BY <2>2, <2>3, <2>4, <2>5, <2>6
<1> QED BY <1>3, <1>5, <1>6 DEF U

LEMMA OfOne ==
    ASSUME NEW s
    PROVE  /\ Dropped(<<s>>) <=> s.op = "drop table"
           /\ \A x : ColumnsAfterAll(x, <<s>>) = ColumnsAfter(x, s)
           /\ \A r : RowAfterAll(r, <<s>>) = RowAfter(r, s)
<1>1. DOMAIN <<s>> = 1..1 /\ <<s>>[1] = s /\ DOMAIN <<>> = 1..0 /\ 1..1 = {1} /\ 1..0 = {}
  OBVIOUS
<1>2. /\ DOMAIN <<s>> = 1..(0 + 1) /\ <<s>>[0 + 1] = s /\ 0 \in Nat
      /\ \A i \in 1..0 : <<s>>[i] = <<>>[i]
  BY <1>1
<1> DEFINE e == <<>>
           u == <<s>>
           z == 0
<1>6. z \in Nat /\ DOMAIN e = 1..z /\ DOMAIN u = 1..(z + 1) /\ u[z + 1] = s
      /\ \A i \in 1..z : u[i] = e[i]
  BY <1>1, <1>2
<1> HIDE DEF e, u, z
<1>7. \A x : ColumnsAfterAll(x, u) = ColumnsAfter(ColumnsAfterAll(x, e), u[z + 1])
  BY <1>6, OneMoreColumn
<1>8. \A x : RowAfterAll(x, u) = RowAfter(RowAfterAll(x, e), u[z + 1])
  BY <1>6, OneMoreRow
<1>3. \A x : ColumnsAfterAll(x, <<s>>) = ColumnsAfter(ColumnsAfterAll(x, <<>>), s)
  BY <1>6, <1>7 DEF e, u
<1>4. \A x : RowAfterAll(x, <<s>>) = RowAfter(RowAfterAll(x, <<>>), s)
  BY <1>6, <1>8 DEF e, u
<1>5. Dropped(<<s>>) <=> s.op = "drop table"
  BY <1>1 DEF Dropped
<1> QED BY <1>3, <1>4, <1>5, NoneAfter

LEMMA LegalAtAll ==
    \A there, cols, s : Legal(there, cols, s) =>
        /\ Legal(TRUE, cols, s)
        /\ Leaves(s) \subseteq DOMAIN cols
        /\ (~there => s.op = "drop table")
BY DEF Legal, Leaves

LEMMA RunsSteps ==
    ASSUME NEW first, NEW T, Runs(first, T)
    PROVE  /\ \E V : T \in Seq(V)
           /\ Len(T) \in Nat /\ AfterExecuting(first, T, 0) = first
           /\ AfterExecuting(first, T, Len(T)) = ColumnsAfterAll(first, T)
           /\ \A j \in 0..(Len(T) - 1) :
                 AfterExecuting(first, T, j + 1) = ColumnsAfter(AfterExecuting(first, T, j), T[j + 1])
<1>0. \E V : T \in Seq(V)
  BY DEF Runs
<1> QED BY <1>0, ColumnsAtStep

Further(m, d) == IF d = m THEN m + 1 ELSE m

\* Statement d + 1, where m have been executed, comes to the first p.
Reaches(first, T, m, d, p) ==
    /\ p \in 0..Len(T) /\ m <= p /\ d + 1 <= p
    /\ ColumnsAfter(AfterExecuting(first, T, m), T[d + 1]) = AfterExecuting(first, T, p)
    /\ Dropped(SubSeq(T, 1, p)) <=> Dropped(SubSeq(T, 1, m)) \/ T[d + 1].op = "drop table"

LEMMA RunsOne ==
    ASSUME NEW first, NEW T, Runs(first, T), NEW m \in 0..Len(T), NEW d \in 0..m, d < Len(T),
           Legal(TRUE, AfterExecuting(first, T, m), T[d + 1])
    PROVE  Reaches(first, T, m, d, Further(m, d))
<1> DEFINE n == Len(T)
           S(j) == AfterExecuting(first, T, j)
<1>0. \E V : T \in Seq(V)
  BY DEF Runs
<1>1. /\ n \in Nat /\ S(n) = ColumnsAfterAll(first, T)
      /\ \A j \in 0..(n - 1) : S(j + 1) = ColumnsAfter(S(j), T[j + 1])
  BY RunsSteps
<1>2. \A p \in 0..n : 1 \in 1..(n + 1) /\ p \in (1 - 1)..n
  BY <1>1
<1>3. \A p \in 0..n : Dropped(SubSeq(T, 1, p)) <=> \E i \in 1..p : T[i].op = "drop table"
  BY <1>0, <1>2, SliceOf
<1>6. ASSUME d # m, d \in 0..(m - 1)
      PROVE  ColumnsAfter(S(m), T[d + 1]) = S(m)
  BY <1>6 DEF Runs
<1> HIDE DEF n, S
<1>7. m \in Nat /\ d \in Nat /\ m <= n /\ d <= m /\ d < n
  BY <1>1 DEF n
<1>4. CASE d = m
  <2>1. m + 1 \in 0..n /\ m \in 0..(n - 1) /\ m <= m + 1 /\ d + 1 <= m + 1
    BY <1>1, <1>4, <1>7
  <2>2. \A i \in 1..(m + 1) : i \in 1..m \/ i = m + 1
    BY <1>7
  <2>3. (\A i \in 1..m : i \in 1..(m + 1)) /\ m + 1 \in 1..(m + 1)
    BY <1>7
  <2>4. m \in 0..n
    BY <1>1, <1>7
  <2>5. Dropped(SubSeq(T, 1, m + 1)) <=> Dropped(SubSeq(T, 1, m)) \/ T[m + 1].op = "drop table"
    BY <1>3, <2>1, <2>2, <2>3, <2>4
  <2>6. S(m + 1) = ColumnsAfter(S(m), T[d + 1])
    BY <1>1, <1>4, <2>1
  <2>7. Reaches(first, T, m, d, m + 1)
    BY <1>4, <2>1, <2>5, <2>6 DEF Reaches, S, n
  <2> QED BY <1>4, <2>7 DEF Further
<1>5. CASE d # m
  <2>1. d \in 0..(m - 1) /\ d + 1 \in 1..m /\ m <= m /\ d + 1 <= m /\ m \in 0..n
    BY <1>1, <1>5, <1>7
  <2>2. ColumnsAfter(S(m), T[d + 1]) = S(m)
    BY <1>5, <1>6, <2>1
  <2>3. T[d + 1].op = "drop table" => Dropped(SubSeq(T, 1, m))
    BY <1>3, <2>1
  <2>4. Reaches(first, T, m, d, m)
    BY <2>1, <2>2, <2>3 DEF Reaches, S, n
  <2> QED BY <1>5, <2>4 DEF Further
<1> QED BY <1>4, <1>5

\* ... and all that are left of them.
LEMMA RunsRest ==
    ASSUME NEW first, NEW T, Runs(first, T), NEW m \in 0..Len(T)
    PROVE  LET rest == SubSeq(T, m + 1, Len(T))
           IN  /\ ColumnsAfterAll(AfterExecuting(first, T, m), rest) = ColumnsAfterAll(first, T)
               /\ \A r : IsRow(r, AfterExecuting(first, T, m)) =>
                     IsRow(RowAfterAll(r, rest), ColumnsAfterAll(first, T))
               /\ Dropped(SubSeq(T, 1, m)) \/ Dropped(rest) <=> Dropped(T)
<1> DEFINE n == Len(T)
           S(j) == AfterExecuting(first, T, j)
           R(j) == SubSeq(T, m + 1, j)
           Good(j) == /\ ColumnsAfterAll(S(m), R(j)) = S(j)
                      /\ \A r : IsRow(r, S(m)) => IsRow(RowAfterAll(r, R(j)), S(j))
           P == {i \in Nat : m + i <= n => Good(m + i)}
<1>0. \E V : T \in Seq(V)
  BY DEF Runs
<1>1. /\ n \in Nat /\ S(n) = ColumnsAfterAll(first, T)
      /\ \A j \in 0..(n - 1) : S(j + 1) = ColumnsAfter(S(j), T[j + 1])
  BY <1>0, ColumnsAtStep
<1>2. PICK V : T \in Seq(V)
  BY <1>0
<1>3. \A j \in m..(n - 1) :
         /\ \A x : ColumnsAfterAll(x, R(j + 1)) = ColumnsAfter(ColumnsAfterAll(x, R(j)), T[j + 1])
         /\ \A x : RowAfterAll(x, R(j + 1)) = RowAfter(RowAfterAll(x, R(j)), T[j + 1])
  <2> TAKE j \in m..(n - 1)
  <2>1. m + 1 \in 1..(Len(T) + 1) /\ j \in ((m + 1) - 1)..(Len(T) - 1)
    BY <1>1
  <2> QED BY <1>2, <2>1, Slices
<1>4. R(m) = <<>>
  <2>1. m + 1 \in 1..(Len(T) + 1) /\ (m + 1) - 1 = m
    BY <1>1
  <2> QED BY <1>2, <2>1, EmptySlice
<1>5. \A j \in 0..(n - 1) : Leaves(T[j + 1]) \subseteq DOMAIN S(j)
  BY DEF Runs
<1>6. m \in Nat /\ m + 0 = m /\ m <= n
  BY <1>1
<1> HIDE DEF n, S, R
<1>7. 0 \in P
  BY <1>4, <1>6, NoneAfter
<1>8. ASSUME NEW i \in Nat, i \in P PROVE i + 1 \in P
  <2> SUFFICES ASSUME m + (i + 1) <= n PROVE Good(m + (i + 1))
    OBVIOUS
  <2>1. /\ m + i <= n /\ (m + i) \in m..(n - 1) /\ (m + i) \in 0..(n - 1)
        /\ (m + i) + 1 = m + (i + 1)
    BY <1>1, <1>6
  <2> DEFINE j == m + i
  <2>2. Good(j)
    BY <1>8, <2>1
  <2>3. j \in m..(n - 1) /\ j \in 0..(n - 1) /\ j + 1 = m + (i + 1)
    BY <2>1
  <2> HIDE DEF j
  <2>4. ColumnsAfterAll(S(m), R(j + 1)) = S(j + 1)
    BY <1>1, <1>3, <2>2, <2>3
  <2>5. ASSUME NEW r, IsRow(r, S(m)) PROVE IsRow(RowAfterAll(r, R(j + 1)), S(j + 1))
    <3>1. IsRow(RowAfterAll(r, R(j)), S(j)) /\ Leaves(T[j + 1]) \subseteq DOMAIN S(j)
      BY <1>5, <2>2, <2>3, <2>5
    <3>2. IsRow(RowAfter(RowAfterAll(r, R(j)), T[j + 1]), ColumnsAfter(S(j), T[j + 1]))
      BY <3>1, RowStep
    <3> QED BY <1>1, <1>3, <2>3, <3>2
  <2> QED BY <2>3, <2>4, <2>5
<1> HIDE DEF P
<1>9. \A i \in Nat : i \in P
  BY <1>7, <1>8, Inductive
<1>10. Good(n)
  <2>1. n - m \in Nat /\ m + (n - m) = n /\ n <= n
    BY <1>1, <1>6
  <2>2. n - m \in P
    BY <1>9, <2>1
  <2> QED BY <2>1, <2>2 DEF P
<1>11. Dropped(SubSeq(T, 1, m)) \/ Dropped(R(n)) <=> Dropped(T)
  <2>1. /\ 1 \in 1..(Len(T) + 1) /\ m \in (1 - 1)..Len(T)
        /\ m + 1 \in 1..(Len(T) + 1) /\ n \in ((m + 1) - 1)..Len(T)
    BY <1>1 DEF n
  <2>2. /\ Dropped(SubSeq(T, 1, m)) <=> \E i \in 1..m : T[i].op = "drop table"
        /\ Dropped(R(n)) <=> \E i \in (m + 1)..n : T[i].op = "drop table"
    BY <1>0, <2>1, SliceOf DEF R
  <2>3. DOMAIN T = 1..n
    BY <1>2 DEF n
  <2>4. (\A i \in 1..n : i \in 1..m \/ i \in (m + 1)..n) /\ (\A i \in 1..m : i \in 1..n)
        /\ (\A i \in (m + 1)..n : i \in 1..n)
    BY <1>1, <1>6
  <2> QED BY <2>2, <2>3, <2>4 DEF Dropped
<1> QED BY <1>1, <1>10, <1>11 DEF n, R, S

----------------------------------------------------------------------------
(***************************************************************************)
(* ... and those of the schema files in the log.                           *)
(***************************************************************************)
\* The statements of a schema file that follows these columns.
LEMMA TranslationRuns ==
    ASSUME CasesKept, NEW cols, IsTable(cols), NEW f, IsDDL(f, cols), Accepted(cols, f)
    PROVE  LET T == Translation(cols, f)
           IN  /\ Runs(Image(cols), T)
               /\ ColumnsAfterAll(Image(cols), T) = Image(f.columns)
               /\ Dropped(T) <=> f.action = "drop table"
<1> DEFINE T == Translation(cols, f)
           first == Image(cols)
<1>0. first \in SfColumns
  BY ImageOfTable
<1>1. CASE f.action \in {"truncate table", "drop table"}
  <2>1. f.columns = cols
    BY <1>1 DEF IsDDL
  <2>2. T = <<OfTable(f.action)>> /\ T[1].op = f.action
    BY <1>1 DEF Translation, OfTable, Statement
  <2>3. Whole(T)
    BY <1>1, <2>2 DEF Whole
  <2> HIDE DEF T
  <2>4. /\ Runs(first, T) /\ ColumnsAfterAll(first, T) = first
        /\ Dropped(T) <=> T[1].op = "drop table"
    BY <1>0, <2>3, WholeRuns
  <2> QED BY <2>1, <2>2, <2>4 DEF T
<1>2. CASE f.action = "alter table"
  <2>1. ValidAlter(cols, f.specs) /\ f.columns = ColumnsAfterAll(cols, f.specs)
    BY <1>2, TableAssumption DEF IsDDL, TableAssumption
  <2>2. T = GenAlterTableDDLs(cols, f.columns, f.specs)
    BY <1>2 DEF Translation
  <2>3. AllCaseKept(f.specs)
    BY <2>1 DEF CasesKept, ValidAlter
  <2>4. Come(first, T, f.columns)
    BY <2>1, <2>2, <2>3, AlterTranslated
  <2> HIDE DEF T
  <2>5. AreStatements(T) /\ Orderly(first, T) /\ ColumnsAfterAll(first, T) = Image(f.columns)
    BY <2>4 DEF Come
  <2>6. Runs(first, T)
    BY <1>0, <2>5, OrderlyRuns
  <2>7. DOMAIN T = 1..Len(T) /\ \A l \in 1..Len(T) : T[l].op # "drop table"
    <3>1. T \in Seq(Statements) /\ \A l \in 1..Len(T) : T[l] \in Statements
      BY <2>5 DEF AreStatements, IsStatement
    <3>2. \A s \in Statements : s.op # "drop table"
      BY DEF Statements
    <3>3. DOMAIN T = 1..Len(T)
      BY <3>1
    <3>4. \A l \in 1..Len(T) : T[l].op # "drop table"
      BY <3>1, <3>2
    <3> QED BY <3>3, <3>4
  <2>8. ~Dropped(T)
    BY <2>7 DEF Dropped
  <2> QED BY <1>2, <2>5, <2>6, <2>8 DEF T
<1>3. CASE f.action \in {"rename table", "drop schema"}
  <2>1. f.action = "drop schema" /\ f.specs = <<>> /\ f.columns = cols
    BY <1>3 DEF Accepted, IsDDL
  <2>2. T = <<>>
    BY <2>1, NoneAfter DEF Translation
  <2>3. AreStatements(<<>>) /\ Orderly(first, <<>>) /\ ColumnsAfterAll(first, <<>>) = first
        /\ ~Dropped(<<>>)
    BY NoneAfter DEF AreStatements, Orderly, Dropped
  <2>4. Runs(first, <<>>)
    BY <1>0, <2>3, OrderlyRuns
  <2> QED BY <2>1, <2>2, <2>3, <2>4
<1> QED BY <1>1, <1>2, <1>3, TableAssumption DEF IsDDL, TableAssumption

LEMMA NothingRuns ==
    ASSUME NEW cols, IsTable(cols)
    PROVE  Runs(Image(cols), <<>>)
<1>1. Image(cols) \in SfColumns
  BY ImageOfTable
<1>2. AreStatements(<<>>) /\ Orderly(Image(cols), <<>>)
  BY DEF AreStatements, Orderly
<1> QED BY <1>1, <1>2, OrderlyRuns

\* What Translation and Accepted make of the log, at the schema file s.
LEMMA StatementsRun ==
    ASSUME CasesKept, NEW now, NEW l, LogOK(l, now), NEW s \in 1..Len(l), l[s].kind = "schema"
    PROVE  LET v == l[s].version
               T == StatementsIn(l, v)
               f == l[Min(NextIn(l, v))]
           IN  /\ Runs(Image(l[s].columns), T)
               /\ NextIn(l, v) = {} => T = <<>>
               /\ NextIn(l, v) # {} /\ Accepted(l[s].columns, f) =>
                     /\ T = Translation(l[s].columns, f)
                     /\ ColumnsAfterAll(Image(l[s].columns), T) = Image(f.columns)
                     /\ Dropped(T) <=> f.action = "drop table"
                     /\ l[s].action # "drop table"
<1> DEFINE v == l[s].version
           T == StatementsIn(l, v)
           D == NextIn(l, v)
           f == l[Min(D)]
<1>1. SchemaIn(l, v) = l[s] /\ IsTable(l[s].columns)
  BY OfVersion, Entries
<1>2. CASE D = {} \/ ~Accepted(l[s].columns, f)
  <2>1. T = <<>>
    BY <1>1, <1>2 DEF StatementsIn
  <2> QED BY <1>1, <1>2, <2>1, NothingRuns
<1>3. CASE D # {} /\ Accepted(l[s].columns, f)
  <2>1. T = Translation(l[s].columns, f)
    BY <1>1, <1>3 DEF StatementsIn
  <2>2. IsDDL(f, l[s].columns) /\ l[s].action \in Stays
    BY <1>3, NextFacts
  <2>3. /\ Runs(Image(l[s].columns), T)
        /\ ColumnsAfterAll(Image(l[s].columns), T) = Image(f.columns)
        /\ Dropped(T) <=> f.action = "drop table"
    BY <1>1, <1>3, <2>1, <2>2, TranslationRuns
  <2> QED BY <1>3, <2>1, <2>2, <2>3 DEF Stays
<1> QED BY <1>2, <1>3

----------------------------------------------------------------------------
\* The file at work is the first schema file after the watermark.
LEMMA CurrentIsNext ==
    ASSUME ScanInv, pc \in {"load", "apply", "told"}, work # {}, log[Current].kind = "schema"
    PROVE  /\ NextIn(log, saved.watermark) # {}
           /\ Current = Min(NextIn(log, saved.watermark))
           /\ meta = SchemaIn(log, saved.watermark).columns
<1> DEFINE D == NextIn(log, saved.watermark)
           j == Min(D)
<1>0. UpstreamOK /\ ScanOK /\ ClockOK
  BY DEF ScanInv
<1>1. /\ Current \in work /\ (\A w \in work : Current <= w) /\ Current \in 1..seen
      /\ Current \in 1..Len(log) /\ Current \in Pending(saved) /\ work \subseteq 1..seen
  BY <1>0, CurrentFacts
<1>2. /\ seen \in 1..Len(log) /\ Len(log) \in Nat
      /\ \A i \in saved.consumed \cup dirty : log[i].kind # "schema"
      /\ PendingIn(log, saved) \cap (1..seen) \subseteq work \cup dirty
      /\ meta \in {NoMeta, SchemaIn(log, saved.watermark).columns}
      /\ meta # NoMeta
  <2>1. \E w \in work : log[w].kind = "schema"
    BY <1>1
  <2> QED BY <1>0, <2>1, ScanNow
<1>3. DOMAIN log = 1..Len(log)
  BY <1>0, LogEnd, UpstreamFacts
<1>4. Current \in D
  <2>1. Current \in PendingIn(log, saved)
    BY <1>1, InLog
  <2> QED BY <2>1 DEF PendingIn, NextIn
<1>5. D \in SUBSET Nat /\ D # {}
  BY <1>2, <1>3, <1>4 DEF NextIn
<1>6. j \in D /\ \A i \in D : j <= i
  BY <1>5, MinOf
<1> HIDE DEF j
<1>7. j \in 1..Len(log) /\ log[j].kind = "schema" /\ log[j].version > saved.watermark
  BY <1>3, <1>6 DEF NextIn
<1>8. j <= Current /\ j \in 1..seen
  <2>1. j <= Current
    BY <1>4, <1>6
  <2> QED BY <1>1, <1>2, <1>7, <2>1
<1>9. j \in PendingIn(log, saved)
  BY <1>2, <1>3, <1>7 DEF PendingIn
<1>10. j \in work
  BY <1>2, <1>7, <1>8, <1>9
<1>11. Current = j
  <2>1. Current <= j /\ Current \in Nat /\ j \in Nat
    BY <1>1, <1>2, <1>7, <1>10
  <2> QED BY <1>8, <2>1
<1> QED BY <1>2, <1>5, <1>11 DEF j

\* Upstream adds to the log behind the first schema file after the watermark.
LEMMA NextStands ==
    ASSUME ScanInv, Grows, UpstreamOK'
    PROVE  /\ SchemaIn(log', saved.watermark) = SchemaIn(log, saved.watermark)
           /\ NextIn(log, saved.watermark) # {} =>
                 /\ NextIn(log', saved.watermark) # {}
                 /\ Min(NextIn(log', saved.watermark)) = Min(NextIn(log, saved.watermark))
                 /\ StatementsIn(log', saved.watermark) = StatementsIn(log, saved.watermark)
<1> DEFINE v == saved.watermark
           D == NextIn(log, v)
           E == NextIn(log', v)
           n == Len(log)
           m == Len(log')
<1>0. UpstreamOK /\ ScanOK /\ ClockOK
  BY DEF ScanInv
<1>1. /\ n \in Nat /\ DOMAIN log = 1..n
      /\ m \in {n, n + 1} /\ DOMAIN log' = 1..m
      /\ \A i \in 1..n : /\ log'[i].kind = log[i].kind /\ log'[i].version = log[i].version
                         /\ log[i].kind = "schema" \/ i <= seen => log'[i] = log[i]
  BY <1>0, UpstreamFacts, LogEnd DEF Grows
<1>2. PICK s \in 1..seen : /\ s \in 1..n /\ log[s].kind = "schema" /\ log[s].version = v
                           /\ SchemaIn(log, v) = log[s]
  BY <1>0, AtWatermark
<1>3. seen \in 1..n
  BY <1>0 DEF ScanOK
<1> HIDE DEF n, m, D, E
<1>6. /\ \A i \in 1..m : i \in 1..n \/ i = n + 1
      /\ \A i \in 1..n : i \in 1..m /\ i <= n + 1
  <2>1. m \in {n, n + 1} /\ n \in Nat
    BY <1>1
  <2>2. \A i \in 1..n : i <= n + 1
    BY <2>1
  <2>3. /\ \A i \in 1..m : i \in 1..n \/ i = n + 1
        /\ \A i \in 1..n : i \in 1..m
    BY <1>3, <2>1, Intervals
  <2> QED BY <2>2, <2>3
<1>4. SchemaIn(log', v) = SchemaIn(log, v)
  <2>0. log'[s] = log[s]
    BY <1>1, <1>2
  <2>1. log'[s] = log[s] /\ s \in 1..Len(log')
    BY <1>2, <1>6, <2>0 DEF m
  <2>2. LogOK(log', clock')
    BY DEF UpstreamOK
  <2>3. SchemaIn(log', log'[s].version) = log'[s]
    BY <1>2, <2>1, <2>2, OfVersion
  <2> QED BY <1>2, <2>1, <2>3
<1>5. ASSUME D # {}
      PROVE  E # {} /\ Min(E) = Min(D) /\ StatementsIn(log', v) = StatementsIn(log, v)
  <2>1. D \in SUBSET Nat /\ E \in SUBSET Nat
    <3>1. \A k \in 1..m : k \in Nat
      BY <1>1
    <3> QED BY <1>1, <1>6, <3>1 DEF NextIn, D, E
  <2>2. Min(D) \in D /\ \A i \in D : Min(D) <= i
    BY <1>5, <2>1, MinOf
  <2> DEFINE j == Min(D)
  <2>3. j \in D /\ \A i \in D : j <= i
    BY <2>2
  <2> HIDE DEF j
  <2>4. j \in 1..n /\ log[j].kind = "schema" /\ log[j].version > v
    BY <1>1, <2>3 DEF NextIn, D
  <2>5. j \in 1..m /\ log'[j] = log[j]
    BY <1>1, <1>6, <2>4
  <2>6. j \in E
    BY <1>1, <2>4, <2>5 DEF NextIn, E
  <2>7. \A i \in E : j <= i
    <3> SUFFICES ASSUME NEW i \in E PROVE j <= i
      OBVIOUS
    <3>1. i \in 1..m /\ log'[i].kind = "schema" /\ log'[i].version > v
      BY <1>1 DEF NextIn, E
    <3>2. CASE i \in 1..n
      <4>1. i \in D
        BY <1>1, <3>1, <3>2 DEF NextIn, D
      <4> QED BY <2>3, <4>1
    <3>3. CASE i \notin 1..n
      BY <1>6, <2>4, <3>1, <3>3
    <3> QED BY <3>2, <3>3
  <2>8. Min(E) \in E /\ \A i \in E : Min(E) <= i
    BY <2>1, <2>6, MinOf
  <2>9. Min(E) = j
    <3> DEFINE e == Min(E)
    <3>1. e \in Nat /\ j \in Nat /\ e <= j /\ j <= e
      BY <2>1, <2>3, <2>6, <2>7, <2>8
    <3> HIDE DEF e
    <3>2. e = j
      BY <3>1
    <3> QED BY <3>2 DEF e
  <2>10. StatementsIn(log', v) = StatementsIn(log, v)
    BY <1>4, <1>5, <2>5, <2>6, <2>9 DEF StatementsIn, D, E, j
  <2> QED BY <2>6, <2>9, <2>10 DEF j
<1> QED BY <1>4, <1>5 DEF D, E

----------------------------------------------------------------------------
(***************************************************************************)
(* Columns in Snowflake: the watermark's, and part of the next DDL.        *)
(***************************************************************************)
\* Snowflake has the columns of the version v and m statements of the next DDL,
\* of which those that are left may begin with some that were executed before.
PlaceIn(l, v, cols, there, p, left, m) ==
    LET T == StatementsIn(l, v)
        f == SchemaIn(l, v)
    IN  /\ m \in 0..Len(T)
        /\ cols = AfterExecuting(Image(f.columns), T, m)
        /\ there <=> ~Dropped(SubSeq(T, 1, m)) /\ f.action # "drop table"
        /\ p \in {"apply", "told"} => \E d \in 0..m : left = SubSeq(T, d + 1, Len(T))

Place(m) == PlaceIn(log, saved.watermark, sfColumns, exists, pc, todo, m)

RowsTyped == DOMAIN sfRows = Keys /\ \A k \in Keys : IsRow(sfRows[k], sfColumns)

ColOK ==
    /\ \E m : Place(m)
    /\ pc \in {"apply", "told"} => Accepted(meta, File)
    /\ exists \in BOOLEAN
    /\ RowsTyped
    /\ faults \in 0..MaxFaults

LEMMA PlaceZero ==
    ASSUME CasesKept, NEW now, NEW l, LogOK(l, now), NEW s \in 1..Len(l), l[s].kind = "schema"
    PROVE  \A there \in BOOLEAN : \A left, p :
              (there <=> l[s].action # "drop table") /\ p \notin {"apply", "told"} =>
                 PlaceIn(l, l[s].version, Image(l[s].columns), there, p, left, 0)
<1> DEFINE v == l[s].version
           T == StatementsIn(l, v)
<1>1. Runs(Image(l[s].columns), T)
  BY StatementsRun
<1>2. SchemaIn(l, v) = l[s]
  BY OfVersion
<1> HIDE DEF T
<1>3. Len(T) \in Nat
  BY <1>1, RunsSteps
<1>4. 0 \in 0..Len(T)
  BY <1>3
<1>5. AfterExecuting(Image(l[s].columns), T, 0) = Image(l[s].columns) /\ ~Dropped(SubSeq(T, 1, 0))
  BY NothingExecuted DEF AfterExecuting
<1> QED BY <1>2, <1>4, <1>5 DEF PlaceIn, T

LEMMA PlaceExplains ==
    ASSUME NEW m, Place(m)
    PROVE  m \in 0..Len(NextStatements) /\ ExplainedBy(NextStatements, m)
<1>1. /\ NextStatements = StatementsIn(log, saved.watermark)
      /\ SchemaFileAt(saved.watermark) = SchemaIn(log, saved.watermark)
      /\ ColumnsAt(saved.watermark) = SchemaIn(log, saved.watermark).columns
  BY NextInLog, InLog
<1> QED BY <1>1 DEF Place, PlaceIn, ExplainedBy, AfterExecuting

LEMMA ExplainsPlace ==
    ASSUME NEW m \in 0..Len(NextStatements), ExplainedBy(NextStatements, m)
    PROVE  PlaceIn(log, saved.watermark, sfColumns, exists, "idle", todo, m)
<1>1. /\ NextStatements = StatementsIn(log, saved.watermark)
      /\ SchemaFileAt(saved.watermark) = SchemaIn(log, saved.watermark)
      /\ ColumnsAt(saved.watermark) = SchemaIn(log, saved.watermark).columns
  BY NextInLog, InLog
<1> QED BY <1>1 DEF PlaceIn, ExplainedBy, AfterExecuting

\* The statements of the watermark, and of the DDL at work.
LEMMA Here ==
    ASSUME CasesKept, ScanInv
    PROVE  LET T == StatementsIn(log, saved.watermark)
               c == SchemaIn(log, saved.watermark)
           IN  /\ Runs(Image(c.columns), T)
               /\ NextIn(log, saved.watermark) = {} => T = <<>>
               /\ pc \in {"load", "apply", "told"} /\ work # {} /\ log[Current].kind = "schema"
                     /\ Accepted(meta, File) =>
                        /\ T = Translation(meta, File)
                        /\ ColumnsAfterAll(Image(c.columns), T) = Image(File.columns)
                        /\ Dropped(T) <=> File.action = "drop table"
                        /\ c.action # "drop table"
<1> DEFINE v == saved.watermark
           T == StatementsIn(log, v)
           D == NextIn(log, v)
<1>0. UpstreamOK /\ ScanOK /\ LogOK(log, clock)
  BY DEF ScanInv, UpstreamOK
<1>1. PICK s \in 1..Len(log) : /\ log[s].kind = "schema" /\ log[s].version = v
                               /\ SchemaIn(log, v) = log[s]
  BY <1>0, AtWatermark
<1>4. LET w == log[s].version
          U == StatementsIn(log, w)
          g == log[Min(NextIn(log, w))]
      IN  /\ Runs(Image(log[s].columns), U)
          /\ NextIn(log, w) = {} => U = <<>>
          /\ NextIn(log, w) # {} /\ Accepted(log[s].columns, g) =>
                /\ U = Translation(log[s].columns, g)
                /\ ColumnsAfterAll(Image(log[s].columns), U) = Image(g.columns)
                /\ Dropped(U) <=> g.action = "drop table"
                /\ log[s].action # "drop table"
  BY <1>0, <1>1, StatementsRun
<1>2. /\ Runs(Image(log[s].columns), T)
      /\ D = {} => T = <<>>
      /\ D # {} /\ Accepted(log[s].columns, log[Min(D)]) =>
            /\ T = Translation(log[s].columns, log[Min(D)])
            /\ ColumnsAfterAll(Image(log[s].columns), T) = Image(log[Min(D)].columns)
            /\ Dropped(T) <=> log[Min(D)].action = "drop table"
            /\ log[s].action # "drop table"
  BY <1>1, <1>4
<1>3. ASSUME pc \in {"load", "apply", "told"}, work # {}, log[Current].kind = "schema"
      PROVE  D # {} /\ File = log[Min(D)] /\ meta = log[s].columns
  BY <1>1, <1>3, CurrentIsNext DEF File
<1> HIDE DEF T, D
<1> QED BY <1>1, <1>2, <1>3 DEF T, D

LEMMA UpstreamCol ==
    ASSUME CasesKept, ScanInv, ColOK, NEW m, Place(m), Grows, UpstreamOK'
    PROVE  ColOK' /\ Place(m)'
<1> DEFINE v == saved.watermark
<1>0. UpstreamOK /\ ScanOK /\ ClockOK /\ LogOK(log', clock')
  BY DEF ScanInv, UpstreamOK
<1>1. /\ SchemaIn(log', v) = SchemaIn(log, v)
      /\ NextIn(log, v) # {} => StatementsIn(log', v) = StatementsIn(log, v)
  BY NextStands
<1>2. /\ saved' = saved /\ pc' = pc /\ todo' = todo /\ meta' = meta /\ work' = work
      /\ seen' = seen /\ sfColumns' = sfColumns /\ exists' = exists /\ sfRows' = sfRows
      /\ faults' = faults
  BY DEF Grows, table, process
<1>4. /\ pc \in {"apply", "told"} => work # {} /\ log[Current].kind = "schema"
      /\ \A i \in 1..Len(log) : log[i].kind = "schema" => log'[i] = log[i]
  BY <1>0 DEF ScanOK, Grows
<1>5. pc \in {"apply", "told"} => Accepted(meta', File')
  <2> SUFFICES ASSUME pc \in {"apply", "told"} PROVE Accepted(meta', File')
    OBVIOUS
  <2>1. Current \in 1..Len(log)
    BY <1>0, <1>4, CurrentFacts
  <2>2. File' = File
    BY <1>2, <1>4, <2>1 DEF File, Current
  <2> QED BY <1>2, <2>2 DEF ColOK
<1>6. Place(m)'
  <2>1. CASE NextIn(log, v) # {}
    <3>1. PlaceIn(log, v, sfColumns, exists, pc, todo, m)
      BY DEF Place
    <3>2. SchemaIn(log', v) = SchemaIn(log, v) /\ StatementsIn(log', v) = StatementsIn(log, v)
      BY <1>1, <2>1
    <3> DEFINE T == StatementsIn(log, v)
               f == SchemaIn(log, v)
    <3>4. StatementsIn(log', v) = T /\ SchemaIn(log', v) = f
      BY <3>2
    <3>5. StatementsIn(log, v) = T /\ SchemaIn(log, v) = f
      OBVIOUS
    <3> HIDE DEF T, f
    <3>6. /\ m \in 0..Len(T)
          /\ sfColumns = AfterExecuting(Image(f.columns), T, m)
          /\ exists <=> ~Dropped(SubSeq(T, 1, m)) /\ f.action # "drop table"
          /\ pc \in {"apply", "told"} => \E d \in 0..m : todo = SubSeq(T, d + 1, Len(T))
      BY <3>1, <3>5 DEF PlaceIn
    <3>7. PlaceIn(log', v, sfColumns, exists, pc, todo, m)
      BY <3>4, <3>6 DEF PlaceIn
    <3>3. PlaceIn(log', saved'.watermark, sfColumns', exists', pc', todo', m)
      BY <1>2, <3>7
    <3> QED BY <3>3 DEF Place
  <2>2. CASE NextIn(log, v) = {}
    <3>1. StatementsIn(log, v) = <<>>
      BY <2>2, Here
    <3>2. pc \notin {"apply", "told"}
      BY <1>4, <2>2, CurrentIsNext
    <3>3. m = 0
      <4>1. m \in 0..Len(<<>>)
        BY <3>1 DEF Place, PlaceIn
      <4> QED BY <4>1
    <3>4. /\ sfColumns = Image(SchemaIn(log, v).columns)
          /\ exists <=> SchemaIn(log, v).action # "drop table"
      BY <3>3, NothingExecuted DEF Place, PlaceIn, AfterExecuting
    <3>5. PICK s \in 1..seen : /\ s \in 1..Len(log) /\ log[s].kind = "schema" /\ log[s].version = v
                               /\ SchemaIn(log, v) = log[s]
      BY <1>0, AtWatermark
    <3>6. log'[s] = log[s]
      BY <1>4, <3>5
    <3>7. s \in 1..Len(log')
      <4> DEFINE n == Len(log')
      <4>1. seen' \in 1..n
        BY <1>0, GrowsPending
      <4>2. n \in Nat
        BY <1>0, LogEnd
      <4> HIDE DEF n
      <4>3. s \in 1..n
        BY <1>2, <3>5, <4>1, <4>2
      <4> QED BY <4>3 DEF n
    <3>8. PlaceIn(log', log'[s].version, Image(log'[s].columns), exists, pc, todo, 0)
      BY <1>0, <3>2, <3>4, <3>5, <3>6, <3>7, PlaceZero
    <3>9. PlaceIn(log', v, sfColumns, exists, pc, todo, 0)
      BY <3>4, <3>5, <3>6, <3>8
    <3> QED BY <1>2, <3>3, <3>9 DEF Place
  <2> QED BY <2>1, <2>2
<1> QED BY <1>2, <1>5, <1>6 DEF ColOK, RowsTyped

\* Steps that neither touch the table nor move the watermark.
LEMMA SameTableCol ==
    ASSUME ColOK, NEW m, Place(m), UNCHANGED <<upstream, table>>, saved'.watermark = saved.watermark,
           faults' \in 0..MaxFaults,
           \/ pc' \notin {"apply", "told"}
           \/ pc \in {"apply", "told"} /\ UNCHANGED <<todo, meta, work>>
    PROVE  ColOK' /\ Place(m)'
<1>1. /\ log' = log /\ sfColumns' = sfColumns /\ sfRows' = sfRows /\ exists' = exists
  BY DEF upstream, table
<1>3. Place(m)'
  BY <1>1 DEF Place, PlaceIn
<1>4. pc' \in {"apply", "told"} => Accepted(meta', File')
  <2> SUFFICES ASSUME pc' \in {"apply", "told"} PROVE Accepted(meta', File')
    OBVIOUS
  <2>1. Accepted(meta, File) /\ meta' = meta /\ work' = work
    BY DEF ColOK
  <2>2. File' = File
    BY <1>1, <2>1 DEF File, Current
  <2> QED BY <2>1, <2>2
<1> QED BY <1>1, <1>3, <1>4 DEF ColOK, RowsTyped

LEMMA StartDDLCol ==
    ASSUME CasesKept, ScanInv, ColOK, NEW m, Place(m), StartDDL
    PROVE  ColOK' /\ Place(m)'
<1>1. /\ pc = "load" /\ work # {} /\ log[Current].kind = "schema"
      /\ UNCHANGED <<upstream, table, saved, work, meta, faults>>
  BY DEF StartDDL, Loading, IsSchema
<1>2. faults' \in 0..MaxFaults
  BY <1>1 DEF ColOK
<1>3. CASE ~Accepted(meta, File)
  <2>1. pc' = "stopped"
    BY <1>3 DEF StartDDL
  <2> QED BY <1>1, <1>2, <2>1, SameTableCol
<1>4. CASE Accepted(meta, File)
  <2> DEFINE T == StatementsIn(log, saved.watermark)
  <2>1. pc' = "apply" /\ todo' = Translation(meta, File)
    BY <1>4 DEF StartDDL
  <2>2. T = Translation(meta, File) /\ Runs(Image(SchemaIn(log, saved.watermark).columns), T)
    BY <1>1, <1>4, Here
  <2> HIDE DEF T
  <2>3. \E V : T \in Seq(V)
    BY <2>2, RunsSteps
  <2>4. SubSeq(T, 1, Len(T)) = T
    BY <2>3
  <2>6. m \in 0..Len(T)
    BY DEF Place, PlaceIn, T
  <2>7. 0 \in 0..m /\ todo' = SubSeq(T, 0 + 1, Len(T))
    BY <2>1, <2>2, <2>4, <2>6
  <2>8. log' = log /\ sfColumns' = sfColumns /\ sfRows' = sfRows /\ exists' = exists
    BY <1>1 DEF upstream, table
  <2>9. Place(m)'
    BY <1>1, <2>7, <2>8 DEF Place, PlaceIn, T
  <2>10. Accepted(meta', File')
    <3>1. File' = File
      BY <1>1, <2>8 DEF File, Current
    <3> QED BY <1>1, <1>4, <3>1
  <2> QED BY <1>1, <1>2, <2>8, <2>9, <2>10 DEF ColOK, RowsTyped
<1> QED BY <1>3, <1>4

----------------------------------------------------------------------------
(***************************************************************************)
(* ... when statements are executed, and the watermark is moved.           *)
(***************************************************************************)
\* One statement is executed, and then the next is to come or the DDL failed.
LEMMA ExecutedCol ==
    ASSUME CasesKept, ScanInv, ColOK, NEW m, Place(m), pc = "apply", todo # <<>>,
           Legal(exists, sfColumns, Head(todo)), Execute(<<Head(todo)>>),
           UNCHANGED <<upstream, saved, work, meta>>, faults' \in 0..MaxFaults,
           \/ pc' = "apply" /\ todo' = Tail(todo)
           \/ pc' = "told" /\ todo' = todo
    PROVE  /\ ColOK'
           /\ LET T == StatementsIn(log, saved.watermark)
                  first == Image(SchemaIn(log, saved.watermark).columns)
              IN  \E d \in 0..m : /\ d < Len(T) /\ Head(todo) = T[d + 1]
                                  /\ Legal(TRUE, AfterExecuting(first, T, m), T[d + 1])
                                  /\ Place(Further(m, d))'
<1> DEFINE v == saved.watermark
           T == StatementsIn(log, v)
           c == SchemaIn(log, v)
           first == Image(c.columns)
           n == Len(T)
<1>1. Runs(first, T)
  BY Here
<1>2. n \in Nat /\ \E V : T \in Seq(V)
  BY <1>1, RunsSteps
<1> HIDE DEF T, n, c, first
<1>4. /\ m \in 0..n /\ sfColumns = AfterExecuting(first, T, m)
      /\ exists <=> ~Dropped(SubSeq(T, 1, m)) /\ c.action # "drop table"
      /\ \E d \in 0..m : todo = SubSeq(T, d + 1, n)
  BY DEF Place, PlaceIn, T, n, c, first
<1>5. PICK d \in 0..m : todo = SubSeq(T, d + 1, n)
  BY <1>4
<1>17. m \in 0..n
  BY <1>4
<1>18. m \in Nat /\ m <= n /\ d \in Nat /\ d <= m /\ d <= n /\ n \in Nat
  BY <1>2, <1>17
<1>19. \E V : T \in Seq(V)
  BY <1>2
<1>6. d < n
  <2>1. n + 1 \in 1..(n + 1) /\ (n + 1) - 1 = n
    BY <1>18
  <2>2. SubSeq(T, n + 1, n) = <<>>
    <3>1. PICK V : T \in Seq(V)
      BY <1>2
    <3>2. n + 1 \in 1..(Len(T) + 1)
      BY <2>1 DEF n
    <3> QED BY <2>1, <3>1, <3>2, EmptySlice
  <2>3. d # n
    BY <1>5, <2>2
  <2> QED BY <1>18, <2>3
<1>7. Head(todo) = T[d + 1] /\ Tail(todo) = SubSeq(T, (d + 1) + 1, n)
  <2>1. d + 1 \in 1..(n + 1) /\ n \in ((d + 1) - 1)..n /\ d + 1 <= n
    BY <1>6, <1>18
  <2> DEFINE a == d + 1
             b == Len(T)
  <2>2. a \in 1..(Len(T) + 1) /\ b \in (a - 1)..Len(T) /\ a <= b
    BY <2>1 DEF n
  <2> HIDE DEF a, b
  <2>3. Head(SubSeq(T, a, b)) = T[a] /\ Tail(SubSeq(T, a, b)) = SubSeq(T, a + 1, b)
    BY <1>19, <2>2, SliceOf
  <2> QED BY <1>5, <2>3 DEF a, b, n
<1>8. Legal(TRUE, AfterExecuting(first, T, m), T[d + 1]) /\ Leaves(T[d + 1]) \subseteq DOMAIN sfColumns
  BY <1>4, <1>7, LegalAtAll
<1> DEFINE p == Further(m, d)
<1>9. Reaches(first, T, m, d, p)
  <2>1. Legal(TRUE, AfterExecuting(first, T, m), T[d + 1])
    BY <1>8
  <2>2. m \in 0..Len(T) /\ d \in 0..m /\ d < Len(T)
    BY <1>6, <1>17 DEF n
  <2> QED BY <1>1, <2>1, <2>2, RunsOne
<1> HIDE DEF p
<1>20. /\ p \in 0..n /\ m <= p /\ d + 1 <= p
       /\ ColumnsAfter(AfterExecuting(first, T, m), T[d + 1]) = AfterExecuting(first, T, p)
       /\ Dropped(SubSeq(T, 1, p)) <=> Dropped(SubSeq(T, 1, m)) \/ T[d + 1].op = "drop table"
  BY <1>9 DEF Reaches, n
<1>10. /\ sfColumns' = ColumnsAfter(sfColumns, T[d + 1])
       /\ sfRows' = [k \in Keys |-> RowAfter(sfRows[k], T[d + 1])]
       /\ exists' = (exists /\ ~(T[d + 1].op = "drop table"))
  BY <1>7, OfOne DEF Execute
<1>11. \E e \in 0..p : todo' = SubSeq(T, e + 1, n)
  <2>1. d \in 0..p /\ d + 1 \in 0..p
    <3>1. p \in 0..n /\ d + 1 <= p
      BY <1>20
    <3> QED BY <1>18, <3>1
  <2>2. todo' = SubSeq(T, d + 1, n) \/ todo' = SubSeq(T, (d + 1) + 1, n)
    BY <1>5, <1>7
  <2> QED BY <2>1, <2>2
<1>12. log' = log /\ saved' = saved
  BY DEF upstream
<1>13. exists' <=> ~Dropped(SubSeq(T, 1, p)) /\ c.action # "drop table"
  BY <1>4, <1>20, <1>10
<1>14. Place(p)'
  <2>1. sfColumns' = AfterExecuting(first, T, p)
    BY <1>4, <1>20, <1>10
  <2> QED BY <1>20, <1>11, <1>12, <1>13, <2>1 DEF Place, PlaceIn, T, n, c, first
<1>15. RowsTyped'
  <2>1. \A k \in Keys : IsRow(sfRows[k], sfColumns)
    BY DEF ColOK, RowsTyped
  <2>2. \A k \in Keys : IsRow(RowAfter(sfRows[k], T[d + 1]), ColumnsAfter(sfColumns, T[d + 1]))
    BY <1>8, <2>1, RowStep
  <2>3. DOMAIN sfRows' = Keys /\ \A k \in Keys : IsRow(sfRows'[k], sfColumns')
    BY <1>10, <2>2
  <2> QED BY <2>3 DEF RowsTyped
<1>16. Accepted(meta', File') /\ exists' \in BOOLEAN
  <2>1. File' = File
    BY <1>12 DEF File, Current
  <2> QED BY <1>10, <2>1 DEF ColOK
<1>21. ColOK'
  BY <1>14, <1>15, <1>16 DEF ColOK
<1> QED BY <1>6, <1>7, <1>8, <1>14, <1>21 DEF T, n, c, first, p

\* The DDL at work was executed to its end.
LEMMA PassedCol ==
    ASSUME CasesKept, ScanInv, ColOK, pc \in {"apply", "told"},
           UNCHANGED upstream, saved' = Passed, pc' \notin {"apply", "told"},
           sfColumns' = ColumnsAfterAll(Image(SchemaIn(log, saved.watermark).columns),
                                        StatementsIn(log, saved.watermark)),
           exists' = ~Dropped(StatementsIn(log, saved.watermark)),
           RowsTyped', faults' \in 0..MaxFaults
    PROVE  ColOK' /\ Place(0)'
<1>0. UpstreamOK /\ ScanOK /\ ClockOK /\ LogOK(log, clock)
  BY DEF ScanInv, UpstreamOK
<1>1. /\ work # {} /\ File.kind = "schema" /\ File = log[Current]
      /\ Passed.watermark = File.version
  BY <1>0, PassedFacts
<1>2. Current \in 1..Len(log)
  BY <1>0, <1>1, CurrentFacts
<1>3. Accepted(meta, File)
  BY DEF ColOK
<1>4. /\ sfColumns' = Image(File.columns)
      /\ exists' = (File.action # "drop table")
  BY <1>1, <1>3, Here
<1>5. log' = log
  BY DEF upstream
<1>6. PlaceIn(log, log[Current].version, Image(log[Current].columns), exists', pc', todo', 0)
  BY <1>0, <1>1, <1>2, <1>4, PlaceZero
<1>7. Place(0)'
  BY <1>1, <1>4, <1>5, <1>6 DEF Place
<1> QED BY <1>4, <1>7 DEF ColOK

LEMMA AllExecuted ==
    ASSUME NEW m, Place(m), pc = "apply", todo = <<>>,
           \E V : StatementsIn(log, saved.watermark) \in Seq(V)
    PROVE  m = Len(StatementsIn(log, saved.watermark))
<1> DEFINE T == StatementsIn(log, saved.watermark)
           n == Len(T)
<1>2. n \in Nat /\ (\E V : T \in Seq(V))
  OBVIOUS
<1> HIDE DEF T, n
<1>4. m \in 0..n /\ \E d \in 0..m : todo = SubSeq(T, d + 1, n)
  BY DEF Place, PlaceIn, T, n
<1>5. PICK d \in 0..m : todo = SubSeq(T, d + 1, n)
  BY <1>4
<1>17. m \in 0..n
  BY <1>4
<1>18. m \in Nat /\ m <= n /\ d \in Nat /\ d <= m /\ d <= n /\ n \in Nat
  BY <1>2, <1>17
<1>19. \E V : T \in Seq(V)
  BY <1>2
<1>6. m = n
  <2>1. ASSUME d + 1 <= n PROVE FALSE
    <3>1. d + 1 \in 1..(n + 1) /\ n \in ((d + 1) - 1)..n
      BY <1>18, <2>1
    <3>2. SubSeq(T, d + 1, n) # <<>>
      BY <1>19, <2>1, <3>1, SliceOf DEF n
    <3> QED BY <1>5, <3>2
  <2> QED BY <1>18, <2>1
<1> QED BY <1>6 DEF T, n

LEMMA SaveWatermarkCol ==
    ASSUME CasesKept, ScanInv, ColOK, SaveWatermark
    PROVE  ColOK' /\ Place(0)'
<1> DEFINE v == saved.watermark
           T == StatementsIn(log, v)
           c == SchemaIn(log, v)
           first == Image(c.columns)
           n == Len(T)
<1>0. /\ pc = "apply" /\ todo = <<>> /\ saved' = Passed /\ pc' = "load"
      /\ UNCHANGED <<upstream, table, faults>>
  BY DEF SaveWatermark, Applied, Passed
<1>1. Runs(first, T)
  BY Here
<1>2. n \in Nat /\ (\E V : T \in Seq(V)) /\ AfterExecuting(first, T, n) = ColumnsAfterAll(first, T)
  BY <1>1, RunsSteps
<1>3. PICK m : Place(m)
  BY DEF ColOK
<1>11. c.action # "drop table"
  <2>1. work # {} /\ log[Current].kind = "schema" /\ Accepted(meta, File)
    BY <1>0 DEF ColOK, ScanInv, ScanOK
  <2> QED BY <1>0, <2>1, Here
<1> HIDE DEF T, n, c, first
<1>4. /\ m \in 0..n /\ sfColumns = AfterExecuting(first, T, m)
      /\ exists <=> ~Dropped(SubSeq(T, 1, m)) /\ c.action # "drop table"
  BY <1>3 DEF Place, PlaceIn, T, n, c, first
<1>6. m = n
  BY <1>0, <1>2, <1>3, AllExecuted DEF T, n
<1>7. SubSeq(T, 1, n) = T
  <2>1. PICK V : T \in Seq(V)
    BY <1>2
  <2>2. 1 \in 1..(n + 1)
    BY <1>2
  <2> QED BY <2>1, <2>2, EmptySlice DEF n
<1>8. sfColumns' = ColumnsAfterAll(first, T)
  BY <1>0, <1>2, <1>4, <1>6 DEF table
<1>9. exists' = ~Dropped(T)
  <2>1. exists \in BOOLEAN /\ exists' = exists
    BY <1>0 DEF ColOK, table
  <2> QED BY <1>4, <1>6, <1>7, <1>11, <2>1
<1>10. RowsTyped' /\ faults' \in 0..MaxFaults /\ pc' \notin {"apply", "told"}
  BY <1>0 DEF ColOK, RowsTyped, table
<1> QED BY <1>0, <1>8, <1>9, <1>10, PassedCol DEF T, c, first

LEMMA RepairCol ==
    ASSUME CasesKept, ScanInv, ColOK, Repair
    PROVE  ColOK' /\ Place(0)'
<1> DEFINE v == saved.watermark
           T == StatementsIn(log, v)
           c == SchemaIn(log, v)
           first == Image(c.columns)
           n == Len(T)
           M == {m \in 0..n : ExplainedBy(T, m)}
           m == Min(M)
           rest == SubSeq(T, m + 1, n)
<1>0. pc = "told" /\ saved' = Passed /\ Started /\ UNCHANGED <<upstream, faults>>
  BY DEF Repair, Passed
<1>1. work # {} /\ log[Current].kind = "schema" /\ Accepted(meta, File)
  BY <1>0 DEF ColOK, ScanInv, ScanOK
<1>2. Runs(first, T) /\ T = Translation(meta, File) /\ c.action # "drop table"
  BY <1>0, <1>1, Here
<1>3. n \in Nat
  BY <1>2, RunsSteps
<1>4. Execute(rest)
  BY <1>2 DEF Repair
<1>5. T = NextStatements
  BY NextInLog
<1>6. M # {} /\ M \in SUBSET Nat
  <2>1. PICK q : Place(q)
    BY DEF ColOK
  <2>2. q \in 0..Len(NextStatements) /\ ExplainedBy(NextStatements, q)
    BY <2>1, PlaceExplains
  <2> QED BY <1>3, <1>5, <2>2
<1>7. m \in 0..n /\ ExplainedBy(T, m)
  BY <1>6, MinOf
<1> HIDE DEF m
<1>8. PlaceIn(log, v, sfColumns, exists, "idle", todo, m)
  BY <1>5, <1>7, ExplainsPlace
<1>9. /\ sfColumns = AfterExecuting(first, T, m)
      /\ exists <=> ~Dropped(SubSeq(T, 1, m)) /\ c.action # "drop table"
  BY <1>8 DEF PlaceIn
<1> HIDE DEF T, c, first, n, M
<1>10. /\ ColumnsAfterAll(AfterExecuting(first, T, m), rest) = ColumnsAfterAll(first, T)
       /\ \A r : IsRow(r, AfterExecuting(first, T, m)) =>
             IsRow(RowAfterAll(r, rest), ColumnsAfterAll(first, T))
       /\ Dropped(SubSeq(T, 1, m)) \/ Dropped(rest) <=> Dropped(T)
  BY <1>2, <1>7, RunsRest DEF n
<1> HIDE DEF rest
<1>11. sfColumns' = ColumnsAfterAll(first, T)
  BY <1>4, <1>9, <1>10 DEF Execute
<1>12. exists' = ~Dropped(T)
  <2>1. exists' = (exists /\ ~Dropped(rest))
    BY <1>4 DEF Execute
  <2> QED BY <1>2, <1>9, <1>10, <2>1
<1>13. RowsTyped'
  <2>1. \A k \in Keys : IsRow(sfRows[k], sfColumns)
    BY DEF ColOK, RowsTyped
  <2>2. sfRows' = [k \in Keys |-> RowAfterAll(sfRows[k], rest)]
    BY <1>4 DEF Execute
  <2>3. DOMAIN sfRows' = Keys /\ \A k \in Keys : IsRow(sfRows'[k], sfColumns')
    BY <1>9, <1>10, <1>11, <2>1, <2>2
  <2> QED BY <2>3 DEF RowsTyped
<1>14. pc' \notin {"apply", "told"} /\ faults' \in 0..MaxFaults
  BY <1>0 DEF Started, ColOK
<1> QED BY <1>0, <1>11, <1>12, <1>13, <1>14, PassedCol DEF T, c, first

----------------------------------------------------------------------------
(***************************************************************************)
(* ... and with each step.                                                 *)
(***************************************************************************)
LEMMA MergedIsRow ==
    ASSUME NEW old, IsRow(old, sfColumns), NEW cols, IsTable(cols), NEW new, IsRow(new, cols),
           sfColumns \in SfColumns
    PROVE  IsRow(MergedRow(old, new), sfColumns)
<1>1. CASE new = NoRow
  BY <1>1 DEF MergedRow, IsRow
<1>2. CASE new # NoRow
  <2>1. new \in [DOMAIN cols -> Nat]
    BY <1>2 DEF IsRow
  <2>2. OneIdent(DOMAIN cols) /\ DOMAIN cols \in SUBSET Names
    BY TableIdents
  <2> DEFINE image == Image(new)
  <2>3. image \in [Idents(DOMAIN cols) -> Nat]
    BY <2>1, <2>2, RowImage
  <2>4. MergedRow(old, new) = [c \in DOMAIN sfColumns |->
                                 IF c \in DOMAIN image THEN image[c]
                                 ELSE IF old = NoRow THEN NoFill ELSE old[c]]
    BY <1>2 DEF MergedRow
  <2> HIDE DEF image
  <2>5. ASSUME NEW c \in DOMAIN sfColumns
        PROVE  (IF c \in DOMAIN image THEN image[c]
                ELSE IF old = NoRow THEN NoFill ELSE old[c]) \in Nat
    <3>1. c \in DOMAIN image => image[c] \in Nat
      BY <2>3
    <3>2. old # NoRow => old[c] \in Nat
      BY DEF IsRow
    <3>3. NoFill \in Nat
      BY DEF NoFill
    <3> QED BY <3>1, <3>2, <3>3
  <2>6. MergedRow(old, new) \in [DOMAIN sfColumns -> Nat]
    BY <2>4, <2>5
  <2> QED BY <2>6 DEF IsRow
<1> QED BY <1>1, <1>2

LEMMA ColTypes ==
    ASSUME CasesKept, ScanInv, ColOK
    PROVE  sfColumns \in SfColumns
<1>1. PICK m : Place(m)
  BY DEF ColOK
<1>2. Runs(Image(SchemaIn(log, saved.watermark).columns), StatementsIn(log, saved.watermark))
  BY Here
<1> QED BY <1>1, <1>2 DEF Place, PlaceIn, Runs

LEMMA LoadIncrementCol ==
    ASSUME CasesKept, ScanInv, ColOK, NEW m, Place(m), LoadIncrement
    PROVE  ColOK' /\ Place(m)'
<1>0. UpstreamOK /\ ScanOK /\ ClockOK /\ LogOK(log, clock)
  BY DEF ScanInv, UpstreamOK
<1>1. /\ pc = "load" /\ work # {} /\ log[Current].kind # "schema"
      /\ UNCHANGED <<upstream, exists, sfColumns, saved, pc, faults>>
  BY DEF LoadIncrement, Loading, IsSchema
<1>2. PICK pick \in [{k \in Keys : LatestChanges(k) # {}} -> File.changes] :
        /\ \A k \in DOMAIN pick : pick[k] \in LatestChanges(k)
        /\ sfRows' = [k \in Keys |-> IF k \in DOMAIN pick
                                     THEN MergedRow(sfRows[k], pick[k].row)
                                     ELSE sfRows[k]]
  BY DEF LoadIncrement
<1>3. File = log[Current] /\ Current \in 1..Len(log)
  BY <1>0, <1>1, CurrentFacts
<1>4. IsTable(File.columns) /\ \A c \in File.changes : IsRow(c.row, File.columns)
  BY <1>0, <1>1, <1>3, Entries DEF EntryOK, ChangeOK
<1>5. \A k \in Keys : IsRow(sfRows[k], sfColumns)
  BY DEF ColOK, RowsTyped
<1>6. sfColumns \in SfColumns
  BY ColTypes
<1>7. ASSUME NEW k \in Keys PROVE IsRow(sfRows'[k], sfColumns)
  <2>1. CASE k \in DOMAIN pick
    <3>1. pick[k] \in File.changes
      BY <2>1
    <3>2. IsRow(MergedRow(sfRows[k], pick[k].row), sfColumns)
      BY <1>4, <1>5, <1>6, <3>1, MergedIsRow
    <3> QED BY <1>2, <2>1, <3>2
  <2>2. CASE k \notin DOMAIN pick
    BY <1>2, <1>5, <2>2
  <2> QED BY <2>1, <2>2
<1>8. DOMAIN sfRows' = Keys
  BY <1>2
<1>9. RowsTyped'
  BY <1>1, <1>7, <1>8 DEF RowsTyped
<1>11. Place(m)'
  BY <1>1 DEF Place, PlaceIn, upstream
<1> QED BY <1>1, <1>9, <1>11 DEF ColOK

LEMMA InitCol ==
    CasesKept /\ Init => ColOK
<1> SUFFICES ASSUME CasesKept, Init PROVE ColOK
  OBVIOUS
<1>1. UpstreamOK /\ ScanInv
  BY InitScan DEF ScanInv
<1>2. LogOK(log, clock) /\ IsTable(FirstColumns) /\ \A k \in Keys : IsRow(rows[k], FirstColumns)
  BY <1>1, UpstreamFacts DEF Init
<1> DEFINE e == SchemaFile(FirstVersion, "none", <<>>, FirstColumns)
<1>3. e.kind = "schema" /\ e.action = "none" /\ e.version = FirstVersion /\ e.columns = FirstColumns
  BY DEF SchemaFile
<1>4. log = <<e>>
  BY DEF Init
<1> HIDE DEF e
<1>5. 1 \in 1..Len(log) /\ log[1] = e
  BY <1>4
<1>6. exists \in BOOLEAN /\ exists /\ pc = "idle" /\ saved.watermark = FirstVersion
      /\ sfColumns = Image(FirstColumns) /\ sfRows = [k \in Keys |-> ImageOfRow(rows[k])]
      /\ faults = 0
  BY DEF Init
<1>7. PlaceIn(log, log[1].version, Image(log[1].columns), exists, pc, todo, 0)
  BY <1>2, <1>3, <1>5, <1>6, PlaceZero
<1>8. Place(0)
  BY <1>3, <1>5, <1>6, <1>7 DEF Place
<1>9. \A k \in Keys : IsRow(ImageOfRow(rows[k]), sfColumns)
  <2> TAKE k \in Keys
  <2>1. CASE rows[k] = NoRow
    BY <2>1 DEF ImageOfRow, IsRow
  <2>2. CASE rows[k] # NoRow
    <3>1. rows[k] \in [DOMAIN FirstColumns -> Nat]
      BY <1>2, <2>2 DEF IsRow
    <3>2. OneIdent(DOMAIN FirstColumns) /\ DOMAIN FirstColumns \in SUBSET Names
      BY <1>2, TableIdents
    <3>3. Image(rows[k]) \in [Idents(DOMAIN FirstColumns) -> Nat]
      BY <3>1, <3>2, RowImage
    <3>4. DOMAIN sfColumns = Idents(DOMAIN FirstColumns)
      BY <1>6, <3>2, ImageFacts
    <3> QED BY <2>2, <3>3, <3>4 DEF ImageOfRow, IsRow
  <2> QED BY <2>1, <2>2
<1>10. RowsTyped
  BY <1>6, <1>9 DEF RowsTyped
<1> QED BY <1>6, <1>8, <1>10, Bounds DEF ColOK

LEMMA ColStays ==
    CasesKept /\ ScanInv /\ ColOK /\ UpstreamOK' /\ [Next]_vars => ColOK'
<1> SUFFICES ASSUME CasesKept, ScanInv, ColOK, UpstreamOK', [Next]_vars PROVE ColOK'
  OBVIOUS
<1>0. UpstreamOK /\ ScanOK /\ faults \in 0..MaxFaults /\ seen \in 1..Len(log)
  BY DEF ScanInv, ScanOK, ColOK
<1>15. PICK m : Place(m)
  BY DEF ColOK
<1>1. CASE Upstream
  BY <1>15, <1>0, <1>1, UpstreamGrows, UpstreamCol
<1>2. CASE BeginScan
  <2>1. UNCHANGED <<upstream, table, saved, faults>> /\ pc' = "load"
    BY <1>2 DEF BeginScan
  <2> QED BY <1>15, <1>0, <2>1, SameTableCol
<1>3. CASE StartDDL
  BY <1>15, <1>3, StartDDLCol
<1>4. CASE ExecDDL
  BY <1>15, <1>0, <1>4, ExecutedCol DEF ExecDDL
<1>5. CASE ExecDDLFails
  <2>1. /\ pc = "apply" /\ todo # <<>> /\ pc' = "told"
        /\ UNCHANGED <<upstream, saved, work, meta, todo>>
    BY <1>5 DEF ExecDDLFails
  <2>2. faults' \in 0..MaxFaults
    <3>1. faults' = faults \/ (faults < MaxFaults /\ faults' = faults + 1)
      BY <1>5 DEF ExecDDLFails
    <3> QED BY <1>0, <3>1, Bounds
  <2>3. UNCHANGED table \/ (Legal(exists, sfColumns, Head(todo)) /\ Execute(<<Head(todo)>>))
    BY <1>5 DEF ExecDDLFails
  <2>4. CASE UNCHANGED table
    BY <1>15, <2>1, <2>2, <2>4, SameTableCol
  <2>5. CASE Legal(exists, sfColumns, Head(todo)) /\ Execute(<<Head(todo)>>)
    BY <1>15, <2>1, <2>2, <2>5, ExecutedCol
  <2> QED BY <2>3, <2>4, <2>5
<1>6. CASE SaveWatermark
  BY <1>6, SaveWatermarkCol
<1>7. CASE LoadIncrement
  BY <1>15, <1>7, LoadIncrementCol
<1>8. CASE LoadIncrementFails
  <2>1. UNCHANGED <<upstream, table, saved, faults>> /\ pc' = "stopped"
    BY <1>8 DEF LoadIncrementFails
  <2> QED BY <1>15, <1>0, <2>1, SameTableCol
<1>9. CASE SaveCursors
  <2>1. UNCHANGED <<upstream, table, faults>> /\ pc' = "finish"
        /\ saved' = [saved EXCEPT !.consumed = @ \cup dirty]
    BY <1>9 DEF SaveCursors
  <2>2. saved'.watermark = saved.watermark
    BY <1>0, <2>1 DEF ScanOK, States
  <2> QED BY <1>15, <1>0, <2>1, <2>2, SameTableCol
<1>10. CASE SaveCheckpoint
  <2>1. UNCHANGED <<upstream, table, faults>> /\ pc' = "idle"
        /\ saved' = [saved EXCEPT !.checkpoint = target]
    BY <1>10 DEF SaveCheckpoint
  <2>2. saved'.watermark = saved.watermark
    BY <1>0, <2>1 DEF ScanOK, States
  <2> QED BY <1>15, <1>0, <2>1, <2>2, SameTableCol
<1>11. CASE Crash
  <2>1. UNCHANGED <<upstream, table, saved>> /\ pc' = "idle" /\ faults < MaxFaults
        /\ faults' = faults + 1
    BY <1>11 DEF Crash, Started
  <2>2. faults' \in 0..MaxFaults
    BY <1>0, <2>1, Bounds
  <2> QED BY <1>15, <2>1, <2>2, SameTableCol
<1>12. CASE Restart
  <2>1. UNCHANGED <<upstream, table, saved, faults>> /\ pc' = "idle"
    BY <1>12 DEF Restart, Started
  <2> QED BY <1>15, <1>0, <2>1, SameTableCol
<1>13. CASE Repair
  BY <1>13, RepairCol
<1>14. CASE UNCHANGED vars
  <2>1. UNCHANGED <<upstream, table, saved, faults, pc, todo, meta, work>>
    BY <1>14 DEF vars, process
  <2> QED BY <1>15, <1>0, <2>1, SameTableCol
<1> QED BY <1>1, <1>2, <1>3, <1>4, <1>5, <1>6, <1>7, <1>8, <1>9, <1>10, <1>11, <1>12,
           <1>13, <1>14 DEF Next, Loader

LEMMA ColExplained ==
    ColOK => ColumnsAreExplained
BY PlaceExplains DEF ColOK, ColumnsAreExplained

LEMMA ColTypeOK ==
    ASSUME CasesKept, ScanInv, ColOK
    PROVE  TypeOK
<1>0. UpstreamOK /\ ScanOK /\ ClockOK
  BY DEF ScanInv
<1>1. sfColumns \in SfColumns
  BY ColTypes
<1>2. /\ clock \in 1..MaxTS /\ IsTable(columns) /\ (\A k \in Keys : IsRow(rows[k], columns))
      /\ present \in BOOLEAN /\ DOMAIN log = 1..Len(log) /\ Len(log) \in Nat
  BY <1>0, UpstreamFacts, LogEnd
<1>3. columns \in Columns
  BY <1>2 DEF IsTable
<1>4. \A r, cols : IsRow(r, cols) /\ r # NoRow => DOMAIN r = DOMAIN cols
  BY DEF IsRow
<1>5. /\ seen \in 1..Len(log)
      /\ saved.consumed \subseteq 1..seen /\ dirty \subseteq 1..seen
      /\ work \subseteq Pending(saved) \cap (1..seen)
      /\ \A d \in dirty, w \in work : d < w
      /\ pc \in {"idle", "load", "apply", "finish", "told", "stopped"}
      /\ meta \in {NoMeta, ColumnsAt(saved.watermark)}
  BY <1>0 DEF ScanOK
<1>6. \A i \in 1..seen : i \in DOMAIN log /\ ~(i < i)
  BY <1>2, <1>5
<1>7. saved.consumed \subseteq DOMAIN log /\ work \subseteq DOMAIN log /\ dirty \subseteq DOMAIN log
  BY <1>5, <1>6
<1>8. work \cap (dirty \cup saved.consumed) = {}
  <2>1. work \cap saved.consumed = {}
    BY <1>5 DEF Pending
  <2>2. work \cap dirty = {}
    BY <1>5, <1>6
  <2> QED BY <2>1, <2>2
<1>9. PICK s \in 1..seen : /\ s \in 1..Len(log) /\ log[s].version = saved.watermark
                           /\ SchemaIn(log, saved.watermark) = log[s]
  BY <1>0, AtWatermark
<1>10. log[s].version \in 1..clock /\ IsTable(log[s].columns)
  BY <1>0, <1>9, Entries, UpstreamFacts
<1>11. meta \in Columns \cup {NoMeta}
  BY <1>5, <1>9, <1>10, InLog DEF IsTable
<1>12. saved.checkpoint \in 1..clock
  BY <1>0 DEF ClockOK
<1> QED BY <1>1, <1>2, <1>3, <1>4, <1>5, <1>7, <1>8, <1>9, <1>10, <1>11, <1>12
        DEF TypeOK, ColOK, RowsTyped, FirstVersion

LEMMA BothStay ==
    CasesKept => (Spec => [](ScanInv /\ ColOK))
<1> SUFFICES ASSUME CasesKept PROVE Spec => [](ScanInv /\ ColOK)
  OBVIOUS
<1>1. Init => ScanInv /\ ColOK
  BY InitScan, InitCol
<1>2. ScanInv /\ ColOK /\ [Next]_vars => (ScanInv /\ ColOK)'
  <2>1. ScanInv' => UpstreamOK'
    BY DEF ScanInv
  <2> QED BY <2>1, ScanStays, ColStays
<1> QED BY <1>1, <1>2, PTL DEF Spec

(***************************************************************************)
(* The types; rows have the columns of their table on both sides, and no   *)
(* file is both merged and still to do.                                    *)
(***************************************************************************)
THEOREM TypesStay == CasesKept => (Spec => []TypeOK)
<1> SUFFICES ASSUME CasesKept PROVE Spec => []TypeOK
  OBVIOUS
<1>1. ScanInv /\ ColOK => TypeOK
  BY ColTypeOK
<1> QED BY <1>1, BothStay, PTL

(***************************************************************************)
(* The columns in Snowflake are those of the watermark after the first so  *)
(* many statements of the next DDL, whichever of them fail, lose their     *)
(* answer, are executed again or finished by the operator (applyDDL,       *)
(* GenDDLViaTiDBDDL).                                                      *)
(***************************************************************************)
THEOREM ColumnsStayExplained == CasesKept => (Spec => []ColumnsAreExplained)
<1> SUFFICES ASSUME CasesKept PROVE Spec => []ColumnsAreExplained
  OBVIOUS
<1>1. ScanInv /\ ColOK => ColumnsAreExplained
  BY ColExplained
<1> QED BY <1>1, BothStay, PTL

----------------------------------------------------------------------------
(***************************************************************************)
(* A row while the statements of a DDL are executed.                       *)
(***************************************************************************)
\* A row after the first j statements.
RowAt(r, T, j) == RowAfterAll(r, SubSeq(T, 1, j))

RowSteps(r, T) ==
           /\ RowAt(r, T, 0) = r
           /\ RowAt(r, T, Len(T)) = RowAfterAll(r, T)
           /\ Len(T) \in Nat
           /\ \A j \in 0..(Len(T) - 1) : RowAt(r, T, j + 1) = RowAfter(RowAt(r, T, j), T[j + 1])

LEMMA RowAtStep ==
    ASSUME NEW T, \E V : T \in Seq(V)
    PROVE  \A r : RowSteps(r, T)
<1> TAKE r
<1>1. PICK V : T \in Seq(V)
  OBVIOUS
<1>2. Len(T) \in Nat /\ SubSeq(T, 1, Len(T)) = T
  BY <1>1
<1>3. ASSUME NEW j \in 0..(Len(T) - 1)
      PROVE RowAt(r, T, j + 1) = RowAfter(RowAt(r, T, j), T[j + 1])
  <2>1. 1 \in 1..(Len(T) + 1) /\ j \in (1 - 1)..(Len(T) - 1)
    BY <1>2
  <2> QED BY <1>1, <2>1, Slices DEF RowAt
<1> QED BY <1>2, <1>3, NothingExecuted, NoneAfter DEF RowAt, RowSteps

LEMMA NoRowStays ==
    ASSUME NEW T, \E V : T \in Seq(V)
    PROVE  /\ \A j \in 0..Len(T) : RowAt(NoRow, T, j) = NoRow
           /\ RowAfterAll(NoRow, T) = NoRow
<1> DEFINE n == Len(T)
           R(j) == RowAt(NoRow, T, j)
           P == {j \in Nat : j <= n => R(j) = NoRow}
<1>0. RowSteps(NoRow, T)
  BY RowAtStep
<1>1. /\ R(0) = NoRow /\ R(n) = RowAfterAll(NoRow, T) /\ n \in Nat
      /\ \A j \in 0..(n - 1) : R(j + 1) = RowAfter(R(j), T[j + 1])
  BY <1>0 DEF RowSteps
<1> HIDE DEF n, R
<1>2. 0 \in P
  BY <1>1
<1>3. ASSUME NEW j \in Nat, j \in P PROVE j + 1 \in P
  <2> SUFFICES ASSUME j + 1 <= n PROVE R(j + 1) = NoRow
    OBVIOUS
  <2>1. j <= n /\ j \in 0..(n - 1)
    BY <1>1
  <2> QED BY <1>1, <1>3, <2>1 DEF RowAfter
<1> HIDE DEF P
<1>4. \A j \in Nat : j \in P
  BY <1>2, <1>3, Inductive
<1>5. \A j \in 0..n : R(j) = NoRow
  <2> TAKE j \in 0..n
  <2>1. j \in Nat /\ j <= n
    BY <1>1
  <2> QED BY <1>4, <2>1 DEF P
<1>6. n \in 0..n
  BY <1>1
<1> QED BY <1>1, <1>5, <1>6 DEF R, n

\* A row of the first columns is one of the columns after j statements.
LEMMA RowsRun ==
    ASSUME NEW first, NEW T, Runs(first, T), NEW r, IsRow(r, first)
    PROVE  \A j \in 0..Len(T) : IsRow(RowAt(r, T, j), AfterExecuting(first, T, j))
<1> DEFINE n == Len(T)
           R(j) == RowAt(r, T, j)
           S(j) == AfterExecuting(first, T, j)
           P == {j \in Nat : j <= n => IsRow(R(j), S(j))}
<1>0. \E V : T \in Seq(V)
  BY RunsSteps
<1>4. RowSteps(r, T)
  BY <1>0, RowAtStep
<1>1. /\ R(0) = r /\ n \in Nat
      /\ \A j \in 0..(n - 1) : R(j + 1) = RowAfter(R(j), T[j + 1])
  BY <1>4 DEF RowSteps
<1>2. /\ S(0) = first
      /\ \A j \in 0..(n - 1) : S(j + 1) = ColumnsAfter(S(j), T[j + 1])
  BY RunsSteps
<1>3. \A j \in 0..(n - 1) : Leaves(T[j + 1]) \subseteq DOMAIN S(j)
  BY DEF Runs
<1> HIDE DEF n, R, S
<1>8. 0 \in P
  BY <1>1, <1>2
<1>5. ASSUME NEW j \in Nat, j \in P PROVE j + 1 \in P
  <2> SUFFICES ASSUME j + 1 <= n PROVE IsRow(R(j + 1), S(j + 1))
    OBVIOUS
  <2>1. j <= n /\ j \in 0..(n - 1)
    BY <1>1
  <2>2. IsRow(R(j), S(j))
    BY <1>5, <2>1
  <2>3. IsRow(RowAfter(R(j), T[j + 1]), ColumnsAfter(S(j), T[j + 1]))
    BY <1>3, <2>1, <2>2, RowStep
  <2> QED BY <1>1, <1>2, <2>1, <2>3
<1> HIDE DEF P
<1>6. \A j \in Nat : j \in P
  BY <1>5, <1>8, Inductive
<1>7. \A j \in 0..n : IsRow(R(j), S(j))
  <2> TAKE j \in 0..n
  <2>1. j \in Nat /\ j <= n
    BY <1>1
  <2> QED BY <1>6, <2>1 DEF P
<1> QED BY <1>7 DEF n, R, S

\* The statements of an ALTER TABLE, or none.
Proper(first, T) == Runs(first, T) /\ AreStatements(T) /\ Orderly(first, T)

\* A statement that is executed again leaves a row alone.
LEMMA SettledRow ==
    ASSUME NEW first, NEW T, Proper(first, T), NEW m \in 0..Len(T)
    PROVE  \A l \in 1..m : Legal(TRUE, AfterExecuting(first, T, m), T[l]) =>
              /\ ColumnsAfter(AfterExecuting(first, T, m), T[l]) = AfterExecuting(first, T, m)
              /\ \A x : IsRow(x, AfterExecuting(first, T, m)) => RowAfter(x, T[l]) = x
<1> SUFFICES ASSUME NEW l \in 1..m, Legal(TRUE, AfterExecuting(first, T, m), T[l])
             PROVE  /\ ColumnsAfter(AfterExecuting(first, T, m), T[l]) = AfterExecuting(first, T, m)
                    /\ \A x : IsRow(x, AfterExecuting(first, T, m)) => RowAfter(x, T[l]) = x
  OBVIOUS
<1> DEFINE S == AfterExecuting(first, T, m)
<1>1. Len(T) \in Nat
  BY RunsSteps DEF Proper
<1>2. l \in 1..Len(T)
  BY <1>1
<1>3. IsStatement(T[l]) /\ Settled(T[l], S)
  BY <1>2 DEF Proper, AreStatements, Orderly
<1>4. S \in SfColumns
  BY DEF Proper, Runs
<1>5. IsFunction(S)
  BY <1>4, SfIsFunction
<1>6. \A x : IsRow(x, S) => x = NoRow \/ (IsFunction(x) /\ DOMAIN x = DOMAIN S)
  BY DEF IsRow, IsFunction
<1>7. Legal(TRUE, S, T[l])
  OBVIOUS
<1> HIDE DEF S
<1>8. ColumnsAfter(S, T[l]) = S /\ \A x : IsRow(x, S) => RowAfter(x, T[l]) = x
  BY <1>3, <1>5, <1>6, <1>7, SettledChangesNothing
<1> QED BY <1>8 DEF S

\* What executing statement d + 1 does to a row that had m of them.
RowsReach(first, T, m, d, p) ==
    \A r : IsRow(r, first) => RowAfter(RowAt(r, T, m), T[d + 1]) = RowAt(r, T, p)

LEMMA RowsOne ==
    ASSUME NEW first, NEW T, Proper(first, T), NEW m \in 0..Len(T), NEW d \in 0..m, d < Len(T),
           Legal(TRUE, AfterExecuting(first, T, m), T[d + 1])
    PROVE  RowsReach(first, T, m, d, Further(m, d))
<1> SUFFICES ASSUME NEW r, IsRow(r, first)
             PROVE  RowAfter(RowAt(r, T, m), T[d + 1]) = RowAt(r, T, Further(m, d))
  BY DEF RowsReach
<1>0. Runs(first, T)
  BY DEF Proper
<1>4. \E V : T \in Seq(V)
  BY <1>0, RunsSteps
<1>5. RowSteps(r, T)
  BY <1>4, RowAtStep
<1>1. /\ Len(T) \in Nat
      /\ \A j \in 0..(Len(T) - 1) : RowAt(r, T, j + 1) = RowAfter(RowAt(r, T, j), T[j + 1])
  BY <1>5 DEF RowSteps
<1>2. CASE d = m
  <2>1. m \in 0..(Len(T) - 1)
    BY <1>1, <1>2
  <2> QED BY <1>1, <1>2, <2>1 DEF Further
<1>3. CASE d # m
  <2> DEFINE l == d + 1
             x == RowAt(r, T, m)
  <2>1. l \in 1..m
    BY <1>1, <1>3
  <2>2. IsRow(x, AfterExecuting(first, T, m))
    BY <1>0, RowsRun
  <2>4. Legal(TRUE, AfterExecuting(first, T, m), T[l])
    OBVIOUS
  <2> HIDE DEF l, x
  <2>3. RowAfter(x, T[l]) = x
    BY <2>1, <2>2, <2>4, SettledRow
  <2> QED BY <1>3, <2>3 DEF Further, l, x
<1> QED BY <1>2, <1>3

----------------------------------------------------------------------------
(***************************************************************************)
(* ... and while files are merged between them.                            *)
(***************************************************************************)
\* Such a row is a row.
LEMMA SfRow ==
    \A cols \in SfColumns : \A x \in [DOMAIN cols -> Nat] : x # NoRow
<1> SUFFICES ASSUME NEW cols \in SfColumns, NEW x \in [DOMAIN cols -> Nat] PROVE x # NoRow
  OBVIOUS
<1>1. DOMAIN cols \subseteq Idents(Names)
  BY SfColumnsFacts DEF SfColumn
<1>2. DOMAIN cols \in SUBSET (Names \cup {Ident[n] : n \in Names})
  BY <1>1 DEF Idents
<1> QED BY <1>2, TableAssumption DEF TableAssumption

\* A row of the columns base, and what columns added since are filled with.
Filled(base, r, cols) == [c \in DOMAIN cols |-> IF c \in base THEN r[c] ELSE NoFill]

\* A statement after which all of base is there still.
LEMMA FilledStep ==
    ASSUME NEW base, NEW cols, base \subseteq DOMAIN cols, NEW r,
           NEW s, IsStatement(s), Legal(TRUE, cols, s),
           s.op # "drop", s.op = "rename" => s.old = s.new, Filled(base, r, cols) # NoRow
    PROVE  /\ base \subseteq DOMAIN ColumnsAfter(cols, s)
           /\ RowAfter(Filled(base, r, cols), s) = Filled(base, r, ColumnsAfter(cols, s))
<1> DEFINE x == Filled(base, r, cols)
           e == IF s.op = "add" THEN NoFill ELSE x[s.old]
           next == ColumnsAfter(cols, s)
<1>1. s.op \in {"add", "rename", "modify"} /\ s.op \notin Empties
  BY DEF IsStatement, Statements, Empties
<1>2. DOMAIN x = DOMAIN cols /\ DOMAIN next = (DOMAIN cols \ Leaves(s)) \cup Enters(s)
  BY AfterIsFunction DEF Filled
<1>3. RowAfter(x, s) = Replace(x, Leaves(s), Enters(s), e)
  BY <1>1, AfterIsReplace DEF RowAfter
<1>4. Leaves(s) \subseteq DOMAIN cols /\ Enters(s) \cap (DOMAIN cols \ Leaves(s)) = {}
  BY <1>1 DEF Legal
<1>5. Enters(s) = {s.new} /\ Leaves(s) = (IF s.op = "add" THEN {} ELSE {s.new})
      /\ (s.op # "add" => s.old = s.new)
  BY <1>1 DEF Leaves, Enters, IsStatement
<1>6. \A c \in DOMAIN cols : x[c] = IF c \in base THEN r[c] ELSE NoFill
  BY DEF Filled
<1>7. Filled(base, r, next) = [c \in DOMAIN next |-> IF c \in base THEN r[c] ELSE NoFill]
  BY DEF Filled
<1> HIDE DEF next, x
<1>8. \A c \in DOMAIN next : (IF c \in Enters(s) THEN e ELSE x[c])
                             = (IF c \in base THEN r[c] ELSE NoFill)
  <2>1. CASE s.op = "add"
    <3>1. s.new \notin base /\ e = NoFill
      BY <1>4, <1>5, <2>1
    <3> QED BY <1>2, <1>5, <1>6, <2>1, <3>1
  <2>2. CASE s.op # "add"
    <3>1. s.new \in DOMAIN cols /\ e = x[s.new]
      BY <1>4, <1>5, <2>2
    <3> QED BY <1>2, <1>5, <1>6, <2>2, <3>1
  <2> QED BY <2>1, <2>2
<1>9. Replace(x, Leaves(s), Enters(s), e) = Filled(base, r, next)
  BY <1>2, <1>7, <1>8 DEF Replace
<1>10. base \subseteq DOMAIN next
  BY <1>2, <1>4, <1>5
<1> QED BY <1>3, <1>9, <1>10 DEF x, next

(***************************************************************************)
(* If all of the first columns are there after m statements, a row has its *)
(* values and the fill of new columns: a file of the first columns can be  *)
(* merged into it.                                                         *)
(***************************************************************************)
LEMMA FitRow ==
    ASSUME NEW first, NEW T, Proper(first, T), NEW m \in 0..Len(T),
           DOMAIN first \subseteq DOMAIN AfterExecuting(first, T, m),
           NEW r \in [DOMAIN first -> Nat], r # NoRow
    PROVE  RowAt(r, T, m) = Filled(DOMAIN first, r, AfterExecuting(first, T, m))
<1> DEFINE base == DOMAIN first
           S(j) == AfterExecuting(first, T, j)
           R(j) == RowAt(r, T, j)
           Good(j) == base \subseteq DOMAIN S(j) /\ R(j) = Filled(base, r, S(j))
           P == {j \in Nat : j <= m => Good(j)}
<1>0. Runs(first, T) /\ IsRow(r, first)
  BY DEF Proper, IsRow
<1>1. \E V : T \in Seq(V)
  BY <1>0, RunsSteps
<1>2. /\ S(0) = first /\ Len(T) \in Nat
      /\ \A j \in 0..(Len(T) - 1) : S(j + 1) = ColumnsAfter(S(j), T[j + 1])
  BY <1>0, RunsSteps
<1>3. RowSteps(r, T)
  BY <1>1, RowAtStep
<1>4. R(0) = r /\ \A j \in 0..(Len(T) - 1) : R(j + 1) = RowAfter(R(j), T[j + 1])
  BY <1>3 DEF RowSteps
<1>5. \A j \in 0..(Len(T) - 1) : Legal(TRUE, S(j), T[j + 1])
  BY DEF Proper, Orderly
<1>6. \A l \in 1..Len(T) : IsStatement(T[l]) /\ (T[l].op \in {"drop", "rename"} => T[l].old \in base)
  BY DEF Proper, Orderly, AreStatements
<1>7. \A l \in 1..m : Settled(T[l], S(m))
  BY DEF Proper, Orderly
<1>8. m \in Nat /\ m <= Len(T)
  BY <1>2
<1>9. \A j \in 0..Len(T) : IsRow(R(j), S(j))
  BY <1>0, RowsRun
<1>10. r = [c \in base |-> r[c]]
  OBVIOUS
<1>11. base \subseteq DOMAIN S(m)
  OBVIOUS
<1> HIDE DEF S, R, base
<1>12. 0 \in P
  <2>1. base = DOMAIN S(0)
    BY <1>2 DEF base
  <2>2. R(0) = Filled(base, r, S(0))
    BY <1>4, <1>10, <2>1 DEF Filled
  <2> QED BY <2>1, <2>2
<1>13. ASSUME NEW j \in Nat, j \in P PROVE j + 1 \in P
  <2> SUFFICES ASSUME j + 1 <= m PROVE Good(j + 1)
    OBVIOUS
  <2> DEFINE l == j + 1
             x == Filled(base, r, S(j))
  <2>1. j <= m /\ j \in 0..(Len(T) - 1) /\ l \in 1..m /\ l \in 1..Len(T)
    BY <1>2, <1>8
  <2>2. base \subseteq DOMAIN S(j) /\ R(j) = x
    BY <1>13, <2>1
  <2>3. IsStatement(T[l]) /\ Legal(TRUE, S(j), T[l]) /\ Settled(T[l], S(m))
    BY <1>5, <1>6, <1>7, <2>1
  <2>4. T[l].op # "drop" /\ (T[l].op = "rename" => T[l].old = T[l].new)
    BY <1>6, <1>11, <2>1, <2>3 DEF Settled
  <2>5. R(l) = RowAfter(x, T[l]) /\ S(l) = ColumnsAfter(S(j), T[l])
    BY <1>2, <1>4, <2>1, <2>2
  <2>6. x # NoRow
    <3>1. S(j) \in SfColumns
      <4>1. j \in 0..Len(T)
        BY <1>2, <2>1
      <4> QED BY <1>0, <4>1 DEF Runs, S
    <3>2. x \in [DOMAIN S(j) -> Nat]
      BY DEF Filled, NoFill, base
    <3> QED BY <3>1, <3>2, SfRow
  <2> HIDE DEF l, x
  <2>7. base \subseteq DOMAIN ColumnsAfter(S(j), T[l]) /\ RowAfter(x, T[l]) = Filled(base, r, ColumnsAfter(S(j), T[l]))
    BY <2>2, <2>3, <2>4, <2>6, FilledStep DEF x
  <2>8. Good(l)
    BY <2>5, <2>7
  <2> QED BY <2>8 DEF l
<1> HIDE DEF P
<1>14. \A j \in Nat : j \in P
  BY <1>12, <1>13, Inductive
<1>15. Good(m)
  BY <1>8, <1>14 DEF P
<1> QED BY <1>15 DEF S, R, base

(***************************************************************************)
(* What the operator executes after m statements, beginning at a place n   *)
(* that has the same columns, brings a row to the end as well.             *)
(***************************************************************************)
LEMMA RestRow ==
    ASSUME NEW first, NEW T, Proper(first, T), NEW m \in 0..Len(T), NEW n \in 0..m,
           AfterExecuting(first, T, n) = AfterExecuting(first, T, m), NEW r, IsRow(r, first)
    PROVE  RowAfterAll(RowAt(r, T, m), SubSeq(T, n + 1, Len(T))) = RowAt(r, T, Len(T))
<1> DEFINE N == Len(T)
           S(j) == AfterExecuting(first, T, j)
           R(j) == RowAt(r, T, j)
           x == R(m)
           Q(j) == RowAfterAll(x, SubSeq(T, n + 1, j))
           P1 == {i \in Nat : n + i <= m => Q(n + i) = x /\ S(n + i) = S(m)}
           P2 == {i \in Nat : m + i <= N => Q(m + i) = R(m + i)}
<1>0. Runs(first, T)
  BY DEF Proper
<1>1. \E V : T \in Seq(V)
  BY <1>0, RunsSteps
<1>2. /\ N \in Nat /\ \A j \in 0..(N - 1) : S(j + 1) = ColumnsAfter(S(j), T[j + 1])
  BY <1>0, RunsSteps
<1>3. RowSteps(r, T)
  BY <1>1, RowAtStep
<1>4. \A j \in 0..(N - 1) : R(j + 1) = RowAfter(R(j), T[j + 1])
  BY <1>3 DEF RowSteps
<1>5. \A j \in 0..(N - 1) : Legal(TRUE, S(j), T[j + 1])
  BY DEF Proper, Orderly
<1>6. \A l \in 1..m : Legal(TRUE, S(m), T[l]) =>
         ColumnsAfter(S(m), T[l]) = S(m) /\ \A y : IsRow(y, S(m)) => RowAfter(y, T[l]) = y
  BY SettledRow
<1>7. IsRow(x, S(m))
  BY <1>0, RowsRun
<1>8. m \in Nat /\ n \in Nat /\ n <= m /\ m <= N
  BY <1>2
<1>9. PICK V : T \in Seq(V)
  BY <1>1
<1>10. Q(n) = x
  <2>1. n + 1 \in 1..(Len(T) + 1) /\ (n + 1) - 1 = n
    BY <1>8
  <2>2. SubSeq(T, n + 1, n) = <<>>
    BY <1>9, <2>1, EmptySlice
  <2> QED BY <2>2, NoneAfter
<1>11. \A j \in n..(N - 1) : Q(j + 1) = RowAfter(Q(j), T[j + 1])
  <2> TAKE j \in n..(N - 1)
  <2>1. n + 1 \in 1..(Len(T) + 1) /\ j \in ((n + 1) - 1)..(Len(T) - 1)
    BY <1>8
  <2> QED BY <1>9, <2>1, Slices
<1>12. S(n) = S(m)
  OBVIOUS
<1> HIDE DEF N, S, R, x, Q
<1>13. 0 \in P1
  <2>1. n + 0 = n
    BY <1>8
  <2> QED BY <1>10, <1>12, <2>1
<1>14. ASSUME NEW i \in Nat, i \in P1 PROVE i + 1 \in P1
  <2> SUFFICES ASSUME n + (i + 1) <= m PROVE Q(n + (i + 1)) = x /\ S(n + (i + 1)) = S(m)
    OBVIOUS
  <2> DEFINE j == n + i
             l == j + 1
  <2>1. n + i <= m /\ j \in n..(N - 1) /\ j \in 0..(N - 1) /\ l \in 1..m /\ l = n + (i + 1)
    BY <1>2, <1>8
  <2>2. Q(j) = x /\ S(j) = S(m)
    BY <1>14, <2>1
  <2>3. Legal(TRUE, S(j), T[l]) /\ Q(l) = RowAfter(Q(j), T[l]) /\ S(l) = ColumnsAfter(S(j), T[l])
    BY <1>2, <1>5, <1>11, <2>1
  <2> HIDE DEF j, l
  <2>4. ColumnsAfter(S(m), T[l]) = S(m) /\ RowAfter(x, T[l]) = x
    BY <1>6, <1>7, <2>1, <2>2, <2>3
  <2>5. Q(l) = x /\ S(l) = S(m)
    BY <2>2, <2>3, <2>4
  <2> QED BY <2>1, <2>5
<1> HIDE DEF P1
<1>15. \A i \in Nat : i \in P1
  BY <1>13, <1>14, Inductive
<1>16. Q(m) = x
  <2>1. m - n \in Nat /\ n + (m - n) = m /\ m <= m
    BY <1>8
  <2>2. m - n \in P1
    BY <1>15, <2>1
  <2> QED BY <2>1, <2>2 DEF P1
<1>17. 0 \in P2
  <2>1. m + 0 = m
    BY <1>8
  <2> QED BY <1>16, <2>1 DEF x
<1>18. ASSUME NEW i \in Nat, i \in P2 PROVE i + 1 \in P2
  <2> SUFFICES ASSUME m + (i + 1) <= N PROVE Q(m + (i + 1)) = R(m + (i + 1))
    OBVIOUS
  <2> DEFINE j == m + i
             l == j + 1
  <2>1. m + i <= N /\ j \in n..(N - 1) /\ j \in 0..(N - 1) /\ l = m + (i + 1)
    BY <1>2, <1>8
  <2>2. Q(j) = R(j)
    BY <1>18, <2>1
  <2>3. Q(l) = RowAfter(Q(j), T[l]) /\ R(l) = RowAfter(R(j), T[l])
    BY <1>4, <1>11, <2>1
  <2> HIDE DEF j, l
  <2> QED BY <2>1, <2>2, <2>3
<1> HIDE DEF P2
<1>19. \A i \in Nat : i \in P2
  BY <1>17, <1>18, Inductive
<1>20. Q(N) = R(N)
  <2>1. N - m \in Nat /\ m + (N - m) = N /\ N <= N
    BY <1>2, <1>8
  <2>2. N - m \in P2
    BY <1>19, <2>1
  <2> QED BY <2>1, <2>2 DEF P2
<1> QED BY <1>20 DEF N, S, R, x, Q

----------------------------------------------------------------------------
(***************************************************************************)
(* Statements and rows: what the translation keeps.                        *)
(***************************************************************************)
(***************************************************************************)
(* What the findings about rows leave: names keep their case, no two rows  *)
(* trade their keys, and no DDL removes rows that has no translation.      *)
(***************************************************************************)
Plain ==
    /\ CasesKept
    /\ MovedKeys = {}
    /\ \A specs \in Alters : NoPartition(specs)
    /\ "drop schema" \notin Actions

\* What the statements T of the schema file f do to the rows of cols.
RowsTranslated(cols, f, T) ==
    \/ f.action \in {"truncate table", "drop table"} /\ Whole(T)
    \/ /\ f.action = "alter table" /\ Proper(Image(cols), T)
       /\ \A r : IsRow(r, cols) =>
             RowAfterAll(ImageOfRow(r), T) = ImageOfRow(RowAfterAll(r, f.specs))

LEMMA TranslationRows ==
    ASSUME Plain, NEW cols, IsTable(cols), NEW f, IsDDL(f, cols), Accepted(cols, f)
    PROVE  RowsTranslated(cols, f, Translation(cols, f))
<1> DEFINE T == Translation(cols, f)
           first == Image(cols)
<1>1. CASE f.action \in {"truncate table", "drop table"}
  <2>1. T = <<OfTable(f.action)>>
    BY <1>1 DEF Translation
  <2> QED BY <1>1, <2>1 DEF Whole, RowsTranslated
<1>2. CASE f.action = "alter table"
  <2>1. ValidAlter(cols, f.specs) /\ f.columns = ColumnsAfterAll(cols, f.specs)
    BY <1>2, TableAssumption DEF IsDDL, TableAssumption
  <2>2. T = GenAlterTableDDLs(cols, f.columns, f.specs)
    BY <1>2 DEF Translation
  <2>3. AllCaseKept(f.specs) /\ NoPartition(f.specs)
    BY <2>1 DEF Plain, CasesKept, ValidAlter
  <2>4. /\ Come(first, T, f.columns)
        /\ \A r \in [DOMAIN cols -> Nat] :
              /\ RowAfterAll(r, f.specs) \in [DOMAIN f.columns -> Nat]
              /\ RowAfterAll(Image(r), T) = Image(RowAfterAll(r, f.specs))
        /\ IsTable(f.columns)
    BY <2>1, <2>2, <2>3, AlterTranslated
  <2>5. Runs(first, T)
    <3>1. CasesKept
      BY DEF Plain
    <3> QED BY <3>1, TranslationRuns
  <2> HIDE DEF T
  <2>6. AreStatements(T) /\ Orderly(first, T)
    BY <2>4 DEF Come
  <2>7. ASSUME NEW r, IsRow(r, cols)
        PROVE  RowAfterAll(ImageOfRow(r), T) = ImageOfRow(RowAfterAll(r, f.specs))
    <3>1. CASE r = NoRow
      <4>1. \E V : T \in Seq(V)
        BY <2>5 DEF Runs
      <4>2. \E V : f.specs \in Seq(V)
        <5>1. f.specs \in Alters
          BY <2>1 DEF ValidAlter
        <5> QED BY <5>1, AlterFacts
      <4>3. RowAfterAll(NoRow, T) = NoRow
        BY <4>1, NoRowStays
      <4>4. RowAfterAll(NoRow, f.specs) = NoRow
        BY <4>2, NoRowStays
      <4> QED BY <3>1, <4>3, <4>4 DEF ImageOfRow
    <3>2. CASE r # NoRow
      <4>1. r \in [DOMAIN cols -> Nat]
        BY <2>7, <3>2 DEF IsRow
      <4>2. OneIdent(DOMAIN f.columns) /\ DOMAIN f.columns \in SUBSET Names
        BY <2>4, TableIdents
      <4>3. RowAfterAll(r, f.specs) \in [DOMAIN f.columns -> Nat]
            /\ RowAfterAll(Image(r), T) = Image(RowAfterAll(r, f.specs))
        BY <2>4, <4>1
      <4>4. RowAfterAll(r, f.specs) # NoRow
        BY <4>2, <4>3, RowImage
      <4> QED BY <3>2, <4>3, <4>4 DEF ImageOfRow
    <3> QED BY <3>1, <3>2
  <2> QED BY <1>2, <2>5, <2>6, <2>7 DEF RowsTranslated, Proper, T
<1>3. CASE f.action \in {"rename table", "drop schema"}
  BY <1>3 DEF Accepted, IsDDL, Plain
<1> QED BY <1>1, <1>2, <1>3, TableAssumption DEF IsDDL, TableAssumption

\* The statements after the schema file s.
LEMMA StatementsShape ==
    ASSUME Plain, NEW now, NEW l, LogOK(l, now), NEW s \in 1..Len(l), l[s].kind = "schema"
    PROVE  LET v == l[s].version
               T == StatementsIn(l, v)
               f == l[Min(NextIn(l, v))]
           IN  /\ Whole(T) \/ Proper(Image(l[s].columns), T)
               /\ NextIn(l, v) # {} /\ Accepted(l[s].columns, f) =>
                     RowsTranslated(l[s].columns, f, T)
<1> DEFINE v == l[s].version
           T == StatementsIn(l, v)
           D == NextIn(l, v)
           f == l[Min(D)]
<1>1. SchemaIn(l, v) = l[s] /\ IsTable(l[s].columns)
  BY OfVersion, Entries
<1>2. CASE D = {} \/ ~Accepted(l[s].columns, f)
  <2>1. T = <<>>
    BY <1>1, <1>2 DEF StatementsIn
  <2>2. AreStatements(<<>>) /\ Orderly(Image(l[s].columns), <<>>)
    BY DEF AreStatements, Orderly
  <2>3. Runs(Image(l[s].columns), <<>>)
    BY <1>1, NothingRuns
  <2> QED BY <1>2, <2>1, <2>2, <2>3 DEF Proper
<1>3. CASE D # {} /\ Accepted(l[s].columns, f)
  <2>1. T = Translation(l[s].columns, f)
    BY <1>1, <1>3 DEF StatementsIn
  <2>2. IsDDL(f, l[s].columns)
    BY <1>3, NextFacts
  <2>3. RowsTranslated(l[s].columns, f, T)
    BY <1>1, <1>3, <2>1, <2>2, TranslationRows
  <2> HIDE DEF T, f
  <2>4. Whole(T) \/ Proper(Image(l[s].columns), T)
    BY <2>3 DEF RowsTranslated
  <2> QED BY <2>3, <2>4 DEF T, f
<1> QED BY <1>2, <1>3

\* ... of the watermark, and of the DDL at work.
LEMMA RowsHere ==
    ASSUME Plain, ScanInv
    PROVE  LET T == StatementsIn(log, saved.watermark)
               c == SchemaIn(log, saved.watermark)
           IN  /\ Whole(T) \/ Proper(Image(c.columns), T)
               /\ pc \in {"load", "apply", "told"} /\ work # {} /\ log[Current].kind = "schema"
                     /\ Accepted(meta, File) => RowsTranslated(c.columns, File, T)
<1> DEFINE v == saved.watermark
           T == StatementsIn(log, v)
           D == NextIn(log, v)
<1>0. UpstreamOK /\ ScanOK /\ LogOK(log, clock)
  BY DEF ScanInv, UpstreamOK
<1>1. PICK s \in 1..Len(log) : /\ log[s].kind = "schema" /\ log[s].version = v
                               /\ SchemaIn(log, v) = log[s]
  BY <1>0, AtWatermark
<1>4. LET w == log[s].version
          U == StatementsIn(log, w)
          g == log[Min(NextIn(log, w))]
      IN  /\ Whole(U) \/ Proper(Image(log[s].columns), U)
          /\ NextIn(log, w) # {} /\ Accepted(log[s].columns, g) =>
                RowsTranslated(log[s].columns, g, U)
  BY <1>0, <1>1, StatementsShape
<1>2. /\ Whole(T) \/ Proper(Image(log[s].columns), T)
      /\ D # {} /\ Accepted(log[s].columns, log[Min(D)]) =>
            RowsTranslated(log[s].columns, log[Min(D)], T)
  BY <1>1, <1>4
<1>3. ASSUME pc \in {"load", "apply", "told"}, work # {}, log[Current].kind = "schema"
      PROVE  D # {} /\ File = log[Min(D)] /\ meta = log[s].columns
  BY <1>1, <1>3, CurrentIsNext DEF File
<1> HIDE DEF T, D
<1> QED BY <1>1, <1>2, <1>3 DEF T, D

----------------------------------------------------------------------------
(***************************************************************************)
(* The history of the rows upstream, as the log has it.                    *)
(***************************************************************************)
----------------------------------------------------------------------------
(***************************************************************************)
(* The rows there were upstream after each entry of the log.  The log has  *)
(* no rows, so the invariant says that there is such a history.            *)
(***************************************************************************)
Changed(e, k) == e.kind # "schema" /\ \E c \in e.changes : c.key = k

RowBecomes(e, k, old, new) ==
    /\ e.kind = "schema" =>
          new = IF e.action = "alter table" THEN RowAfterAll(old, e.specs) ELSE NoRow
    /\ e.kind # "schema" /\ ~Changed(e, k) => new = old
    /\ Changed(e, k) =>
          \E c \in e.changes :
              /\ c.key = k /\ c.row = new
              /\ \A d \in e.changes : d.key = k => d = c \/ d.ts < c.ts

History(h, l) ==
    /\ \A i \in 1..Len(l) : \A k \in Keys : IsRow(h[i][k], l[i].columns)
    /\ \A i \in 1..Len(l) : i > 1 =>
          \A k \in Keys : RowBecomes(l[i], k, h[i - 1][k], h[i][k])

\* A row stays where no entry changes it.
LEMMA RowStays ==
    ASSUME NEW l, Len(l) \in Nat, NEW h, History(h, l), NEW k \in Keys,
           NEW p \in 1..Len(l), NEW q \in p..Len(l),
           \A i \in 1..Len(l) : p < i /\ i <= q => l[i].kind # "schema" /\ ~Changed(l[i], k)
    PROVE  h[q][k] = h[p][k]
<1> DEFINE n == Len(l)
           P == {i \in Nat : p + i <= q => h[p + i][k] = h[p][k]}
<1>1. n \in Nat /\ p \in 1..n /\ q \in p..n
  OBVIOUS
<1>2. \A i \in 1..n : i > 1 => RowBecomes(l[i], k, h[i - 1][k], h[i][k])
  BY DEF History
<1>3. \A i \in 1..n : p < i /\ i <= q => l[i].kind # "schema" /\ ~Changed(l[i], k)
  OBVIOUS
<1> HIDE DEF n
<1>4. 0 \in P
  <2>1. p + 0 = p
    BY <1>1
  <2> QED BY <2>1
<1>5. ASSUME NEW i \in Nat, i \in P PROVE i + 1 \in P
  <2> SUFFICES ASSUME p + (i + 1) <= q PROVE h[p + (i + 1)][k] = h[p][k]
    OBVIOUS
  <2> DEFINE j == p + (i + 1)
  <2>1. j \in 1..n /\ j > 1 /\ j - 1 = p + i /\ p < j /\ j <= q /\ p + i <= q
    BY <1>1
  <2>2. h[p + i][k] = h[p][k]
    BY <1>5, <2>1
  <2> HIDE DEF j
  <2>3. l[j].kind # "schema" /\ ~Changed(l[j], k)
    BY <1>3, <2>1
  <2>4. RowBecomes(l[j], k, h[j - 1][k], h[j][k])
    BY <1>2, <2>1
  <2>5. h[j][k] = h[j - 1][k]
    BY <2>3, <2>4 DEF RowBecomes
  <2> QED BY <2>1, <2>2, <2>5 DEF j
<1> HIDE DEF P
<1>6. \A i \in Nat : i \in P
  BY <1>4, <1>5, Inductive
<1>7. q - p \in Nat /\ p + (q - p) = q /\ q <= q
  BY <1>1
<1>8. q - p \in P
  BY <1>6, <1>7
<1> QED BY <1>7, <1>8 DEF P

\* The history h of the log l, of which the last entry of m is new or has grown.
Extended(h, m, new) == [i \in 1..Len(m) |-> IF i = Len(m) THEN new ELSE h[i]]

LEMMA HistoryExtended ==
    ASSUME NEW l, Len(l) \in Nat, NEW h, History(h, l), NEW m, Len(m) \in {Len(l), Len(l) + 1},
           Len(m) > 1, \A i \in 1..Len(l) : i # Len(m) => m[i] = l[i],
           NEW new, \A k \in Keys : IsRow(new[k], m[Len(m)].columns),
           \A k \in Keys : RowBecomes(m[Len(m)], k, h[Len(m) - 1][k], new[k])
    PROVE  /\ History(Extended(h, m, new), m)
           /\ Extended(h, m, new)[Len(m)] = new
           /\ \A i \in 1..Len(l) : i # Len(m) => Extended(h, m, new)[i] = h[i]
<1> DEFINE n == Len(l)
           z == Len(m)
           g == Extended(h, m, new)
<1>1. n \in Nat /\ z \in {n, n + 1} /\ z > 1 /\ z \in 1..z
  OBVIOUS
<1>2. \A i \in 1..n : i # z => m[i] = l[i]
  OBVIOUS
<1>3. /\ \A i \in 1..n : \A k \in Keys : IsRow(h[i][k], l[i].columns)
      /\ \A i \in 1..n : i > 1 => \A k \in Keys : RowBecomes(l[i], k, h[i - 1][k], h[i][k])
  BY DEF History
<1>4. \A i \in 1..z : g[i] = IF i = z THEN new ELSE h[i]
  BY DEF Extended
<1>5. /\ \A k \in Keys : IsRow(new[k], m[z].columns)
      /\ \A k \in Keys : RowBecomes(m[z], k, h[z - 1][k], new[k])
  OBVIOUS
<1> HIDE DEF n, z, g
<1>6. ASSUME NEW i \in 1..z, NEW k \in Keys PROVE IsRow(g[i][k], m[i].columns)
  <2>1. CASE i = z
    BY <1>4, <1>5, <2>1
  <2>2. CASE i # z
    <3>1. i \in 1..n
      BY <1>1, <2>2
    <3> QED BY <1>2, <1>3, <1>4, <2>2, <3>1
  <2> QED BY <2>1, <2>2
<1>7. ASSUME NEW i \in 1..z, i > 1, NEW k \in Keys
      PROVE  RowBecomes(m[i], k, g[i - 1][k], g[i][k])
  <2>1. i - 1 \in 1..z /\ i - 1 # z
    BY <1>1, <1>7
  <2>2. g[i - 1] = h[i - 1]
    BY <1>4, <2>1
  <2>3. CASE i = z
    <3>1. g[i] = new
      BY <1>4, <2>3
    <3> QED BY <1>5, <2>2, <2>3, <3>1
  <2>4. CASE i # z
    <3>1. i \in 1..n
      BY <1>1, <2>4
    <3>2. g[i] = h[i] /\ m[i] = l[i]
      BY <1>2, <1>4, <2>4, <3>1
    <3> QED BY <1>3, <1>7, <2>2, <3>1, <3>2
  <2> QED BY <2>3, <2>4
<1>8. History(g, m)
  BY <1>6, <1>7 DEF History, z
<1>9. g[z] = new
  BY <1>1, <1>4
<1>10. \A i \in 1..n : i # z => g[i] = h[i]
  <2> TAKE i \in 1..n
  <2>1. i # z => i \in 1..z
    BY <1>1
  <2> QED BY <1>4, <2>1
<1> QED BY <1>8, <1>9, <1>10 DEF n, z, g

----------------------------------------------------------------------------
\* A transaction changes one row.
LEMMA OneChange ==
    ASSUME Plain, NEW changes \in Transactions
    PROVE  \E k \in Keys : \E row :
              /\ changes = {Put(k, row)}
              /\ \A x \in Keys : Written(changes, x) = IF x = k THEN row ELSE rows[x]
<1> DEFINE full == [n \in DOMAIN columns |-> clock + 1]
<1>1. \E k \in Keys : \E row : changes = {Put(k, row)}
  BY DEF Transactions, Plain
<1>5. PICK k \in Keys : \E row : changes = {Put(k, row)}
  BY <1>1
<1>2. PICK row : changes = {Put(k, row)}
  BY <1>5
<1> DEFINE e == Put(k, row)
<1>3. e.key = k /\ e.row = row
  BY DEF Put
<1> HIDE DEF e
<1>4. ASSUME NEW x \in Keys
      PROVE  Written({e}, x) = IF x = k THEN row ELSE rows[x]
  <2>1. CASE x # k
    <3>1. {c \in {e} : c.key = x} = {}
      BY <1>3, <2>1
    <3> QED BY <2>1, <3>1 DEF Written
  <2>2. CASE x = k
    <3>1. {c \in {e} : c.key = x} = {e}
      BY <1>3, <2>2
    <3>2. CASE row = NoRow
      <4>1. {c \in {e} : c.row # NoRow} = {}
        BY <1>3, <3>2
      <4> QED BY <2>2, <3>1, <3>2, <4>1 DEF Written
    <3>3. CASE row # NoRow
      <4>1. {c \in {e} : c.row # NoRow} = {e}
        BY <1>3, <3>3
      <4> QED BY <1>3, <2>2, <3>1, <3>3, <4>1 DEF Written
    <3> QED BY <3>2, <3>3
  <2> QED BY <2>1, <2>2
<1> QED BY <1>2, <1>4 DEF e

----------------------------------------------------------------------------
(***************************************************************************)
(* ... goes on with upstream.                                              *)
(***************************************************************************)
\* An entry with one change, later than those it had.
LEMMA NewFileBecomes ==
    ASSUME NEW e, e.kind # "schema", NEW c, e.changes = {c}, NEW k, NEW old
    PROVE  RowBecomes(e, k, old, IF k = c.key THEN c.row ELSE old)
<1>1. Changed(e, k) <=> k = c.key
  BY DEF Changed
<1> QED BY <1>1 DEF RowBecomes

LEMMA GrownFileBecomes ==
    ASSUME NEW e, e.kind # "schema", NEW f, f.kind = e.kind, NEW c,
           f.changes = e.changes \cup {c}, \A d \in e.changes : d.ts < c.ts,
           NEW k, NEW old, NEW cur, RowBecomes(e, k, old, cur)
    PROVE  RowBecomes(f, k, old, IF k = c.key THEN c.row ELSE cur)
<1>1. CASE k = c.key
  <2>1. Changed(f, k) /\ f.kind # "schema" /\ c \in f.changes
    BY <1>1 DEF Changed
  <2>2. \A d \in f.changes : d.key = k => d = c \/ d.ts < c.ts
    OBVIOUS
  <2>3. c.key = k /\ c.row = (IF k = c.key THEN c.row ELSE cur)
    BY <1>1
  <2> QED BY <2>1, <2>2, <2>3 DEF RowBecomes
<1>2. CASE k # c.key
  <2>1. f.kind # "schema" /\ (Changed(f, k) <=> Changed(e, k))
    BY <1>2 DEF Changed
  <2>2. CASE Changed(e, k)
    <3>1. PICK b \in e.changes : /\ b.key = k /\ b.row = cur
                                 /\ \A d \in e.changes : d.key = k => d = b \/ d.ts < b.ts
      BY <2>2 DEF RowBecomes
    <3>2. b \in f.changes /\ \A d \in f.changes : d.key = k => d = b \/ d.ts < b.ts
      BY <1>2, <3>1
    <3> QED BY <1>2, <2>1, <2>2, <3>1, <3>2 DEF RowBecomes
  <2>3. CASE ~Changed(e, k)
    <3>1. cur = old
      BY <2>3 DEF RowBecomes
    <3> QED BY <1>2, <2>1, <2>3, <3>1 DEF RowBecomes
  <2> QED BY <2>2, <2>3
<1> QED BY <1>1, <1>2

\* The history goes on with the rows of now, and stays as far as it was seen.
GoesOn(h) ==
    /\ History(Extended(h, log', rows'), log')
    /\ \A k \in Keys : Extended(h, log', rows')[Len(log')][k] = rows'[k]
    /\ \A i \in 1..seen : Extended(h, log', rows')[i] = h[i]

LEMMA HistoryGoesOn ==
    ASSUME UpstreamOK, UpstreamOK', seen \in 1..Len(log), NEW h, History(h, log),
           Len(log') \in {Len(log), Len(log) + 1}, Len(log') > 1, Len(log') > seen,
           \A i \in 1..Len(log) : i # Len(log') => log'[i] = log[i],
           \A k \in Keys : RowBecomes(log'[Len(log')], k, h[Len(log') - 1][k], rows'[k])
    PROVE  GoesOn(h)
<1> DEFINE z == Len(log')
           n == Len(log)
           g == Extended(h, log', rows')
<1>1. n \in Nat
  BY UpstreamFacts
<1>2. \A k \in Keys : IsRow(rows'[k], log'[z].columns)
  BY DEF UpstreamOK
<1>3. History(g, log') /\ g[z] = rows' /\ \A i \in 1..n : i # z => g[i] = h[i]
  BY <1>1, <1>2, HistoryExtended
<1> HIDE DEF z, n, g
<1>4. z \in {n, n + 1} /\ z > seen /\ seen \in 1..n
  BY DEF z, n
<1>5. \A i \in 1..seen : i \in 1..n /\ i # z
  BY <1>1, <1>4
<1>6. \A i \in 1..seen : g[i] = h[i]
  BY <1>3, <1>5
<1>7. \A k \in Keys : g[z][k] = rows'[k]
  BY <1>3
<1> QED BY <1>3, <1>6, <1>7 DEF GoesOn, z, g

LEMMA AppendedHistory ==
    ASSUME UpstreamOK, UpstreamOK', seen \in 1..Len(log), NEW h, History(h, log),
           \A k \in Keys : h[Len(log)][k] = rows[k],
           NEW e, log' = Append(log, e), \A k \in Keys : RowBecomes(e, k, rows[k], rows'[k])
    PROVE  GoesOn(h)
<1> DEFINE n == Len(log)
<1>0. n \in Nat /\ n > 0 /\ LogOK(log, clock) /\ seen \in 1..n
  BY UpstreamFacts
<1>1. /\ Len(log') = n + 1 /\ log'[n + 1] = e
      /\ \A i \in 1..n : log'[i] = log[i]
  BY <1>0, Appended DEF LogOK
<1>2. \A k \in Keys : h[n][k] = rows[k]
  OBVIOUS
<1> DEFINE z == Len(log')
<1> HIDE DEF n, z
<1>4. z \in {n, n + 1} /\ z > 1 /\ z > seen /\ z = n + 1 /\ z - 1 = n
  BY <1>0, <1>1 DEF z
<1>5. \A k \in Keys : RowBecomes(log'[z], k, h[z - 1][k], rows'[k])
  BY <1>1, <1>2, <1>4
<1>6. \A i \in 1..n : i # z => log'[i] = log[i]
  BY <1>1
<1> QED BY <1>4, <1>5, <1>6, HistoryGoesOn DEF n, z

LEMMA CommitHistory ==
    ASSUME Plain, UpstreamOK, UpstreamOK', seen \in 1..Len(log), NEW h, History(h, log),
           \A k \in Keys : h[Len(log)][k] = rows[k], Commit
    PROVE  GoesOn(h)
<1> DEFINE n == Len(log)
<1>0. n \in Nat /\ n > 0 /\ n \in 1..n /\ LogOK(log, clock) /\ clock \in Nat
      /\ EntryOK(log[n], clock)
  BY UpstreamFacts
<1>1. PICK changes \in Transactions :
        /\ rows' = [k \in Keys |-> Written(changes, k)]
        /\ \/ /\ Len(log) > seen /\ ~IsSchema(Len(log))
              /\ log' = [log EXCEPT ![Len(log)].changes = @ \cup changes]
           \/ log' = Append(log, DataFile(Version, columns, changes))
  BY DEF Commit
<1>2. PICK x \in Keys : \E row :
              /\ changes = {Put(x, row)}
              /\ \A y \in Keys : Written(changes, y) = IF y = x THEN row ELSE rows[y]
  BY OneChange
<1>3. PICK row : /\ changes = {Put(x, row)}
                 /\ \A y \in Keys : Written(changes, y) = IF y = x THEN row ELSE rows[y]
  BY <1>2
<1> DEFINE c == Put(x, row)
<1>4. c.key = x /\ c.row = row /\ c.ts = clock + 1
  BY DEF Put
<1>5. changes = {c}
  BY <1>3
<1> HIDE DEF c
<1>6. \A k \in Keys : rows'[k] = IF k = c.key THEN c.row ELSE rows[k]
  BY <1>1, <1>3, <1>4
<1>7. CASE log' = Append(log, DataFile(Version, columns, changes))
  <2> DEFINE e == DataFile(Version, columns, changes)
  <2>1. e.kind # "schema" /\ e.changes = {c} /\ log' = Append(log, e)
    BY <1>5, <1>7 DEF DataFile
  <2> HIDE DEF e
  <2>2. \A k \in Keys : RowBecomes(e, k, rows[k], rows'[k])
    BY <1>6, <2>1, NewFileBecomes
  <2> QED BY <2>1, <2>2, AppendedHistory
<1>8. CASE /\ Len(log) > seen /\ ~IsSchema(Len(log))
           /\ log' = [log EXCEPT ![Len(log)].changes = @ \cup changes]
  <2>1. /\ Len(log') = n
        /\ \A i \in 1..n : i # n => log'[i] = log[i]
        /\ log'[n] = [log[n] EXCEPT !.changes = @ \cup changes]
    BY <1>0, <1>8, GrownFacts DEF LogOK, Grown
  <2>2. log[n].kind # "schema" /\ log[n].kind = "file"
    BY <1>0, <1>8 DEF IsSchema, EntryOK
  <2>3. "changes" \in DOMAIN log[n] /\ \A d \in log[n].changes : d.ts \in 1..clock
    BY <1>0, <2>2 DEF EntryOK, ChangeOK
  <2>4. log[1].kind = "schema"
    BY <1>0 DEF LogOK
  <2>5. n > seen
    BY <1>8
  <2> HIDE DEF n
  <2>6. log'[n].kind = log[n].kind /\ log'[n].changes = log[n].changes \cup {c}
    BY <1>5, <2>1, <2>2, <2>3
  <2>7. n # 1 /\ n > 1
    <3>1. n # 1
      BY <2>2, <2>4
    <3> QED BY <1>0, <3>1
  <2>8. \A d \in log[n].changes : d.ts < c.ts
    <3> TAKE d \in log[n].changes
    <3>1. d.ts \in 1..clock
      BY <2>3
    <3> QED BY <1>0, <1>4, <3>1
  <2>9. \A k \in Keys : RowBecomes(log[n], k, h[n - 1][k], rows[k])
    <3> TAKE k \in Keys
    <3>1. RowBecomes(log[n], k, h[n - 1][k], h[n][k])
      BY <1>0, <2>7 DEF History, n
    <3>2. h[n][k] = rows[k]
      BY DEF n
    <3> QED BY <3>1, <3>2
  <2>10. \A k \in Keys : RowBecomes(log'[n], k, h[n - 1][k], rows'[k])
    <3> TAKE k \in Keys
    <3> DEFINE old == h[n - 1][k]
               cur == rows[k]
               e == log[n]
               f == log'[n]
    <3>1. RowBecomes(e, k, old, cur)
      BY <2>9
    <3>2. e.kind # "schema" /\ f.kind = e.kind /\ f.changes = e.changes \cup {c}
          /\ \A d \in e.changes : d.ts < c.ts
      BY <2>2, <2>6, <2>8
    <3> HIDE DEF old, cur, e, f
    <3>4. RowBecomes(f, k, old, IF k = c.key THEN c.row ELSE cur)
      BY <3>1, <3>2, GrownFileBecomes
    <3> QED BY <1>6, <3>4 DEF old, cur, e, f
  <2>11. \A i \in 1..n : i # n => log'[i] = log[i]
    BY <2>1
  <2> QED BY <1>0, <2>1, <2>5, <2>7, <2>10, <2>11, HistoryGoesOn DEF n
<1> QED BY <1>1, <1>7, <1>8

LEMMA UpstreamHistory ==
    ASSUME Plain, UpstreamOK, UpstreamOK', seen \in 1..Len(log), NEW h, History(h, log),
           \A k \in Keys : h[Len(log)][k] = rows[k], Upstream
    PROVE  GoesOn(h)
<1>1. CASE Commit
  BY <1>1, CommitHistory
<1>2. ASSUME NEW specs \in Alters, Alter(specs) PROVE GoesOn(h)
  <2> DEFINE e == SchemaFile(clock', "alter table", specs, columns')
  <2>1. e.kind = "schema" /\ e.action = "alter table" /\ e.specs = specs
    BY DEF SchemaFile
  <2>2. log' = Append(log, e) /\ \A k \in Keys : rows'[k] = RowAfterAll(rows[k], specs)
    BY <1>2 DEF Alter
  <2> HIDE DEF e
  <2>3. \A k \in Keys : RowBecomes(e, k, rows[k], rows'[k])
    BY <2>1, <2>2 DEF RowBecomes, Changed
  <2> QED BY <2>2, <2>3, AppendedHistory
<1>3. ASSUME NEW action \in Actions, OtherDDL(action) PROVE GoesOn(h)
  <2> DEFINE e == SchemaFile(clock', action, <<>>, columns)
  <2>1. e.kind = "schema" /\ e.action = action /\ action # "alter table"
    BY TableAssumption DEF SchemaFile, TableAssumption
  <2>2. log' = Append(log, e) /\ \A k \in Keys : rows'[k] = NoRow
    BY <1>3 DEF OtherDDL
  <2> HIDE DEF e
  <2>3. \A k \in Keys : RowBecomes(e, k, rows[k], rows'[k])
    BY <2>1, <2>2 DEF RowBecomes, Changed
  <2> QED BY <2>2, <2>3, AppendedHistory
<1> QED BY <1>1, <1>2, <1>3 DEF Upstream

----------------------------------------------------------------------------
(***************************************************************************)
(* A row in Snowflake: its place in the history.                           *)
(***************************************************************************)
----------------------------------------------------------------------------
(***************************************************************************)
(* A row in Snowflake: of the version v of the log l it has some entry p   *)
(* and all before, with m statements executed, and no change of the key    *)
(* after p is among the files that are done.  TRUNCATE and DROP TABLE      *)
(* leave no row at their end, nor in a table that is not there; in between *)
(* files may be merged again.                                              *)
(***************************************************************************)
RowOf(l, v, h, m, k, row, done, last) ==
    \E p \in 1..last :
        /\ p \in 1..Len(l) /\ l[p].version = v
        /\ row = RowAt(ImageOfRow(h[p][k]), StatementsIn(l, v), m)
        /\ \A i \in 1..Len(l) : l[i].version = v /\ p < i /\ Changed(l[i], k) => i \notin done

RowIn(l, v, h, m, k, row, empty, done, last) ==
    IF Whole(StatementsIn(l, v)) /\ m > 0
    THEN empty => row = NoRow
    ELSE RowOf(l, v, h, m, k, row, done, last)

AtEnd == pc = "apply" /\ todo = <<>>
Done == saved.consumed \cup dirty

RowPlace(h, m, k) ==
    RowIn(log, saved.watermark, h, m, k, sfRows[k], AtEnd \/ ~exists, Done, seen)

UpToNow(h) == History(h, log) /\ \A k \in Keys : h[Len(log)][k] = rows[k]

RowsAt(h, m) == Place(m) /\ UpToNow(h) /\ \A k \in Keys : RowPlace(h, m, k)

RowInv ==
    /\ \E h, m : RowsAt(h, m)
    /\ SchemaIn(log, saved.watermark).action # "rename table"

LEMMA RowAtNone ==
    \A r, T : RowAt(r, T, 0) = r
BY NothingExecuted, NoneAfter DEF RowAt

LEMMA WholeNotEmpty ==
    ASSUME NEW T, Whole(T)
    PROVE  T # <<>> /\ Len(T) = 1 /\ T[1].op \in Empties
<1>1. \A s : <<s>> # <<>> /\ Len(<<s>>) = 1 /\ <<s>>[1] = s
  OBVIOUS
<1>2. OfTable("truncate table").op = "truncate table" /\ OfTable("drop table").op = "drop table"
  BY DEF OfTable, Statement
<1> HIDE DEF OfTable
<1>3. CASE T = <<OfTable("truncate table")>>
  BY <1>1, <1>2, <1>3 DEF Empties
<1>4. CASE T = <<OfTable("drop table")>>
  BY <1>1, <1>2, <1>4 DEF Empties
<1> QED BY <1>3, <1>4 DEF Whole

\* Steps that touch neither the table nor the log, and have nothing more done.
LEMMA SameTableRows ==
    ASSUME NEW h, NEW m, NEW k \in Keys, RowPlace(h, m, k), UNCHANGED <<upstream, table>>,
           saved'.watermark = saved.watermark, Done' \subseteq Done,
           seen \in Nat, seen' \in Nat, seen <= seen',
           AtEnd' => AtEnd \/ ~Whole(StatementsIn(log, saved.watermark))
    PROVE  RowPlace(h, m, k)'
<1> DEFINE v == saved.watermark
           T == StatementsIn(log, v)
<1>1. log' = log /\ sfRows' = sfRows /\ exists' = exists
  BY DEF upstream, table
<1>2. RowIn(log, v, h, m, k, sfRows[k], AtEnd \/ ~exists, Done, seen)
  BY DEF RowPlace
<1>3. RowIn(log, v, h, m, k, sfRows[k], AtEnd' \/ ~exists, Done', seen')
  <2>1. CASE Whole(T) /\ m > 0
    <3>1. AtEnd \/ ~exists => sfRows[k] = NoRow
      BY <1>2, <2>1 DEF RowIn
    <3>2. AtEnd' \/ ~exists => sfRows[k] = NoRow
      BY <2>1, <3>1
    <3> QED BY <2>1, <3>2 DEF RowIn
  <2>2. CASE ~(Whole(T) /\ m > 0)
    <3>1. RowOf(log, v, h, m, k, sfRows[k], Done, seen)
      BY <1>2, <2>2 DEF RowIn
    <3>2. 1..seen \subseteq 1..seen'
      OBVIOUS
    <3>3. RowOf(log, v, h, m, k, sfRows[k], Done', seen')
      BY <3>1, <3>2 DEF RowOf
    <3> QED BY <2>2, <3>3 DEF RowIn
  <2> QED BY <2>1, <2>2
<1>4. RowIn(log', saved'.watermark, h, m, k, sfRows'[k], AtEnd' \/ ~exists', Done', seen')
  BY <1>1, <1>3
<1> QED BY <1>4 DEF RowPlace

\* Upstream goes on.
LEMMA UpstreamRows ==
    ASSUME Plain, ScanInv, NEW h, NEW m, Place(m), NEW k \in Keys, RowPlace(h, m, k),
           Grows, UpstreamOK', GoesOn(h), NEW g, g = Extended(h, log', rows')
    PROVE  RowPlace(g, m, k)'
<1> DEFINE v == saved.watermark
           T == StatementsIn(log, v)
           U == StatementsIn(log', v)
<1>0. UpstreamOK /\ ScanOK /\ ClockOK
  BY DEF ScanInv
<1>1. NextIn(log, v) # {} => U = T
  BY NextStands
<1>2. NextIn(log, v) = {} => T = <<>>
  <2>1. CasesKept
    BY DEF Plain
  <2> QED BY <2>1, Here
<1>3. /\ saved' = saved /\ pc' = pc /\ todo' = todo /\ seen' = seen /\ exists' = exists
      /\ sfRows' = sfRows /\ dirty' = dirty
  BY DEF Grows, table, process
<1>4. Done \subseteq 1..seen /\ seen \in 1..Len(log) /\ Len(log) \in Nat
  BY <1>0, ScanNow DEF Done
<1>5. /\ \A i \in 1..Len(log') : i <= seen => i \in 1..Len(log) /\ log'[i] = log[i]
      /\ \A i \in 1..seen : i \in 1..Len(log) /\ log'[i] = log[i]
      /\ \A i \in 1..Len(log') : i \in 1..Len(log) \/ i = Len(log) + 1
      /\ seen' \in 1..Len(log')
  BY <1>0, GrowsPending
<1>6. \A i \in 1..seen : i \in 1..Len(log')
  <2> DEFINE z == Len(log')
  <2>1. z \in Nat /\ seen \in 1..z
    <3>1. LogOK(log', clock')
      BY DEF UpstreamOK
    <3> QED BY <1>3, <1>5, <3>1, LogEnd
  <2> HIDE DEF z
  <2>2. \A i \in 1..seen : i \in 1..z
    BY <2>1
  <2> QED BY <2>2 DEF z
<1>7. \A i \in 1..seen : g[i] = h[i]
  BY DEF GoesOn
<1>8. RowIn(log, v, h, m, k, sfRows[k], AtEnd \/ ~exists, Done, seen)
  BY DEF RowPlace
<1>9. m \in 0..Len(T)
  BY DEF Place, PlaceIn
<1>10. ASSUME RowOf(log, v, h, m, k, sfRows[k], Done, seen),
              \A r : RowAt(r, U, m) = RowAt(r, T, m)
       PROVE  RowOf(log', v, g, m, k, sfRows[k], Done, seen)
  <2>1. PICK p \in 1..seen :
          /\ p \in 1..Len(log) /\ log[p].version = v
          /\ sfRows[k] = RowAt(ImageOfRow(h[p][k]), T, m)
          /\ \A i \in 1..Len(log) :
                log[i].version = v /\ p < i /\ Changed(log[i], k) => i \notin Done
    BY <1>10 DEF RowOf
  <2>2. p \in 1..Len(log') /\ log'[p].version = v
    BY <1>5, <1>6, <2>1
  <2>3. sfRows[k] = RowAt(ImageOfRow(g[p][k]), U, m)
    BY <1>7, <1>10, <2>1
  <2>4. ASSUME NEW i \in 1..Len(log'), log'[i].version = v, p < i, Changed(log'[i], k), i \in Done
        PROVE  FALSE
    <3>1. i \in 1..seen
      BY <1>4, <2>4
    <3>2. i \in 1..Len(log) /\ log'[i] = log[i]
      BY <1>5, <3>1
    <3> QED BY <2>1, <2>4, <3>2
  <2> QED BY <2>2, <2>3, <2>4 DEF RowOf
<1>11. RowIn(log', v, g, m, k, sfRows[k], AtEnd \/ ~exists, Done, seen)
  <2>1. CASE NextIn(log, v) # {}
    <3>1. U = T
      BY <1>1, <2>1
    <3>2. CASE Whole(T) /\ m > 0
      <4>1. Whole(U) /\ m > 0
        BY <3>1, <3>2
      <4>2. AtEnd \/ ~exists => sfRows[k] = NoRow
        BY <1>8, <3>2 DEF RowIn
      <4> QED BY <4>1, <4>2 DEF RowIn
    <3>3. CASE ~(Whole(T) /\ m > 0)
      <4>1. ~(Whole(U) /\ m > 0)
        BY <3>1, <3>3
      <4>2. RowOf(log, v, h, m, k, sfRows[k], Done, seen)
        BY <1>8, <3>3 DEF RowIn
      <4>3. RowOf(log', v, g, m, k, sfRows[k], Done, seen)
        BY <1>10, <3>1, <4>2
      <4> QED BY <4>1, <4>3 DEF RowIn
    <3> QED BY <3>2, <3>3
  <2>2. CASE NextIn(log, v) = {}
    <3>1. m = 0
      <4>1. T = <<>>
        BY <1>2, <2>2
      <4>2. m \in 0..Len(<<>>)
        BY <1>9, <4>1
      <4> QED BY <4>2
    <3>2. ~(m > 0)
      BY <3>1
    <3>3. \A r : RowAt(r, U, m) = RowAt(r, T, m)
      BY <3>1, RowAtNone
    <3>4. RowOf(log, v, h, m, k, sfRows[k], Done, seen)
      BY <1>8, <3>2 DEF RowIn
    <3>5. RowOf(log', v, g, m, k, sfRows[k], Done, seen)
      BY <1>10, <3>3, <3>4
    <3> QED BY <3>2, <3>5 DEF RowIn
  <2> QED BY <2>1, <2>2
<1>12. Done' = Done /\ (AtEnd' <=> AtEnd)
  BY <1>3 DEF Done, AtEnd
<1>13. (AtEnd' \/ ~exists') = (AtEnd \/ ~exists)
  BY <1>3 DEF AtEnd
<1>14. RowIn(log', saved'.watermark, g, m, k, sfRows'[k], AtEnd' \/ ~exists', Done', seen')
  BY <1>3, <1>11, <1>12, <1>13
<1> QED BY <1>14 DEF RowPlace

----------------------------------------------------------------------------
(***************************************************************************)
(* ... when a statement is executed.                                       *)
(***************************************************************************)
LEMMA ImageOfRowIs ==
    ASSUME NEW cols, IsTable(cols), NEW r, IsRow(r, cols)
    PROVE  /\ IsRow(ImageOfRow(r), Image(cols))
           /\ DOMAIN Image(cols) = Idents(DOMAIN cols)
           /\ r # NoRow => ImageOfRow(r) = Image(r) /\ Image(r) # NoRow
                           /\ Image(r) \in [DOMAIN Image(cols) -> Nat]
<1>1. OneIdent(DOMAIN cols) /\ DOMAIN cols \subseteq Names
  BY TableIdents
<1>2. DOMAIN Image(cols) = Idents(DOMAIN cols)
  BY <1>1, ImageFacts
<1>3. CASE r = NoRow
  BY <1>2, <1>3 DEF ImageOfRow, IsRow
<1>4. CASE r # NoRow
  <2>1. r \in [DOMAIN cols -> Nat]
    BY <1>4 DEF IsRow
  <2>2. Image(r) \in [Idents(DOMAIN cols) -> Nat] /\ Image(r) # NoRow
    BY <1>1, <2>1, RowImage
  <2> QED BY <1>2, <1>4, <2>2 DEF ImageOfRow, IsRow
<1> QED BY <1>3, <1>4

\* The rows of the watermark's version have its columns.
LEMMA FirstRow ==
    ASSUME ScanInv, NEW h, History(h, log), NEW k \in Keys,
           NEW p \in 1..Len(log), log[p].version = saved.watermark
    PROVE  LET c == SchemaIn(log, saved.watermark)
           IN  /\ IsTable(c.columns) /\ log[p].columns = c.columns /\ IsRow(h[p][k], c.columns)
               /\ IsRow(ImageOfRow(h[p][k]), Image(c.columns))
<1> DEFINE c == SchemaIn(log, saved.watermark)
<1>0. UpstreamOK /\ ScanOK /\ LogOK(log, clock)
  BY DEF ScanInv, UpstreamOK
<1>1. PICK s \in 1..seen : /\ s \in 1..Len(log) /\ log[s].kind = "schema"
                           /\ log[s].version = saved.watermark /\ c = log[s]
  BY <1>0, AtWatermark
<1>2. log[p].columns = c.columns
  BY <1>0, <1>1, OfVersion
<1>3. IsTable(c.columns)
  BY <1>0, <1>1, Entries
<1>4. IsRow(h[p][k], c.columns)
  BY <1>2 DEF History
<1> QED BY <1>2, <1>3, <1>4, ImageOfRowIs

LEMMA ExecutedRows ==
    ASSUME Plain, ScanInv, NEW h, History(h, log), NEW m, Place(m), NEW d \in 0..m,
           LET T == StatementsIn(log, saved.watermark)
               first == Image(SchemaIn(log, saved.watermark).columns)
           IN  d < Len(T) /\ Head(todo) = T[d + 1] /\ Legal(TRUE, AfterExecuting(first, T, m), T[d + 1]),
           Execute(<<Head(todo)>>), UNCHANGED <<upstream, saved, seen, dirty>>,
           NEW k \in Keys, RowPlace(h, m, k)
    PROVE  RowPlace(h, Further(m, d), k)'
<1> DEFINE v == saved.watermark
           T == StatementsIn(log, v)
           c == SchemaIn(log, v)
           first == Image(c.columns)
           s == T[d + 1]
           q == Further(m, d)
<1>1. /\ log' = log /\ saved' = saved /\ seen' = seen /\ Done' = Done
      /\ sfRows'[k] = RowAfter(sfRows[k], s)
  <2>1. sfRows'[k] = RowAfterAll(sfRows[k], <<Head(todo)>>)
    BY DEF Execute
  <2> QED BY <2>1, OfOne DEF upstream, Done
<1>2. m \in 0..Len(T) /\ d < Len(T) /\ Legal(TRUE, AfterExecuting(first, T, m), s)
  BY DEF Place, PlaceIn
<1>3. RowIn(log, v, h, m, k, sfRows[k], AtEnd \/ ~exists, Done, seen)
  BY DEF RowPlace
<1>4. Whole(T) \/ Proper(first, T)
  BY RowsHere
<1>5. Whole(T) => Len(T) = 1 /\ T[1].op \in Empties
  BY WholeNotEmpty
<1>6. Proper(first, T) => Len(T) \in Nat
  BY RunsSteps DEF Proper
<1>7. \A p \in 1..Len(log) : log[p].version = v => IsRow(ImageOfRow(h[p][k]), first)
  BY FirstRow
<1>10. s = T[d + 1] /\ q = Further(m, d) /\ (d + 1 = 1 => s = T[1])
  OBVIOUS
<1>11. ASSUME Proper(first, T) PROVE RowsReach(first, T, m, d, q)
  <2>1. Legal(TRUE, AfterExecuting(first, T, m), T[d + 1])
    BY <1>2
  <2>2. m \in 0..Len(T) /\ d < Len(T)
    BY <1>2
  <2> QED BY <1>11, <2>1, <2>2, RowsOne
<1>12. Proper(first, T) => \A r : IsRow(r, first) => RowAfter(RowAt(r, T, m), s) = RowAt(r, T, q)
  BY <1>11 DEF RowsReach
<1> HIDE DEF T, c, first, s, q
<1>8. RowIn(log, v, h, Further(m, d), k, sfRows'[k], AtEnd' \/ ~exists', Done, seen)
  <2>1. CASE Whole(T)
    <3>1. d = 0 /\ d + 1 = 1 /\ m \in {0, 1}
      <4> DEFINE n == Len(T)
      <4>1. n = 1 /\ m \in 0..n /\ d < n
        BY <1>2, <1>5, <2>1
      <4> HIDE DEF n
      <4> QED BY <4>1
    <3>2. sfRows'[k] = NoRow
      BY <1>1, <1>5, <1>10, <2>1, <3>1 DEF RowAfter
    <3>3. Further(m, d) > 0
      BY <3>1 DEF Further
    <3> QED BY <2>1, <3>2, <3>3 DEF RowIn, T
  <2>2. CASE ~Whole(T)
    <3>1. Proper(first, T)
      BY <1>4, <2>2
    <3>2. PICK p \in 1..seen :
            /\ p \in 1..Len(log) /\ log[p].version = v
            /\ sfRows[k] = RowAt(ImageOfRow(h[p][k]), T, m)
            /\ \A i \in 1..Len(log) :
                  log[i].version = v /\ p < i /\ Changed(log[i], k) => i \notin Done
      BY <1>3, <2>2 DEF RowIn, RowOf, T
    <3>3. sfRows'[k] = RowAt(ImageOfRow(h[p][k]), T, Further(m, d))
      <4>1. IsRow(ImageOfRow(h[p][k]), first)
        BY <1>7, <3>2
      <4> DEFINE r == ImageOfRow(h[p][k])
      <4>2. sfRows[k] = RowAt(r, T, m) /\ IsRow(r, first)
        BY <3>2, <4>1
      <4> HIDE DEF r
      <4>4. sfRows'[k] = RowAt(r, T, Further(m, d))
        BY <1>1, <1>10, <1>12, <3>1, <4>2
      <4> QED BY <4>4 DEF r
    <3>4. RowOf(log, v, h, Further(m, d), k, sfRows'[k], Done, seen)
      BY <3>2, <3>3 DEF RowOf, T
    <3> QED BY <2>2, <3>4 DEF RowIn, T
  <2> QED BY <2>1, <2>2
<1>9. RowIn(log', saved'.watermark, h, Further(m, d), k, sfRows'[k], AtEnd' \/ ~exists', Done', seen')
  BY <1>1, <1>8
<1> QED BY <1>9 DEF RowPlace

----------------------------------------------------------------------------
(***************************************************************************)
(* ... when a file is merged.                                              *)
(***************************************************************************)
\* Of the changes of a key in the current file the latest is the one that counts upstream.
LEMMA LatestBecomes ==
    ASSUME ScanInv, NEW h, History(h, log), NEW k \in Keys, work # {}, File.kind # "schema"
    PROVE  /\ LatestChanges(k) = {} => ~Changed(File, k)
           /\ \A c \in LatestChanges(k) : c.row = h[Current][k]
<1>0. UpstreamOK /\ ScanOK /\ ClockOK
  BY DEF ScanInv
<1>1. /\ Current \in 1..Len(log) /\ Current \in Pending(saved) /\ File = log[Current]
  BY <1>0, CurrentFacts
<1>2. LogOK(log, clock) /\ Len(log) \in Nat /\ saved.checkpoint \in 1..clock /\ clock \in Nat
  BY <1>0, ScanNow DEF ClockOK
<1>3. File.kind = "file" /\ EntryOK(File, clock)
  BY <1>1, <1>2, Entries
<1>4. \A c \in File.changes : c.ts \in Nat /\ c.ts > saved.checkpoint
  BY <1>0, <1>1, <1>2, <1>3 DEF ClockOK, Later, EntryOK, ChangeOK
<1>5. LatestChanges(k) = {c \in File.changes : c.key = k /\ \A d \in File.changes : d.key = k => d.ts <= c.ts}
  BY <1>4 DEF LatestChanges
<1>6. Current > 1
  <2>1. log[1].kind = "schema"
    BY <1>2 DEF LogOK
  <2>2. Current # 1
    BY <1>1, <2>1
  <2>3. Current \in Nat /\ Current >= 1
    <3> DEFINE n == Len(log)
    <3>1. n \in Nat /\ Current \in 1..n
      BY <1>1, <1>2
    <3> HIDE DEF n
    <3> QED BY <3>1
  <2> QED BY <2>2, <2>3
<1>7. RowBecomes(File, k, h[Current - 1][k], h[Current][k])
  BY <1>1, <1>6 DEF History
<1> DEFINE new == h[Current][k]
<1>8. Changed(File, k) =>
        \E c \in File.changes :
              /\ c.key = k /\ c.row = new
              /\ \A d \in File.changes : d.key = k => d = c \/ d.ts < c.ts
  BY <1>7 DEF RowBecomes
<1> HIDE DEF new
<1>9. ASSUME Changed(File, k) PROVE LatestChanges(k) # {}
  <2>1. PICK c \in File.changes : 
              /\ c.key = k /\ c.row = new
              /\ \A d \in File.changes : d.key = k => d = c \/ d.ts < c.ts
    BY <1>8, <1>9
  <2>2. \A d \in File.changes : d.key = k => d.ts <= c.ts
    BY <1>4, <2>1
  <2> QED BY <1>5, <2>1, <2>2
<1>10. ASSUME NEW e \in LatestChanges(k) PROVE e.row = new
  <2>1. e \in File.changes /\ e.key = k /\ \A d \in File.changes : d.key = k => d.ts <= e.ts
    BY <1>5
  <2>2. Changed(File, k)
    BY <1>3, <2>1 DEF Changed
  <2>3. PICK c \in File.changes : 
              /\ c.key = k /\ c.row = new
              /\ \A d \in File.changes : d.key = k => d = c \/ d.ts < c.ts
    BY <1>8, <2>2
  <2>4. e = c \/ e.ts < c.ts
    BY <2>1, <2>3
  <2>5. c.ts <= e.ts /\ c.ts \in Nat /\ e.ts \in Nat
    BY <1>4, <2>1, <2>3
  <2> QED BY <2>3, <2>4, <2>5
<1> QED BY <1>9, <1>10 DEF new

\* Where all the columns of the version are there the row is that of the version.
LEMMA FitRowAny ==
    ASSUME NEW first, NEW T, Proper(first, T) \/ Whole(T), first \in SfColumns, NEW m \in 0..Len(T),
           Whole(T) => ~(m > 0),
           DOMAIN first \subseteq DOMAIN AfterExecuting(first, T, m)
    PROVE  \A r \in [DOMAIN first -> Nat] : r # NoRow =>
               RowAt(r, T, m) = Filled(DOMAIN first, r, AfterExecuting(first, T, m))
<1> TAKE r \in [DOMAIN first -> Nat]
<1> HAVE r # NoRow
<1>1. CASE Whole(T)
  <2>1. m = 0
    <3> DEFINE n == Len(T)
    <3>1. n = 1 /\ m \in 0..n
      BY <1>1, WholeNotEmpty
    <3> HIDE DEF n
    <3> QED BY <1>1, <3>1
  <2>2. RowAt(r, T, m) = r /\ AfterExecuting(first, T, m) = first
    BY <2>1, RowAtNone, NothingExecuted DEF AfterExecuting
  <2>3. r = [c \in DOMAIN first |-> r[c]]
    OBVIOUS
  <2>4. Filled(DOMAIN first, r, first) = [c \in DOMAIN first |-> r[c]]
    BY DEF Filled
  <2> QED BY <2>2, <2>3, <2>4
<1>2. CASE Proper(first, T)
  BY <1>2, FitRow
<1> QED BY <1>1, <1>2

LEMMA MergedFilled ==
    ASSUME NEW base \in SUBSET DOMAIN sfColumns, NEW old, NEW r,
           old = NoRow \/ old = Filled(base, r, sfColumns),
           NEW new, new # NoRow, DOMAIN Image(new) = base
    PROVE  MergedRow(old, new) = Filled(base, Image(new), sfColumns)
<1> DEFINE image == Image(new)
           M == [c \in DOMAIN sfColumns |->
                 IF c \in DOMAIN image THEN image[c]
                 ELSE IF old = NoRow THEN NoFill ELSE old[c]]
<1>1. MergedRow(old, new) = M
  BY DEF MergedRow
<1>2. DOMAIN image = base
  OBVIOUS
<1> HIDE DEF image
<1>3. ASSUME NEW c \in DOMAIN sfColumns
      PROVE  (IF c \in DOMAIN image THEN image[c] ELSE IF old = NoRow THEN NoFill ELSE old[c])
             = (IF c \in base THEN image[c] ELSE NoFill)
  BY <1>2 DEF Filled
<1>4. M = [c \in DOMAIN sfColumns |-> IF c \in base THEN image[c] ELSE NoFill]
  BY <1>3
<1> QED BY <1>1, <1>4 DEF Filled, image

----------------------------------------------------------------------------
(***************************************************************************)
(* ... into a table that may have part of a DDL.                           *)
(***************************************************************************)
\* A merged row has the place of the file in the history.
LEMMA MergedRows ==
    ASSUME Plain, ScanInv, NEW h, History(h, log), NEW m, Place(m), LoadIncrement,
           NEW k \in Keys, RowOf(log, saved.watermark, h, m, k, sfRows[k], Done, seen),
           LatestChanges(k) # {},
           Whole(StatementsIn(log, saved.watermark)) => ~(m > 0)
    PROVE  sfRows'[k] = RowAt(ImageOfRow(h[Current][k]), StatementsIn(log, saved.watermark), m)
<1> DEFINE v == saved.watermark
           T == StatementsIn(log, v)
           c == SchemaIn(log, v)
           first == Image(c.columns)
           base == DOMAIN first
           new == h[Current][k]
<1>0. /\ pc = "load" /\ work # {} /\ log[Current].kind # "schema" /\ File.kind # "schema"
      /\ Fits /\ UpstreamOK /\ ScanOK
  BY DEF LoadIncrement, Loading, IsSchema, ScanInv, File
<1>1. Current \in 1..Len(log) /\ log[Current].version = v /\ File = log[Current]
  BY <1>0, FileOfWatermark, CurrentFacts
<1>2. /\ IsTable(c.columns) /\ File.columns = c.columns /\ IsRow(new, c.columns)
      /\ IsRow(ImageOfRow(new), first)
  BY <1>1, FirstRow
<1>3. /\ base = Idents(DOMAIN c.columns)
      /\ new # NoRow => ImageOfRow(new) = Image(new) /\ Image(new) # NoRow /\ Image(new) \in [base -> Nat]
  BY <1>2, ImageOfRowIs
<1>4. first \in SfColumns
  BY <1>2, ImageOfTable
<1>5. m \in 0..Len(T) /\ sfColumns = AfterExecuting(first, T, m)
  BY DEF Place, PlaceIn
<1>6. base \subseteq DOMAIN sfColumns
  BY <1>0, <1>2, <1>3 DEF Fits, Idents
<1>7. Proper(first, T) \/ Whole(T)
  BY RowsHere
<1>8. \A r \in [base -> Nat] : r # NoRow => RowAt(r, T, m) = Filled(base, r, sfColumns)
  BY <1>4, <1>5, <1>6, <1>7, FitRowAny
<1>9. RowAt(NoRow, T, m) = NoRow
  <2>1. \E V : T \in Seq(V)
    BY <1>4, <1>7, WholeRuns, RunsSteps DEF Proper
  <2> QED BY <1>5, <2>1, NoRowStays
<1>10. PICK p \in 1..Len(log) : log[p].version = v /\ sfRows[k] = RowAt(ImageOfRow(h[p][k]), T, m)
  BY DEF RowOf
<1> DEFINE old == h[p][k]
<1>11. ImageOfRow(old) = NoRow \/ (ImageOfRow(old) # NoRow /\ ImageOfRow(old) \in [base -> Nat])
  <2>1. IsRow(ImageOfRow(old), first)
    BY <1>10, FirstRow
  <2> QED BY <2>1 DEF IsRow
<1>12. sfRows[k] = NoRow \/ sfRows[k] = Filled(base, ImageOfRow(old), sfColumns)
  BY <1>8, <1>9, <1>10, <1>11
<1>13. sfRows'[k] = MergedRow(sfRows[k], new)
  <2>1. PICK pick \in [{j \in Keys : LatestChanges(j) # {}} -> File.changes] :
           /\ \A j \in DOMAIN pick : pick[j] \in LatestChanges(j)
           /\ sfRows' = [j \in Keys |-> IF j \in DOMAIN pick THEN MergedRow(sfRows[j], pick[j].row)
                                        ELSE sfRows[j]]
    BY DEF LoadIncrement
  <2>2. k \in DOMAIN pick /\ pick[k] \in LatestChanges(k)
    BY <2>1
  <2>3. pick[k].row = new
    BY <1>0, <2>2, LatestBecomes
  <2> QED BY <2>1, <2>2, <2>3
<1> HIDE DEF old, new, base, first, c, T
<1>14. CASE new = NoRow
  <2>1. ImageOfRow(new) = NoRow /\ MergedRow(sfRows[k], new) = NoRow
    BY <1>14 DEF ImageOfRow, MergedRow
  <2>2. sfRows'[k] = RowAt(ImageOfRow(new), T, m)
    BY <1>9, <1>13, <2>1
  <2> QED BY <2>2 DEF new, T
<1>15. CASE new # NoRow
  <2>1. DOMAIN Image(new) = base
    BY <1>3, <1>15
  <2>2. MergedRow(sfRows[k], new) = Filled(base, Image(new), sfColumns)
    BY <1>6, <1>12, <1>15, <2>1, MergedFilled
  <2>3. RowAt(Image(new), T, m) = Filled(base, Image(new), sfColumns)
    BY <1>3, <1>8, <1>15
  <2>4. sfRows'[k] = RowAt(ImageOfRow(new), T, m)
    BY <1>3, <1>13, <1>15, <2>2, <2>3
  <2> QED BY <2>4 DEF new, T
<1> QED BY <1>14, <1>15

LEMMA LoadIncrementRows ==
    ASSUME Plain, ScanInv, NEW h, History(h, log), NEW m, Place(m), LoadIncrement,
           NEW k \in Keys, RowPlace(h, m, k)
    PROVE  RowPlace(h, m, k)'
<1> DEFINE v == saved.watermark
           T == StatementsIn(log, v)
<1>0. /\ pc = "load" /\ work # {} /\ log[Current].kind # "schema" /\ File.kind # "schema"
      /\ pc' = "load" /\ exists' = exists /\ exists /\ log' = log /\ saved' = saved /\ seen' = seen
      /\ Done' = Done \cup {Current} /\ UpstreamOK /\ ScanOK /\ ClockOK
  BY DEF LoadIncrement, Loading, IsSchema, ScanInv, File, Fits, upstream, Done
<1>1. /\ Current \in 1..seen /\ Current \in 1..Len(log) /\ log[Current].version = v
      /\ File = log[Current] /\ Current \in PendingIn(log, saved)
      /\ \A w \in work : Current <= w /\ Current \in work
  BY <1>0, FileOfWatermark, CurrentFacts, InLog
<1>2. ~(AtEnd' \/ ~exists')
  BY <1>0 DEF AtEnd
<1>3. RowIn(log, v, h, m, k, sfRows[k], AtEnd \/ ~exists, Done, seen)
  BY DEF RowPlace
<1> HIDE DEF T
<1>4. CASE Whole(T) /\ m > 0
  <2>1. RowIn(log, v, h, m, k, sfRows'[k], AtEnd' \/ ~exists', Done', seen)
    BY <1>2, <1>4 DEF RowIn, T
  <2> QED BY <1>0, <2>1 DEF RowPlace
<1>5. CASE ~(Whole(T) /\ m > 0)
  <2>1. RowOf(log, v, h, m, k, sfRows[k], Done, seen)
    BY <1>3, <1>5 DEF RowIn, T
  <2>2. CASE LatestChanges(k) = {}
    <3>1. sfRows'[k] = sfRows[k]
      <4>1. PICK pick \in [{j \in Keys : LatestChanges(j) # {}} -> File.changes] :
           /\ \A j \in DOMAIN pick : pick[j] \in LatestChanges(j)
           /\ sfRows' = [j \in Keys |-> IF j \in DOMAIN pick THEN MergedRow(sfRows[j], pick[j].row)
                                        ELSE sfRows[j]]
        BY DEF LoadIncrement
      <4>2. k \notin DOMAIN pick
        BY <2>2
      <4> QED BY <4>1, <4>2
    <3>2. ~Changed(log[Current], k)
      BY <1>0, <1>1, <2>2, LatestBecomes
    <3>3. RowOf(log, v, h, m, k, sfRows'[k], Done', seen)
      BY <1>0, <2>1, <3>1, <3>2 DEF RowOf
    <3>4. RowIn(log, v, h, m, k, sfRows'[k], AtEnd' \/ ~exists', Done', seen)
      BY <1>5, <3>3 DEF RowIn, T
    <3> QED BY <1>0, <3>4 DEF RowPlace
  <2>3. CASE LatestChanges(k) # {}
    <3>1. sfRows'[k] = RowAt(ImageOfRow(h[Current][k]), T, m)
      BY <1>5, <2>1, <2>3, MergedRows DEF T
    <3>2. ASSUME NEW i \in 1..Len(log), Current < i, i \in Done' PROVE FALSE
      <4> DEFINE n == Len(log)
      <4>1. n \in Nat /\ i \in 1..n /\ Current \in 1..n
        BY <1>0, <1>1, ScanNow
      <4> HIDE DEF n
      <4>2. i \in Nat /\ Current \in Nat
        BY <4>1
      <4>3. i \in saved.consumed \/ i \in dirty \/ i = Current
        BY <1>0, <3>2 DEF Done
      <4>4. i \in saved.consumed => i < Current
        BY <1>0, <1>1, ScanNow
      <4>5. i \in dirty => i < Current
        BY <1>0, <1>1, CurrentFacts, ScanNow
      <4> QED BY <3>2, <4>2, <4>3, <4>4, <4>5
    <3>3. RowOf(log, v, h, m, k, sfRows'[k], Done', seen)
      BY <1>1, <3>1, <3>2 DEF RowOf, T
    <3>4. RowIn(log, v, h, m, k, sfRows'[k], AtEnd' \/ ~exists', Done', seen)
      BY <1>5, <3>3 DEF RowIn, T
    <3> QED BY <1>0, <3>4 DEF RowPlace
  <2> QED BY <2>2, <2>3
<1> QED BY <1>4, <1>5

----------------------------------------------------------------------------
(***************************************************************************)
(* ... when the watermark passes the DDL.                                  *)
(***************************************************************************)
LEMMA WholeNotProper ==
    ASSUME NEW first, NEW T, Whole(T), Proper(first, T)
    PROVE  FALSE
<1>1. Len(T) = 1 /\ T[1].op \in Empties
  BY WholeNotEmpty
<1>2. \A l \in 1..Len(T) : IsStatement(T[l])
  BY DEF Proper, AreStatements
<1>3. T[1].op \in {"add", "drop", "rename", "modify"}
  <2>1. T[1] \in Statements
    BY <1>1, <1>2 DEF IsStatement
  <2> QED BY <2>1 DEF Statements
<1> QED BY <1>1, <1>3 DEF Empties

\* Up to the next DDL the rows upstream are those of the last change that is done.
LEMMA UpToTheDDL ==
    ASSUME Plain, ScanInv, NEW h, History(h, log), pc \in {"apply", "told"},
           NEW k \in Keys, NEW p \in 1..Len(log), log[p].version = saved.watermark,
           \A i \in 1..Len(log) : log[i].version = saved.watermark /\ p < i /\ Changed(log[i], k)
              => i \notin Done
    PROVE  p < Current /\ Current > 1 /\ h[Current - 1][k] = h[p][k]
<1> DEFINE v == saved.watermark
           n == Len(log)
           c == Current
<1>0. /\ UpstreamOK /\ ScanOK /\ ClockOK /\ LogOK(log, clock)
      /\ work # {} /\ log[Current].kind = "schema" /\ saved.watermark \in Nat
  BY DEF ScanInv, ScanOK, UpstreamOK, States
<1>1. /\ Current \in 1..seen /\ Current \in 1..Len(log) /\ Current \in work
      /\ \A w \in work : Current <= w
  BY <1>0, CurrentFacts
<1>2. PICK s \in 1..Len(log) : log[s].kind = "schema" /\ log[s].version = v
  BY <1>0, AtWatermark
<1>3. /\ Current = Min(NextIn(log, v)) /\ NextIn(log, v) # {}
  BY <1>0, CurrentIsNext
<1>4. /\ s < Current /\ log[Current].version > v
      /\ \A i \in 1..Len(log) : i < Current /\ s <= i => log[i].version = v
  <2>1. NextIn(log, log[s].version) # {} /\ Current = Min(NextIn(log, log[s].version))
    BY <1>2, <1>3
  <2>2. LET j == Min(NextIn(log, log[s].version))
        IN  /\ s < j /\ log[j].version > log[s].version
            /\ \A i \in 1..Len(log) : i < j /\ s <= i => log[i].version = log[s].version
    BY <1>0, <1>2, <2>1, NextFacts
  <2> QED BY <1>2, <2>1, <2>2
<1>5. \A i \in 1..Len(log) : log[i].version = v => (log[i].kind = "schema" => i = s) /\ s <= i
  BY <1>0, <1>2, OfVersion
<1>6. n \in Nat /\ c \in 1..n /\ p \in 1..n /\ s \in 1..n /\ seen \in 1..n /\ DOMAIN log = 1..n
  BY <1>0, <1>1, ScanNow, LogEnd
<1>7. p # c /\ ~(c < p)
  <2>1. log[p].version \in Nat /\ log[c].version \in Nat
    BY <1>0, <1>1, Entries
  <2>2. p # c
    BY <1>4, <2>1
  <2>3. c < p => log[c].version <= log[p].version
    BY <1>0, <1>1, Ordered
  <2> QED BY <1>0, <1>4, <2>1, <2>2, <2>3
<1>8. PendingIn(log, saved) \cap (1..seen) \subseteq work \cup dirty
  BY <1>0, ScanNow
<1>11. s <= p
  BY <1>5
<1> HIDE DEF n, c
<1>9. p < c /\ c > 1 /\ c - 1 \in p..n /\ s < c
  BY <1>4, <1>6, <1>7 DEF c
<1>10. ASSUME NEW i \in 1..n, p < i, i <= c - 1
       PROVE log[i].kind # "schema" /\ ~Changed(log[i], k)
  <2>1. i < c /\ s <= i /\ i # s /\ i <= seen /\ i \in 1..seen
    <3>1. c \in 1..seen
      BY <1>1 DEF c
    <3> QED BY <1>6, <1>9, <1>10, <1>11, <3>1
  <2>2. i \in 1..Len(log)
    BY DEF n
  <2>3. log[i].version = v
    BY <1>4, <2>1, <2>2 DEF c
  <2>4. log[i].kind # "schema"
    BY <1>5, <2>1, <2>2, <2>3
  <2>5. ASSUME Changed(log[i], k) PROVE FALSE
    <3>1. i \notin saved.consumed /\ i \notin dirty
      BY <1>10, <2>2, <2>3, <2>5 DEF Done
    <3>2. i \in PendingIn(log, saved)
      BY <1>6, <2>3, <2>4, <3>1 DEF PendingIn
    <3>3. i \in work
      BY <1>8, <2>1, <3>1, <3>2
    <3>4. c <= i
      BY <1>1, <3>3 DEF c
    <3>5. i \in Nat /\ c \in Nat
      BY <1>6
    <3> QED BY <2>1, <3>4, <3>5
  <2> QED BY <2>4, <2>5
<1>12. h[c - 1][k] = h[p][k]
  <2> DEFINE q == c - 1
  <2>1. q \in p..n
    BY <1>9
  <2> HIDE DEF q
  <2>2. q \in p..Len(log) /\ Len(log) \in Nat
    BY <1>6, <2>1 DEF n
  <2>3. \A i \in 1..Len(log) : p < i /\ i <= q => log[i].kind # "schema" /\ ~Changed(log[i], k)
    BY <1>10 DEF n, q
  <2>4. h[q][k] = h[p][k]
    BY <2>2, <2>3, RowStays
  <2> QED BY <2>4 DEF q
<1> QED BY <1>9, <1>12 DEF c

\* The row when all the statements of the DDL are executed.
RowAfterDDL(h, k, row) ==
    LET T == StatementsIn(log, saved.watermark)
    IN  IF Whole(T) THEN row = NoRow
        ELSE \E p \in 1..Len(log) :
                /\ log[p].version = saved.watermark
                /\ row = RowAfterAll(ImageOfRow(h[p][k]), T)
                /\ \A i \in 1..Len(log) :
                      log[i].version = saved.watermark /\ p < i /\ Changed(log[i], k) => i \notin Done

LEMMA PassedRow ==
    ASSUME Plain, ScanInv, NEW h, History(h, log), pc \in {"apply", "told"}, Accepted(meta, File),
           NEW k \in Keys, NEW row, RowAfterDDL(h, k, row)
    PROVE  row = ImageOfRow(h[Current][k])
<1> DEFINE v == saved.watermark
           T == StatementsIn(log, v)
           c == SchemaIn(log, v)
<1>0. /\ UpstreamOK /\ ScanOK /\ LogOK(log, clock) /\ work # {} /\ log[Current].kind = "schema"
  BY DEF ScanInv, ScanOK, UpstreamOK
<1>1. /\ Current \in 1..Len(log) /\ File = log[Current]
  BY <1>0, CurrentFacts
<1>2. RowsTranslated(c.columns, File, T)
  BY <1>0, RowsHere
<1>3. ASSUME Current > 1
      PROVE  h[Current][k] = IF File.action = "alter table"
                             THEN RowAfterAll(h[Current - 1][k], File.specs) ELSE NoRow
  <2>1. RowBecomes(File, k, h[Current - 1][k], h[Current][k])
    BY <1>1, <1>3 DEF History
  <2> QED BY <1>0, <1>1, <2>1 DEF RowBecomes
<1>4. CASE Whole(T)
  <2>1. File.action \in {"truncate table", "drop table"}
    BY <1>2, <1>4, WholeNotProper DEF RowsTranslated
  <2>2. row = NoRow
    BY <1>4 DEF RowAfterDDL
  <2>3. Current > 1
    <3>1. log[1].action = "none"
      BY <1>0 DEF LogOK
    <3>2. Current # 1
      BY <1>1, <2>1, <3>1
    <3>3. Current \in Nat /\ Current >= 1
      <4> DEFINE n == Len(log)
      <4>1. n \in Nat /\ Current \in 1..n
        BY <1>0, <1>1, LogEnd
      <4> HIDE DEF n
      <4> QED BY <4>1
    <3> QED BY <3>2, <3>3
  <2>4. h[Current][k] = NoRow
    BY <1>3, <2>1, <2>3
  <2> QED BY <2>2, <2>4 DEF ImageOfRow
<1>5. CASE ~Whole(T)
  <2>1. PICK p \in 1..Len(log) :
                /\ log[p].version = saved.watermark
                /\ row = RowAfterAll(ImageOfRow(h[p][k]), T)
                /\ \A i \in 1..Len(log) :
                      log[i].version = saved.watermark /\ p < i /\ Changed(log[i], k) => i \notin Done
    BY <1>5 DEF RowAfterDDL
  <2>2. Current > 1 /\ h[Current - 1][k] = h[p][k]
    BY <2>1, UpToTheDDL
  <2>3. File.action = "alter table" /\ 
        \A r : IsRow(r, c.columns) =>
             RowAfterAll(ImageOfRow(r), T) = ImageOfRow(RowAfterAll(r, File.specs))
    BY <1>2, <1>5 DEF RowsTranslated
  <2>4. IsRow(h[p][k], c.columns)
    BY <2>1, FirstRow
  <2> DEFINE r == h[p][k]
  <2>5. row = RowAfterAll(ImageOfRow(r), T) /\ IsRow(r, c.columns) /\ h[Current - 1][k] = r
    BY <2>1, <2>2, <2>4
  <2>6. h[Current][k] = RowAfterAll(r, File.specs)
    BY <1>3, <2>2, <2>3, <2>5
  <2> HIDE DEF r, T, c
  <2> QED BY <2>3, <2>5, <2>6
<1> QED BY <1>4, <1>5

LEMMA PassedRows ==
    ASSUME Plain, ScanInv, NEW h, History(h, log), pc \in {"apply", "told"}, Accepted(meta, File),
           UNCHANGED upstream, saved' = Passed, seen' = seen, dirty' \subseteq dirty,
           NEW k \in Keys, RowAfterDDL(h, k, sfRows'[k])
    PROVE  RowPlace(h, 0, k)'
<1> DEFINE w == File.version
<1>0. UpstreamOK /\ ScanOK /\ ClockOK
  BY DEF ScanInv
<1>1. /\ work # {} /\ File = log[Current] /\ saved'.watermark = w /\ saved'.consumed = saved.consumed
  BY <1>0, PassedFacts
<1>2. /\ Current \in 1..seen /\ Current \in 1..Len(log) /\ Current \in PendingIn(log, saved)
      /\ Current \in work
  BY <1>0, <1>1, CurrentFacts, InLog
<1>3. sfRows'[k] = ImageOfRow(h[Current][k])
  BY PassedRow
<1>4. ASSUME NEW i \in 1..Len(log), Current < i, i \in Done' PROVE FALSE
  <2> DEFINE n == Len(log)
  <2>1. n \in Nat /\ i \in 1..n /\ Current \in 1..n
    BY <1>0, <1>2, ScanNow
  <2> HIDE DEF n
  <2>2. i \in Nat /\ Current \in Nat
    BY <2>1
  <2>3. i \in saved.consumed \/ i \in dirty
    BY <1>1, <1>4 DEF Done
  <2>4. i \in saved.consumed => i < Current
    BY <1>0, <1>2, ScanNow
  <2>5. i \in dirty => i < Current
    BY <1>0, <1>2, ScanNow
  <2> QED BY <1>4, <2>2, <2>3, <2>4, <2>5
<1>5. RowOf(log, w, h, 0, k, sfRows'[k], Done', seen)
  <2>1. sfRows'[k] = RowAt(ImageOfRow(h[Current][k]), StatementsIn(log, w), 0)
    BY <1>3, RowAtNone
  <2> QED BY <1>1, <1>2, <1>4, <2>1 DEF RowOf
<1>6. RowIn(log, w, h, 0, k, sfRows'[k], AtEnd' \/ ~exists', Done', seen)
  BY <1>5 DEF RowIn
<1>7. RowIn(log', saved'.watermark, h, 0, k, sfRows'[k], AtEnd' \/ ~exists', Done', seen')
  BY <1>1, <1>6 DEF upstream
<1> QED BY <1>7 DEF RowPlace

----------------------------------------------------------------------------
(***************************************************************************)
(* ... or the operator has moved it.                                       *)
(***************************************************************************)
LEMMA SaveWatermarkRows ==
    ASSUME Plain, ScanInv, ColOK, NEW h, History(h, log), NEW m, Place(m), SaveWatermark,
           NEW k \in Keys, RowPlace(h, m, k)
    PROVE  RowPlace(h, 0, k)'
<1> DEFINE v == saved.watermark
           T == StatementsIn(log, v)
           first == Image(SchemaIn(log, v).columns)
<1>0. /\ pc = "apply" /\ todo = <<>> /\ saved' = Passed
      /\ UNCHANGED upstream /\ seen' = seen /\ dirty' = dirty /\ sfRows' = sfRows
      /\ Accepted(meta, File)
  BY DEF SaveWatermark, Applied, Passed, ColOK, table
<1>1. Runs(first, T) /\ RowIn(log, v, h, m, k, sfRows[k], AtEnd \/ ~exists, Done, seen)
  BY Here DEF RowPlace, Plain
<1>2. \E V : T \in Seq(V)
  BY <1>1, RunsSteps
<1>3. m = Len(T)
  BY <1>0, <1>2, AllExecuted
<1>4. AtEnd
  BY <1>0 DEF AtEnd
<1>5. RowAfterDDL(h, k, sfRows[k])
  <2>1. CASE Whole(T)
    <3>1. m > 0
      BY <1>3, <2>1, WholeNotEmpty
    <3>2. sfRows[k] = NoRow
      BY <1>1, <1>4, <2>1, <3>1 DEF RowIn
    <3> QED BY <2>1, <3>2 DEF RowAfterDDL
  <2>2. CASE ~Whole(T)
    <3>1. RowOf(log, v, h, m, k, sfRows[k], Done, seen)
      BY <1>1, <2>2 DEF RowIn
    <3>2. \A r : RowAt(r, T, m) = RowAfterAll(r, T)
      BY <1>2, <1>3, RowAtStep DEF RowSteps
    <3> QED BY <2>2, <3>1, <3>2 DEF RowAfterDDL, RowOf
  <2> QED BY <2>1, <2>2
<1> QED BY <1>0, <1>5, PassedRows

\* The statements the operator executes are the rest, from the first place that explains the columns.
LEMMA RepairExecutes ==
    ASSUME Plain, ScanInv, ColOK, NEW m, Place(m), Repair
    PROVE  LET T == StatementsIn(log, saved.watermark)
               first == Image(SchemaIn(log, saved.watermark).columns)
           IN  \E n \in 0..m :
                  /\ sfRows' = [k \in Keys |-> RowAfterAll(sfRows[k], SubSeq(T, n + 1, Len(T)))]
                  /\ AfterExecuting(first, T, n) = AfterExecuting(first, T, m)
                  /\ ExplainedBy(T, n)
                  /\ \A x \in 0..m : ExplainedBy(T, x) => n <= x
<1> DEFINE v == saved.watermark
           T == StatementsIn(log, v)
           c == SchemaIn(log, v)
           first == Image(c.columns)
           n == Len(T)
           M == {x \in 0..n : ExplainedBy(T, x)}
           e == Min(M)
<1>0. pc = "told" /\ work # {} /\ log[Current].kind = "schema" /\ Accepted(meta, File)
  BY DEF Repair, ColOK, ScanInv, ScanOK
<1>1. T = Translation(meta, File) /\ Runs(first, T)
  BY <1>0, Here DEF Plain
<1>2. n \in Nat
  BY <1>1, RunsSteps
<1>3. m \in 0..n /\ ExplainedBy(T, m) /\ sfColumns = AfterExecuting(first, T, m)
  BY PlaceExplains, NextInLog DEF Place, PlaceIn
<1>4. M \subseteq Nat /\ m \in M
  BY <1>2, <1>3
<1>5. e \in M /\ e <= m /\ \A x \in M : e <= x
  <2> HIDE DEF M
  <2> QED BY <1>4, MinOf
<1>6. \A x : ExplainedBy(T, x) => sfColumns = AfterExecuting(first, T, x)
  BY InLog DEF ExplainedBy, AfterExecuting
<1>7. sfRows' = [k \in Keys |-> RowAfterAll(sfRows[k], SubSeq(T, e + 1, Len(T)))]
  BY <1>1 DEF Repair, Execute
<1>8. e \in 0..m /\ ExplainedBy(T, e)
  <2>1. e \in 0..n /\ ExplainedBy(T, e)
    BY <1>5
  <2> HIDE DEF e, n, T
  <2>2. e \in 0..m
    BY <1>2, <1>3, <1>5, <2>1
  <2> QED BY <2>1, <2>2
<1>10. \A x \in 0..m : ExplainedBy(T, x) => e <= x
  <2> TAKE x \in 0..m
  <2> HAVE ExplainedBy(T, x)
  <2>1. x \in 0..n
    <3> HIDE DEF n
    <3> QED BY <1>2, <1>3
  <2> QED BY <1>5, <2>1
<1> HIDE DEF e, n, M
<1>9. AfterExecuting(first, T, e) = AfterExecuting(first, T, m)
  BY <1>3, <1>6, <1>8
<1> QED BY <1>7, <1>8, <1>9, <1>10

LEMMA RepairRows ==
    ASSUME Plain, ScanInv, ColOK, NEW h, History(h, log), NEW m, Place(m), Repair,
           NEW k \in Keys, RowPlace(h, m, k)
    PROVE  RowPlace(h, 0, k)'
<1> DEFINE v == saved.watermark
           T == StatementsIn(log, v)
           c == SchemaIn(log, v)
           first == Image(c.columns)
<1>0. /\ pc = "told" /\ saved' = Passed /\ UNCHANGED upstream /\ seen' = seen /\ dirty' \subseteq dirty
      /\ work # {} /\ log[Current].kind = "schema" /\ Accepted(meta, File)
  BY DEF Repair, Passed, Started, ColOK, ScanInv, ScanOK
<1>1. /\ Runs(first, T) /\ RowIn(log, v, h, m, k, sfRows[k], AtEnd \/ ~exists, Done, seen)
      /\ c.action # "drop table" /\ (Whole(T) \/ Proper(first, T))
  BY <1>0, Here, RowsHere DEF RowPlace, Plain
<1>2. (\E V : T \in Seq(V)) /\ Len(T) \in Nat
  BY <1>1, RunsSteps
<1>3. PICK n \in 0..m :
          /\ sfRows' = [j \in Keys |-> RowAfterAll(sfRows[j], SubSeq(T, n + 1, Len(T)))]
          /\ AfterExecuting(first, T, n) = AfterExecuting(first, T, m)
          /\ ExplainedBy(T, n)
          /\ \A x \in 0..m : ExplainedBy(T, x) => n <= x
  BY RepairExecutes
<1>4. sfRows'[k] = RowAfterAll(sfRows[k], SubSeq(T, n + 1, Len(T)))
  BY <1>3
<1>5. m \in 0..Len(T)
  BY DEF Place, PlaceIn
<1>6. \A p \in 1..Len(log) : log[p].version = v => IsRow(ImageOfRow(h[p][k]), first)
  BY FirstRow
<1>7. exists \in BOOLEAN /\ (exists <=> ~Dropped(SubSeq(T, 1, n)) /\ c.action # "drop table")
  BY <1>3, InLog DEF ExplainedBy, ColOK
<1>10. first \in SfColumns /\ sfColumns = AfterExecuting(first, T, m)
  <2>1. AfterExecuting(first, T, 0) = first /\ 0 \in 0..Len(T)
    <3>1. AfterExecuting(first, T, 0) = first
      BY <1>1, RunsSteps
    <3> DEFINE l == Len(T)
    <3>2. l \in Nat
      BY <1>2
    <3> HIDE DEF l
    <3>3. 0 \in 0..l
      BY <3>2
    <3> QED BY <3>1, <3>3 DEF l
  <2> QED BY <1>1, <2>1 DEF Runs, Place, PlaceIn
<1>11. AfterExecuting(first, T, Len(T)) = ColumnsAfterAll(first, T)
  BY <1>1, RunsSteps
<1> HIDE DEF T, c, first
<1>9. RowAfterDDL(h, k, sfRows'[k])
  <2>1. CASE Whole(T)
    <3> DEFINE l == Len(T)
    <3>1. l = 1 /\ T[1].op \in Empties /\ m \in 0..l /\ l = Len(T)
      BY <1>5, <2>1, WholeNotEmpty
    <3> HIDE DEF l
    <3>2. n \in {0, 1} /\ m \in {0, 1} /\ n <= m
      BY <3>1
    <3>3. CASE n = 0
      <4>1. SubSeq(T, n + 1, l) = T /\ T = <<T[1]>>
        <5>1. SubSeq(T, 1, Len(T)) = T
          BY <1>2, EmptySlice
        <5>2. T = <<T[1]>>
          <6>1. \A s : <<s>> = <<(<<s>>)[1]>>
            OBVIOUS
          <6>2. \E s : T = <<s>>
            BY <2>1 DEF Whole
          <6> QED BY <6>1, <6>2
        <5> QED BY <3>1, <3>3, <5>1, <5>2
      <4>2. sfRows'[k] = RowAfter(sfRows[k], T[1])
        BY <1>4, <3>1, <4>1, OfOne
      <4>3. sfRows'[k] = NoRow
        BY <3>1, <4>2 DEF RowAfter
      <4> QED BY <2>1, <4>3 DEF RowAfterDDL, T
    <3>4. CASE n = 1
      <4>1. m = 1 /\ m > 0
        BY <3>2, <3>4
      <4>2. RowAfterAll(sfRows[k], SubSeq(T, n + 1, l)) = sfRows[k]
        <5>1. SubSeq(T, 2, 1) = <<>>
          BY <1>2
        <5>2. SubSeq(T, n + 1, l) = <<>>
          BY <3>1, <3>4, <5>1
        <5> QED BY <5>2, NoneAfter
      <4>3. ~exists
        <5>1. ~ExplainedBy(T, 0)
          BY <1>3, <3>4, <4>1
        <5>2. sfColumns = first
          BY <1>10, <1>11, <2>1, <3>1, <4>1, WholeRuns
        <5>3. exists => ExplainedBy(T, 0)
          BY <1>1, <1>7, <5>2, InLog, NothingExecuted DEF ExplainedBy, c, first
        <5> QED BY <5>1, <5>3
      <4>4. sfRows[k] = NoRow
        BY <1>1, <2>1, <4>1, <4>3 DEF RowIn, T
      <4> QED BY <1>4, <2>1, <3>1, <4>2, <4>4 DEF RowAfterDDL, T
    <3> QED BY <3>2, <3>3, <3>4
  <2>2. CASE ~Whole(T)
    <3>1. Proper(first, T)
      BY <1>1, <2>2
    <3>2. PICK p \in 1..seen :
            /\ p \in 1..Len(log) /\ log[p].version = v
            /\ sfRows[k] = RowAt(ImageOfRow(h[p][k]), T, m)
            /\ \A i \in 1..Len(log) :
                  log[i].version = v /\ p < i /\ Changed(log[i], k) => i \notin Done
      BY <1>1, <2>2 DEF RowIn, RowOf, T
    <3> DEFINE r == ImageOfRow(h[p][k])
    <3>3. IsRow(r, first) /\ sfRows[k] = RowAt(r, T, m)
      BY <1>6, <3>2
    <3> HIDE DEF r
    <3>4. RowAfterAll(RowAt(r, T, m), SubSeq(T, n + 1, Len(T))) = RowAt(r, T, Len(T))
      BY <1>3, <1>5, <3>1, <3>3, RestRow
    <3>5. RowAt(r, T, Len(T)) = RowAfterAll(r, T)
      BY <1>2, RowAtStep DEF RowSteps
    <3>6. sfRows'[k] = RowAfterAll(r, T)
      BY <1>4, <3>3, <3>4, <3>5
    <3> QED BY <2>2, <3>2, <3>6 DEF RowAfterDDL, T, r
  <2> QED BY <2>1, <2>2
<1> QED BY <1>0, <1>9, PassedRows

----------------------------------------------------------------------------
(***************************************************************************)
(* ... at first, while the table is left alone, and when upstream goes on. *)
(***************************************************************************)
LEMMA InitRows ==
    Plain /\ Init => RowInv
<1> SUFFICES ASSUME Plain, Init PROVE RowInv
  OBVIOUS
<1>0. ScanInv /\ ColOK /\ CasesKept /\ UpstreamOK
  BY InitScan, InitCol DEF Plain, ScanInv
<1>1. PICK m : Place(m)
  BY <1>0 DEF ColOK
<1> DEFINE e == SchemaFile(FirstVersion, "none", <<>>, FirstColumns)
           h == [i \in 1..1 |-> rows]
           v == saved.watermark
           T == StatementsIn(log, v)
<1>2. e.kind = "schema" /\ e.action = "none" /\ e.version = FirstVersion /\ e.columns = FirstColumns
  BY DEF SchemaFile
<1>3. /\ log = <<e>> /\ saved.watermark = FirstVersion /\ saved.consumed = {} /\ dirty = {}
      /\ seen = 1 /\ columns = FirstColumns
      /\ \A k \in Keys : sfRows[k] = ImageOfRow(rows[k])
  BY DEF Init
<1> HIDE DEF e
<1>4. Len(log) = 1 /\ DOMAIN log = 1..1 /\ log[1] = e
  BY <1>3
<1>5. \A i \in 1..Len(log) : i = 1
  BY <1>4
<1>6. 1 \in 1..Len(log) /\ h[1] = rows
  BY <1>4
<1>7. UpToNow(h)
  <2>1. \A k \in Keys : IsRow(rows[k], FirstColumns)
    BY <1>0, <1>3 DEF UpstreamOK
  <2>2. \A k \in Keys : IsRow(h[1][k], log[1].columns)
    BY <1>2, <1>4, <1>6, <2>1
  <2> HIDE DEF h
  <2>3. History(h, log)
    BY <1>5, <2>2 DEF History
  <2> QED BY <1>4, <1>6, <2>3 DEF UpToNow
<1>8. NextIn(log, v) = {}
  <2>1. ~(FirstVersion > FirstVersion)
    BY DEF FirstVersion
  <2>2. \A i \in DOMAIN log : i = 1
    BY <1>4
  <2> QED BY <1>2, <1>3, <1>4, <2>1, <2>2 DEF NextIn
<1>9. m = 0
  <2>1. T = <<>>
    BY <1>0, <1>8, Here
  <2>2. m \in 0..Len(<<>>)
    BY <1>1, <2>1 DEF Place, PlaceIn
  <2> QED BY <2>2
<1> HIDE DEF h
<1>10. ASSUME NEW k \in Keys PROVE RowPlace(h, m, k)
  <2>1. sfRows[k] = RowAt(ImageOfRow(h[1][k]), StatementsIn(log, v), 0)
    BY <1>3, <1>6, RowAtNone
  <2>2. 1 \in 1..seen /\ log[1].version = v /\ Done = {}
    BY <1>2, <1>3, <1>4 DEF Done
  <2>3. RowOf(log, v, h, m, k, sfRows[k], Done, seen)
    BY <1>6, <1>9, <2>1, <2>2 DEF RowOf
  <2>4. ~(m > 0)
    BY <1>9
  <2> QED BY <2>3, <2>4 DEF RowPlace, RowIn
<1>11. \E g, n : RowsAt(g, n)
  BY <1>1, <1>7, <1>10 DEF RowsAt
<1>12. SchemaIn(log, v).action # "rename table"
  <2>1. LogOK(log, clock)
    BY <1>0 DEF UpstreamOK
  <2>2. SchemaIn(log, log[1].version) = log[1]
    BY <1>2, <1>4, <1>6, <2>1, OfVersion
  <2> QED BY <1>2, <1>3, <1>4, <2>2
<1> QED BY <1>11, <1>12 DEF RowInv

LEMMA SameUpstreamNow ==
    ASSUME NEW h, UpToNow(h), UNCHANGED upstream
    PROVE  UpToNow(h)'
BY DEF UpToNow, upstream

\* A step that leaves the table and the watermark alone.
LEMMA SameTableInv ==
    ASSUME ScanInv, NEW h, NEW m, RowsAt(h, m), Place(m)', UNCHANGED <<upstream, table>>,
           saved'.watermark = saved.watermark,
           saved'.consumed \cup dirty' \subseteq saved.consumed \cup dirty,
           seen' = seen \/ seen' = Len(log),
           pc' # "apply" \/ todo' # <<>> \/ ~Whole(StatementsIn(log, saved.watermark))
              \/ UNCHANGED <<pc, todo>>
    PROVE  RowsAt(h, m)'
<1>1. seen \in Nat /\ seen' \in Nat /\ seen <= seen'
  <2> DEFINE n == Len(log)
  <2>1. n \in Nat /\ seen \in 1..n /\ (seen' = seen \/ seen' = n)
    BY ScanNow DEF ScanInv
  <2> HIDE DEF n
  <2> QED BY <2>1
<1>2. AtEnd' => AtEnd \/ ~Whole(StatementsIn(log, saved.watermark))
  BY DEF AtEnd
<1>3. Done' \subseteq Done
  BY DEF Done
<1>4. ASSUME NEW k \in Keys PROVE RowPlace(h, m, k)'
  <2>1. RowPlace(h, m, k)
    BY DEF RowsAt
  <2> QED BY <1>1, <1>2, <1>3, <2>1, SameTableRows
<1>5. UpToNow(h)'
  BY SameUpstreamNow DEF RowsAt
<1> QED BY <1>4, <1>5 DEF RowsAt

LEMMA UpstreamInv ==
    ASSUME Plain, ScanInv, ColOK, UpstreamOK', NEW h, NEW m, RowsAt(h, m), Upstream
    PROVE  \E g : RowsAt(g, m)'
<1>1. UpstreamOK /\ seen \in 1..Len(log) /\ CasesKept
  BY DEF ScanInv, ScanOK, Plain
<1>2. Place(m) /\ History(h, log) /\ (\A k \in Keys : h[Len(log)][k] = rows[k])
      /\ \A k \in Keys : RowPlace(h, m, k)
  BY DEF RowsAt, UpToNow
<1>3. Grows
  BY <1>1, UpstreamGrows
<1>4. GoesOn(h)
  BY <1>1, <1>2, UpstreamHistory
<1>5. Place(m)'
  BY <1>1, <1>2, <1>3, UpstreamCol
<1>6. PICK g : g = Extended(h, log', rows')
  OBVIOUS
<1>7. UpToNow(g)'
  BY <1>4, <1>6 DEF UpToNow, GoesOn
<1>8. \A k \in Keys : RowPlace(g, m, k)'
  BY <1>2, <1>3, <1>4, <1>6, UpstreamRows
<1>9. RowsAt(g, m)'
  BY <1>5, <1>7, <1>8 DEF RowsAt
<1> QED BY <1>9

LEMMA ExecutedInv ==
    ASSUME Plain, ScanInv, ColOK, NEW h, NEW m, RowsAt(h, m), pc = "apply", todo # <<>>,
           Legal(exists, sfColumns, Head(todo)), Execute(<<Head(todo)>>),
           UNCHANGED <<upstream, saved, work, meta, seen, dirty>>, faults' \in 0..MaxFaults,
           \/ pc' = "apply" /\ todo' = Tail(todo)
           \/ pc' = "told" /\ todo' = todo
    PROVE  \E n : RowsAt(h, n)'
<1> DEFINE T == StatementsIn(log, saved.watermark)
           first == Image(SchemaIn(log, saved.watermark).columns)
<1>1. CasesKept /\ Place(m) /\ UpToNow(h) /\ \A k \in Keys : RowPlace(h, m, k)
  BY DEF Plain, RowsAt
<1>2. PICK d \in 0..m : /\ d < Len(T) /\ Head(todo) = T[d + 1]
                        /\ Legal(TRUE, AfterExecuting(first, T, m), T[d + 1])
                        /\ Place(Further(m, d))'
  BY <1>1, ExecutedCol
<1>3. \A k \in Keys : RowPlace(h, Further(m, d), k)'
  BY <1>1, <1>2, ExecutedRows DEF UpToNow
<1>4. UpToNow(h)'
  BY <1>1, SameUpstreamNow
<1>5. RowsAt(h, Further(m, d))'
  BY <1>2, <1>3, <1>4 DEF RowsAt
<1> QED BY <1>5

----------------------------------------------------------------------------
(***************************************************************************)
(* ... and with each step.                                                 *)
(***************************************************************************)
\* The rows keep a place in the history with every step.
LEMMA RowsAtStays ==
    ASSUME Plain, ScanInv, ColOK, UpstreamOK', [Next]_vars, NEW h, NEW m, RowsAt(h, m)
    PROVE  \E g, n : RowsAt(g, n)'
<1>0. CasesKept /\ Place(m) /\ UpToNow(h) /\ (\A k \in Keys : RowPlace(h, m, k))
      /\ saved \in States /\ faults \in 0..MaxFaults
  BY DEF Plain, RowsAt, ScanInv, ScanOK, ColOK
<1>1. CASE Upstream
  BY <1>1, UpstreamInv
<1>2. CASE BeginScan
  <2>1. UNCHANGED <<upstream, table, saved, faults, dirty>> /\ pc' = "load" /\ seen' = Len(log)
    BY <1>2 DEF BeginScan
  <2>2. Place(m)'
    BY <1>0, <2>1, SameTableCol DEF ColOK
  <2> QED BY <2>1, <2>2, SameTableInv
<1>3. CASE StartDDL
  <2>1. /\ UNCHANGED <<upstream, table, saved, dirty, seen>> /\ pc = "load" /\ work # {}
        /\ log[Current].kind = "schema"
        /\ pc' = "stopped" \/ (Accepted(meta, File) /\ todo' = Translation(meta, File))
    BY <1>3 DEF StartDDL, Loading, IsSchema
  <2>2. Place(m)'
    BY <1>0, <1>3, StartDDLCol
  <2>3. pc' # "apply" \/ todo' = StatementsIn(log, saved.watermark)
    BY <1>0, <2>1, Here
  <2>4. pc' # "apply" \/ todo' # <<>> \/ ~Whole(StatementsIn(log, saved.watermark))
    BY <2>3, WholeNotEmpty
  <2> QED BY <2>1, <2>2, <2>4, SameTableInv
<1>4. CASE ExecDDL
  <2>1. faults' \in 0..MaxFaults
    BY <1>0, <1>4 DEF ExecDDL
  <2> QED BY <1>4, <2>1, ExecutedInv DEF ExecDDL
<1>5. CASE ExecDDLFails
  <2>1. /\ pc = "apply" /\ todo # <<>> /\ pc' = "told"
        /\ UNCHANGED <<upstream, saved, work, meta, todo, dirty, seen>>
    BY <1>5 DEF ExecDDLFails
  <2>2. faults' \in 0..MaxFaults
    <3>1. faults' = faults \/ (faults < MaxFaults /\ faults' = faults + 1)
      BY <1>5 DEF ExecDDLFails
    <3> QED BY <1>0, <3>1, Bounds
  <2>3. UNCHANGED table \/ (Legal(exists, sfColumns, Head(todo)) /\ Execute(<<Head(todo)>>))
    BY <1>5 DEF ExecDDLFails
  <2>4. CASE UNCHANGED table
    <3>1. Place(m)'
      BY <1>0, <2>1, <2>2, <2>4, SameTableCol
    <3> QED BY <2>1, <2>4, <3>1, SameTableInv
  <2>5. CASE Legal(exists, sfColumns, Head(todo)) /\ Execute(<<Head(todo)>>)
    BY <2>1, <2>2, <2>5, ExecutedInv
  <2> QED BY <2>3, <2>4, <2>5
<1>6. CASE SaveWatermark
  <2>1. Place(0)'
    BY <1>0, <1>6, SaveWatermarkCol
  <2>2. \A k \in Keys : RowPlace(h, 0, k)'
    BY <1>0, <1>6, SaveWatermarkRows DEF UpToNow
  <2>3. UpToNow(h)'
    BY <1>0, <1>6, SameUpstreamNow DEF SaveWatermark
  <2>4. RowsAt(h, 0)'
    BY <2>1, <2>2, <2>3 DEF RowsAt
  <2> QED BY <2>4
<1>7. CASE LoadIncrement
  <2>1. Place(m)'
    BY <1>0, <1>7, LoadIncrementCol
  <2>2. \A k \in Keys : RowPlace(h, m, k)'
    BY <1>0, <1>7, LoadIncrementRows DEF UpToNow
  <2>3. UpToNow(h)'
    BY <1>0, <1>7, SameUpstreamNow DEF LoadIncrement
  <2>4. RowsAt(h, m)'
    BY <2>1, <2>2, <2>3 DEF RowsAt
  <2> QED BY <2>4
<1>8. CASE LoadIncrementFails
  <2>1. UNCHANGED <<upstream, table, saved, faults, dirty, seen>> /\ pc' = "stopped"
    BY <1>8 DEF LoadIncrementFails
  <2>2. Place(m)'
    BY <1>0, <2>1, SameTableCol
  <2> QED BY <2>1, <2>2, SameTableInv
<1>9. CASE SaveCursors
  <2>1. UNCHANGED <<upstream, table, faults, seen>> /\ pc' = "finish" /\ dirty' = {}
        /\ saved' = [saved EXCEPT !.consumed = @ \cup dirty]
    BY <1>9 DEF SaveCursors
  <2>2. saved'.watermark = saved.watermark /\ saved'.consumed = saved.consumed \cup dirty
    BY <1>0, <2>1 DEF States
  <2>3. Place(m)'
    BY <1>0, <2>1, <2>2, SameTableCol
  <2> QED BY <2>1, <2>2, <2>3, SameTableInv
<1>10. CASE SaveCheckpoint
  <2>1. UNCHANGED <<upstream, table, faults, seen, dirty>> /\ pc' = "idle"
        /\ saved' = [saved EXCEPT !.checkpoint = target]
    BY <1>10 DEF SaveCheckpoint
  <2>2. saved'.watermark = saved.watermark /\ saved'.consumed = saved.consumed
    BY <1>0, <2>1 DEF States
  <2>3. Place(m)'
    BY <1>0, <2>1, <2>2, SameTableCol
  <2> QED BY <2>1, <2>2, <2>3, SameTableInv
<1>11. CASE Crash
  <2>1. UNCHANGED <<upstream, table, saved, seen>> /\ pc' = "idle" /\ faults < MaxFaults
        /\ faults' = faults + 1 /\ dirty' = {}
    BY <1>11 DEF Crash, Started
  <2>2. faults' \in 0..MaxFaults
    BY <1>0, <2>1, Bounds
  <2>3. Place(m)'
    BY <1>0, <2>1, <2>2, SameTableCol
  <2> QED BY <2>1, <2>3, SameTableInv
<1>12. CASE Restart
  <2>1. UNCHANGED <<upstream, table, saved, faults, seen>> /\ pc' = "idle" /\ dirty' = {}
    BY <1>12 DEF Restart, Started
  <2>3. Place(m)'
    BY <1>0, <2>1, SameTableCol
  <2> QED BY <2>1, <2>3, SameTableInv
<1>13. CASE Repair
  <2>1. Place(0)'
    BY <1>0, <1>13, RepairCol
  <2>2. \A k \in Keys : RowPlace(h, 0, k)'
    BY <1>0, <1>13, RepairRows DEF UpToNow
  <2>3. UpToNow(h)'
    BY <1>0, <1>13, SameUpstreamNow DEF Repair
  <2>4. RowsAt(h, 0)'
    BY <2>1, <2>2, <2>3 DEF RowsAt
  <2> QED BY <2>4
<1>14. CASE UNCHANGED vars
  <2>1. UNCHANGED <<upstream, table, saved, faults, pc, todo, meta, work, dirty, seen>>
    BY <1>14 DEF vars, process
  <2>2. Place(m)'
    BY <1>0, <2>1, SameTableCol
  <2> QED BY <2>1, <2>2, SameTableInv
<1> QED BY <1>1, <1>2, <1>3, <1>4, <1>5, <1>6, <1>7, <1>8, <1>9, <1>10, <1>11, <1>12, <1>13,
           <1>14 DEF Next, Loader

----------------------------------------------------------------------------
(***************************************************************************)
(* Nothing left to do.                                                     *)
(***************************************************************************)
LEMMA ActionStays ==
    ASSUME ScanInv, ColOK, UpstreamOK', [Next]_vars,
           SchemaIn(log, saved.watermark).action # "rename table"
    PROVE  SchemaIn(log', saved'.watermark).action # "rename table"
<1>0. UpstreamOK /\ ScanOK /\ ClockOK /\ saved \in States /\ seen \in 1..Len(log)
  BY DEF ScanInv, ScanOK
<1>1. CASE Upstream
  <2>1. Grows
    BY <1>0, <1>1, UpstreamGrows
  <2>2. SchemaIn(log', saved.watermark) = SchemaIn(log, saved.watermark)
    BY <2>1, NextStands
  <2> QED BY <2>1, <2>2 DEF Grows
<1>2. CASE log' = log /\ saved'.watermark = saved.watermark
  BY <1>2
<1>3. CASE log' = log /\ saved' = Passed /\ pc \in {"apply", "told"}
  <2>1. Passed.watermark = File.version /\ SchemaIn(log, File.version) = File
    BY <1>0, <1>3, PassedFacts
  <2>2. File.action # "rename table"
    BY <1>3 DEF ColOK, Accepted
  <2> QED BY <1>3, <2>1, <2>2
<1>4. CASE SaveWatermark
  <2>1. log' = log /\ saved' = Passed /\ pc = "apply"
    BY <1>4 DEF SaveWatermark, Applied, Passed, upstream
  <2> QED BY <1>3, <2>1
<1>5. CASE Repair
  <2>1. log' = log /\ saved' = Passed /\ pc = "told"
    BY <1>5 DEF Repair, Passed, upstream
  <2> QED BY <1>3, <2>1
<1>6. CASE SaveCursors
  <2>1. log' = log /\ saved' = [saved EXCEPT !.consumed = @ \cup dirty]
    BY <1>6 DEF SaveCursors, upstream
  <2> QED BY <1>0, <1>2, <2>1 DEF States
<1>7. CASE SaveCheckpoint
  <2>1. log' = log /\ saved' = [saved EXCEPT !.checkpoint = target]
    BY <1>7 DEF SaveCheckpoint, upstream
  <2> QED BY <1>0, <1>2, <2>1 DEF States
<1>8. CASE BeginScan \/ StartDDL \/ ExecDDL \/ ExecDDLFails \/ LoadIncrement
           \/ LoadIncrementFails \/ Crash \/ Restart \/ UNCHANGED vars
  <2>1. log' = log /\ saved' = saved
    BY <1>8 DEF BeginScan, StartDDL, ExecDDL, ExecDDLFails, LoadIncrement,
                LoadIncrementFails, Crash, Restart, vars, upstream
  <2> QED BY <1>2, <2>1
<1> QED BY <1>1, <1>4, <1>5, <1>6, <1>7, <1>8 DEF Next, Loader

\* Nothing is left to do: the version of the watermark is the last.
LEMMA NothingLeft ==
    ASSUME ScanInv, pc = "idle", Pending(saved) = {}
    PROVE  /\ NextIn(log, saved.watermark) = {} /\ dirty = {}
           /\ \A i \in 1..Len(log) : log[i].version = saved.watermark => 
                 \A j \in i..Len(log) : log[j].version = saved.watermark
           /\ \A i \in 1..Len(log) : log[i].version = saved.watermark /\ log[i].kind # "schema"
                 => i \in saved.consumed
<1> DEFINE v == saved.watermark
<1>0. /\ UpstreamOK /\ ScanOK /\ ClockOK /\ LogOK(log, clock) /\ saved \in States
      /\ PendingIn(log, saved) = {} /\ dirty = {}
      /\ \A i \in saved.consumed : log[i].kind # "schema"
  BY InLog DEF ScanInv, ScanOK, UpstreamOK
<1>1. v \in Nat /\ DOMAIN log = 1..Len(log) /\ Len(log) \in Nat
  BY <1>0, LogEnd DEF States
<1>2. NextIn(log, v) = {}
  <2>1. NextIn(log, v) \subseteq PendingIn(log, saved)
    BY <1>0 DEF NextIn, PendingIn
  <2> QED BY <1>0, <2>1
<1>3. ASSUME NEW j \in 1..Len(log) PROVE ~(log[j].version > v)
  <2>1. PICK t \in 1..j : log[t].kind = "schema" /\ log[t].version = log[j].version
    BY <1>0 DEF LogOK
  <2>2. t \in 1..Len(log)
    <3> DEFINE n == Len(log)
    <3>1. n \in Nat /\ j \in 1..n
      BY <1>1
    <3> HIDE DEF n
    <3>2. t \in 1..n
      BY <3>1
    <3> QED BY <3>2 DEF n
  <2> QED BY <1>1, <1>2, <2>1, <2>2 DEF NextIn
<1>4. ASSUME NEW i \in 1..Len(log), log[i].version = v, NEW j \in i..Len(log)
      PROVE log[j].version = v
  <2>1. j \in 1..Len(log) /\ (i = j \/ i < j)
    <3> DEFINE n == Len(log)
    <3>1. n \in Nat /\ i \in 1..n /\ j \in i..n
      BY <1>1
    <3> HIDE DEF n
    <3>2. j \in 1..n /\ (i = j \/ i < j)
      BY <3>1
    <3> QED BY <3>2 DEF n
  <2>2. i < j => v <= log[j].version
    BY <1>0, <1>4, <2>1, Ordered
  <2>3. log[j].version \in Nat
    BY <1>0, <2>1, Entries
  <2> QED BY <1>1, <1>3, <1>4, <2>1, <2>2, <2>3
<1>5. ASSUME NEW i \in 1..Len(log), log[i].version = v, log[i].kind # "schema"
      PROVE i \in saved.consumed
  BY <1>0, <1>1, <1>5 DEF PendingIn
<1> QED BY <1>0, <1>2, <1>4, <1>5

LEMMA RowsFollow ==
    ASSUME Plain, ScanInv, ColOK, RowInv
    PROVE  RowsFollowUpstream
<1> SUFFICES ASSUME pc = "idle", Pending(saved) = {}
             PROVE  /\ exists = present
                    /\ exists => sfColumns = Image(columns)
                    /\ \A k \in Keys : sfRows[k] = ImageOfRow(rows[k])
  BY DEF RowsFollowUpstream
<1> DEFINE v == saved.watermark
           T == StatementsIn(log, v)
           c == SchemaIn(log, v)
           n == Len(log)
<1>0. /\ CasesKept /\ UpstreamOK /\ ScanOK /\ LogOK(log, clock) /\ exists \in BOOLEAN
      /\ present \in BOOLEAN /\ (present <=> ~Ends(log[n])) /\ columns = log[n].columns
  BY DEF Plain, ScanInv, UpstreamOK, ColOK
<1>1. PICK h, m : RowsAt(h, m)
  BY DEF RowInv
<1>2. PICK s \in 1..n : log[s].kind = "schema" /\ log[s].version = v /\ c = log[s]
  BY <1>0, AtWatermark
<1>3. NextIn(log, v) = {}
  BY NothingLeft
<1>4. m = 0 /\ T = <<>>
  <2>1. T = <<>>
    BY <1>0, <1>3, Here
  <2>2. m \in 0..Len(<<>>)
    BY <1>1, <2>1 DEF RowsAt, Place, PlaceIn
  <2> QED BY <2>1, <2>2
<1>5. sfColumns = Image(c.columns) /\ (exists <=> c.action # "drop table")
  BY <1>1, <1>4, NothingExecuted DEF RowsAt, Place, PlaceIn, AfterExecuting
<1>6. n \in Nat /\ n \in 1..n /\ s <= n /\ s \in 1..n
  BY <1>0, <1>2, LogEnd
<1>7. \A i \in 1..n : log[i].version = v => \A j \in i..n : log[j].version = v
  BY NothingLeft
<1>8. \A i \in 1..n : log[i].version = v =>
          log[i].columns = c.columns /\ (log[i].kind = "schema" => i = s) /\ s <= i
  BY <1>0, <1>2, OfVersion
<1>9. log[n].version = v /\ log[n].columns = c.columns
  <2>1. n \in s..n
    <3> HIDE DEF n
    <3> QED BY <1>6
  <2>2. log[n].version = v
    BY <1>2, <1>7, <2>1
  <2> QED BY <1>6, <1>8, <2>2
<1>10. exists = present
  <2>1. CASE log[n].kind = "schema"
    <3>1. c = log[n]
      BY <1>2, <1>6, <1>8, <1>9, <2>1
    <3>2. c.action \in {"none", "alter table"} \cup Actions
      <4>1. EntryOK(log[s], clock)
        BY <1>0, <1>2, Entries
      <4> QED BY <1>2, <4>1 DEF EntryOK
    <3>3. c.action # "rename table" /\ c.action # "drop schema"
      BY <3>2 DEF RowInv, Plain
    <3>4. c.action \in {"none", "alter table", "truncate table", "drop table"}
      BY <3>2, <3>3, TableAssumption
    <3>5. Ends(log[n]) <=> c.action = "drop table"
      BY <2>1, <3>1, <3>4 DEF Ends, Stays
    <3> QED BY <1>0, <1>5, <3>5
  <2>2. CASE log[n].kind # "schema"
    <3>1. s # n
      BY <1>2, <2>2
    <3>2. s \in 1..(n - 1)
      <4> HIDE DEF n
      <4> QED BY <1>6, <3>1
    <3>3. c.action \in Stays
      BY <1>0, <1>2, <3>2 DEF LogOK
    <3>4. ~Ends(log[n])
      BY <2>2 DEF Ends
    <3> QED BY <1>0, <1>5, <3>3, <3>4 DEF Stays
  <2> QED BY <2>1, <2>2
<1>11. ASSUME NEW k \in Keys PROVE sfRows[k] = ImageOfRow(rows[k])
  <2>1. RowOf(log, v, h, m, k, sfRows[k], Done, seen)
    <3>1. ~(m > 0)
      BY <1>4
    <3>2. RowIn(log, v, h, m, k, sfRows[k], AtEnd \/ ~exists, Done, seen)
      BY <1>1 DEF RowsAt, RowPlace
    <3> QED BY <3>1, <3>2 DEF RowIn
  <2>2. PICK p \in 1..n :
            /\ log[p].version = v
            /\ sfRows[k] = RowAt(ImageOfRow(h[p][k]), T, m)
            /\ \A i \in 1..n : log[i].version = v /\ p < i /\ Changed(log[i], k) => i \notin Done
    BY <2>1 DEF RowOf
  <2>3. sfRows[k] = ImageOfRow(h[p][k])
    BY <1>4, <2>2, RowAtNone
  <2>4. s <= p
    BY <1>8, <2>2
  <2>5. ASSUME NEW i \in 1..n, p < i PROVE log[i].kind # "schema" /\ ~Changed(log[i], k)
    <3>1. i \in p..n /\ i # s
      <4> HIDE DEF n
      <4> QED BY <1>6, <2>4, <2>5
    <3>2. log[i].version = v
      BY <1>7, <2>2, <3>1
    <3>3. log[i].kind # "schema"
      BY <1>8, <3>1, <3>2
    <3>4. i \in saved.consumed
      BY <3>2, <3>3, NothingLeft
    <3> QED BY <2>2, <2>5, <3>2, <3>3, <3>4 DEF Done
  <2>6. History(h, log) /\ h[n][k] = rows[k]
    BY <1>1 DEF RowsAt, UpToNow
  <2>7. n \in p..Len(log) /\ Len(log) \in Nat
    <3>1. n \in p..n
      <4> HIDE DEF n
      <4> QED BY <1>6
    <3> QED BY <1>6, <3>1
  <2>8. h[n][k] = h[p][k]
    BY <2>5, <2>6, <2>7, RowStays
  <2> QED BY <2>3, <2>6, <2>8
<1> QED BY <1>5, <1>9, <1>10, <1>11, <1>0

(***************************************************************************)
(* When nothing is left to do, columns and rows in Snowflake are those     *)
(* upstream, whatever was merged into part of a DDL, executed twice or     *)
(* restored before a TRUNCATE came again (genMergeIntoSQL, applyDDL).      *)
(***************************************************************************)
THEOREM RowsEndUpEqual == Plain => (Spec => []RowsFollowUpstream)
<1> SUFFICES ASSUME Plain PROVE Spec => []RowsFollowUpstream
  OBVIOUS
<1>1. CasesKept
  BY DEF Plain
<1>2. Spec => [](ScanInv /\ ColOK)
  BY <1>1, BothStay
<1>3. Init => RowInv
  BY InitRows
<1>4. ScanInv /\ ColOK /\ ScanInv' /\ RowInv /\ [Next]_vars => RowInv'
  <2> SUFFICES ASSUME ScanInv, ColOK, ScanInv', RowInv, [Next]_vars PROVE RowInv'
    OBVIOUS
  <2>1. UpstreamOK'
    BY DEF ScanInv
  <2>2. PICK h, m : RowsAt(h, m)
    BY DEF RowInv
  <2>3. \E g, n : RowsAt(g, n)'
    BY <2>1, <2>2, RowsAtStays
  <2>4. SchemaIn(log', saved'.watermark).action # "rename table"
    BY <2>1, ActionStays DEF RowInv
  <2>5. SchemaIn(log, saved.watermark)' = SchemaIn(log', saved'.watermark)
    BY DEF SchemaIn
  <2> QED BY <2>3, <2>4, <2>5 DEF RowInv
<1>5. ScanInv /\ ColOK /\ RowInv => RowsFollowUpstream
  BY RowsFollow
<1> QED BY <1>2, <1>3, <1>4, <1>5, PTL DEF Spec
=============================================================================
