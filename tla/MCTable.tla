------------------------------ MODULE MCTable ------------------------------
(***************************************************************************)
(* Instances of SnowflakeTable for TLC.  Of the names, a and A differ in   *)
(* their case and are regular identifiers; i and I are not regular, so     *)
(* quoteIdent keeps their case.                                            *)
(***************************************************************************)
EXTENDS SnowflakeTable

CONSTANTS k1, k2

MCNames == {"a", "A", "b", "i", "I"}
MCFold == [n \in MCNames |-> CASE n = "A" -> "a" [] n = "I" -> "i" [] OTHER -> n]
MCIdent == [n \in MCNames |-> CASE n = "a" -> "A" [] n = "b" -> "B" [] OTHER -> n]

AandI == [n \in {"a", "i"} |-> 1]

Add(n) == Statement("add", NoName, n, 1)
Drop(n) == Statement("drop", n, NoName, 0)
Rename(m, n) == Statement("rename", m, n, 0)
Change(m, n, type) == Statement("change", m, n, type)
Modify(n, type) == Statement("modify", n, n, type)
AddIndex == OfTable("index")
DropPartition == OfTable("partition")

\* One kind of spec each, two of them in one statement, a change that gives two
\* statements, and one that gives none.
SupportedAlters == {
    <<Add("b"), Drop("i")>>, <<Drop("i"), Add("b")>>,
    <<Rename("a", "b"), AddIndex>>,
    <<Change("a", "b", 2), Drop("i")>>,
    <<Modify("a", 2)>>, <<Change("a", "A", 2)>>}

PartitionAlters == {<<DropPartition>>, <<Add("b")>>}

CaseOnlyAlters == {<<Change("i", "I", 1)>>}

NoMoves == {}
OneMove == {<<k1, k2>>}
=============================================================================
