------------------------------ MODULE MCLoader ------------------------------
(***************************************************************************)
(* Instances of IncrementalLoader for TLC.                                 *)
(***************************************************************************)
EXTENDS IncrementalLoader

CONSTANTS t1, t2, k1, k2

\* Table versions are commit timestamps.
MCStreams == (1..MaxTS) \X Partitions

NotPartitioned == [k \in Keys |-> 0]
OnePartitionPerKey == [k \in Keys |-> IF k = k1 THEN 1 ELSE 2]

\* The snapshot holds everything the changefeed delivers, ...
NoBacklog == {}
\* ... or the changefeed starts earlier and delivers two changes again.
TwoChanges == {[ts |-> 2, key |-> k1], [ts |-> 3, key |-> k1]}
=============================================================================
