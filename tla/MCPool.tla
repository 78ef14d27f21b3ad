------------------------------- MODULE MCPool -------------------------------
(***************************************************************************)
(* Instances of WorkerPool for TLC.                                        *)
(***************************************************************************)
EXTENDS WorkerPool

CONSTANTS w1, w2

\* prepareTables, then loadFiles; tables, files and the limit of files in flight
\* are more than two workers and their channel take together.
SnapshotGroups == <<[tasks |-> 5, limit |-> 0, walk |-> FALSE],
                    [tasks |-> 7, limit |-> 5, walk |-> TRUE]>>
=============================================================================
