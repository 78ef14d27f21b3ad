------------------------ MODULE ReplicationContract ------------------------
(***************************************************************************)
(* What incremental replication promises, without files, cursors, tasks or *)
(* restarts.  Upstream commits changes; the replica's rows move from one   *)
(* committed change to another, and may fall back while files are replayed *)
(* but never behind the checkpoint; the checkpoint moves only to a point   *)
(* the replica has already reached.                                        *)
(***************************************************************************)
EXTENDS Integers

CONSTANTS Tables, Keys, SnapshotTS

VARIABLES
    clock,      \* the latest commit timestamp
    changes,    \* per table and key, the timestamps of its changes
    replica,    \* per table and key, the change whose contents the replica has
    checkpoint  \* the verified checkpoint

contractVars == <<clock, changes, replica, checkpoint>>

Latest(t, k, ts) ==
    LET seen == {0} \cup {c \in changes[t][k] : c <= ts}
    IN  CHOOSE c \in seen : \A d \in seen : d <= c

Reached(ts) == \A t \in Tables, k \in Keys : replica[t][k] >= Latest(t, k, ts)

Init ==
    /\ clock = SnapshotTS
    /\ checkpoint = SnapshotTS
    /\ \A t \in Tables, k \in Keys : \A c \in changes[t][k] : c <= SnapshotTS
    /\ replica = [t \in Tables |-> [k \in Keys |-> Latest(t, k, SnapshotTS)]]

\* A commit, of a row change or of something else, takes the next timestamp.
Commit ==
    /\ clock' = clock + 1
    /\ \/ changes' = changes
       \/ \E t \in Tables, k \in Keys :
              changes' = [changes EXCEPT ![t][k] = @ \cup {clock + 1}]
    /\ UNCHANGED <<replica, checkpoint>>

\* Rows of one table move to committed changes the checkpoint allows.
Replicate(t) ==
    /\ \E moved \in SUBSET Keys :
          \E to \in [moved -> UNION {changes[t][k] : k \in Keys}] :
              /\ \A k \in moved : /\ to[k] \in changes[t][k]
                                  /\ to[k] >= Latest(t, k, checkpoint)
              /\ replica' = [replica EXCEPT ![t] =
                     [k \in Keys |-> IF k \in moved THEN to[k] ELSE @[k]]]
    /\ UNCHANGED <<clock, changes, checkpoint>>

Advance ==
    /\ checkpoint' \in (checkpoint + 1)..clock
    /\ Reached(checkpoint')
    /\ UNCHANGED <<clock, changes, replica>>

Next == Commit \/ (\E t \in Tables : Replicate(t)) \/ Advance

Spec == Init /\ [][Next]_contractVars
=============================================================================
