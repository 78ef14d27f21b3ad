---------------------------- MODULE StagedTasks ----------------------------
(***************************************************************************)
(* What a load in stages promises to its caller: the tasks of a stage are  *)
(* performed in any order, each at most once, a stage begins when the one  *)
(* before it is complete, and success is reported when the last one is.    *)
(* After a failure nothing is promised but that no later stage begins.     *)
(* snapshot.Load promises this of its tables and files; WorkerPool is      *)
(* shown to keep the promise.                                              *)
(***************************************************************************)
EXTENDS Integers

CONSTANTS
    Last,       \* the number of stages, at least one
    Tasks       \* the tasks of each

VARIABLES
    stage,      \* the stage at work
    performed,  \* the tasks that have taken effect
    outcome     \* what the caller is told

vars == <<stage, performed, outcome>>

Init ==
    /\ stage = 1
    /\ performed = {}
    /\ outcome = "none"

Complete == Tasks[stage] \subseteq performed

Perform(task) ==
    /\ outcome = "none"
    /\ task \in Tasks[stage] \ performed
    /\ performed' = performed \cup {task}
    /\ UNCHANGED <<stage, outcome>>

NextStage ==
    /\ outcome = "none"
    /\ stage < Last
    /\ Complete
    /\ stage' = stage + 1
    /\ UNCHANGED <<performed, outcome>>

Succeed ==
    /\ outcome = "none"
    /\ stage = Last
    /\ Complete
    /\ outcome' = "success"
    /\ UNCHANGED <<stage, performed>>

Fail ==
    /\ outcome = "none"
    /\ outcome' = "failure"
    /\ UNCHANGED <<stage, performed>>

Next == (\E task \in Tasks[stage] : Perform(task)) \/ NextStage \/ Succeed \/ Fail

Spec == Init /\ [][Next]_vars
=============================================================================
