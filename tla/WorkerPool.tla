----------------------------- MODULE WorkerPool -----------------------------
(***************************************************************************)
(* The worker pool (src/pkg/workerpool/pool.go) and the callers that feed  *)
(* it.  One goroutine submits the tasks of one group after the other, as   *)
(* snapshot.Load does with prepareTables and loadFiles and as the          *)
(* incremental loader does with a group per scan; workers take the tasks   *)
(* from a bounded channel, execute them and answer their futures.  The     *)
(* group learns of an answer only when it drains its futures, in the order *)
(* of submission.  The parent context may be cancelled at any time.        *)
(***************************************************************************)
EXTENDS Integers, Sequences, FiniteSets

CONSTANTS
    Workers,    \* the goroutines of the pool
    Groups      \* the groups in order: [tasks, limit, walk]

GroupType == [tasks : Nat,      \* how many tasks the caller submits
              limit : Nat,      \* how many may be in flight; 0: any number
              walk  : BOOLEAN]  \* the tasks come from a walk that may fail

ASSUME PoolAssumption ==
    /\ Groups \in Seq(GroupType)
    /\ Groups # <<>>
    /\ IsFiniteSet(Workers)
    /\ Workers # {}

GroupIds == 1..Len(Groups)
TasksOf(g) == {<<g, i>> : i \in 1..Groups[g].tasks}
AllTasks == UNION {TasksOf(g) : g \in GroupIds}

NoTask == <<0, 0>>
Concurrency == Cardinality(Workers)

VARIABLES
    pc,         \* where the submitting goroutine is
    group,      \* the group it works on
    next,       \* the task it submits next
    futures,    \* group.futures: submitted and not drained
    first,      \* group.first is not nil
    failed,     \* the caller has an error of its own: first in loadFiles
    cancelled,  \* per group, its context is cancelled
    interrupted,\* the parent context is cancelled
    queue,      \* pool.tasks
    closed,     \* pool.tasks is closed
    hands,      \* per worker, the task it has received
    state,      \* per worker: "idle", "taken", "running", "gone"
    answers,    \* per task, what its future holds
    performed   \* the tasks whose Execute succeeded: tables made, files copied

vars == <<pc, group, next, futures, first, failed, cancelled, interrupted, queue,
          closed, hands, state, answers, performed>>
callerVars == <<pc, group, next, futures, first, failed>>
workerVars == <<hands, state, answers, performed>>

Init ==
    /\ pc = "submit"
    /\ group = 1
    /\ next = 1
    /\ futures = <<>>
    /\ first = FALSE
    /\ failed = FALSE
    /\ cancelled = [g \in GroupIds |-> FALSE]
    /\ interrupted = FALSE
    /\ queue = <<>>
    /\ closed = FALSE
    /\ hands = [w \in Workers |-> NoTask]
    /\ state = [w \in Workers |-> "idle"]
    /\ answers = [t \in AllTasks |-> "none"]
    /\ performed = {}

Done(g) == interrupted \/ cancelled[g]

----------------------------------------------------------------------------
(***************************************************************************)
(* The caller.  Group.Submit drains the group first when it is full.       *)
(***************************************************************************)
Full == Groups[group].limit > 0 /\ Len(futures) >= Groups[group].limit

Submit ==
    /\ pc = "submit"
    /\ next <= Groups[group].tasks
    /\ pc' = IF Full THEN "drain" ELSE "send"
    /\ UNCHANGED <<group, next, futures, first, failed, cancelled, interrupted,
                   queue, closed, workerVars>>

(***************************************************************************)
(* capture: the first error cancels the group.                             *)
(***************************************************************************)
\* Wrong on purpose: an error is not noted.
CaptureNothing(isError) == UNCHANGED <<first, cancelled>>

Capture(isError) ==
    /\ first' = (first \/ isError)
    /\ cancelled' = [cancelled EXCEPT ![group] = @ \/ (isError /\ ~first)]

\* drain waits for one future after the other, in the order of submission.
Drain ==
    /\ pc \in {"drain", "wait"}
    /\ futures # <<>>
    /\ answers[Head(futures)] # "none"
    /\ Capture(answers[Head(futures)] = "error")
    /\ futures' = Tail(futures)
    /\ UNCHANGED <<pc, group, next, failed, interrupted, queue, closed, workerVars>>

\* Wrong on purpose: drain returns at the first error.
DrainedOnError == futures = <<>> \/ first

Drained == futures = <<>>

\* Submit returns the error of the drained group, or sends.
SubmitDrained ==
    /\ pc = "drain"
    /\ Drained
    /\ pc' = IF first THEN "wait" ELSE "send"
    /\ failed' = (failed \/ first)
    /\ UNCHANGED <<group, next, futures, first, cancelled, interrupted, queue,
                   closed, workerVars>>

\* Pool.Submit: select takes either case when both are ready.
Send ==
    /\ pc = "send"
    /\ Len(queue) < Concurrency
    /\ queue' = Append(queue, <<group, next>>)
    /\ futures' = Append(futures, <<group, next>>)
    /\ next' = next + 1
    /\ pc' = "submit"
    /\ UNCHANGED <<group, first, failed, cancelled, interrupted, closed, workerVars>>

SendCancelled ==
    /\ pc = "send"
    /\ Done(group)
    /\ Capture(TRUE)
    /\ failed' = TRUE
    /\ pc' = "wait"
    /\ UNCHANGED <<group, next, futures, interrupted, queue, closed, workerVars>>

\* loadFiles cancels its group when the walk fails.
WalkFails ==
    /\ pc = "submit"
    /\ Groups[group].walk
    /\ failed' = TRUE
    /\ cancelled' = [cancelled EXCEPT ![group] = TRUE]
    /\ pc' = "wait"
    /\ UNCHANGED <<group, next, futures, first, interrupted, queue, closed, workerVars>>

AllSubmitted ==
    /\ pc = "submit"
    /\ next > Groups[group].tasks
    /\ pc' = "wait"
    /\ UNCHANGED <<group, next, futures, first, failed, cancelled, interrupted,
                   queue, closed, workerVars>>

\* Wait has drained the group: the next one follows a success, Close the last.
WaitReturns ==
    /\ pc = "wait"
    /\ Drained
    /\ cancelled' = [cancelled EXCEPT ![group] = TRUE]
    /\ failed' = (failed \/ first)
    /\ IF failed' \/ group = Len(Groups)
       THEN pc' = "close" /\ UNCHANGED <<group, next, futures, first>>
       ELSE /\ pc' = "submit"
            /\ group' = group + 1
            /\ next' = 1
            /\ futures' = <<>>
            /\ first' = FALSE
    /\ UNCHANGED <<interrupted, queue, closed, workerVars>>

\* Close returns when every worker has.
Close ==
    /\ pc = "close"
    /\ closed' = TRUE
    /\ pc' = "closing"
    /\ UNCHANGED <<group, next, futures, first, failed, cancelled, interrupted,
                   queue, workerVars>>

CloseReturns ==
    /\ pc = "closing"
    /\ \A w \in Workers : state[w] = "gone"
    /\ pc' = "ended"
    /\ UNCHANGED <<group, next, futures, first, failed, cancelled, interrupted,
                   queue, closed, workerVars>>

Interrupt ==
    /\ ~interrupted
    /\ pc # "ended"
    /\ interrupted' = TRUE
    /\ UNCHANGED <<callerVars, cancelled, queue, closed, workerVars>>

----------------------------------------------------------------------------
(***************************************************************************)
(* A worker.                                                               *)
(***************************************************************************)
Take(w) ==
    /\ state[w] = "idle"
    /\ queue # <<>>
    /\ hands' = [hands EXCEPT ![w] = Head(queue)]
    /\ state' = [state EXCEPT ![w] = "taken"]
    /\ queue' = Tail(queue)
    /\ UNCHANGED <<callerVars, cancelled, interrupted, closed, answers, performed>>

Answer(w, answer) ==
    /\ answers' = [answers EXCEPT ![hands[w]] = answer]
    /\ hands' = [hands EXCEPT ![w] = NoTask]
    /\ state' = [state EXCEPT ![w] = "idle"]

\* Wrong on purpose: a cancelled task is dropped, its future never answered.
RefuseSilently(w) == Answer(w, "none")

\* Wrong on purpose: the worker keeps the cancelled task in its hands.
RefuseAndKeep(w) ==
    /\ answers' = [answers EXCEPT ![hands[w]] = "error"]
    /\ state' = [state EXCEPT ![w] = "idle"]
    /\ UNCHANGED hands

\* Wrong on purpose: a cancelled task is answered like one that was done.
RefuseWithNil(w) == Answer(w, "ok")

Refuse(w) == Answer(w, "error")

\* The default of the worker's select is taken only if neither context is done.
Decide(w) ==
    /\ state[w] = "taken"
    /\ IF Done(hands[w][1])
       THEN Refuse(w)
       ELSE state' = [state EXCEPT ![w] = "running"] /\ UNCHANGED <<hands, answers>>
    /\ UNCHANGED <<callerVars, cancelled, interrupted, queue, closed, performed>>

\* Execute returns, with an error or without.
Succeed(w) ==
    /\ state[w] = "running"
    /\ performed' = performed \cup {hands[w]}
    /\ Answer(w, "ok")
    /\ UNCHANGED <<callerVars, cancelled, interrupted, queue, closed>>

FailTask(w) ==
    /\ state[w] = "running"
    /\ Answer(w, "error")
    /\ UNCHANGED <<callerVars, cancelled, interrupted, queue, closed, performed>>

Leave(w) ==
    /\ state[w] = "idle"
    /\ closed
    /\ queue = <<>>
    /\ state' = [state EXCEPT ![w] = "gone"]
    /\ UNCHANGED <<callerVars, cancelled, interrupted, queue, closed, hands,
                   answers, performed>>

----------------------------------------------------------------------------
CallerNext ==
    \/ Submit \/ Drain \/ SubmitDrained \/ Send \/ SendCancelled
    \/ AllSubmitted \/ WaitReturns \/ Close \/ CloseReturns

WorkerNext(w) == Take(w) \/ Decide(w) \/ Succeed(w) \/ FailTask(w) \/ Leave(w)

Next == CallerNext \/ WalkFails \/ Interrupt \/ \E w \in Workers : WorkerNext(w)

Ended == pc = "ended" /\ UNCHANGED vars

Spec == Init /\ [][Next \/ Ended]_vars

\* Goroutines run, and Execute returns: its context has no deadline, but the
\* Snowflake statements and S3 requests in it have an end.
Fairness == WF_vars(CallerNext) /\ \A w \in Workers : WF_vars(WorkerNext(w))

FairSpec == Spec /\ Fairness

----------------------------------------------------------------------------
\* The types; a worker holds a task exactly while it handles one.
TypeOK ==
    /\ pc \in {"submit", "drain", "send", "wait", "close", "closing", "ended"}
    /\ group \in GroupIds
    /\ next \in Nat \ {0}
    /\ futures \in Seq(AllTasks)
    /\ first \in BOOLEAN /\ failed \in BOOLEAN /\ interrupted \in BOOLEAN
    /\ closed \in BOOLEAN
    /\ cancelled \in [GroupIds -> BOOLEAN]
    /\ queue \in Seq(AllTasks) /\ Len(queue) <= Concurrency
    /\ hands \in [Workers -> AllTasks \cup {NoTask}]
    /\ state \in [Workers -> {"idle", "taken", "running", "gone"}]
    /\ \A w \in Workers : hands[w] = NoTask <=> state[w] \in {"idle", "gone"}
    /\ answers \in [AllTasks -> {"none", "ok", "error"}]
    /\ performed \in SUBSET AllTasks

\* A task that was submitted and whose future is not answered.
InFlight == {queue[i] : i \in DOMAIN queue} \cup
            {hands[w] : w \in {v \in Workers : hands[v] # NoTask}}

(***************************************************************************)
(* A task runs only when every task of the groups before it has been       *)
(* performed: no file is copied into a table that prepareTables has not    *)
(* created, no table is scanned beside the scan before (snapshot Load,     *)
(* incremental run).                                                       *)
(***************************************************************************)
StagesInOrder ==
    \A w \in Workers : state[w] = "running" =>
        \A g \in 1..(hands[w][1] - 1) : TasksOf(g) \subseteq performed

(***************************************************************************)
(* A load keeps the promise of StagedTasks: no task is performed before    *)
(* the groups ahead of it are complete, none is performed after Load has   *)
(* returned, and success is reported only if every task was performed.     *)
(* Only then is the snapshot marked finished or the checkpoint moved: a    *)
(* task that failed, was cancelled or was never submitted is not passed    *)
(* over.                                                                   *)
(***************************************************************************)
Outcome == IF pc # "ended" THEN "none" ELSE IF failed THEN "failure" ELSE "success"

Promise == INSTANCE StagedTasks WITH
    Last <- Len(Groups),
    Tasks <- [g \in GroupIds |-> TasksOf(g)],
    stage <- group,
    outcome <- Outcome

KeepsPromise == Promise!Spec

(***************************************************************************)
(* When a group has been waited for, with or without an error, none of its *)
(* tasks is left in the channel or with a worker; so nothing is sent on    *)
(* the closed channel and nothing uses the stage dropped behind Close.     *)
(***************************************************************************)
NoneOutlivesItsGroup ==
    /\ \A t \in InFlight : t[1] = group
    /\ pc \in {"close", "closing", "ended"} => InFlight = {}

(***************************************************************************)
(* Load returns: no one waits for a future that is never answered, nor for *)
(* room in a channel that no one empties.                                  *)
(***************************************************************************)
Terminates == <>(pc = "ended")
=============================================================================
