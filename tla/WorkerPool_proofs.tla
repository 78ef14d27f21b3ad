------------------------- MODULE WorkerPool_proofs -------------------------
(***************************************************************************)
(* Proofs about WorkerPool, for every set of workers and every list of     *)
(* groups: the types, the order of the stages, that no task outlives its   *)
(* group, and that a load keeps the promise of StagedTasks.                *)
(***************************************************************************)
EXTENDS WorkerPool, FiniteSetTheorems, SequenceTheorems, TLAPS

Queued == {queue[i] : i \in DOMAIN queue}
Waited == {futures[i] : i \in DOMAIN futures}

(***************************************************************************)
(* The inductive invariant.  How far the submission has come:              *)
(***************************************************************************)
Counted ==
    /\ next <= Groups[group].tasks + 1
    /\ pc \in {"drain", "send"} => next <= Groups[group].tasks
    /\ pc = "wait" => failed \/ next > Groups[group].tasks

\* A task in flight was submitted in this group, and its future is waited for.
FlightIsCurrent ==
    \A t \in InFlight :
        /\ t[1] = group /\ t[2] < next
        /\ answers[t] = "none" /\ t \notin performed
        /\ t \in Waited

\* It is in flight once.
OneHolder ==
    /\ \A i, j \in DOMAIN queue : queue[i] = queue[j] => i = j
    /\ \A w \in Workers : hands[w] # NoTask => hands[w] \notin Queued
    /\ \A v, w \in Workers : v # w /\ hands[v] = hands[w] => hands[v] = NoTask

OkIsPerformed == \A t \in AllTasks : answers[t] = "ok" => t \in performed

EarlierComplete == \A g \in 1..(group - 1) : TasksOf(g) \subseteq performed

LaterUntouched ==
    \A t \in AllTasks : t[1] > group \/ (t[1] = group /\ t[2] >= next) =>
        answers[t] = "none" /\ t \notin performed

\* A submitted task is done, or its future is unread, or an error was read.
Accounted ==
    \A t \in TasksOf(group) : t[2] < next => t \in performed \cup Waited \/ first

Ending ==
    pc \in {"close", "closing", "ended"} =>
        /\ futures = <<>>
        /\ failed \/ (group = Len(Groups) /\ TasksOf(group) \subseteq performed)

Kept == /\ FlightIsCurrent /\ OneHolder /\ OkIsPerformed
        /\ EarlierComplete /\ LaterUntouched /\ Accounted

Inv == TypeOK /\ Counted /\ Kept /\ Ending

----------------------------------------------------------------------------
(***************************************************************************)
(* Tasks and the constants.                                                *)
(***************************************************************************)
LEMMA ConstantFacts ==
    /\ Concurrency \in Nat
    /\ Len(Groups) \in Nat \ {0} /\ 1 \in GroupIds
    /\ \A g \in GroupIds : Groups[g].tasks \in Nat /\ Groups[g].limit \in Nat
<1>1. Concurrency \in Nat
  BY PoolAssumption, FS_CardinalityType DEF PoolAssumption, Concurrency
<1>2. Groups \in Seq(GroupType) /\ Groups # <<>>
  BY PoolAssumption DEF PoolAssumption
<1>3. Len(Groups) \in Nat \ {0} /\ 1 \in GroupIds
  BY <1>2 DEF GroupIds
<1>4. \A g \in GroupIds : Groups[g] \in GroupType
  BY <1>2 DEF GroupIds
<1> QED BY <1>1, <1>3, <1>4 DEF GroupType

\* A task is a group and an index; NoTask is none.
LEMMA TaskFacts ==
    /\ \A t \in AllTasks : /\ t = <<t[1], t[2]>> /\ t[1] \in GroupIds
                           /\ t[2] \in 1..Groups[t[1]].tasks
    /\ \A g \in GroupIds, i \in Nat \ {0} : i <= Groups[g].tasks =>
           <<g, i>> \in TasksOf(g) /\ <<g, i>> \in AllTasks
    /\ NoTask \notin AllTasks
    /\ \A g \in GroupIds : \A t \in TasksOf(g) : t \in AllTasks /\ t[1] = g
    /\ \A t \in AllTasks : t \in TasksOf(t[1])
<1>1. \A t \in AllTasks : \E g \in GroupIds : \E i \in 1..Groups[g].tasks : t = <<g, i>>
  BY DEF AllTasks, TasksOf
<1>2. \A g \in GroupIds, i \in Nat \ {0} : i <= Groups[g].tasks =>
          <<g, i>> \in TasksOf(g) /\ <<g, i>> \in AllTasks
  <2> SUFFICES ASSUME NEW g \in GroupIds, NEW i \in Nat \ {0}, i <= Groups[g].tasks
               PROVE  <<g, i>> \in TasksOf(g) /\ <<g, i>> \in AllTasks
    OBVIOUS
  <2>1. i \in 1..Groups[g].tasks
    BY ConstantFacts
  <2>2. <<g, i>> \in TasksOf(g)
    BY <2>1 DEF TasksOf
  <2> QED BY <2>2 DEF AllTasks
<1>3. NoTask \notin AllTasks
  BY <1>1 DEF NoTask, GroupIds
<1>4. \A g \in GroupIds : \A t \in TasksOf(g) : t \in AllTasks /\ t[1] = g
  BY DEF AllTasks, TasksOf
<1>5. \A t \in AllTasks : /\ t = <<t[1], t[2]>> /\ t[1] \in GroupIds
                          /\ t[2] \in 1..Groups[t[1]].tasks
  BY <1>1
<1>6. \A t \in AllTasks : t \in TasksOf(t[1])
  BY <1>5 DEF TasksOf
<1> QED BY <1>2, <1>3, <1>4, <1>5, <1>6

----------------------------------------------------------------------------
(***************************************************************************)
(* Type correctness.                                                       *)
(***************************************************************************)
LEMMA InitType == Init => TypeOK
<1> SUFFICES ASSUME Init PROVE TypeOK
  OBVIOUS
<1>1. group \in GroupIds /\ Len(queue) <= Concurrency
      /\ futures \in Seq(AllTasks) /\ queue \in Seq(AllTasks)
  BY ConstantFacts, EmptySeq DEF Init
<1>2. /\ hands \in [Workers -> AllTasks \cup {NoTask}]
      /\ state \in [Workers -> {"idle", "taken", "running", "gone"}]
      /\ \A w \in Workers : hands[w] = NoTask <=> state[w] \in {"idle", "gone"}
      /\ answers \in [AllTasks -> {"none", "ok", "error"}]
      /\ cancelled \in [GroupIds -> BOOLEAN]
      /\ performed \in SUBSET AllTasks
  BY DEF Init
<1>3. /\ first \in BOOLEAN /\ failed \in BOOLEAN
      /\ interrupted \in BOOLEAN /\ closed \in BOOLEAN
  BY Zenon DEF Init
<1>4. pc = "submit" /\ next \in Nat \ {0}
  BY DEF Init
<1> QED BY <1>1, <1>2, <1>3, <1>4 DEF TypeOK

\* The types without those of the workers, which no step of the caller disturbs.
LEMMA CallerType == TypeOK /\ Counted /\ (CallerNext \/ WalkFails \/ Interrupt) => TypeOK'
<1> SUFFICES ASSUME TypeOK, Counted, CallerNext \/ WalkFails \/ Interrupt PROVE TypeOK'
  OBVIOUS
<1> USE DEF TypeOK, workerVars, callerVars
<1>1. CASE Submit \/ SubmitDrained \/ AllSubmitted \/ Close \/ CloseReturns
  BY <1>1 DEF Submit, SubmitDrained, AllSubmitted, Close, CloseReturns
<1>2. CASE Drain
  <2>1. futures' \in Seq(AllTasks)
    BY <1>2 DEF Drain
  <2>2. first' \in BOOLEAN /\ cancelled' \in [GroupIds -> BOOLEAN]
    BY <1>2 DEF Drain, Capture
  <2> QED BY <1>2, <2>1, <2>2 DEF Drain
<1>3. CASE Send
  <2>1. <<group, next>> \in AllTasks
    BY <1>3, TaskFacts DEF Counted, Send
  <2> QED BY <1>3, <2>1, ConstantFacts DEF Send
<1>4. CASE SendCancelled \/ WalkFails \/ Interrupt
  BY <1>4 DEF SendCancelled, WalkFails, Interrupt, Capture
<1>5. CASE WaitReturns
  <2>1. group < Len(Groups) => group + 1 \in GroupIds
    BY ConstantFacts DEF GroupIds
  <2>2. group # Len(Groups) => group < Len(Groups)
    BY ConstantFacts DEF GroupIds
  <2>3. cancelled' \in [GroupIds -> BOOLEAN] /\ failed' \in BOOLEAN
    BY <1>5 DEF WaitReturns
  <2>4. /\ pc' \in {"close", "submit"} /\ group' \in GroupIds /\ next' \in Nat \ {0}
        /\ futures' \in Seq(AllTasks) /\ first' \in BOOLEAN
    <3>1. CASE failed' \/ group = Len(Groups)
      BY <1>5, <3>1 DEF WaitReturns
    <3>2. CASE ~(failed' \/ group = Len(Groups))
      <4>1. /\ pc' = "submit" /\ group' = group + 1 /\ next' = 1
            /\ futures' = <<>> /\ first' = FALSE
        BY <1>5, <3>2 DEF WaitReturns
      <4>2. futures' \in Seq(AllTasks)
        BY <4>1, EmptySeq
      <4>3. group' \in GroupIds
        BY <2>1, <2>2, <3>2, <4>1
      <4>4. first' \in BOOLEAN
        BY <4>1, Zenon
      <4> QED BY <4>1, <4>2, <4>3, <4>4
    <3> QED BY <3>1, <3>2
  <2> QED BY <1>5, <2>3, <2>4 DEF WaitReturns
<1> QED BY <1>1, <1>2, <1>3, <1>4, <1>5 DEF CallerNext

LEMMA AnswerType ==
    ASSUME TypeOK, NEW w \in Workers, NEW a \in {"ok", "error"},
           state[w] \in {"taken", "running"}, Answer(w, a),
           UNCHANGED <<callerVars, cancelled, interrupted, queue, closed>>,
           performed' \in SUBSET AllTasks
    PROVE  TypeOK'
<1>1. answers' \in [AllTasks -> {"none", "ok", "error"}]
  BY DEF TypeOK, Answer
<1>2. /\ hands' \in [Workers -> AllTasks \cup {NoTask}]
      /\ state' \in [Workers -> {"idle", "taken", "running", "gone"}]
      /\ \A v \in Workers : hands'[v] = NoTask <=> state'[v] \in {"idle", "gone"}
  BY DEF TypeOK, Answer
<1> QED BY <1>1, <1>2 DEF TypeOK, callerVars

LEMMA WorkerType ==
    ASSUME TypeOK, NEW w \in Workers, WorkerNext(w)
    PROVE  TypeOK'
<1>1. CASE Take(w)
  <2>1. Head(queue) \in AllTasks /\ Tail(queue) \in Seq(AllTasks)
        /\ Len(Tail(queue)) <= Concurrency
    BY <1>1, ConstantFacts DEF Take, TypeOK
  <2>2. /\ hands' \in [Workers -> AllTasks \cup {NoTask}]
        /\ state' \in [Workers -> {"idle", "taken", "running", "gone"}]
        /\ \A v \in Workers : hands'[v] = NoTask <=> state'[v] \in {"idle", "gone"}
    BY <1>1, <2>1, TaskFacts DEF Take, TypeOK
  <2> QED BY <1>1, <2>1, <2>2 DEF Take, TypeOK, callerVars
<1>2. CASE Decide(w)
  <2>1. CASE Done(hands[w][1])
    BY <1>2, <2>1, AnswerType DEF Decide, Refuse, TypeOK
  <2>2. CASE ~Done(hands[w][1])
    BY <1>2, <2>2 DEF Decide, TypeOK, callerVars
  <2> QED BY <2>1, <2>2
<1>3. CASE Succeed(w)
  <2>1. hands[w] \in AllTasks
    BY <1>3 DEF Succeed, TypeOK
  <2>2. performed' \in SUBSET AllTasks
    BY <1>3, <2>1 DEF Succeed, TypeOK
  <2> QED BY <1>3, <2>2, AnswerType DEF Succeed
<1>4. CASE FailTask(w)
  BY <1>4, AnswerType DEF FailTask, TypeOK
<1>5. CASE Leave(w)
  BY <1>5 DEF Leave, TypeOK, callerVars
<1> QED BY <1>1, <1>2, <1>3, <1>4, <1>5 DEF WorkerNext

----------------------------------------------------------------------------
(***************************************************************************)
(* The steps of the caller that leave tasks, futures and answers alone.    *)
(***************************************************************************)
LEMMA QuietKeeps ==
    ASSUME Kept, first => first',
           UNCHANGED <<group, next, futures, queue, hands, answers, performed>>
    PROVE  Kept'
<1>1. InFlight' = InFlight /\ Waited' = Waited /\ Queued' = Queued
  BY DEF InFlight, Waited, Queued
<1>2. FlightIsCurrent' /\ OneHolder' /\ OkIsPerformed'
  BY <1>1 DEF Kept, FlightIsCurrent, OneHolder, OkIsPerformed
<1>3. EarlierComplete' /\ LaterUntouched' /\ Accounted'
  BY <1>1 DEF Kept, EarlierComplete, LaterUntouched, Accounted
<1> QED BY <1>2, <1>3 DEF Kept

LEMMA QuietSteps ==
    ASSUME Inv, Submit \/ SubmitDrained \/ SendCancelled \/ WalkFails \/ AllSubmitted
                \/ Close \/ CloseReturns \/ Interrupt
    PROVE  Inv'
<1> USE DEF workerVars, callerVars
<1>1. TypeOK'
  BY CallerType DEF Inv, CallerNext
<1>2. Kept'
  <2>1. UNCHANGED <<group, next, futures, queue, hands, answers, performed>>
    BY DEF Submit, SubmitDrained, SendCancelled, WalkFails, AllSubmitted, Close,
           CloseReturns, Interrupt
  <2>2. first => first'
    BY DEF Submit, SubmitDrained, SendCancelled, Capture, WalkFails, AllSubmitted,
           Close, CloseReturns, Interrupt
  <2> QED BY <2>1, <2>2, QuietKeeps DEF Inv
<1>3. Counted' /\ Ending'
  BY ConstantFacts DEF Inv, TypeOK, Counted, Ending, Submit, SubmitDrained, SendCancelled,
         Capture, WalkFails, AllSubmitted, Close, CloseReturns, Interrupt
<1> QED BY <1>1, <1>2, <1>3 DEF Inv

\* Reading an answer.
LEMMA DrainStep == ASSUME Inv, Drain PROVE Inv'
<1> USE DEF workerVars
<1> DEFINE head == Head(futures)
<1>1. TypeOK'
  BY CallerType DEF Inv, CallerNext
<1>2. InFlight' = InFlight /\ Queued' = Queued
  BY DEF Drain, InFlight, Queued
<1>3. head \in AllTasks /\ answers[head] # "none"
  BY DEF Drain, Inv, TypeOK
<1>4. \A t \in Waited : t = head \/ t \in Waited'
  <2> SUFFICES ASSUME NEW i \in DOMAIN futures, futures[i] # head
               PROVE  futures[i] \in Waited'
    BY DEF Waited
  <2>1. i # 1 /\ futures' = Tail(futures) /\ futures \in Seq(AllTasks)
    BY DEF Drain, Inv, TypeOK
  <2>2. i - 1 \in DOMAIN futures' /\ futures'[i - 1] = futures[i]
    BY <2>1
  <2> QED BY <2>2 DEF Waited
<1>5. FlightIsCurrent' /\ OneHolder' /\ OkIsPerformed'
  BY <1>2, <1>3, <1>4 DEF Drain, Inv, Kept, FlightIsCurrent, OneHolder, OkIsPerformed
<1>6. EarlierComplete' /\ LaterUntouched'
  BY DEF Drain, Inv, Kept, EarlierComplete, LaterUntouched
<1>7. Accounted'
  <2>1. answers[head] = "error" => first'
    BY DEF Drain, Capture
  <2>2. head \in performed \/ first'
    BY <1>3, <2>1 DEF Inv, Kept, OkIsPerformed, TypeOK
  <2>3. first => first'
    BY DEF Drain, Capture
  <2> QED BY <1>4, <2>2, <2>3 DEF Drain, Inv, Kept, Accounted
<1>8. Counted' /\ Ending'
  BY DEF Drain, Inv, Counted, Ending
<1> QED BY <1>1, <1>5, <1>6, <1>7, <1>8 DEF Inv, Kept

\* Submitting a task: it is new, in the channel as among the futures.
LEMMA SendStep == ASSUME Inv, Send PROVE Inv'
<1> USE DEF workerVars
<1> DEFINE task == <<group, next>>
<1>1. TypeOK'
  BY CallerType DEF Inv, CallerNext
<1>2. /\ task \in TasksOf(group) /\ task \in AllTasks
      /\ answers[task] = "none" /\ task \notin performed
      /\ next + 1 <= Groups[group].tasks + 1
  BY ConstantFacts, TaskFacts DEF Send, Inv, Kept, TypeOK, Counted, LaterUntouched
<1>3. task \notin InFlight
  BY DEF Inv, Kept, FlightIsCurrent, TypeOK
<1>4. /\ Len(queue') = Len(queue) + 1 /\ queue'[Len(queue) + 1] = task
      /\ \A i \in 1..Len(queue) : queue'[i] = queue[i]
      /\ DOMAIN queue' = 1..(Len(queue) + 1) /\ DOMAIN queue = 1..Len(queue)
      /\ Len(queue) \in Nat
  BY <1>2, AppendProperties DEF Send, Inv, TypeOK
<1>5. Queued' = Queued \cup {task}
  <2>1. ASSUME NEW x \in Queued' PROVE x \in Queued \cup {task}
    <3>1. PICK i \in 1..(Len(queue) + 1) : x = queue'[i]
      BY <1>4 DEF Queued
    <3>2. CASE i = Len(queue) + 1
      BY <1>4, <3>1, <3>2
    <3>3. CASE i # Len(queue) + 1
      <4>1. i \in 1..Len(queue)
        BY <1>4, <3>3
      <4> QED BY <1>4, <3>1, <4>1 DEF Queued
    <3> QED BY <3>2, <3>3
  <2>2. Len(queue) + 1 \in DOMAIN queue' /\ DOMAIN queue \subseteq DOMAIN queue'
    BY <1>4
  <2>3. Queued \cup {task} \subseteq Queued'
    BY <1>4, <2>2 DEF Queued
  <2> QED BY <2>1, <2>3
<1>6. InFlight' = InFlight \cup {task}
  BY <1>5 DEF InFlight, Queued, Send
<1>7. Waited' = Waited \cup {task}
  <2>1. /\ Len(futures') = Len(futures) + 1 /\ futures'[Len(futures) + 1] = task
        /\ \A i \in 1..Len(futures) : futures'[i] = futures[i]
        /\ DOMAIN futures' = 1..(Len(futures) + 1) /\ DOMAIN futures = 1..Len(futures)
        /\ Len(futures) \in Nat
    BY <1>2, AppendProperties DEF Send, Inv, TypeOK
  <2>2. ASSUME NEW x \in Waited' PROVE x \in Waited \cup {task}
    <3>1. PICK i \in 1..(Len(futures) + 1) : x = futures'[i]
      BY <2>1 DEF Waited
    <3>2. CASE i = Len(futures) + 1
      BY <2>1, <3>1, <3>2
    <3>3. CASE i # Len(futures) + 1
      <4>1. i \in 1..Len(futures)
        BY <2>1, <3>3
      <4> QED BY <2>1, <3>1, <4>1 DEF Waited
    <3> QED BY <3>2, <3>3
  <2>3. Len(futures) + 1 \in DOMAIN futures' /\ DOMAIN futures \subseteq DOMAIN futures'
    BY <2>1
  <2>4. Waited \cup {task} \subseteq Waited'
    BY <2>1, <2>3 DEF Waited
  <2> QED BY <2>2, <2>4
<1>8. FlightIsCurrent'
  <2> SUFFICES ASSUME NEW t \in InFlight \cup {task}
               PROVE  /\ t[1] = group /\ t[2] < next + 1
                      /\ answers[t] = "none" /\ t \notin performed
                      /\ t \in Waited \cup {task}
    BY <1>6, <1>7 DEF Send, FlightIsCurrent
  <2>1. CASE t = task
    BY <1>2, <2>1 DEF Inv, TypeOK
  <2>2. CASE t \in InFlight
    <3>1. t \in AllTasks
      BY <2>2 DEF InFlight, Inv, TypeOK
    <3>2. t[2] \in Nat
      BY <3>1, TaskFacts, ConstantFacts
    <3> QED BY <2>2, <3>2 DEF Inv, Kept, FlightIsCurrent, TypeOK
  <2> QED BY <2>1, <2>2
<1>9. OneHolder'
  <2>1. \A i \in 1..Len(queue) : queue[i] # task
    BY <1>3, <1>4 DEF InFlight
  <2>2. \A i, j \in DOMAIN queue' : queue'[i] = queue'[j] => i = j
    BY <1>4, <2>1 DEF Inv, Kept, OneHolder
  <2>3. \A w \in Workers : hands[w] # NoTask => hands[w] \notin Queued'
    BY <1>3, <1>5 DEF Inv, Kept, OneHolder, InFlight
  <2> QED BY <2>2, <2>3 DEF Send, Inv, Kept, OneHolder
<1>10. OkIsPerformed' /\ EarlierComplete'
  BY DEF Send, Inv, Kept, OkIsPerformed, EarlierComplete
<1>11. LaterUntouched'
  BY TaskFacts DEF Send, Inv, Kept, LaterUntouched, TypeOK
<1>12. Accounted'
  <2> SUFFICES ASSUME NEW t \in TasksOf(group), t[2] < next + 1
               PROVE  t \in performed \cup Waited' \/ first
    BY DEF Send, Accounted
  <2>1. t[1] = group /\ t[2] \in Nat /\ t = <<t[1], t[2]>>
    BY TaskFacts, ConstantFacts DEF Inv, TypeOK
  <2>2. CASE t[2] < next
    BY <1>7, <2>2 DEF Inv, Kept, Accounted
  <2>3. CASE t[2] = next
    BY <1>7, <2>1, <2>3
  <2> QED BY <2>1, <2>2, <2>3 DEF Inv, TypeOK
<1>13. Counted' /\ Ending'
  BY <1>2 DEF Send, Inv, Counted, Ending
<1> QED BY <1>1, <1>8, <1>9, <1>10, <1>11, <1>12, <1>13 DEF Inv, Kept

\* A group without an error is complete when it has been waited for.
LEMMA WaitedGroupIsComplete ==
    ASSUME Inv, WaitReturns, ~failed'
    PROVE  TasksOf(group) \subseteq performed
<1>1. ~failed /\ ~first /\ next > Groups[group].tasks /\ Waited = {}
  BY DEF WaitReturns, Drained, Inv, Counted, Waited, TypeOK
<1>2. \A t \in TasksOf(group) : t[2] < next
  BY <1>1, TaskFacts, ConstantFacts DEF Inv, TypeOK
<1> QED BY <1>1, <1>2 DEF Inv, Kept, Accounted

LEMMA WaitStep == ASSUME Inv, WaitReturns PROVE Inv'
<1> USE DEF workerVars
<1>1. TypeOK'
  BY CallerType DEF Inv, CallerNext
<1>2. InFlight = {} /\ futures = <<>>
  BY DEF WaitReturns, Drained, Inv, Kept, FlightIsCurrent, Waited
<1>3. InFlight' = InFlight /\ Queued' = Queued
  BY DEF WaitReturns, InFlight, Queued
<1>4. FlightIsCurrent' /\ OneHolder' /\ OkIsPerformed'
  BY <1>2, <1>3 DEF WaitReturns, Inv, Kept, FlightIsCurrent, OneHolder, OkIsPerformed
<1>5. CASE pc' = "close"
  <2>1. UNCHANGED <<group, next, futures, first>>
    BY <1>5 DEF WaitReturns
  <2>2. Waited' = Waited
    BY <2>1 DEF Waited
  <2>3. EarlierComplete' /\ LaterUntouched' /\ Accounted'
    BY <2>1, <2>2 DEF WaitReturns, Inv, Kept, EarlierComplete, LaterUntouched, Accounted
  <2>4. Counted' /\ Ending'
    BY <1>2, <1>5, <2>1, WaitedGroupIsComplete DEF WaitReturns, Inv, Counted, Ending
  <2> QED BY <1>1, <1>4, <2>3, <2>4 DEF Inv, Kept
<1>6. CASE pc' # "close"
  <2>1. /\ ~failed' /\ group' = group + 1 /\ next' = 1 /\ futures' = <<>>
        /\ first' = FALSE /\ pc' = "submit"
    BY <1>6 DEF WaitReturns
  <2>2. TasksOf(group) \subseteq performed
    BY <2>1, WaitedGroupIsComplete
  <2>3. EarlierComplete'
    <3> SUFFICES ASSUME NEW g \in 1..group PROVE TasksOf(g) \subseteq performed
      BY <2>1, ConstantFacts DEF EarlierComplete, WaitReturns, Inv, TypeOK, GroupIds
    <3>1. CASE g = group
      BY <2>2, <3>1
    <3>2. CASE g # group
      BY <3>2, ConstantFacts DEF Inv, Kept, EarlierComplete, TypeOK, GroupIds
    <3> QED BY <3>1, <3>2
  <2>4. LaterUntouched'
    <3> SUFFICES ASSUME NEW t \in AllTasks, t[1] >= group + 1
                 PROVE  answers[t] = "none" /\ t \notin performed
      BY <2>1, TaskFacts, ConstantFacts DEF LaterUntouched, WaitReturns, Inv, TypeOK, GroupIds
    <3>1. t[1] > group
      BY TaskFacts, ConstantFacts DEF Inv, TypeOK, GroupIds
    <3> QED BY <3>1 DEF Inv, Kept, LaterUntouched
  <2>5. Accounted'
    <3> SUFFICES ASSUME NEW t \in TasksOf(group'), t[2] < 1 PROVE FALSE
      BY <2>1 DEF Accounted
    <3>1. t \in AllTasks
      BY <1>1, TaskFacts DEF TypeOK
    <3> QED BY <3>1, TaskFacts, ConstantFacts
  <2>6. Counted' /\ Ending'
    BY <1>1, <2>1, ConstantFacts DEF Counted, Ending, TypeOK
  <2> QED BY <1>1, <1>4, <2>3, <2>4, <2>5, <2>6 DEF Inv, Kept
<1> QED BY <1>5, <1>6

----------------------------------------------------------------------------
(***************************************************************************)
(* The steps of a worker.  They leave the caller where it is.              *)
(***************************************************************************)
LEMMA TakeStep == ASSUME Inv, NEW w \in Workers, Take(w) PROVE Inv'
<1> DEFINE head == Head(queue)
<1>1. TypeOK'
  BY WorkerType DEF Inv, WorkerNext
<1>2. /\ queue \in Seq(AllTasks) /\ queue # <<>> /\ Len(queue) \in Nat \ {0}
      /\ DOMAIN queue = 1..Len(queue) /\ head = queue[1] /\ head \in AllTasks
      /\ queue' = Tail(queue) /\ DOMAIN queue' = 1..(Len(queue) - 1)
      /\ \A i \in 1..(Len(queue) - 1) : queue'[i] = queue[i + 1]
  BY HeadTailProperties DEF Take, Inv, TypeOK
<1>3. /\ hands' = [hands EXCEPT ![w] = head] /\ hands[w] = NoTask
      /\ hands \in [Workers -> AllTasks \cup {NoTask}] /\ head # NoTask
  BY <1>2, TaskFacts DEF Take, Inv, TypeOK
<1>4. head \in Queued /\ head \notin Queued' /\ Queued' \subseteq Queued
  <2>1. head \in Queued
    BY <1>2 DEF Queued
  <2>2. ASSUME NEW x \in Queued' PROVE x \in Queued /\ x # head
    <3>1. PICK i \in 1..(Len(queue) - 1) : x = queue[i + 1]
      BY <1>2 DEF Queued
    <3>2. i + 1 \in DOMAIN queue /\ 1 \in DOMAIN queue /\ i + 1 # 1
      BY <1>2
    <3> QED BY <1>2, <3>1, <3>2 DEF Queued, Inv, Kept, OneHolder
  <2> QED BY <2>1, <2>2
<1>5. InFlight' \subseteq InFlight
  BY <1>3, <1>4 DEF InFlight, Queued
<1>6. FlightIsCurrent'
  BY <1>5 DEF Take, callerVars, Inv, Kept, FlightIsCurrent, Waited
<1>7. OneHolder'
  <2>1. \A i, j \in DOMAIN queue' : queue'[i] = queue'[j] => i = j
    <3> SUFFICES ASSUME NEW i \in 1..(Len(queue) - 1), NEW j \in 1..(Len(queue) - 1),
                        queue[i + 1] = queue[j + 1]
                 PROVE  i = j
      BY <1>2
    <3>1. i + 1 \in DOMAIN queue /\ j + 1 \in DOMAIN queue
      BY <1>2
    <3>2. i + 1 = j + 1
      BY <3>1 DEF Inv, Kept, OneHolder
    <3> QED BY <3>2, <1>2
  <2>2. \A v \in Workers : hands'[v] # NoTask => hands'[v] \notin Queued'
    BY <1>3, <1>4 DEF Inv, Kept, OneHolder
  <2>3. \A u, v \in Workers : u # v /\ hands'[u] = hands'[v] => hands'[u] = NoTask
    BY <1>3, <1>4 DEF Inv, Kept, OneHolder
  <2> QED BY <2>1, <2>2, <2>3 DEF OneHolder
<1>8. OkIsPerformed' /\ EarlierComplete' /\ LaterUntouched' /\ Accounted'
  BY DEF Take, callerVars, Inv, Kept, OkIsPerformed, EarlierComplete, LaterUntouched,
         Accounted, Waited
<1>9. Counted' /\ Ending'
  BY DEF Take, callerVars, Inv, Counted, Ending
<1> QED BY <1>1, <1>6, <1>7, <1>8, <1>9 DEF Inv, Kept

\* A task at work is in flight.
LEMMA AtWork ==
    ASSUME Inv, NEW w \in Workers, state[w] \in {"taken", "running"}
    PROVE  /\ hands[w] \in InFlight /\ hands[w] \in TasksOf(group)
           /\ hands[w] \in AllTasks /\ hands[w][1] = group /\ hands[w][2] < next
           /\ answers[hands[w]] = "none" /\ hands[w] \notin performed
<1>1. hands[w] # NoTask /\ hands[w] \in AllTasks
  BY DEF Inv, TypeOK
<1>2. hands[w] \in InFlight
  BY <1>1 DEF InFlight
<1> QED BY <1>1, <1>2, TaskFacts DEF Inv, Kept, FlightIsCurrent

\* An answer takes the task out of flight; "ok" comes with its effect.
LEMMA AnswerStep ==
    ASSUME Inv, TypeOK', NEW w \in Workers, state[w] \in {"taken", "running"},
           NEW a \in {"ok", "error"}, Answer(w, a),
           performed' = performed \/ performed' = performed \cup {hands[w]},
           a = "ok" => hands[w] \in performed',
           UNCHANGED <<callerVars, queue>>
    PROVE  Inv'
<1> DEFINE task == hands[w]
<1>1. /\ task \in InFlight /\ task \in AllTasks /\ task[1] = group /\ task[2] < next
      /\ task # NoTask
  BY AtWork, TaskFacts
<1>2. /\ hands' = [hands EXCEPT ![w] = NoTask] /\ answers' = [answers EXCEPT ![task] = a]
      /\ hands \in [Workers -> AllTasks \cup {NoTask}]
      /\ answers \in [AllTasks -> {"none", "ok", "error"}]
  BY DEF Answer, Inv, TypeOK
<1>3. Queued' = Queued /\ Waited' = Waited
  BY DEF Queued, Waited, callerVars
<1>4. task \notin Queued /\ \A v \in Workers : v # w => hands[v] # task
  BY <1>1 DEF Inv, Kept, OneHolder
<1>5. InFlight' \subseteq InFlight \ {task}
  BY <1>2, <1>3, <1>4 DEF InFlight, Queued
<1>6. FlightIsCurrent'
  <2> SUFFICES ASSUME NEW t \in InFlight, t # task
               PROVE  /\ t[1] = group /\ t[2] < next
                      /\ answers'[t] = "none" /\ t \notin performed' /\ t \in Waited
    BY <1>3, <1>5 DEF FlightIsCurrent, callerVars
  <2>1. t \in AllTasks
    BY DEF Inv, TypeOK, InFlight
  <2> QED BY <1>2, <2>1 DEF Inv, Kept, FlightIsCurrent
<1>7. OneHolder'
  BY <1>2, <1>3 DEF Inv, Kept, OneHolder
<1>8. OkIsPerformed'
  BY <1>2 DEF Inv, Kept, OkIsPerformed
<1>9. EarlierComplete' /\ Accounted'
  BY <1>3 DEF Inv, Kept, EarlierComplete, Accounted, callerVars
<1>10. LaterUntouched'
  <2> SUFFICES ASSUME NEW t \in AllTasks, t[1] > group \/ (t[1] = group /\ t[2] >= next)
               PROVE  answers'[t] = "none" /\ t \notin performed'
    BY DEF LaterUntouched, callerVars
  <2>1. group \in Nat /\ next \in Nat /\ t[1] \in Nat /\ t[2] \in Nat
    BY TaskFacts, ConstantFacts DEF Inv, TypeOK, GroupIds
  <2>2. t # task
    BY <1>1, <2>1
  <2> QED BY <1>2, <2>2 DEF Inv, Kept, LaterUntouched
<1>11. Counted' /\ Ending'
  BY DEF Inv, Counted, Ending, callerVars
<1> QED BY <1>6, <1>7, <1>8, <1>9, <1>10, <1>11 DEF Inv, Kept

LEMMA WorkerStep == ASSUME Inv, NEW w \in Workers, WorkerNext(w) PROVE Inv'
<1>0. TypeOK'
  BY WorkerType DEF Inv
<1>1. CASE Take(w)
  BY <1>1, TakeStep
<1>2. CASE Decide(w)
  <2>1. CASE Done(hands[w][1])
    BY <1>0, <1>2, <2>1, AnswerStep DEF Decide, Refuse
  <2>2. CASE ~Done(hands[w][1])
    <3>1. UNCHANGED <<callerVars, queue, hands, answers, performed>>
      BY <1>2, <2>2 DEF Decide
    <3> QED BY <1>0, <3>1, QuietKeeps DEF callerVars, Inv, Counted, Ending
  <2> QED BY <2>1, <2>2
<1>3. CASE Succeed(w)
  BY <1>0, <1>3, AnswerStep DEF Succeed
<1>4. CASE FailTask(w)
  BY <1>0, <1>4, AnswerStep DEF FailTask
<1>5. CASE Leave(w)
  <2>1. UNCHANGED <<callerVars, queue, hands, answers, performed>>
    BY <1>5 DEF Leave
  <2> QED BY <1>0, <2>1, QuietKeeps DEF callerVars, Inv, Counted, Ending
<1> QED BY <1>1, <1>2, <1>3, <1>4, <1>5 DEF WorkerNext

----------------------------------------------------------------------------
LEMMA InitInv == Init => Inv
<1> SUFFICES ASSUME Init PROVE Inv
  OBVIOUS
<1>1. TypeOK
  BY InitType
<1>2. InFlight = {} /\ DOMAIN queue = {}
  BY EmptySeq DEF Init, InFlight
<1>3. FlightIsCurrent /\ OneHolder
  BY <1>2 DEF Init, FlightIsCurrent, OneHolder
<1>4. OkIsPerformed /\ EarlierComplete /\ LaterUntouched
  BY DEF Init, OkIsPerformed, EarlierComplete, LaterUntouched
<1>5. Accounted
  <2> SUFFICES ASSUME NEW t \in TasksOf(1), t[2] < 1 PROVE FALSE
    BY DEF Init, Accounted
  <2> QED BY TaskFacts, ConstantFacts
<1>6. Counted /\ Ending
  BY ConstantFacts DEF Init, Counted, Ending
<1> QED BY <1>1, <1>3, <1>4, <1>5, <1>6 DEF Inv, Kept

LEMMA NextInv == Inv /\ [Next \/ Ended]_vars => Inv'
<1> SUFFICES ASSUME Inv, [Next \/ Ended]_vars PROVE Inv'
  OBVIOUS
<1>1. CASE CallerNext \/ WalkFails \/ Interrupt
  BY <1>1, QuietSteps, DrainStep, SendStep, WaitStep DEF CallerNext
<1>2. ASSUME NEW w \in Workers, WorkerNext(w) PROVE Inv'
  BY <1>2, WorkerStep
<1>3. CASE UNCHANGED vars
  <2>1. UNCHANGED <<group, next, futures, queue, hands, answers, performed, first>>
    BY <1>3 DEF vars
  <2>2. Kept'
    BY <2>1, QuietKeeps DEF Inv
  <2>3. TypeOK' /\ Counted' /\ Ending'
    BY <1>3 DEF vars, Inv, TypeOK, Counted, Ending
  <2> QED BY <2>2, <2>3 DEF Inv
<1> QED BY <1>1, <1>2, <1>3 DEF Next, Ended

LEMMA Invariance == Spec => []Inv
BY InitInv, NextInv, PTL DEF Spec

(***************************************************************************)
(* The types; a worker holds a task exactly while it handles one.          *)
(***************************************************************************)
THEOREM TypesHold == Spec => []TypeOK
<1>1. Inv => TypeOK
  BY DEF Inv
<1> QED BY <1>1, Invariance, PTL

(***************************************************************************)
(* A task runs only when the groups before it are complete, for any number *)
(* of workers and groups (snapshot Load, incremental run).                 *)
(***************************************************************************)
THEOREM StagesDoNotOverlap == Spec => []StagesInOrder
<1>1. Inv => StagesInOrder
  BY AtWork DEF StagesInOrder, Inv, Kept, EarlierComplete
<1> QED BY <1>1, Invariance, PTL

(***************************************************************************)
(* Nothing of a group is left in the channel or with a worker when Wait    *)
(* has returned, so Close finds no task (pool.go).                         *)
(***************************************************************************)
THEOREM GroupsAreDrained == Spec => []NoneOutlivesItsGroup
<1>1. Inv => NoneOutlivesItsGroup
  <2> SUFFICES ASSUME Inv PROVE NoneOutlivesItsGroup
    OBVIOUS
  <2>1. pc \in {"close", "closing", "ended"} => Waited = {}
    BY EmptySeq DEF Inv, Ending, Waited
  <2> QED BY <2>1 DEF Inv, Kept, FlightIsCurrent, NoneOutlivesItsGroup
<1> QED BY <1>1, Invariance, PTL

----------------------------------------------------------------------------
(***************************************************************************)
(* The refinement of StagedTasks.                                          *)
(***************************************************************************)
LEMMA PromisedSteps == Inv /\ [Next \/ Ended]_vars => [Promise!Next]_(Promise!vars)
<1> SUFFICES ASSUME Inv, [Next \/ Ended]_vars,
                    ~UNCHANGED <<group, performed, Outcome>>
             PROVE  Promise!Next
  BY DEF Promise!vars
<1> DEFINE tasks == [g \in GroupIds |-> TasksOf(g)]
<1>0. group \in GroupIds /\ tasks[group] = TasksOf(group)
  BY DEF Inv, TypeOK
<1>1. ASSUME NEW w \in Workers, Succeed(w)
      PROVE  Promise!Next
  <2>1. hands[w] \in TasksOf(group) /\ hands[w] \notin performed /\ pc # "ended"
    BY <1>1, AtWork, EmptySeq DEF Succeed, Inv, Kept, FlightIsCurrent, Ending, Waited
  <2>2. Outcome = "none" /\ Outcome' = Outcome
    BY <1>1, <2>1 DEF Outcome, Succeed, callerVars
  <2>3. Promise!Perform(hands[w])
    BY <1>0, <1>1, <2>1, <2>2 DEF Promise!Perform, Succeed, callerVars
  <2> QED BY <1>0, <2>1, <2>3 DEF Promise!Next
<1>2. CASE WaitReturns
  <2>1. Outcome = "none" /\ Outcome' = "none" /\ performed' = performed
    BY <1>2 DEF WaitReturns, Outcome, workerVars
  <2>2. ~failed' /\ group # Len(Groups) /\ group' = group + 1
    BY <1>2, <2>1 DEF WaitReturns
  <2>3. TasksOf(group) \subseteq performed /\ group < Len(Groups)
    BY <1>0, <1>2, <2>2, WaitedGroupIsComplete, ConstantFacts DEF GroupIds
  <2>4. Promise!NextStage
    BY <1>0, <2>1, <2>2, <2>3 DEF Promise!NextStage, Promise!Complete
  <2> QED BY <2>4 DEF Promise!Next
<1>3. CASE CloseReturns
  <2>1. /\ Outcome = "none" /\ UNCHANGED <<group, performed, failed>>
        /\ Outcome' = IF failed THEN "failure" ELSE "success"
    BY <1>3 DEF CloseReturns, Outcome, workerVars
  <2>2. CASE failed
    BY <2>1, <2>2 DEF Promise!Next, Promise!Fail
  <2>3. CASE ~failed
    <3>1. group = Len(Groups) /\ TasksOf(group) \subseteq performed
      BY <1>3, <2>3 DEF CloseReturns, Inv, Ending
    <3>2. Promise!Succeed
      BY <1>0, <2>1, <2>3, <3>1 DEF Promise!Succeed, Promise!Complete
    <3> QED BY <3>2 DEF Promise!Next
  <2> QED BY <2>2, <2>3
<1>4. CASE Submit \/ Drain \/ SubmitDrained \/ Send \/ SendCancelled \/ AllSubmitted
               \/ WalkFails \/ Close
  <2>1. pc # "ended" /\ pc' # "ended" /\ UNCHANGED <<group, performed>>
    BY <1>4 DEF Submit, Drain, SubmitDrained, Send, SendCancelled, AllSubmitted,
                WalkFails, Close, workerVars
  <2> QED BY <2>1 DEF Outcome
<1>5. CASE Interrupt \/ UNCHANGED vars
  BY <1>5 DEF Interrupt, vars, callerVars, workerVars, Outcome
<1>6. ASSUME NEW w \in Workers, Take(w) \/ Decide(w) \/ FailTask(w) \/ Leave(w)
      PROVE  FALSE
  BY <1>6 DEF Take, Decide, FailTask, Leave, callerVars, Outcome
<1> QED
  BY <1>1, <1>2, <1>3, <1>4, <1>5, <1>6 DEF Next, CallerNext, WorkerNext, Ended

(***************************************************************************)
(* A load keeps the promise of StagedTasks: whatever fails or is cancelled,*)
(* no task is done out of its stage or twice, and success means every task *)
(* of every stage.                                                         *)
(***************************************************************************)
THEOREM LoadKeepsPromise == Spec => KeepsPromise
<1>1. Init => Promise!Init
  BY DEF Init, Promise!Init, Outcome
<1> QED BY <1>1, Invariance, PromisedSteps, PTL DEF Spec, KeepsPromise, Promise!Spec
=============================================================================
