-------------------------- MODULE ThreadPool_proofs --------------------------
(***************************************************************************)
(* Proofs about ThreadPool, for every set of workers and every bound.      *)
(***************************************************************************)
EXTENDS ThreadPool, SequenceTheorems, TLAPS

\* What the locking protocol maintains and the properties rest on: a worker
\* between its wait predicate and its sleep, or gone, left the queue empty, and
\* only the owner clears the flag, after its last submit().
LockProtocol ==
  /\ \A w \in Workers : pc[w] \in {"blocking", "exited"} => tasks = <<>>
  /\ \A w \in Workers : pc[w] = "exited" => ~running
  /\ ~running <=> owner \in {"join", "stopped"}
  /\ owner = "stopped" => \A w \in Workers : pc[w] = "exited"

IInv == TypeOK /\ LockProtocol /\ TasksConserved /\ NoStrandedTask

-----------------------------------------------------------------------------
\* The first task of a non-empty queue is the next one in submission order, and
\* taking it leaves the queue in the same form.
LEMMA QueueHead ==
  ASSUME TypeOK, TasksConserved, tasks # <<>>
  PROVE  /\ Head(tasks) = Taken + 1
         /\ Taken \in 0..(MaxTasks - 1)
         /\ Taken + 1 \in 1..submitted
         /\ Tail(tasks) \in Seq(1..MaxTasks)
         /\ Len(Tail(tasks)) = Len(tasks) - 1
         /\ \A i \in 1..Len(Tail(tasks)) : Tail(tasks)[i] = Taken + 1 + i
<1> USE PoolAssumption DEF TypeOK, TasksConserved, Taken
<1>1. Len(tasks) \in Nat /\ Len(tasks) > 0
  OBVIOUS
<1>2. Head(tasks) = tasks[1]
  OBVIOUS
<1>3. /\ Tail(tasks) \in Seq(1..MaxTasks)
      /\ Len(Tail(tasks)) = Len(tasks) - 1
      /\ \A i \in 1..Len(Tail(tasks)) : Tail(tasks)[i] = tasks[i + 1]
  BY <1>1
<1>4. \A i \in 1..Len(Tail(tasks)) : i + 1 \in 1..Len(tasks)
  BY <1>1, <1>3
<1>5. QED
  BY <1>1, <1>2, <1>3, <1>4

\* Appending the next task keeps the queue in that form.
LEMMA QueueAppend ==
  ASSUME TypeOK, TasksConserved, submitted < MaxTasks
  PROVE  LET q == Append(tasks, submitted + 1)
         IN  /\ q \in Seq(1..MaxTasks)
             /\ Len(q) = Len(tasks) + 1
             /\ q # <<>>
             /\ \A i \in 1..Len(q) : q[i] = Taken + i
<1> USE PoolAssumption DEF TypeOK, TasksConserved, Taken
<1> DEFINE q == Append(tasks, submitted + 1)
<1>1. /\ q \in Seq(1..MaxTasks)
      /\ Len(q) = Len(tasks) + 1
      /\ Len(tasks) \in Nat
  OBVIOUS
<1>2. \A i \in 1..Len(tasks) : q[i] = tasks[i]
  OBVIOUS
<1>3. q[Len(tasks) + 1] = submitted + 1
  OBVIOUS
<1>4. q # <<>>
  BY <1>1
<1>5. ASSUME NEW i \in 1..Len(q)
      PROVE  q[i] = Taken + i
  <2>1. CASE i \in 1..Len(tasks)
    BY <2>1, <1>2
  <2>2. CASE i = Len(tasks) + 1
    BY <2>2, <1>3, <1>1
  <2>3. QED
    BY <2>1, <2>2, <1>1
<1>6. QED
  BY <1>1, <1>4, <1>5
-----------------------------------------------------------------------------
\* Every reachable state is well typed.
THEOREM TypeCorrect == Spec => []TypeOK
<1> USE PoolAssumption
<1>1. Init => TypeOK
  BY DEF Init, TypeOK, NoTask
<1>2. TypeOK /\ [Next]_vars => TypeOK'
  <2> SUFFICES ASSUME TypeOK, [Next]_vars
               PROVE  TypeOK'
    OBVIOUS
  <2> USE DEF TypeOK, NoTask, GoTo
  <2>1. ASSUME NEW w \in Workers, TakeTask(w)
        PROVE  TypeOK'
    <3>1. Head(tasks) \in 1..MaxTasks /\ Tail(tasks) \in Seq(1..MaxTasks)
      BY <2>1 DEF TakeTask, Popped
    <3>2. QED
      BY <2>1, <3>1 DEF TakeTask, Popped
  <2>2. ASSUME NEW w \in Workers, Exit(w)
        PROVE  TypeOK'
    BY <2>2 DEF Exit, Drained
  <2>3. ASSUME NEW w \in Workers, FindNothing(w)
        PROVE  TypeOK'
    BY <2>3 DEF FindNothing
  <2>4. ASSUME NEW w \in Workers, Block(w)
        PROVE  TypeOK'
    BY <2>4 DEF Block
  <2>5. ASSUME NEW w \in Workers, FinishTask(w)
        PROVE  TypeOK'
    <3>1. task[w] \in 1..MaxTasks
      BY <2>5 DEF FinishTask, AfterRun
    <3>2. finished' \subseteq 1..MaxTasks
      BY <2>5, <3>1 DEF FinishTask, AfterRun
    <3>3. \A v \in Workers : pc'[v] = "running" <=> task'[v] # NoTask
      BY <2>5 DEF FinishTask, AfterRun
    <3>4. QED
      BY <2>5, <3>2, <3>3 DEF FinishTask, AfterRun
  <2>6. ASSUME NEW w \in Workers, SpuriousWakeup(w)
        PROVE  TypeOK'
    BY <2>6 DEF SpuriousWakeup
  <2>7. CASE Submit
    BY <2>7 DEF Submit, AfterPush
  <2>8. CASE NotifyOne
    BY <2>8 DEF NotifyOne
  <2>9. CASE Stop
    BY <2>9 DEF Stop
  <2>10. CASE Join
    BY <2>10 DEF Join, AllExited
  <2>11. CASE UNCHANGED vars
    BY <2>11 DEF vars
  <2>12. QED
    BY <2>1, <2>2, <2>3, <2>4, <2>5, <2>6, <2>7, <2>8, <2>9, <2>10, <2>11
       DEF Next, WorkerStep
<1>3. QED
  BY <1>1, <1>2, PTL DEF Spec
-----------------------------------------------------------------------------
\* The steps that move a task: out of the queue, out of a worker's hand, into
\* the queue.
LEMMA TakeTaskConserves ==
  ASSUME TypeOK, TasksConserved, NEW w \in Workers, TakeTask(w)
  PROVE  TasksConserved'
<1> USE PoolAssumption DEF NoTask
<1>1. /\ Head(tasks) = Taken + 1
      /\ Taken \in 0..(MaxTasks - 1)
      /\ Len(tasks') = Len(tasks) - 1
      /\ tasks' \in Seq(1..MaxTasks)
      /\ \A i \in 1..Len(tasks') : tasks'[i] = Taken + 1 + i
  BY QueueHead DEF TakeTask, Popped
<1>2. /\ task' = [task EXCEPT ![w] = Taken + 1]
      /\ finished' = finished
      /\ submitted' = submitted
  BY <1>1 DEF TakeTask, Popped
<1>3. Len(tasks) \in Nat /\ Len(tasks') \in Nat
  BY <1>1 DEF TypeOK
<1>4. Taken' = Taken + 1
  BY <1>1, <1>2, <1>3 DEF Taken, TypeOK
<1>5. task[w] = NoTask
  BY DEF TakeTask, Popped, TypeOK
<1>6. InHand' = InHand \union {Taken + 1}
  <2>1. \A v \in Workers : task'[v] = IF v = w THEN Taken + 1 ELSE task[v]
    BY <1>2 DEF TypeOK
  <2>2. Taken + 1 # NoTask
    BY <1>1
  <2>3. QED
    BY <2>1, <2>2, <1>5 DEF InHand
<1>7. 1..Taken' = (1..Taken) \union {Taken + 1}
  BY <1>1, <1>4
<1>8. InHand' \union finished' = 1..Taken'
  BY <1>2, <1>6, <1>7 DEF TasksConserved
<1>9. Taken + 1 \notin InHand /\ Taken + 1 \notin finished
  BY <1>1 DEF TasksConserved
<1>10. InHand' \intersect finished' = {}
  BY <1>2, <1>6, <1>9 DEF TasksConserved
<1>11. \A u, v \in Workers : task'[u] = task'[v] /\ task'[u] # NoTask => u = v
  <2>1. \A v \in Workers : task[v] # Taken + 1
    BY <1>9, <1>1 DEF InHand
  <2>2. QED
    BY <2>1, <1>2 DEF TasksConserved, TypeOK
<1>12. Len(tasks') <= submitted'
  BY <1>1, <1>2, <1>3 DEF TasksConserved, TypeOK
<1>13. \A i \in 1..Len(tasks') : tasks'[i] = Taken' + i
  BY <1>1, <1>4
<1>14. QED
  BY <1>8, <1>10, <1>11, <1>12, <1>13 DEF TasksConserved

LEMMA FinishTaskConserves ==
  ASSUME TypeOK, TasksConserved, NEW w \in Workers, FinishTask(w)
  PROVE  TasksConserved'
<1> USE DEF NoTask
<1>1. /\ task' = [task EXCEPT ![w] = NoTask]
      /\ finished' = finished \union {task[w]}
      /\ tasks' = tasks
      /\ submitted' = submitted
  BY DEF FinishTask, AfterRun
<1>2. Taken' = Taken
  BY <1>1 DEF Taken
<1>3. task[w] # NoTask /\ task[w] \in InHand
  BY DEF FinishTask, AfterRun, TypeOK, InHand
<1>4. \A v \in Workers : task'[v] = IF v = w THEN NoTask ELSE task[v]
  BY <1>1 DEF TypeOK
<1>5. InHand' = InHand \ {task[w]}
  <2>1. \A v \in Workers : v # w => task[v] # task[w]
    BY <1>3 DEF TasksConserved
  <2>2. QED
    BY <2>1, <1>3, <1>4 DEF InHand
<1>6. /\ InHand' \union finished' = 1..Taken'
      /\ InHand' \intersect finished' = {}
  BY <1>1, <1>2, <1>3, <1>5 DEF TasksConserved
<1>7. \A u, v \in Workers : task'[u] = task'[v] /\ task'[u] # NoTask => u = v
  BY <1>4 DEF TasksConserved
<1>8. QED
  BY <1>1, <1>2, <1>6, <1>7 DEF TasksConserved

LEMMA SubmitConserves ==
  ASSUME TypeOK, TasksConserved, Submit
  PROVE  TasksConserved'
<1> USE PoolAssumption
<1>1. /\ submitted < MaxTasks
      /\ submitted' = submitted + 1
      /\ tasks' = Append(tasks, submitted + 1)
      /\ task' = task
      /\ finished' = finished
  BY DEF Submit, AfterPush
<1>2. /\ Len(tasks') = Len(tasks) + 1
      /\ \A i \in 1..Len(tasks') : tasks'[i] = Taken + i
  BY <1>1, QueueAppend
<1>3. Len(tasks) \in Nat
  BY DEF TypeOK
<1>4. Taken' = Taken
  BY <1>1, <1>2, <1>3 DEF Taken, TypeOK
<1>5. InHand' = InHand
  BY <1>1 DEF InHand
<1>6. Len(tasks') <= submitted'
  BY <1>1, <1>2, <1>3 DEF TasksConserved, TypeOK
<1>7. QED
  BY <1>1, <1>2, <1>4, <1>5, <1>6 DEF TasksConserved

\* Every other step leaves the tasks where they are.
LEMMA OtherStepsConserve ==
  ASSUME TasksConserved, UNCHANGED <<tasks, task, submitted, finished>>
  PROVE  TasksConserved'
BY DEF TasksConserved, Taken, InHand
-----------------------------------------------------------------------------
LEMMA LockProtocolInductive ==
  ASSUME TypeOK, LockProtocol, [Next]_vars
  PROVE  LockProtocol'
<1> USE PoolAssumption DEF TypeOK, LockProtocol, MutexFree, GoTo
<1>1. ASSUME NEW w \in Workers, TakeTask(w)
      PROVE  LockProtocol'
  BY <1>1 DEF TakeTask, Popped
<1>2. ASSUME NEW w \in Workers, Exit(w)
      PROVE  LockProtocol'
  BY <1>2 DEF Exit, Drained, WaitIsOver
<1>3. ASSUME NEW w \in Workers, FindNothing(w)
      PROVE  LockProtocol'
  BY <1>3 DEF FindNothing, WaitIsOver
<1>4. ASSUME NEW w \in Workers, Block(w)
      PROVE  LockProtocol'
  BY <1>4 DEF Block
<1>5. ASSUME NEW w \in Workers, FinishTask(w)
      PROVE  LockProtocol'
  BY <1>5 DEF FinishTask, AfterRun
<1>6. ASSUME NEW w \in Workers, SpuriousWakeup(w)
      PROVE  LockProtocol'
  BY <1>6 DEF SpuriousWakeup
<1>7. CASE Submit
  BY <1>7 DEF Submit, AfterPush
<1>8. CASE NotifyOne
  BY <1>8 DEF NotifyOne
<1>9. CASE Stop
  BY <1>9 DEF Stop
<1>10. CASE Join
  BY <1>10 DEF Join, AllExited
<1>11. CASE UNCHANGED vars
  BY <1>11 DEF vars
<1>12. QED
  BY <1>1, <1>2, <1>3, <1>4, <1>5, <1>6, <1>7, <1>8, <1>9, <1>10, <1>11
     DEF Next, WorkerStep

\* A pool that was given a task has a thread.
LEMMA WorkersForTasks == TypeOK /\ tasks # <<>> => Workers # {}
<1> SUFFICES ASSUME TypeOK, tasks # <<>>, Workers = {}
             PROVE  FALSE
  OBVIOUS
<1>1. tasks \in Seq(1..MaxTasks)
  BY DEF TypeOK
<1>2. tasks[1] \in 1..MaxTasks
  <2>1. Len(tasks) \in Nat /\ Len(tasks) > 0
    BY <1>1
  <2>2. 1 \in 1..Len(tasks)
    BY <2>1
  <2>3. QED
    BY <1>1, <2>2, ElementOfSeq
<1>3. QED
  BY <1>2, PoolAssumption

LEMMA NoStrandedTaskInductive ==
  ASSUME TypeOK, LockProtocol, NoStrandedTask, [Next]_vars
  PROVE  NoStrandedTask'
<1> USE DEF TypeOK, NoStrandedTask, MutexFree, GoTo
<1>1. ASSUME NEW w \in Workers, TakeTask(w)
      PROVE  NoStrandedTask'
  BY <1>1 DEF TakeTask, Popped
<1>2. ASSUME NEW w \in Workers, Exit(w)
      PROVE  NoStrandedTask'
  BY <1>2 DEF Exit, Drained, WaitIsOver
<1>3. ASSUME NEW w \in Workers, FindNothing(w)
      PROVE  NoStrandedTask'
  BY <1>3 DEF FindNothing, WaitIsOver
<1>4. ASSUME NEW w \in Workers, Block(w)
      PROVE  NoStrandedTask'
  BY <1>4 DEF Block, LockProtocol
<1>5. ASSUME NEW w \in Workers, FinishTask(w)
      PROVE  NoStrandedTask'
  BY <1>5 DEF FinishTask, AfterRun
<1>6. ASSUME NEW w \in Workers, SpuriousWakeup(w)
      PROVE  NoStrandedTask'
  BY <1>6 DEF SpuriousWakeup
<1>7. CASE Submit
  BY <1>7 DEF Submit, AfterPush
<1>8. CASE NotifyOne
  <2>1. CASE \E w \in Workers : pc[w] = "waiting" /\ GoTo(w, "acquire")
    BY <1>8, <2>1 DEF NotifyOne
  <2>2. CASE (\A w \in Workers : pc[w] # "waiting") /\ UNCHANGED pc
    <3>1. ASSUME tasks # <<>>
          PROVE  \E w \in Workers : pc[w] \in {"acquire", "running"}
      <4>1. PICK w \in Workers : TRUE
        <5>1. Workers # {}
          BY <3>1, WorkersForTasks
        <5>2. QED
          BY <5>1
      <4>2. pc[w] \notin {"waiting", "blocking", "exited"}
        BY <2>2, <3>1 DEF LockProtocol
      <4>3. QED
        BY <4>2
    <3>2. QED
      BY <1>8, <2>2, <3>1 DEF NotifyOne
  <2>3. QED
    BY <1>8, <2>1, <2>2 DEF NotifyOne
<1>9. CASE Stop
  BY <1>9 DEF Stop
<1>10. CASE Join
  BY <1>10 DEF Join, AllExited
<1>11. CASE UNCHANGED vars
  BY <1>11 DEF vars
<1>12. QED
  BY <1>1, <1>2, <1>3, <1>4, <1>5, <1>6, <1>7, <1>8, <1>9, <1>10, <1>11
     DEF Next, WorkerStep

LEMMA TasksConservedInductive ==
  ASSUME TypeOK, TasksConserved, [Next]_vars
  PROVE  TasksConserved'
<1>1. ASSUME NEW w \in Workers, TakeTask(w)
      PROVE  TasksConserved'
  BY <1>1, TakeTaskConserves
<1>2. ASSUME NEW w \in Workers, FinishTask(w)
      PROVE  TasksConserved'
  BY <1>2, FinishTaskConserves
<1>3. CASE Submit
  BY <1>3, SubmitConserves
<1>4. ASSUME NEW w \in Workers,
             Exit(w) \/ FindNothing(w) \/ Block(w) \/ SpuriousWakeup(w)
      PROVE  TasksConserved'
  BY <1>4, OtherStepsConserve DEF Exit, Drained, FindNothing, Block, SpuriousWakeup
<1>5. CASE NotifyOne \/ Stop \/ Join \/ UNCHANGED vars
  BY <1>5, OtherStepsConserve DEF NotifyOne, Stop, Join, AllExited, vars
<1>6. QED
  BY <1>1, <1>2, <1>3, <1>4, <1>5 DEF Next, WorkerStep
-----------------------------------------------------------------------------
\* The inductive invariant holds in every reachable state.
THEOREM Invariance == Spec => []IInv
<1>1. Init => IInv
  <2> SUFFICES ASSUME Init
               PROVE  IInv
    OBVIOUS
  <2>1. TypeOK
    BY PoolAssumption DEF Init, TypeOK, NoTask
  <2>2. LockProtocol
    BY DEF Init, LockProtocol
  <2>3. TasksConserved
    <3>1. Taken = 0 /\ Len(tasks) = 0
      <4>1. tasks = <<>> /\ submitted = 0
        BY DEF Init
      <4>2. Len(tasks) = 0
        <5>1. <<>> \in Seq(Nat) /\ Len(<<>>) = 0
          OBVIOUS
        <5>2. QED
          BY <4>1, <5>1
      <4>3. Taken = 0 - 0
        BY <4>1, <4>2, Zenon DEF Taken
      <4>4. QED
        BY <4>2, <4>3
    <3>2. InHand = {} /\ finished = {}
      BY DEF Init, InHand
    <3>3. \A w \in Workers : task[w] = NoTask
      BY DEF Init
    <3>4. QED
      BY <3>1, <3>2, <3>3 DEF Init, TasksConserved
  <2>4. NoStrandedTask
    BY DEF Init, NoStrandedTask
  <2>5. QED
    BY <2>1, <2>2, <2>3, <2>4 DEF IInv
<1>2. IInv /\ TypeOK' /\ [Next]_vars => IInv'
  BY LockProtocolInductive, NoStrandedTaskInductive, TasksConservedInductive
     DEF IInv
<1>3. QED
  BY <1>1, <1>2, TypeCorrect, PTL DEF Spec

\* No task is lost, run twice or run out of order (TasksConserved), and no
\* queued task waits for a wakeup that will not come (NoStrandedTask).
THEOREM TaskSafety == Spec => [](TasksConserved /\ NoStrandedTask)
<1>1. IInv => TasksConserved /\ NoStrandedTask
  BY DEF IInv
<1>2. QED
  BY <1>1, Invariance, PTL

\* When stop() has returned every task has run: the workers left only because
\* the queue was empty, and none of them was left with a task in hand.
LEMMA StoppedIsDrained == IInv => DrainedWhenStopped
<1> SUFFICES ASSUME IInv, owner = "stopped"
             PROVE  /\ finished = 1..submitted
                    /\ \A w \in Workers : pc[w] = "exited"
  BY DEF DrainedWhenStopped
<1>1. \A w \in Workers : pc[w] = "exited"
  BY DEF IInv, LockProtocol
<1>2. InHand = {}
  BY <1>1 DEF IInv, TypeOK, InHand
<1>3. finished = 1..Taken
  BY <1>2 DEF IInv, TasksConserved
<1>4. Taken = submitted
  <2>1. CASE Workers = {}
    BY <2>1, PoolAssumption DEF IInv, TypeOK, TasksConserved, Taken
  <2>2. CASE Workers # {}
    <3>1. tasks = <<>>
      BY <1>1, <2>2 DEF IInv, LockProtocol
    <3>2. QED
      BY <3>1 DEF IInv, TypeOK, Taken
  <2>3. QED
    BY <2>1, <2>2
<1>5. QED
  BY <1>1, <1>3, <1>4

\* stop() returns to its caller only after every submitted task has run.
THEOREM StopDrains == Spec => []DrainedWhenStopped
BY Invariance, StoppedIsDrained, PTL
-----------------------------------------------------------------------------
\* The pool implements TaskExecutor: taking a task out of the queue is Start,
\* the return of join() for every thread is StopReturns, and everything the
\* mutex and the condition variable do is a stuttering step.
THEOREM Refinement == Spec => ExecutorSpec
<1> USE PoolAssumption
<1>1. Init => Executor!Init
  <2> SUFFICES ASSUME Init
               PROVE  Executor!Init
    OBVIOUS
  <2>1. Len(tasks) = 0 /\ submitted = 0
    BY EmptySeq DEF Init
  <2>2. Taken = 0 - 0
    BY <2>1, Zenon DEF Taken
  <2>3. QED
    BY <2>1, <2>2 DEF Init, Executor!Init
<1>2. IInv /\ IInv' /\ [Next]_vars => [Executor!Next]_(Executor!vars)
  <2> SUFFICES ASSUME IInv, IInv', [Next]_vars
               PROVE  [Executor!Next]_(Executor!vars)
    OBVIOUS
  <2> USE DEF Executor!Next, Executor!vars
  <2>1. ASSUME NEW w \in Workers, TakeTask(w)
        PROVE  Executor!Start
    <3>1. Taken \in Nat /\ Taken + 1 \in 1..submitted
      BY <2>1, QueueHead DEF IInv, TakeTask, Popped
    <3>2. Taken' = Taken + 1
      <4>1. Len(tasks') = Len(tasks) - 1 /\ Len(tasks) \in Nat
        BY <2>1, QueueHead DEF IInv, TakeTask, Popped, TypeOK
      <4>2. QED
        BY <2>1, <4>1 DEF IInv, TypeOK, TakeTask, Popped, Taken
    <3>3. QED
      BY <2>1, <3>1, <3>2 DEF TakeTask, Popped, IInv, TypeOK, Executor!Start
  <2>2. ASSUME NEW w \in Workers, FinishTask(w)
        PROVE  Executor!Finish
    <3>1. task[w] \in InHand
      BY <2>2 DEF FinishTask, AfterRun, IInv, TypeOK, InHand
    <3>2. task[w] \in (1..Taken) \ finished
      BY <3>1 DEF IInv, TasksConserved
    <3>3. Taken' = Taken
      BY <2>2 DEF FinishTask, AfterRun, Taken
    <3>4. QED
      BY <2>2, <3>2, <3>3 DEF FinishTask, AfterRun, Executor!Finish
  <2>3. CASE Submit
    <3>1. Taken' = Taken
      <4>1. Len(tasks') = Len(tasks) + 1 /\ Len(tasks) \in Nat
        BY <2>3, QueueAppend DEF IInv, Submit, AfterPush, TypeOK
      <4>2. QED
        BY <2>3, <4>1 DEF IInv, TypeOK, Submit, AfterPush, Taken
    <3>2. Executor!Submit
      BY <2>3, <3>1 DEF Submit, AfterPush, Executor!Submit
    <3>3. QED
      BY <3>2
  <2>4. CASE Join
    <3>1. finished' = 1..submitted'
      <4>1. owner' = "stopped"
        BY <2>4 DEF Join, AllExited
      <4>2. DrainedWhenStopped'
        BY StoppedIsDrained, PTL
      <4>3. QED
        BY <4>1, <4>2 DEF DrainedWhenStopped
    <3>2. Executor!StopReturns
      BY <2>4, <3>1 DEF Join, AllExited, Taken, Executor!StopReturns
    <3>3. QED
      BY <3>2
  <2>5. ASSUME NEW w \in Workers,
               Exit(w) \/ FindNothing(w) \/ Block(w) \/ SpuriousWakeup(w)
        PROVE  UNCHANGED Executor!vars
    BY <2>5 DEF Exit, Drained, FindNothing, Block, SpuriousWakeup, Taken
  <2>6. CASE NotifyOne \/ Stop \/ UNCHANGED vars
    BY <2>6 DEF NotifyOne, Stop, vars, Taken
  <2>7. QED
    BY <2>1, <2>2, <2>3, <2>4, <2>5, <2>6 DEF Next, WorkerStep
<1>3. QED
  BY <1>1, <1>2, Invariance, PTL DEF Spec, ExecutorSpec, Executor!Spec
==============================================================================
