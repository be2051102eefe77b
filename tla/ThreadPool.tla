----------------------------- MODULE ThreadPool -----------------------------
(***************************************************************************)
(* thread_pool (include/pool.hpp): worker threads, a FIFO of tasks, one    *)
(* mutex, one condition variable and an atomic flag running_.              *)
(*                                                                         *)
(* Grain.  A section that holds mtx from its lock to its unlock is one     *)
(* step, with one exception: a worker whose wait predicate was false still *)
(* holds mtx while it goes to sleep ("blocking"), and stop() writes        *)
(* running_ without mtx, so the owner can run inside that window.          *)
(* std::condition_variable::wait releases the mutex and joins the wait set *)
(* in one step, and may return without a notification.                     *)
(***************************************************************************)
EXTENDS Naturals, Sequences

CONSTANTS
  Workers,      \* the threads the constructor starts
  MaxTasks,     \* bound: how many tasks the owner submits at most
  MaxSpurious   \* bound: how many waits return without a notification

\* write_segments sizes the pool by the number of tasks it will submit, so a
\* pool without threads is never given a task.
ASSUME PoolAssumption ==
  /\ MaxTasks \in Nat
  /\ MaxSpurious \in Nat
  /\ Workers = {} => MaxTasks = 0

VARIABLES
  tasks,      \* the queue; a task is its position in the submission order
  running,    \* running_
  pc,         \* where each worker is in its loop
  task,       \* the task each worker is running, NoTask when none
  owner,      \* where the thread that owns the pool is
  submitted,  \* how many tasks were submitted
  finished,   \* the tasks that ran to their end
  spurious    \* how many spurious wakeups happened

vars == <<tasks, running, pc, task, owner, submitted, finished, spurious>>

NoTask == 0

\* Only a worker on its way to sleep holds mtx between two steps.
MutexFree == \A w \in Workers : pc[w] # "blocking"

\* The predicate of cv.wait.
WaitForTask == tasks # <<>>  \* slip: the flag does not end the wait
WaitIsOver == ~running \/ tasks # <<>>

NotPopped == tasks  \* slip: front() without pop()
Popped == Tail(tasks)

Drained == tasks = <<>>

TaskKept(w) == task[w]  \* slip: the task object outlives the iteration
AfterRun(w) == NoTask

AfterPushSilent == "ready"  \* slip: submit() does not notify
AfterPush == "notify"

QueueEmpty == tasks = <<>>  \* slip: the threads are not joined
AllExited == \A w \in Workers : pc[w] = "exited"

GoTo(w, label) == pc' = [pc EXCEPT ![w] = label]

Init ==
  /\ tasks = <<>>
  /\ running = TRUE
  /\ pc = [w \in Workers |-> "acquire"]
  /\ task = [w \in Workers |-> NoTask]
  /\ owner = "ready"
  /\ submitted = 0
  /\ finished = {}
  /\ spurious = 0
-----------------------------------------------------------------------------
(* The worker's loop. *)

TakeTask(w) ==
  /\ pc[w] = "acquire"
  /\ MutexFree
  /\ tasks # <<>>
  /\ task' = [task EXCEPT ![w] = Head(tasks)]
  /\ tasks' = Popped
  /\ GoTo(w, "running")
  /\ UNCHANGED <<running, owner, submitted, finished, spurious>>

Exit(w) ==
  /\ pc[w] = "acquire"
  /\ MutexFree
  /\ WaitIsOver
  /\ Drained
  /\ GoTo(w, "exited")
  /\ UNCHANGED <<tasks, running, task, owner, submitted, finished, spurious>>

FindNothing(w) ==
  /\ pc[w] = "acquire"
  /\ MutexFree
  /\ ~WaitIsOver
  /\ GoTo(w, "blocking")
  /\ UNCHANGED <<tasks, running, task, owner, submitted, finished, spurious>>

Block(w) ==
  /\ pc[w] = "blocking"
  /\ GoTo(w, "waiting")
  /\ UNCHANGED <<tasks, running, task, owner, submitted, finished, spurious>>

FinishTask(w) ==
  /\ pc[w] = "running"
  /\ finished' = finished \union {task[w]}
  /\ task' = [task EXCEPT ![w] = AfterRun(w)]
  /\ GoTo(w, "acquire")
  /\ UNCHANGED <<tasks, running, owner, submitted, spurious>>

SpuriousWakeup(w) ==
  /\ pc[w] = "waiting"
  /\ spurious < MaxSpurious
  /\ spurious' = spurious + 1
  /\ GoTo(w, "acquire")
  /\ UNCHANGED <<tasks, running, task, owner, submitted, finished>>
-----------------------------------------------------------------------------
(* The owner: submit() any number of times, then stop().  The destructor   *)
(* calls stop() once more, which finds the flag cleared and returns.       *)

Submit ==
  /\ owner = "ready"
  /\ submitted < MaxTasks
  /\ MutexFree
  /\ submitted' = submitted + 1
  /\ tasks' = Append(tasks, submitted + 1)
  /\ owner' = AfterPush
  /\ UNCHANGED <<running, pc, task, finished, spurious>>

NotifyOne ==
  /\ owner = "notify"
  /\ \/ \E w \in Workers : pc[w] = "waiting" /\ GoTo(w, "acquire")
     \/ (\A w \in Workers : pc[w] # "waiting") /\ UNCHANGED pc
  /\ owner' = "ready"
  /\ UNCHANGED <<tasks, running, task, submitted, finished, spurious>>

\* The flag is cleared without mtx and nobody is notified.
Stop ==
  /\ owner = "ready"
  /\ running
  /\ running' = FALSE
  /\ owner' = "join"
  /\ UNCHANGED <<tasks, pc, task, submitted, finished, spurious>>

Join ==
  /\ owner = "join"
  /\ AllExited
  /\ owner' = "stopped"
  /\ UNCHANGED <<tasks, running, pc, task, submitted, finished, spurious>>
-----------------------------------------------------------------------------
WorkerStep(w) ==
  TakeTask(w) \/ Exit(w) \/ FindNothing(w) \/ Block(w) \/ FinishTask(w)

Next ==
  \/ \E w \in Workers : WorkerStep(w) \/ SpuriousWakeup(w)
  \/ Submit \/ NotifyOne \/ Stop \/ Join

Spec == Init /\ [][Next]_vars

\* Threads that can run do run, and the owner gets past a call it has begun.
\* Nothing makes it submit or stop, and no wakeup happens by itself.
FairSpec ==
  /\ Spec
  /\ \A w \in Workers : WF_vars(WorkerStep(w))
  /\ WF_vars(NotifyOne)
  /\ WF_vars(Join)
-----------------------------------------------------------------------------
(* Properties. *)

\* Every variable has its type, and a worker holds a task exactly while it is
\* running one (the std::function of a loop iteration dies with it).
TypeOK ==
  /\ tasks \in Seq(1..MaxTasks)
  /\ running \in BOOLEAN
  /\ pc \in [Workers -> {"acquire", "blocking", "waiting", "running", "exited"}]
  /\ task \in [Workers -> 0..MaxTasks]
  /\ owner \in {"ready", "notify", "join", "stopped"}
  /\ submitted \in 0..MaxTasks
  /\ finished \subseteq 1..MaxTasks
  /\ spurious \in 0..MaxSpurious
  /\ \A w \in Workers : pc[w] = "running" <=> task[w] # NoTask

\* How many tasks were taken out of the queue.
Taken == submitted - Len(tasks)

\* The tasks some worker is running.
InHand == {task[w] : w \in Workers} \ {NoTask}

\* No interleaving of submit() with the workers loses, repeats or reorders a
\* task: the queue holds the last tasks submitted, in order; every earlier one
\* is finished or in the hands of exactly one worker.
TasksConserved ==
  /\ Len(tasks) <= submitted
  /\ \A i \in 1..Len(tasks) : tasks[i] = Taken + i
  /\ InHand \union finished = 1..Taken
  /\ InHand \intersect finished = {}
  /\ \A v, w \in Workers : task[v] = task[w] /\ task[v] # NoTask => v = w

\* The notification of submit() is never lost: while a task is queued, some
\* worker is awake and will look at the queue, or notify_one is still to come.
NoStrandedTask ==
  tasks # <<>> => \/ owner = "notify"
                 \/ \E w \in Workers : pc[w] \in {"acquire", "running"}

\* What write_segments relies on after pool.stop(): every task has run and no
\* thread is left that could touch what the tasks captured by reference.
DrainedWhenStopped ==
  owner = "stopped" =>
    /\ finished = 1..submitted
    /\ \A w \in Workers : pc[w] = "exited"

\* The pool, its threads and its lock hidden, is the executor its owner sees.
Executor == INSTANCE TaskExecutor WITH started <- Taken,
                                       returned <- (owner = "stopped")

ExecutorSpec == Executor!Spec

\* Every submitted task runs to its end, whether or not stop() is ever called.
EveryTaskRuns == \A k \in 1..MaxTasks : (submitted >= k) ~> (k \in finished)

\* Once stop() has cleared the flag and no worker sleeps, or is past the test of
\* its wait predicate, stop() returns: only a sleeper can keep it from doing so.
Awake == \A w \in Workers : pc[w] \notin {"blocking", "waiting"}
StopReturnsOnceAwake == (owner = "join" /\ Awake) ~> (owner = "stopped")

\* The wait predicate of the workers lists !running_ as a reason to wake up: a
\* call of stop() ends every wait and returns.
StopReturns == (owner = "join") ~> (owner = "stopped")
=============================================================================
