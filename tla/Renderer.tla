------------------------------ MODULE Renderer ------------------------------
(***************************************************************************)
(* console_renderer (include/renderer.h) under the calls write_segments    *)
(* makes of it (src/core/file.cpp): the main thread starts it, gives each  *)
(* segment a place on the screen before it submits its task, waits for the *)
(* tasks (pool.stop()) and stops it; the tasks post frames while the       *)
(* renderer's one thread draws them.                                       *)
(*                                                                         *)
(* Grain.  A section that holds m_ or t_seg_mutex_ is one step, except     *)
(* that the thread still holds m_ between a false wait predicate and its   *)
(* sleep ("blocking"): stop() writes running_ and notifies without m_.     *)
(* Drawing takes m_ twice only to keep the escape sequences together.      *)
(***************************************************************************)
EXTENDS Integers, FiniteSets, Sequences, SequencesExt

CONSTANTS
  Segments,     \* the segments, each copied by one task
  Root,         \* the id of the row that shows the whole file
  MaxRounds,    \* bound: how often a task posts its two frames
  MaxSpurious   \* bound: how many waits return without a notification

ASSUME RendererAssumption ==
  /\ Root \notin Segments
  /\ MaxRounds \in Nat
  /\ MaxSpurious \in Nat

VARIABLES
  r_queue,   \* frames [id, by, n]: the n-th frame of task by, for row id
  running,   \* running_
  pc,        \* where the renderer's thread is
  hand,      \* the frame it took and did not draw yet: at most one
  t_segments,\* the ids that have a place, top down
  main,      \* where the main thread is in write_segments
  task,      \* where each task is
  sent,      \* how many frames each task pushed
  shown,     \* the number of the last frame of each task that was drawn
  unknown,   \* frames reported as "Unknown segment"
  cursor,    \* the row the cursor is parked at, Hidden while drawing
  spurious   \* how many spurious wakeups happened

vars == <<r_queue, running, pc, hand, t_segments, main, task, sent, shown,
          unknown, cursor, spurious>>

screenVars == <<hand, shown, unknown, cursor>>

Ids == Segments \union {Root}
Frame == [id : Ids, by : Segments, n : 1..(2 * MaxRounds)]
Hidden == -1

\* m_ is held across steps only by a thread about to sleep.
MutexFree == pc # "blocking"

\* The predicate of wait_dequeue.
WaitForFrame == r_queue # <<>>  \* slip: the flag does not end the wait
WaitIsOver == r_queue # <<>> \/ ~running

\* get_segment found a place for the id.
Allocated(id) == id \in ToSet(t_segments)

\* A task alternates: r_frame of its segment, then r_frame of the whole file.
NextFrame(p) == [id |-> IF sent[p] % 2 = 0 THEN p ELSE Root,
                 by |-> p,
                 n |-> sent[p] + 1]

Enqueued(f) == Append(r_queue, f)

AfterPushSilent == "copying"  \* slip: enqueue() does not notify
AfterPush == "notify"

RootForgotten == t_segments  \* slip: the root has no row
RootPlaced == Append(t_segments, Root)

TasksLaunched == \A p \in Segments : task[p] # "none"  \* slip: none is awaited
TasksFinished == \A p \in Segments : task[p] = "finished"

FrameKept == hand  \* slip: the loop keeps the frame it has drawn
AfterDraw == <<>>

Init ==
  /\ r_queue = <<>>
  /\ running = FALSE
  /\ pc = "none"
  /\ hand = <<>>
  /\ t_segments = <<>>
  /\ main = "start"
  /\ task = [p \in Segments |-> "none"]
  /\ sent = [p \in Segments |-> 0]
  /\ shown = [p \in Segments |-> 0]
  /\ unknown = {}
  /\ cursor = 0
  /\ spurious = 0
-----------------------------------------------------------------------------
(* The main thread. *)

\* start(): only one call can win the exchange, and write_segments makes one.
Start ==
  /\ main = "start"
  /\ ~running
  /\ running' = TRUE
  /\ pc' = "starting"
  /\ main' = "root"
  /\ UNCHANGED <<r_queue, t_segments, task, sent, spurious, screenVars>>

PlaceRoot ==
  /\ main = "root"
  /\ t_segments' = RootPlaced
  /\ main' = "loop"
  /\ UNCHANGED <<r_queue, running, pc, task, sent, spurious, screenVars>>

\* The loop over status->segments, in the order of a hash table.
PlaceSegment(p) ==
  /\ main = "loop"
  /\ ~Allocated(p)
  /\ t_segments' = Append(t_segments, p)
  /\ main' = "submit"
  /\ UNCHANGED <<r_queue, running, pc, task, sent, spurious, screenVars>>

Launch(p) ==
  /\ main = "submit"
  /\ p = Last(t_segments)
  /\ task' = [task EXCEPT ![p] = "copying"]
  /\ main' = "loop"
  /\ UNCHANGED <<r_queue, running, pc, t_segments, sent, spurious, screenVars>>

LoopEnds ==
  /\ main = "loop"
  /\ \A p \in Segments : Allocated(p)
  /\ main' = "pool"
  /\ UNCHANGED <<r_queue, running, pc, t_segments, task, sent, spurious,
                 screenVars>>

\* pool.stop() returns when every task has finished (TaskExecutor).
PoolJoined ==
  /\ main = "pool"
  /\ TasksFinished
  /\ main' = "stop"
  /\ UNCHANGED <<r_queue, running, pc, t_segments, task, sent, spurious,
                 screenVars>>

\* stop(): the flag is exchanged, without m_ ...
ClearFlag ==
  /\ main = "stop"
  /\ running
  /\ running' = FALSE
  /\ main' = "notify"
  /\ UNCHANGED <<r_queue, pc, t_segments, task, sent, spurious, screenVars>>

\* ... and whoever waits at that moment is woken, without m_ again.
NotifyAll ==
  /\ main = "notify"
  /\ pc' = IF pc = "waiting" THEN "dequeue" ELSE pc
  /\ main' = "join"
  /\ UNCHANGED <<r_queue, running, t_segments, task, sent, spurious, screenVars>>

Join ==
  /\ main = "join"
  /\ pc = "exited"
  /\ main' = "stopped"
  /\ UNCHANGED <<r_queue, running, pc, t_segments, task, sent, spurious,
                 screenVars>>
-----------------------------------------------------------------------------
(* The tasks: direct_write posts its segment's frame, then the root's. *)

Push(p) ==
  /\ task[p] = "copying"
  /\ sent[p] < 2 * MaxRounds
  /\ MutexFree
  /\ sent' = [sent EXCEPT ![p] = @ + 1]
  /\ r_queue' = Enqueued(NextFrame(p))
  /\ task' = [task EXCEPT ![p] = AfterPush]
  /\ UNCHANGED <<running, pc, t_segments, main, spurious, screenVars>>

NotifyOne(p) ==
  /\ task[p] = "notify"
  /\ pc' = IF pc = "waiting" THEN "dequeue" ELSE pc
  /\ task' = [task EXCEPT ![p] = "copying"]
  /\ UNCHANGED <<r_queue, running, t_segments, main, sent, spurious, screenVars>>

FinishTask(p) ==
  /\ task[p] = "copying"
  /\ sent[p] % 2 = 0
  /\ task' = [task EXCEPT ![p] = "finished"]
  /\ UNCHANGED <<r_queue, running, pc, t_segments, main, sent, spurious,
                 screenVars>>
-----------------------------------------------------------------------------
(* The renderer's thread: worker_loop, wait_dequeue and render. *)

HideCursor ==
  /\ pc = "starting"
  /\ cursor' = Hidden
  /\ pc' = "dequeue"
  /\ UNCHANGED <<r_queue, running, hand, t_segments, main, task, sent, shown,
                 unknown, spurious>>

TakeFrame ==
  /\ pc = "dequeue"
  /\ r_queue # <<>>
  /\ hand' = <<Head(r_queue)>>
  /\ r_queue' = Tail(r_queue)
  /\ pc' = "draw"
  /\ UNCHANGED <<running, t_segments, main, task, sent, shown, unknown, cursor,
                 spurious>>

\* wait_dequeue returns no frame: the loop ends and parks the cursor.
Leave ==
  /\ pc = "dequeue"
  /\ WaitIsOver
  /\ r_queue = <<>>
  /\ pc' = "exited"
  /\ cursor' = Len(t_segments) + 1
  /\ UNCHANGED <<r_queue, running, hand, t_segments, main, task, sent, shown,
                 unknown, spurious>>

FindNothing ==
  /\ pc = "dequeue"
  /\ ~WaitIsOver
  /\ pc' = "blocking"
  /\ UNCHANGED <<r_queue, running, t_segments, main, task, sent, spurious,
                 screenVars>>

Block ==
  /\ pc = "blocking"
  /\ pc' = "waiting"
  /\ UNCHANGED <<r_queue, running, t_segments, main, task, sent, spurious,
                 screenVars>>

SpuriousWakeup ==
  /\ pc = "waiting"
  /\ spurious < MaxSpurious
  /\ spurious' = spurious + 1
  /\ pc' = "dequeue"
  /\ UNCHANGED <<r_queue, running, t_segments, main, task, sent, screenVars>>

\* render, or the complaint about an id that get_segment does not find.
Draw ==
  /\ pc = "draw"
  /\ LET frame == Head(hand)
     IN  /\ shown' = IF Allocated(frame.id)
                     THEN [shown EXCEPT ![frame.by] = frame.n] ELSE shown
         /\ unknown' = IF Allocated(frame.id)
                       THEN unknown ELSE unknown \union {frame}
  /\ hand' = AfterDraw
  /\ pc' = "dequeue"
  /\ UNCHANGED <<r_queue, running, t_segments, main, task, sent, cursor, spurious>>
-----------------------------------------------------------------------------
Worker == HideCursor \/ TakeFrame \/ Leave \/ FindNothing \/ Block \/ Draw

Main == \/ Start \/ PlaceRoot \/ LoopEnds \/ PoolJoined \/ ClearFlag
        \/ NotifyAll \/ Join
        \/ \E p \in Segments : PlaceSegment(p) \/ Launch(p)

Task(p) == Push(p) \/ NotifyOne(p) \/ FinishTask(p)

Next == Worker \/ SpuriousWakeup \/ Main \/ \E p \in Segments : Task(p)

Spec == Init /\ [][Next]_vars

\* Threads that can run do run and a call that has begun goes on, but nothing
\* makes a task post again or end: a copy may take for ever.  No wakeup happens
\* by itself.
FairSpec ==
  /\ Spec
  /\ WF_vars(Worker)
  /\ WF_vars(Main)
  /\ \A p \in Segments : WF_vars(NotifyOne(p))
-----------------------------------------------------------------------------
(* Properties. *)

\* Every variable has its type, the thread holds a frame exactly while it draws,
\* and no id has two places.
TypeOK ==
  /\ r_queue \in Seq(Frame)
  /\ running \in BOOLEAN
  /\ pc \in {"none", "starting", "dequeue", "blocking", "waiting", "draw", "exited"}
  /\ hand \in Seq(Frame) /\ Len(hand) = (IF pc = "draw" THEN 1 ELSE 0)
  /\ t_segments \in Seq(Ids) /\ IsInjective(t_segments)
  /\ main \in {"start", "root", "loop", "submit", "pool", "stop", "notify",
               "join", "stopped"}
  /\ task \in [Segments -> {"none", "copying", "notify", "finished"}]
  /\ sent \in [Segments -> 0..(2 * MaxRounds)]
  /\ shown \in [Segments -> 0..(2 * MaxRounds)]
  /\ unknown \subseteq Frame
  /\ cursor \in {Hidden} \union Nat
  /\ spurious \in 0..MaxSpurious

\* However fast a task is, its frames never meet a renderer that has no place for
\* them: places are given in main's order, frames come in the tasks' order.  When
\* stop() has returned, the cursor is visible again and below every row.
ScreenInOrder ==
  /\ unknown = {}
  /\ main = "stopped" => cursor > Cardinality(Ids)

\* The renderer, its thread, queue and locks hidden, is the display its users
\* see: no frame of a task is lost, repeated or overtaken by a later one, stop()
\* returns with all of them drawn, and none is posted to a renderer that has
\* stopped.
AbstractDisplay == INSTANCE Display WITH returned <- (main = "stopped")

DisplaySpec == AbstractDisplay!Spec

\* A frame that was posted is drawn in the end, whoever else posts meanwhile.
EveryFrameShown ==
  \A p \in Segments, n \in 1..(2 * MaxRounds) : (sent[p] >= n) ~> (shown[p] >= n)

\* stop() returns unless the thread is between the test of its predicate and its
\* sleep when the flag is cleared.
StopReturnsUnlessDozing ==
  (main = "notify" /\ pc # "blocking") ~> (main = "stopped")

\* wait_dequeue waits for a frame or for !running_, and stop() clears the flag
\* and notifies: a call of stop() returns.
StopReturns == (main = "notify") ~> (main = "stopped")
=============================================================================
