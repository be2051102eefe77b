---------------------------- MODULE TaskExecutor ----------------------------
(***************************************************************************)
(* What the owner of a thread_pool (include/pool.hpp) may rely on, with    *)
(* the threads, the mutex and the condition variable hidden.  Tasks are    *)
(* numbered in the order of their submission.  They are started in that    *)
(* order, each once; they finish in any order; and stop() returns only     *)
(* when every task submitted before it has finished.                       *)
(***************************************************************************)
EXTENDS Naturals

VARIABLES
  submitted,  \* how many tasks were submitted
  started,    \* tasks 1..started were handed to a thread
  finished,   \* the set of tasks that ran to their end
  returned    \* stop() has returned

vars == <<submitted, started, finished, returned>>

TypeOK ==
  /\ submitted \in Nat
  /\ started \in 0..submitted
  /\ finished \subseteq 1..started
  /\ returned \in BOOLEAN

Init ==
  /\ submitted = 0
  /\ started = 0
  /\ finished = {}
  /\ returned = FALSE

Submit ==
  /\ ~returned
  /\ submitted' = submitted + 1
  /\ UNCHANGED <<started, finished, returned>>

Start ==
  /\ started < submitted
  /\ started' = started + 1
  /\ UNCHANGED <<submitted, finished, returned>>

Finish ==
  /\ \E k \in (1..started) \ finished : finished' = finished \union {k}
  /\ UNCHANGED <<submitted, started, returned>>

StopReturns ==
  /\ ~returned
  /\ finished = 1..submitted
  /\ returned' = TRUE
  /\ UNCHANGED <<submitted, started, finished>>

Next == Submit \/ Start \/ Finish \/ StopReturns

Spec == Init /\ [][Next]_vars
=============================================================================
