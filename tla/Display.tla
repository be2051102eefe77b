------------------------------ MODULE Display -------------------------------
(***************************************************************************)
(* What write_segments and its tasks may rely on from console_renderer     *)
(* (include/renderer.h), with its thread, queue and locks hidden.  Every   *)
(* task posts frames, numbered in its own order; the display shows them in *)
(* that order, each once; and stop() returns only when all are shown.      *)
(***************************************************************************)
EXTENDS Naturals

CONSTANT Segments

VARIABLES
  sent,     \* how many frames each task posted
  shown,    \* how many of them are on the screen
  returned  \* stop() has returned

vars == <<sent, shown, returned>>

Init ==
  /\ sent = [p \in Segments |-> 0]
  /\ shown = [p \in Segments |-> 0]
  /\ returned = FALSE

Post(p) ==
  /\ ~returned
  /\ sent' = [sent EXCEPT ![p] = @ + 1]
  /\ UNCHANGED <<shown, returned>>

Show(p) ==
  /\ shown[p] < sent[p]
  /\ shown' = [shown EXCEPT ![p] = @ + 1]
  /\ UNCHANGED <<sent, returned>>

StopReturns ==
  /\ ~returned
  /\ shown = sent
  /\ returned' = TRUE
  /\ UNCHANGED <<sent, shown>>

Next == (\E p \in Segments : Post(p) \/ Show(p)) \/ StopReturns

Spec == Init /\ [][Next]_vars
=============================================================================
