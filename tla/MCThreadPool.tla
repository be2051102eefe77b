---------------------------- MODULE MCThreadPool ----------------------------
(* Constants of ThreadPool for TLC. *)
EXTENDS ThreadPool, TLC

CONSTANTS w1, w2, w3

TwoWorkers == {w1, w2}
ThreeWorkers == {w1, w2, w3}
=============================================================================
