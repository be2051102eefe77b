------------------------------ MODULE MCLayout ------------------------------
(* Constants of Layout and BufferSize for TLC. *)
EXTENDS BufferSize

SomeFileSizes == 0..17 \cup {70}
SomeThreadCounts == 0..5
SomeDurations == {0, 1, 2, 3, 9}
=============================================================================
