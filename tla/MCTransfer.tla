----------------------------- MODULE MCTransfer -----------------------------
(* Constants of Transfer for TLC. *)
EXTENDS Transfer, TLC

CONSTANTS s1, s2, s3

ThreeSegments == {s1, s2, s3}

Triple(a, b, c) == (s1 :> a) @@ (s2 :> b) @@ (s3 :> c)

\* A file of 10 bytes cut in three; copied as it is, or with another size meanwhile.
CutInThree(src) ==
  [total |-> 10, start |-> Triple(0, 4, 7), end |-> Triple(4, 7, 10), src |-> src]

\* A file of 3 bytes that is too small to be cut: the other segments lie past its
\* end, where nothing is, unless the file grew.
Uncut(src) ==
  [total |-> 3, start |-> Triple(0, 3, 6), end |-> Triple(3, 6, 9), src |-> src]

AllLayouts == {CutInThree(10), CutInThree(6), CutInThree(2), Uncut(3), Uncut(5)}
SteadySource == {CutInThree(10)}
=============================================================================
