----------------------------- MODULE MCSession ------------------------------
(* Constants of Session for TLC. *)
EXTENDS Session, TLC

CONSTANTS p1, p2, folder, A, B, C, g1, g2

TwoPaths == {p1, p2}
ThreeVersions == {A, B, C}

\* A is empty: its checksum prints memory nobody wrote.  B and C are large; they
\* differ in the middle and in length, and have the same checksum.
SomeContent == (A :> <<>>) @@ (B :> <<1, 2>>) @@ (C :> <<1, 3, 2>>)
SomeGarbage == {g1, g2}

\* What an unwritten byte holds is only compared with what another one holds.
GarbageAlike == Permutations(SomeGarbage)

\* A path that exists and names no regular file.
OneFolder == {folder}

\* One source, and versions that every checksum tells apart.
OnePath == {p1}
TwoVersions == {A, B}
TwoContents == (A :> <<1, 2>>) @@ (B :> <<3, 4, 5>>)
OneGarbage == {g1}
=============================================================================
