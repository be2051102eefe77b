----------------------------- MODULE MCRenderer -----------------------------
(* Constants of Renderer for TLC. *)
EXTENDS Renderer

CONSTANTS s1, s2

TwoSegments == {s1, s2}
=============================================================================
