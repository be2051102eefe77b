------------------------------ MODULE MCStartup ------------------------------
(* Constants of Startup for TLC. *)
EXTENDS Startup

\* Options with every name, with a value behind =, with blanks, and words, one of
\* them with an = in it.
SomeArguments ==
  { <<"-s">>, <<"--source", "=", "a">>, <<"-s", "=">>, <<"-d", "=", "b", " ", "b">>, <<"-d">>,
    <<"-f">>, <<"-f", "=", "a", "=", "b">>, <<"-p">>, <<" ", "--progress", "=", "true">>,
    <<"-p", "=", "no">>, <<"-x", "=", "a">>, <<"-s", " ", "a">>, <<"a">>, <<"a", "=", "b">>,
    <<"-d", "newline", "a">>, <<>> }

SomeCommandLines == UNION {[1..n -> SomeArguments] : n \in 0..3}

SomeCursors == {<<1, 1>>, <<3, 12>>, <<8, 5>>}

\* x R 1
SomeTyped == {120, 82, 49}

\* ESC [ ; R 2
SomeGarbage == {27, 91, 59, 82, 50}
=============================================================================
