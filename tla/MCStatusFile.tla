---------------------------- MODULE MCStatusFile ----------------------------
(* Constants of StatusFile for TLC. *)
EXTENDS StatusFile

\* Two keys, a scalar beside them, a number that overflows and what the lexer
\* makes of anything else.
SomeTokens ==
  {Tok(type) : type \in (Structural \ {"end_of_input"}) \cup {"true"}}
  \cup {[type |-> "string", val |-> "a"], [type |-> "string", val |-> "b"],
        [type |-> "float", val |-> "inf"]}

\* What closes up to two containers, and before it what may be left of a member.
SomeEndings ==
  LET closers == [1..0 -> {}] \cup UNION
        {[1..n -> {Tok("end_object"), Tok("end_array")}] : n \in 1..2}
      lefts == {<<>>, <<Null>>, <<Tok("name_separator"), Null>>,
                <<Tok("string"), Tok("name_separator"), Null>>}
  IN  {left \o closing : left \in lefts, closing \in closers}

SomeIds == <<"id1", "id2">>

Segments ==
  {[start_byte |-> "0", end_byte |-> "8", copied_offset_ |-> "0", completed_ |-> FALSE],
   [start_byte |-> "8", end_byte |-> "9", copied_offset_ |-> "5", completed_ |-> TRUE]}

\* None, one or two segments, and names that are UTF-8 or not.
SomeStatuses ==
  [source_file : {"good", "bad"}, destination_file : {"good", "bad"},
   total_size : {"9"}, total_copied : {"5"}, checksum : {"c"},
   segments : UNION {[ids -> Segments] : ids \in {{}, {"id1"}, {"id1", "id2"}}}]
=============================================================================
