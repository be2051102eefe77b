------------------------------ MODULE ArgParser ------------------------------
(***************************************************************************)
(* parse_args (src/core/parser.cpp) on any command line.                   *)
(*                                                                         *)
(* An argument is a sequence of pieces: Blank (a space or a tab), NewLine, *)
(* Equals, or a word without these characters.  argv[0], the program's     *)
(* name, is left out.                                                      *)
(***************************************************************************)
EXTENDS Integers, Sequences, SequencesExt, FiniteSetsExt

CONSTANT CommandLines  \* the argv to try

ASSUME LineAssumption == \A line \in CommandLines : line \in Seq(Range(line))

VARIABLES
  argv, i, visited, config,
  parser  \* "parsing", "parsed", "threw", or "killed" by a null pointer

parserVars == <<argv, i, visited, config, parser>>

Blank == " "
NewLine == "newline"
Equals == "="

ProgressNames == {<<"-p">>, <<"--progress">>}
Targets ==
  [filename |-> {<<"-f">>, <<"--filename">>},
   source_file |-> {<<"-s">>, <<"--source">>},
   output_dir |-> {<<"-d">>, <<"--destination">>}]
Known == UNION {Targets[t] : t \in DOMAIN Targets}

NoConfig ==
  [filename |-> <<>>, source_file |-> <<>>, output_dir |-> <<>>, show_progress |-> FALSE]

\* The longest beginning of s of which every piece passes.
Span(s, Passes(_)) ==
  LET stop == SelectInSeq(s, LAMBDA c : ~Passes(c))
  IN IF stop = 0 THEN s ELSE SubSeq(s, 1, stop - 1)

After(s, beginning) == SubSeq(s, Len(beginning) + 1, Len(s))

skip_whitespace(arg) == After(arg, Span(arg, LAMBDA c : c = Blank))

read_name(arg) == Span(arg, LAMBDA c : c \notin {Blank, NewLine, Equals})

Name(arg) == read_name(skip_whitespace(arg))

\* The value behind an equals sign, <<>> if there is none.
Inline(arg) ==
  LET rest == After(skip_whitespace(arg), Name(arg))
  IN IF rest # <<>> /\ rest[1] = Equals THEN read_name(Tail(rest)) ELSE <<>>

ParserInit ==
  /\ argv \in CommandLines
  /\ i = 1
  /\ visited = {}
  /\ config = NoConfig
  /\ parser = "parsing"
-----------------------------------------------------------------------------
InLoop == parser = "parsing" /\ i <= Len(argv)

name == Name(argv[i])

New == name \notin visited /\ visited' = visited \cup {name}

Ends(how) == parser' = how /\ UNCHANGED <<argv, i, config>>

Repeated == InLoop /\ name \in visited /\ Ends("threw") /\ UNCHANGED visited

Progress ==
  /\ InLoop /\ New /\ name \in ProgressNames
  /\ config' = [config EXCEPT !.show_progress = Inline(argv[i]) \in {<<>>, <<"true">>}]
  /\ i' = i + 1
  /\ UNCHANGED <<argv, parser>>

\* Where the value of an option is not inline it is the next argument, whatever
\* that looks like.
NextEvenIfInline == i + 1                                         \* slip
ValueAt == IF Inline(argv[i]) = <<>> THEN i + 1 ELSE i

Set ==
  LET value == IF ValueAt = i THEN Inline(argv[i]) ELSE argv[ValueAt] IN
  /\ InLoop /\ New /\ name \notin ProgressNames
  /\ ValueAt <= Len(argv)
  /\ \/ \E t \in DOMAIN Targets :
          /\ name \in Targets[t]
          /\ config' = [config EXCEPT ![t] = value]
          /\ i' = ValueAt + 1
          /\ UNCHANGED <<argv, parser>>
     \/ name \notin Known /\ Ends("threw")

\* "i < argc" holds wherever the loop is: the value of a last option is the null
\* pointer that ends argv, and a string is assigned from it.
ReadPastEnd ==
  /\ InLoop /\ New /\ name \notin ProgressNames
  /\ ValueAt > Len(argv)
  /\ Ends("killed")

Return ==
  /\ parser = "parsing" /\ i > Len(argv)
  /\ Ends("parsed")
  /\ UNCHANGED visited

parse_args == Repeated \/ Progress \/ Set \/ ReadPastEnd \/ Return
-----------------------------------------------------------------------------
(* What a command line says, without a loop over it. *)

Alone(k) == Name(argv[k]) \in ProgressNames \/ Inline(argv[k]) # <<>>

\* The arguments that are options and not the value of one.
Options ==
  LET begins[k \in 1..Len(argv)] ==
        \/ k = 1
        \/ k > 1 /\ begins[k - 1] /\ Alone(k - 1)
        \/ k > 2 /\ begins[k - 2] /\ ~Alone(k - 2)
  IN {k \in 1..Len(argv) : begins[k]}

ValueIsMissing == Len(argv) \in Options /\ ~Alone(Len(argv))

Legal ==
  /\ \A k \in Options : Name(argv[k]) \in Known \cup ProgressNames
  /\ \A k, l \in Options : k # l => Name(argv[k]) # Name(argv[l])
  /\ ~ValueIsMissing

\* What the last of the options with these names says, by Reading.
Said(names, Reading(_), default) ==
  LET ks == {k \in Options : Name(argv[k]) \in names}
  IN IF ks = {} THEN default ELSE Reading(Max(ks))

ValueOf(k) == IF Inline(argv[k]) # <<>> THEN Inline(argv[k]) ELSE argv[k + 1]
IsOn(k) == Inline(argv[k]) \in {<<>>, <<"true">>}

Saying ==
  [t \in DOMAIN NoConfig |->
     IF t = "show_progress" THEN Said(ProgressNames, IsOn, FALSE)
     ELSE Said(Targets[t], ValueOf, <<>>)]

\* A command line that names unknown options, one option twice or no value for
\* the last one never gets past parse_args; every other one is read as it is
\* written, the later of -s and --source counting, with no argument taken both
\* as a value and as an option.  Only a missing value kills.
ReadAsWritten ==
  /\ parser = "parsed" => Legal /\ config = Saying
  /\ parser \in {"threw", "killed"} => ~Legal
  /\ parser = "killed" => ValueIsMissing
=============================================================================
