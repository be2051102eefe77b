------------------------------- MODULE Startup -------------------------------
(***************************************************************************)
(* How a run begins and what it says to the terminal: parse_args in main,  *)
(* then, when write_segments creates it, the renderer's constructor and    *)
(* its rows.  What main does in between is in Session.                     *)
(***************************************************************************)
EXTENDS ArgParser, Terminal

vars == <<parserVars, terminalVars>>

Init == ParserInit /\ TerminalInit

\* parse_args has returned, and its variables are gone.
CreateRenderer ==
  /\ parser = "parsed" /\ ctor = "none"
  /\ argv' = <<>> /\ i' = 1 /\ visited' = {} /\ config' = NoConfig
  /\ ctor' = "size"
  /\ cursor' \in Cursors
  /\ UNCHANGED <<parser, mode, input, terminal, typed, failed, buf, c_start, t_rows>>

Program ==
  \/ parse_args /\ UNCHANGED terminalVars
  \/ CreateRenderer
  \/ Construct /\ UNCHANGED parserVars

Next == Program \/ (Outside /\ UNCHANGED parserVars)

\* The program goes on, and a terminal that is there answers.
Spec == Init /\ [][Next]_vars /\ WF_vars(Program) /\ WF_vars(Answer /\ UNCHANGED parserVars)
-----------------------------------------------------------------------------
TypeOK ==
  /\ argv \in CommandLines \cup {<<>>}
  /\ i \in 1..Len(argv) + 1
  /\ visited \subseteq {Name(argv[k]) : k \in DOMAIN argv}
  /\ DOMAIN config = DOMAIN NoConfig
  /\ parser \in {"parsing", "parsed", "threw", "killed"}
  /\ ctor \in {"none", "size", "ask", "read", "scan", "place", "placed", "threw"}
  /\ mode \in {"old", "new"}
  /\ terminal \in {"there", "asked", "answered", "hung up"}
  /\ Len(buf) < BUF_SIZE
  /\ cursor \in Cursors \cup {<<1, 1>>}
  /\ c_start \in Nat \X Nat
  /\ Len(t_rows) <= SEGMENTS + 1

\* However reading the answer ends, with it, with an R that was typed, with a full
\* buffer, with an error or after a hang-up, the terminal gets its mode back, and
\* the bars their rows.
TerminalGivenBack == mode = "new" ~> (mode = "old" /\ ctor = "placed")
=============================================================================
