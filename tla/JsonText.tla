------------------------------ MODULE JsonText ------------------------------
(***************************************************************************)
(* The tokens of a status file, from dump's characters to what scan        *)
(* returns: one string or one number that is dumped and read in lockstep,  *)
(* or a text that was edited, from its first character on.                 *)
(***************************************************************************)
EXTENDS JsonString, JsonNumber

CONSTANT Beginnings  \* the characters an edited text has outside of strings and numbers

ASSUME TextAssumption == Beginnings \subseteq 0..255

textVars == <<writer, text, scanVars, dumpVars, stringVars, integerVars, value>>

\* dump has written the opening quote of a string.
TextInit ==
  /\ lexer = "scan" /\ LexerInit /\ StringInit /\ NumberInit
  /\ \/ writer = "dumping" /\ x = -1 /\ follower = EOF /\ text = <<Quote>>
     \/ writer = "dumping" /\ x \in Numbers /\ follower \in {Comma, Brace, EOF} /\ text = <<>>
     \/ writer = "edited" /\ x = -1 /\ follower = EOF /\ text = <<>>

TextIdle ==
  /\ lexer = "token" /\ LexerInit /\ StringInit /\ NumberInit
  /\ writer = "ended" /\ x = -1 /\ follower = EOF /\ text = <<>>

Dump ==
  \/ x = -1 /\ DumpString /\ UNCHANGED <<integerVars, value>>
  \/ x # -1 /\ DumpNumber /\ UNCHANGED <<dumpVars, stringVars>>

\* The writer is killed, or the disk is full: the file ends here.  An edited
\* text just ends.
Kill ==
  /\ \/ writer = "dumping" /\ x = -1 /\ writer' = "killed"
     \/ writer = "edited" /\ lexer # "token" /\ writer' = "edited end"
  /\ \E n \in 0..Len(text) : text' = SubSeq(text, 1, n)
  /\ UNCHANGED <<scanVars, dumpVars, stringVars, integerVars, value>>

\* What may be edited in behind what was read.
Possible ==
  CASE lexer \in StringPlaces -> Bytes
    [] lexer \in Label -> IF Len(token_buffer) < MAX_TEXT THEN Chars ELSE {}
    [] OTHER -> Beginnings

EditedChar ==
  /\ writer = "edited" /\ text = <<>> /\ lexer # "token" /\ ~next_unget
  /\ \E c \in Possible : text' = <<c>>
  /\ UNCHANGED <<writer, scanVars, dumpVars, stringVars, integerVars, value>>

Read ==
  \/ LexerNext /\ UNCHANGED <<dumpVars, stringVars, integerVars, value>>
  \/ ReadString /\ UNCHANGED <<integerVars, value>>
  \/ ReadNumber /\ UNCHANGED <<dumpVars, stringVars>>

TextNext == Dump \/ Kill \/ EditedChar \/ Read

TextSpec == (TextInit \/ TextIdle) /\ [][TextNext]_textVars

\* A string or a number of the status survives its way into the file and back,
\* whatever stands around it; neither side takes what the other would refuse, and
\* what was edited is taken for what it says.
TextReadBack ==
  /\ SentIsGot /\ StrictExactly /\ ReadsWellFormed
  /\ ExactlyFilled /\ SavedIsLoaded /\ AgreesWithGrammar

TextTypeOK ==
  /\ LexerTypeOK /\ StringTypeOK /\ NumberTypeOK
  /\ lexer \in {"scan", "mark", "space", "literal", "token"} \cup StringPlaces \cup Label
=============================================================================
