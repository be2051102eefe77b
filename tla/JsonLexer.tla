----------------------------- MODULE JsonLexer -----------------------------
(***************************************************************************)
(* The reader of a status file (json.hpp): class lexer with its one        *)
(* character of look-behind, the byte order mark, white space, literals    *)
(* and the choice of a scanner.  scan_string is in JsonString and          *)
(* scan_number in JsonNumber.                                              *)
(*                                                                         *)
(* A later run reads the file.  What the lexer does depends on the text    *)
(* only, so it follows the writer here, character by character; the text   *)
(* may end anywhere if the writer throws or is killed.  A file that was    *)
(* "edited" holds any text.  Characters are their codes.                   *)
(***************************************************************************)
EXTENDS Integers, Sequences, SequencesExt, TLC

VARIABLES
  writer,      \* "dumping", "ended", "threw", "killed", "edited" or "edited end"
  text,        \* the characters that were written and not read yet
  lexer,       \* where scan is, or "token" when it has returned
  token,       \* what it returned
  fresh,       \* chars_read_total = 0
  current, next_unget,
  literal,     \* the characters that scan_literal still expects
  token_buffer \* the characters of a number

scanVars == <<lexer, token, fresh, current, next_unget, literal, token_buffer>>

EOF == -1
Quote == 34
Minus == 45
Decimals == 48..57

LexerInit ==
  /\ token = "none"
  /\ fresh = TRUE
  /\ current = EOF
  /\ next_unget = FALSE
  /\ literal = <<>>
  /\ token_buffer = <<>>

\* get(), which chars_read_total counts.  Each action of the lexer is one get()
\* and what is done with the character.
Get ==
  /\ next_unget \/ text # <<>> \/ writer \notin {"dumping", "edited"}
  /\ current' = IF next_unget THEN current ELSE IF text = <<>> THEN EOF ELSE Head(text)
  /\ text' = IF next_unget \/ text = <<>> THEN text ELSE Tail(text)
  /\ UNCHANGED writer

NotUngot(place) == lexer' = place /\ next_unget' = FALSE /\ fresh' = FALSE

NoUnget == FALSE                                                  \* slip
Unget == TRUE

\* scan returns; a number leaves the character behind it for the next scan.
Returns(type) == NotUngot("token") /\ token' = type

GetAt(place) == lexer = place /\ Get

\* The bytes of the mark behind the first.
Mark == <<187, 191>>

\* skip_bom, at the beginning of the file only: what is no mark is read again,
\* what only begins like one is an error.
SkipBom ==
  \/ /\ fresh /\ GetAt("scan")
     /\ \/ /\ current' = 239
           /\ NotUngot("mark")
           /\ literal' = Mark
        \/ /\ current' # 239
           /\ lexer' = "space" /\ next_unget' = Unget
           /\ UNCHANGED <<fresh, literal>>
     /\ UNCHANGED <<token, token_buffer>>
  \/ /\ GetAt("mark") /\ UNCHANGED token_buffer
     /\ \/ /\ current' = Head(literal)
           /\ NotUngot(IF Len(literal) = 1 THEN "space" ELSE "mark")
           /\ literal' = Tail(literal)
           /\ UNCHANGED token
        \/ /\ current' # Head(literal)
           /\ Returns("parse_error")
           /\ literal' = <<>>

White == {32, 9, 10, 13}

Structural ==
  [c \in {91, 93, 123, 125, 58, 44} |->
     CASE c = 91 -> "[" [] c = 93 -> "]" [] c = 123 -> "{" [] c = 125 -> "}" [] c = 58 -> ":" [] c = 44 -> ","]

Literals ==
  [c \in {116, 102, 110} |->
     CASE c = 116 -> <<114, 117, 101>> [] c = 102 -> <<97, 108, 115, 101>> [] c = 110 -> <<117, 108, 108>>]

LiteralType ==
  [c \in DOMAIN Literals |-> CASE c = 116 -> "true" [] c = 102 -> "false" [] c = 110 -> "null"]

\* The place where a number is scanned after its first character.
NumberPlace(c) == IF c = Minus THEN "minus" ELSE IF c = 48 THEN "zero" ELSE "any1"

\* skip_whitespace, and the choice by the first character of a token.
Choose ==
  LET c == current' IN
  /\ \/ GetAt("space")
     \/ ~fresh /\ GetAt("scan")
  /\ literal' = IF c \in DOMAIN Literals THEN Literals[c] ELSE <<>>
  /\ token_buffer' = IF c \in Decimals \cup {Minus} THEN <<c>> ELSE <<>>
  /\ \/ c \in White /\ NotUngot("space") /\ UNCHANGED token
     \/ c \in DOMAIN Structural /\ Returns(Structural[c])
     \/ c \in DOMAIN Literals /\ NotUngot("literal") /\ token' = LiteralType[c]
     \/ c = Quote /\ NotUngot("plain") /\ UNCHANGED token
     \/ /\ c \in Decimals \cup {Minus}
        /\ NotUngot(NumberPlace(c))
        /\ token' = IF c = Minus THEN "integer" ELSE "unsigned"
     \/ c \in {0, EOF} /\ Returns("end_of_input")
     \/ /\ c \notin White \cup DOMAIN Structural \cup DOMAIN Literals \cup Decimals
                    \cup {Quote, Minus, 0, EOF}
        /\ Returns("parse_error")

\* scan_literal.
ScanLiteral ==
  /\ GetAt("literal") /\ UNCHANGED token_buffer
  /\ \/ /\ current' = Head(literal)
        /\ NotUngot(IF Len(literal) = 1 THEN "token" ELSE "literal")
        /\ UNCHANGED token
        /\ literal' = Tail(literal)
     \/ /\ current' # Head(literal)
        /\ Returns("parse_error")
        /\ literal' = <<>>

\* The parser asks for the token behind a number.
ScanAgain ==
  /\ lexer = "token" /\ next_unget
  /\ lexer' = "scan" /\ token' = "none"
  /\ UNCHANGED <<writer, text, fresh, current, next_unget, literal, token_buffer>>

LexerNext == SkipBom \/ Choose \/ ScanLiteral \/ ScanAgain

LexerTypeOK ==
  /\ writer \in {"dumping", "ended", "threw", "killed", "edited", "edited end"}
  /\ \A i \in DOMAIN text : text[i] \in 0..255
  /\ token \in {"none", "parse_error", "end_of_input", "true", "false", "null", "string",
                "unsigned", "integer", "float"} \cup {Structural[c] : c \in DOMAIN Structural}
  /\ fresh \in BOOLEAN /\ next_unget \in BOOLEAN
  /\ current \in 0..255 \cup {EOF}
  /\ Len(literal) <= 4
=============================================================================
