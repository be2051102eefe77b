----------------------------- MODULE JsonNumber -----------------------------
(***************************************************************************)
(* A number of the status on its way into the file and back (json.hpp):    *)
(* serializer::dump_integer for a 64-bit unsigned value, and               *)
(* lexer::scan_number, which also meets whatever was edited into a file.   *)
(***************************************************************************)
EXTENDS JsonLexer

CONSTANTS
  Numbers,        \* the values that are dumped
  MAX_UNSIGNED,   \* the largest number_unsigned_t (2^64 - 1)
  NUMBER_BUFFER,  \* the size of number_buffer (64)
  Chars,          \* the characters an edited number is made of
  MAX_TEXT        \* how many of them (a bound of the model)

Zero == 48
Point == 46
Exponents == {69, 101}
Signs == {43, 45}
Comma == 44
Brace == 125

\* The powers of ten.
Tens[n \in Nat] == IF n = 0 THEN 1 ELSE 10 * Tens[n - 1]

ASSUME NumberAssumption ==
  /\ MAX_UNSIGNED \in Nat \ {0} /\ Numbers \subseteq 0..MAX_UNSIGNED
  /\ NUMBER_BUFFER \in Nat /\ NUMBER_BUFFER >= 2 /\ MAX_UNSIGNED < Tens[NUMBER_BUFFER - 2]
  /\ Chars \subseteq 0..127 /\ MAX_TEXT \in Nat

VARIABLES
  x,                                       \* the value to dump, or -1 if none is
  abs_value, n_chars, buffer_ptr, buffer,  \* of dump_integer
  follower,                                \* what dump writes behind the number
  value                                    \* of the token that is returned

integerVars == <<x, abs_value, n_chars, buffer_ptr, buffer, follower>>

NumberInit ==
  /\ abs_value = 0 /\ n_chars = 0 /\ buffer_ptr = 0
  /\ buffer = [i \in 0..NUMBER_BUFFER - 1 |-> 0]
  /\ value = 0
-----------------------------------------------------------------------------
(* dump_integer.  The buffer keeps what earlier numbers left in it. *)

CountSmall(n, limit) ==
  IF n < 10 THEN 1 ELSE IF n < 100 THEN 2 ELSE IF n < 1000 THEN 3 ELSE limit

\* The digits of n, counted four at a time.
CountDigits[n \in Nat] ==
  IF n < 10000 THEN CountSmall(n, 4) ELSE 4 + CountDigits[n \div 10000]

\* What is sent to the file: the number, and what dump writes behind it.
Send(s) ==
  /\ text' = s \o (IF follower = EOF THEN <<>> ELSE <<follower>>)
  /\ writer' = "ended"

DumpZero ==
  /\ writer = "dumping" /\ x = 0
  /\ Send(<<Zero>>)
  /\ UNCHANGED <<integerVars, scanVars, value>>

StartFilling ==
  /\ writer = "dumping" /\ x > 0 /\ n_chars = 0
  /\ abs_value' = x
  /\ n_chars' = CountDigits[x]
  /\ buffer_ptr' = CountDigits[x]
  /\ UNCHANGED <<x, buffer, follower, writer, text, scanVars, value>>

\* Writes the two digits of n in front of buffer_ptr.
PutPair(n) ==
  /\ buffer' = [buffer EXCEPT ![buffer_ptr - 1] = Zero + (n % 10),
                              ![buffer_ptr - 2] = Zero + (n \div 10)]
  /\ buffer_ptr' = buffer_ptr - 2

FillPair ==
  /\ writer = "dumping" /\ n_chars > 0 /\ abs_value >= 100
  /\ PutPair(abs_value % 100)
  /\ abs_value' = abs_value \div 100
  /\ UNCHANGED <<x, n_chars, follower, writer, text, scanVars, value>>

LastPair == abs_value >= 10

\* The first one or two digits; then the buffer is written out.
FillLast ==
  /\ writer = "dumping" /\ n_chars > 0 /\ abs_value < 100
  /\ \/ LastPair /\ PutPair(abs_value)
     \/ /\ ~LastPair
        /\ buffer' = [buffer EXCEPT ![buffer_ptr - 1] = Zero + abs_value]
        /\ buffer_ptr' = buffer_ptr - 1
  /\ Send([i \in 1..n_chars |-> buffer'[i - 1]])
  /\ UNCHANGED <<x, abs_value, n_chars, follower, scanVars, value>>
-----------------------------------------------------------------------------
(* scan_number, from its second character on. *)

\* Where a character leads before the decimal point, and behind it.
IntegerLabel(label, c) ==
  CASE label = "minus" /\ c = Zero -> "zero"
    [] label = "minus" /\ c \in Decimals \ {Zero} -> "any1"
    [] label = "any1" /\ c \in Decimals -> "any1"
    [] label \in {"zero", "any1"} /\ c = Point -> "decimal1"
    [] label \in {"zero", "any1"} /\ c \in Exponents -> "exponent"
    [] OTHER -> "none"

FractionLabel(label, c) ==
  CASE label \in {"decimal1", "decimal2"} /\ c \in Decimals -> "decimal2"
    [] label = "decimal2" /\ c \in Exponents -> "exponent"
    [] label = "exponent" /\ c \in Signs -> "sign"
    [] label \in {"exponent", "sign", "any2"} /\ c \in Decimals -> "any2"
    [] OTHER -> "none"

\* The label that a character leads to, "none" if the number ends before it.
NextLabel(label, c) ==
  IF label \in {"minus", "zero", "any1"} THEN IntegerLabel(label, c) ELSE FractionLabel(label, c)

Label == {"minus", "zero", "any1", "decimal1", "decimal2", "exponent", "sign", "any2"}
MayEnd == {"zero", "any1", "decimal2", "any2"}

ScanOn ==
  LET label == NextLabel(lexer, current') IN
  /\ lexer \in Label /\ Get
  /\ label # "none" /\ NotUngot(label)
  /\ token_buffer' = Append(token_buffer, current')
  /\ token' = IF label \in {"decimal1", "exponent"} THEN "float" ELSE token
  /\ UNCHANGED value

ScanError ==
  /\ lexer \in Label \ MayEnd /\ Get
  /\ NextLabel(lexer, current') = "none"
  /\ Returns("parse_error")
  /\ UNCHANGED <<token_buffer, value>>

\* What strtoull and strtoll read.
Positional(s) ==
  LET read[k \in 0..Len(s)] == IF k = 0 THEN 0 ELSE 10 * read[k - 1] + (s[k] - Zero)
  IN read[Len(s)]

StrToInt(s) == IF s[1] = Minus THEN -Positional(Tail(s)) ELSE Positional(s)

RangeOf(type) ==
  CASE type = "unsigned" -> 0..MAX_UNSIGNED
    [] type = "integer" -> (-(MAX_UNSIGNED + 1) \div 2)..((MAX_UNSIGNED - 1) \div 2)
    [] type = "float" -> {}

\* scan_number_done: an integer out of range (ERANGE) becomes a float, whose
\* value is left open.  What is stored is as wide as the type.
ScanDone ==
  /\ lexer \in MayEnd /\ Get
  /\ NextLabel(lexer, current') = "none"
  /\ lexer' = "token"
  /\ next_unget' = Unget
  /\ IF token # "float" /\ StrToInt(token_buffer) \in RangeOf(token)
     THEN /\ value' = (IF token = "unsigned"
                       THEN StrToInt(token_buffer) % (MAX_UNSIGNED + 1)
                       ELSE StrToInt(token_buffer))
          /\ UNCHANGED token
     ELSE token' = "float" /\ value' = 0
  /\ UNCHANGED <<token_buffer, fresh>>

DumpNumber == DumpZero \/ StartFilling \/ FillPair \/ FillLast

ReadNumber == (ScanOn \/ ScanError \/ ScanDone) /\ UNCHANGED <<integerVars, literal>>
-----------------------------------------------------------------------------
(* A number as RFC 8259 defines it. *)

AreDigits(s) == s # <<>> /\ Range(s) \subseteq Decimals

IntPart(s) == s = <<Zero>> \/ (AreDigits(s) /\ s[1] # Zero)

FracPart(s) == s = <<>> \/ (s[1] = Point /\ AreDigits(Tail(s)))

ExpPart(s) ==
  \/ s = <<>>
  \/ /\ s[1] \in Exponents /\ Len(s) > 1
     /\ AreDigits(IF s[2] \in Signs THEN SubSeq(s, 3, Len(s)) ELSE Tail(s))

Unsigned(s) == IF s # <<>> /\ s[1] = Minus THEN Tail(s) ELSE s

IsNumber(s) ==
  LET u == Unsigned(s) IN
  \E i \in 0..Len(u) : \E j \in i..Len(u) :
     /\ IntPart(SubSeq(u, 1, i))
     /\ FracPart(SubSeq(u, i + 1, j))
     /\ ExpPart(SubSeq(u, j + 1, Len(u)))

\* s is a number or the beginning of one, which a digit then completes.
StartsNumber(s) == IsNumber(s) \/ IsNumber(Append(s, Zero + 1))
-----------------------------------------------------------------------------
NumberTypeOK ==
  /\ x \in Numbers \cup {-1}
  /\ abs_value \in 0..MAX_UNSIGNED
  /\ n_chars \in 0..NUMBER_BUFFER - 2
  /\ buffer_ptr \in 0..NUMBER_BUFFER
  /\ buffer \in [0..NUMBER_BUFFER - 1 -> Decimals \cup {0}]
  /\ follower \in {Comma, Brace, EOF}
  /\ \A i \in DOMAIN token_buffer : token_buffer[i] \in 0..127
  /\ value \in Int

\* The digits, filled in from behind, end exactly where the count of them
\* said they would begin: no stale character of an earlier number is written
\* out and nothing is written in front of the buffer.
ExactlyFilled ==
  x > 0 /\ writer = "ended" =>
    /\ buffer_ptr = 0
    /\ n_chars = 1 \/ Tens[n_chars - 1] <= x
    /\ x < Tens[n_chars]

\* Every number that was saved is read back as the same unsigned number, and
\* the character behind it, whatever it is, as the next token.
SavedIsLoaded ==
  x # -1 /\ writer = "ended" /\ lexer = "token" =>
    IF next_unget THEN token = "unsigned" /\ value = x
    ELSE token = (IF follower = EOF THEN "end_of_input" ELSE Structural[follower])

NumberReturned == lexer = "token" /\ token \in {"unsigned", "integer", "float"}

\* scan_number takes the longest number there is, and fails only where no
\* character could make one; an integer is exact, and one that does not fit
\* never wraps around.
AgreesWithGrammar ==
  /\ lexer \in Label => StartsNumber(token_buffer)
  /\ lexer \in MayEnd => IsNumber(token_buffer)
  /\ NumberReturned => /\ IsNumber(token_buffer)
                       /\ ~StartsNumber(Append(token_buffer, current))
                       /\ (token # "float") <=>
                            /\ AreDigits(Unsigned(token_buffer))
                            /\ StrToInt(token_buffer) <= MAX_UNSIGNED
                            /\ 2 * StrToInt(token_buffer) >= -(MAX_UNSIGNED + 1)
                            /\ token_buffer[1] = Minus \/ token = "unsigned"
                       /\ (token # "float") => value = StrToInt(token_buffer)
  /\ token = "parse_error" /\ token_buffer # <<>> =>
       /\ ~IsNumber(token_buffer)
       /\ ~StartsNumber(Append(token_buffer, current))
=============================================================================
