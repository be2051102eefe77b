----------------------------- MODULE JsonString -----------------------------
(***************************************************************************)
(* A string of the status on its way into the file and back (json.hpp):    *)
(* serializer::dump_escaped with its UTF-8 decoder, strict and without     *)
(* ensure_ascii as operator<< asks for it, and lexer::scan_string.  They   *)
(* decide independently of each other which bytes are well-formed.         *)
(***************************************************************************)
EXTENDS JsonLexer

CONSTANTS
  Bytes,         \* the bytes that strings and edited texts are made of
  STRING_BUFFER  \* the size of string_buffer (512)

ASSUME StringAssumption ==
  /\ Bytes \subseteq 0..255
  /\ STRING_BUFFER \in Nat /\ STRING_BUFFER >= 13

VARIABLES
  state, codepoint,  \* of decode
  sent,              \* the bytes of the code point being dumped
  bytes, peak,       \* the fill of string_buffer, and the last index written to it
  digits, ranges,    \* hex digits read after \u; ranges next_byte_in_range has left
  got                \* what token_buffer got of the code point being read, or read last

dumpVars == <<state, codepoint, sent, bytes, peak>>
stringVars == <<digits, ranges, got>>

UTF8_ACCEPT == 0
UTF8_REJECT == 1
Backslash == 92

StringInit ==
  /\ state = UTF8_ACCEPT
  /\ codepoint = 0
  /\ sent = <<>>
  /\ bytes = 0 /\ peak = 0
  /\ digits = <<>>
  /\ ranges = <<>>
  /\ got = <<>>
-----------------------------------------------------------------------------
(* dump_escaped. *)

\* The first half of the table utf8d: the class of a byte.
Class(b) ==
  CASE b < 128 -> 0
    [] b \in 128..143 -> 1
    [] b \in 144..159 -> 9
    [] b \in 160..191 -> 7
    [] b \in 194..223 -> 2
    [] b = 224 -> 10
    [] b \in (225..239) \ {237} -> 3
    [] b = 237 -> 4
    [] b = 240 -> 11
    [] b \in 241..243 -> 6
    [] b = 244 -> 5
    [] OTHER -> 8

Continuation == {1, 7, 9}
NotOverlong == {7}                                        \* A0..BF, behind E0

\* The second half: the classes that lead from state s, not ACCEPT, on to
\* state t, and the state that a class leads to.
Leads(s, t) ==
  CASE s = 2 /\ t = 0 -> Continuation
    [] s = 3 /\ t = 2 -> Continuation
    [] s = 4 /\ t = 2 -> NotOverlong
    [] s = 5 /\ t = 2 -> {1, 9}
    [] s = 6 /\ t = 3 -> {7, 9}
    [] s = 7 /\ t = 3 -> Continuation
    [] s = 8 /\ t = 3 -> {1}
    [] OTHER -> {}

NextState(s, c) ==
  IF s = UTF8_ACCEPT THEN <<0, 1, 2, 3, 5, 8, 7, 1, 1, 1, 4, 6>>[c + 1]
  ELSE LET on == {t \in {0, 2, 3} : c \in Leads(s, t)}
       IN IF on = {} THEN UTF8_REJECT ELSE CHOOSE t \in on : TRUE

NextCodepoint(b) ==
  IF state # UTF8_ACCEPT THEN codepoint * 64 + (b % 64)
  ELSE IF Class(b) >= 8 THEN 0 ELSE b % <<256, 128, 64, 32, 16, 8, 4, 2>>[Class(b) + 1]

HexChar(d) == IF d < 10 THEN 48 + d ELSE 87 + d

\* The characters that are escaped by a letter, and the letter.
Short ==
  [c \in {8, 9, 10, 12, 13, Quote, Backslash} |->
     CASE c = 8 -> 98 [] c = 9 -> 116 [] c = 10 -> 110 [] c = 12 -> 102 [] c = 13 -> 114 [] OTHER -> c]

\* What is written for a code point that ends in byte b.
Escaped(cp, b) ==
  CASE cp \in DOMAIN Short -> <<Backslash, Short[cp]>>
    [] cp <= 31 /\ cp \notin DOMAIN Short ->
         <<Backslash, 117, 48, 48, HexChar(cp \div 16), HexChar(cp % 16)>>
    [] OTHER -> <<b>>

AfterFlushLate(n) == IF STRING_BUFFER - n < 4 THEN 0 ELSE n       \* slip

\* The fill of the buffer after a code point: written out if another one may
\* not fit.
AfterFlush(n) == IF STRING_BUFFER - n < 13 THEN 0 ELSE n

\* One turn of the loop.  snprintf writes a NUL behind \uxxxx.
DumpByte(b) ==
  LET s == NextState(state, Class(b))
      out == IF s = UTF8_ACCEPT THEN Escaped(NextCodepoint(b), b) ELSE <<b>>
  IN /\ writer = "dumping" /\ text = <<>>
     /\ state' = s
     /\ codepoint' = NextCodepoint(b)
     /\ sent' = IF state = UTF8_ACCEPT THEN <<b>> ELSE Append(sent, b)
     /\ \/ /\ s = UTF8_REJECT
           /\ writer' = "threw"
           /\ UNCHANGED <<bytes, peak, text>>
        \/ /\ s # UTF8_REJECT
           /\ text' = out
           /\ bytes' = IF s = UTF8_ACCEPT THEN AfterFlush(bytes + Len(out))
                                          ELSE bytes + 1
           /\ peak' = bytes + Len(out) + (IF Len(out) = 6 THEN 1 ELSE 0)
           /\ UNCHANGED writer
     /\ UNCHANGED <<scanVars, stringVars>>

\* The end of the string: dump writes the closing quote, unless the string
\* ended inside a code point.
DumpEnd ==
  /\ writer = "dumping" /\ text = <<>>
  /\ \/ /\ state = UTF8_ACCEPT
        /\ writer' = "ended"
        /\ text' = <<Quote>>
     \/ /\ state # UTF8_ACCEPT
        /\ writer' = "threw"
        /\ UNCHANGED text
  /\ UNCHANGED <<dumpVars, scanVars, stringVars>>

-----------------------------------------------------------------------------
(* scan_string. *)

StringPlaces == {"plain", "ranges", "escape", "hex", "pair", "pair u"}

ScanString(place) == GetAt(place) /\ current' # EOF

Goto(place) == NotUngot(place) /\ UNCHANGED token

Fail == Returns("parse_error") /\ digits' = <<>> /\ ranges' = <<>> /\ got' = <<>>

\* A code point was read whole.
Add(s) ==
  /\ got' = s
  /\ NotUngot("plain") /\ UNCHANGED token
  /\ digits' = <<>> /\ ranges' = <<>>

Later == 128..191

\* The ranges that must follow a byte; none for a byte that starts nothing.
Ranges(b) ==
  CASE b \in 194..223 -> << Later >>
    [] b = 224 -> << 160..191, Later >>
    [] b \in (225..239) \ {237} -> << Later, Later >>
    [] b = 237 -> << 128..159, Later >>
    [] b = 240 -> << 144..191, Later, Later >>
    [] b \in 241..243 -> << Later, Later, Later >>
    [] b = 244 -> << 128..143, Later, Later >>
    [] OTHER -> <<>>

\* The closing quote, or the beginning of an escape.
ScanQuote ==
  /\ ScanString("plain")
  /\ \/ current' = Quote /\ Returns("string") /\ UNCHANGED got
     \/ current' = Backslash /\ Goto("escape") /\ got' = <<>>
  /\ UNCHANGED <<digits, ranges>>

\* A control character must be escaped.
ScanControl == ScanString("plain") /\ current' \in 0..31 /\ Fail

ScanAscii ==
  /\ ScanString("plain")
  /\ current' \in (32..127) \ {Quote, Backslash}
  /\ Add(<<current'>>)

\* The first byte of a longer sequence, or a byte that cannot be one.
ScanLead ==
  /\ ScanString("plain")
  /\ current' > 127
  /\ \/ /\ Ranges(current') # <<>>
        /\ Goto("ranges")
        /\ ranges' = Ranges(current')
        /\ got' = <<current'>>
        /\ UNCHANGED digits
     \/ Ranges(current') = <<>> /\ Fail

\* next_byte_in_range.
ScanRange ==
  LET c == current' IN
  /\ ScanString("ranges")
  /\ \/ /\ c \in Head(ranges)
        /\ ranges' = Tail(ranges)
        /\ got' = Append(got, c)
        /\ Goto(IF Len(ranges) = 1 THEN "plain" ELSE "ranges")
        /\ UNCHANGED digits
     \/ c \notin Head(ranges) /\ Fail

\* The character after a backslash.
ScanEscape ==
  LET c == current' IN
  /\ ScanString("escape")
  /\ \/ c = 117 /\ Goto("hex") /\ UNCHANGED <<digits, ranges, got>>
     \/ c = 47 /\ Add(<<47>>)
     \/ \E d \in DOMAIN Short : c = Short[d] /\ Add(<<d>>)
     \/ c \notin {117, 47} \cup {Short[d] : d \in DOMAIN Short} /\ Fail

HexValue(c) ==
  CASE c \in 48..57 -> c - 48
    [] c \in 65..70 -> c - 55
    [] c \in 97..102 -> c - 87
    [] OTHER -> -1

Codepoint(d) == ((d[1] * 16 + d[2]) * 16 + d[3]) * 16 + d[4]

TwoBytes == 128..2047
ThreeBytes == {cp \in Nat : 2048 <= cp /\ cp <= 65535}

\* A code point as bytes.
Encoded(cp) ==
  CASE cp < 128 -> <<cp>>
    [] cp \in TwoBytes -> <<192 + (cp \div 64), 128 + (cp % 64)>>
    [] cp \in ThreeBytes -> <<224 + (cp \div 4096), 128 + ((cp \div 64) % 64), 128 + (cp % 64)>>
    [] OTHER -> <<240 + (cp \div 262144), 128 + ((cp \div 4096) % 64),
                  128 + ((cp \div 64) % 64), 128 + (cp % 64)>>

IsHigh(cp) == cp \in 55296..56319
IsLow(cp) == cp \in 56320..57343

\* A digit of get_codepoint, for the first \u or for the second of a pair.
ScanHex ==
  LET all == Append(digits, HexValue(current'))
      cp1 == Codepoint(all)
      cp2 == Codepoint(SubSeq(all, 5, 8))
  IN /\ ScanString("hex")
     /\ \/ HexValue(current') = -1 /\ Fail
        \/ /\ HexValue(current') # -1
           /\ \/ /\ Len(all) \notin {4, 8}
                 /\ digits' = all
                 /\ Goto("hex") /\ UNCHANGED <<ranges, got>>
              \/ /\ Len(all) = 4
                 /\ \/ /\ IsHigh(cp1)
                       /\ Goto("pair")
                       /\ digits' = all
                       /\ UNCHANGED <<ranges, got>>
                    \/ IsLow(cp1) /\ Fail
                    \/ ~IsHigh(cp1) /\ ~IsLow(cp1) /\ Add(Encoded(cp1))
              \/ /\ Len(all) = 8
                 /\ \/ IsLow(cp2) /\ Add(Encoded(cp1 * 1024 + cp2 - 56613888))
                    \/ ~IsLow(cp2) /\ Fail

\* After a high surrogate: a backslash, then a u.
ScanPair ==
  /\ ScanString("pair") \/ ScanString("pair u")
  /\ \/ /\ current' = (IF lexer = "pair" THEN Backslash ELSE 117)
        /\ Goto(IF lexer = "pair" THEN "pair u" ELSE "hex")
        /\ UNCHANGED <<digits, ranges, got>>
     \/ current' # (IF lexer = "pair" THEN Backslash ELSE 117) /\ Fail

\* The text ends anywhere in the string.
ScanEOF ==
  /\ lexer \in StringPlaces /\ Get
  /\ current' = EOF
  /\ Fail
-----------------------------------------------------------------------------
DumpString == (\E b \in Bytes : DumpByte(b)) \/ DumpEnd

ReadString ==
  /\ \/ ScanQuote \/ ScanControl \/ ScanAscii \/ ScanLead \/ ScanRange
     \/ ScanEscape \/ ScanHex \/ ScanPair \/ ScanEOF
  /\ UNCHANGED <<dumpVars, literal, token_buffer>>
-----------------------------------------------------------------------------
(* Well-formed UTF-8, as Unicode defines it and not as either table does: *)
(* the shortest encoding of a code point that is not a surrogate.         *)

\* The value of the bits a sequence carries, by its length.
Value(s) ==
  CASE Len(s) = 1 -> s[1]
    [] Len(s) = 2 -> (s[1] - 192) * 64 + s[2] - 128
    [] Len(s) = 3 -> ((s[1] - 224) * 64 + s[2] - 128) * 64 + s[3] - 128
    [] Len(s) = 4 -> (((s[1] - 240) * 64 + s[2] - 128) * 64 + s[3] - 128) * 64 + s[4] - 128

ByteLength(cp) ==
  CASE cp \in 0..127 -> 1
    [] cp \in TwoBytes -> 2
    [] cp \in ThreeBytes -> 3
    [] OTHER -> 4

Scalar(cp) == cp \in Nat /\ cp <= 1114111 /\ cp \notin 55296..57343

LeadOf(n) == CASE n = 1 -> 0..127 [] n = 2 -> 192..223 [] n = 3 -> 224..239 [] n = 4 -> 240..247

Complete(s) ==
  /\ Len(s) \in 1..4
  /\ s[1] \in LeadOf(Len(s))
  /\ \A i \in 2..Len(s) : s[i] \in 128..191
  /\ Scalar(Value(s))
  /\ ByteLength(Value(s)) = Len(s)

\* Some bytes complete s: the lowest or the highest ones if any do.
Completable(s) ==
  \E n \in 0..3 : \E tail \in [1..n -> {128, 191}] : Complete(s \o tail)
-----------------------------------------------------------------------------
StringTypeOK ==
  /\ state \in 0..8
  /\ codepoint \in Nat
  /\ Len(sent) <= 4 /\ \A i \in DOMAIN sent : sent[i] \in Bytes
  /\ bytes \in 0..STRING_BUFFER /\ peak \in Nat
  /\ Len(digits) <= 7 /\ \A i \in DOMAIN digits : digits[i] \in 0..15
  /\ Len(ranges) <= 3 /\ \A i \in DOMAIN ranges : ranges[i] \subseteq 128..191
  /\ Len(got) <= 4 /\ \A i \in DOMAIN got : got[i] \in 0..255

\* strict: dump_escaped throws at the first byte after which no continuation
\* is well-formed UTF-8, and at the end of an incomplete code point; it takes
\* every well-formed string.
StrictExactly ==
  sent # <<>> =>
    /\ (state = UTF8_REJECT) <=> ~Completable(sent)
    /\ (state = UTF8_ACCEPT) <=> Complete(sent)

\* Whatever was edited into the file, what the lexer hands on is well-formed
\* UTF-8: a string that was read can be dumped again.
ReadsWellFormed == lexer = "plain" /\ got # <<>> => Complete(got)

\* Whatever a string holds, what dump_escaped wrote of it is read back as it
\* was sent, code point by code point; the string ends where it ended and
\* nowhere before, so a cut text is never a shorter string.
SentIsGot ==
  /\ writer \in {"dumping", "ended"} => token # "parse_error"
  /\ token = "string" => writer \in {"ended", "edited", "edited end"}
  /\ writer = "dumping" /\ text = <<>> /\ sent # <<>> => got = sent

\* Thirteen bytes of room after each code point are enough for the next one,
\* for the bytes of an unfinished one and for the NUL of snprintf.
BufferNeverOverrun == peak <= STRING_BUFFER
=============================================================================
