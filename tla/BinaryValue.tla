---------------------------- MODULE BinaryValue ----------------------------
(***************************************************************************)
(* What the binary formats of json.hpp have in common: the values, numbers *)
(* of any width in network or in the other order, and the functions of     *)
(* binary_reader and binary_writer that all formats use.                   *)
(*                                                                         *)
(* A value is a pair of its type and its content.  A number is the         *)
(* sequence of its bytes, the most significant first and no zeros in       *)
(* front, so that 64 bits are 64 bits here: <<"unsigned", n>>,             *)
(* <<"integer", n>> for a signed one that is not negative, and             *)
(* <<"negative", n>> for -1 - n.  A float has the eight bytes of a double. *)
(* An object is a function from its keys, a binary is <<bytes, subtype>>   *)
(* with an empty or a one-element sequence for the subtype.                *)
(***************************************************************************)
EXTENDS Integers, Sequences, SequencesExt, TLC

Null == <<"null", <<>>>>
Boolean(x) == <<IF x THEN "true" ELSE "false", <<>>>>

eof == -1
Huge == 2^30  \* any length beyond what a file holds

\* Where reading got to: the value and the next byte, or nothing after an error.
Got(val, next) == [ok |-> TRUE, val |-> val, next |-> next]
Error == [ok |-> FALSE]
Then(r, Continue(_, _)) == IF r.ok THEN Continue(r.val, r.next) ELSE Error
Typed(type, r) == Then(r, LAMBDA val, next : Got(<<type, val>>, next))

At(b, i) == IF i \in DOMAIN b THEN b[i] ELSE eof
-----------------------------------------------------------------------------
(* Numbers *)

Strip(bytes) ==
  LET digits == {i \in DOMAIN bytes : bytes[i] # 0}
  IN IF digits = {} THEN <<>> ELSE SubSeq(bytes, CHOOSE i \in digits : \A j \in digits : i <= j, Len(bytes))

Pad(n, width) == [i \in 1..(width - Len(n)) |-> 0] \o n
Num(k) == Strip(<<k \div 2^24, (k \div 2^16) % 256, (k \div 2^8) % 256, k % 256>>)
Size(n) == IF Len(n) > 3 THEN Huge ELSE FoldLeft(LAMBDA sum, byte : 256 * sum + byte, 0, n)
Fits(n, width) == Len(n) <= width

\* Whether n is at most 2^(8 * width - 1) - 1, so that a signed type holds n and -1 - n.
FitsSigned(n, width) == Len(n) < width \/ (Len(n) = width /\ n[1] <= 127)

\* ~n in a type of that width.
Complement(n, width) == Strip([i \in 1..width |-> 255 - Pad(n, width)[i]])

\* The bits of a number of a signed type, and back.
Bits(v, width) == IF v[1] = "negative" THEN Pad(Complement(v[2], width), width) ELSE Pad(v[2], width)
Signed(bits) ==
  IF bits[1] <= 127 THEN <<"integer", Strip(bits)>>
  ELSE <<"negative", Complement(bits, Len(bits))>>

\* An index in decimal digits.
to_string(k) == IF k < 10 THEN <<48 + k>> ELSE <<48 + (k \div 10), 48 + (k % 10)>>

write_number(n, width) == Pad(n, width)

get_number(b, i, width) ==
  IF i + width - 1 > Len(b) THEN Error ELSE Got(Strip(SubSeq(b, i, i + width - 1)), i + width)
get_little(b, i, width) ==
  IF i + width - 1 > Len(b) THEN Error
  ELSE Got(Strip(Reverse(SubSeq(b, i, i + width - 1))), i + width)

\* get_string and get_binary: character by character, up to the length or the end
\* of the input, whichever comes first.
get_string(b, i, len) ==
  IF Size(len) > Len(b) - i + 1 THEN Error ELSE Got(SubSeq(b, i, i + Size(len) - 1), i + Size(len))
-----------------------------------------------------------------------------
(* Floats: sign, 11 bits of exponent and 52 of mantissa in a double, 8 and *)
(* 23 in a single, 5 and 10 in a half.                                     *)

Exponent(d) == (d[1] % 128) * 16 + d[2] \div 16
Mantissa(d) == <<d[2] % 16>> \o SubSeq(d, 3, 8)
IsZero(bytes) == \A i \in DOMAIN bytes : bytes[i] = 0
IsNaN(d) == Exponent(d) = 2047 /\ ~IsZero(Mantissa(d))
IsInf(d) == Exponent(d) = 2047 /\ IsZero(Mantissa(d))
NaN == <<127, 248, 0, 0, 0, 0, 0, 0>>
Inf(sign) == <<sign * 128 + 127, 240, 0, 0, 0, 0, 0, 0>>
Sign(d) == d[1] \div 128

\* The first 23 bits of the mantissa, all that a single has.
Mantissa23(d) == (d[2] % 16) * 2^19 + d[3] * 2^11 + d[4] * 2^3 + d[5] \div 2^5
Double(sign, e, m) ==
  <<sign * 128 + e \div 16, (e % 16) * 16 + m \div 2^19, (m \div 2^11) % 256, (m \div 2^3) % 256,
    (m % 2^3) * 2^5, 0, 0, 0>>

\* How many places a single has too few below its smallest exponent.
Denormal(d) == IF Exponent(d) \in 874..896 THEN 897 - Exponent(d) ELSE 0

\* Whether a single holds the double: what write_compact_float finds out by
\* converting it there and back.
IsSingle(d) ==
  /\ d[5] % 2^5 = 0 /\ IsZero(SubSeq(d, 6, 8))
  /\ \/ Exponent(d) \in 874..1150 /\ (2^23 + Mantissa23(d)) % 2^Denormal(d) = 0
     \/ Exponent(d) = 0 /\ IsZero(Mantissa(d))

Narrow(d) ==
  LET e == CASE Exponent(d) < 897 -> 0 [] Exponent(d) = 2047 -> 255 [] OTHER -> Exponent(d) - 896
      m == IF Denormal(d) = 0 THEN Mantissa23(d) ELSE (2^23 + Mantissa23(d)) \div 2^Denormal(d)
  IN <<Sign(d) * 128 + e \div 2, (e % 2) * 128 + m \div 2^16, (m \div 2^8) % 256, m % 256>>

\* A mantissa of so many bits that has no leading 1 gets one.
Top(m, bits) == CHOOSE k \in 0..(bits - 1) : m \div 2^k = 1
Widened(sign, e, m, bits, bias) ==
  LET inf == IF bits = 23 THEN 255 ELSE 31
      top == Top(m, bits)
  IN CASE e = inf -> Double(sign, 2047, m * 2^(23 - bits))
       [] e \in 1..(inf - 1) -> Double(sign, e + bias, m * 2^(23 - bits))
       [] e = 0 /\ m = 0 -> Double(sign, 0, 0)
       [] OTHER -> Double(sign, bias + 1 + top - bits, (m - 2^top) * 2^(23 - top))

Widen(f) ==
  Widened(f[1] \div 128, (f[1] % 128) * 2 + f[2] \div 128, (f[2] % 128) * 2^16 + f[3] * 2^8 + f[4], 23, 896)

\* A float of two bytes, as RFC 7049 decodes it.
HalfFloat(h) ==
  LET d == Widened(h[1] \div 128, (h[1] % 128) \div 4, (h[1] % 4) * 256 + h[2], 10, 1008)
  IN <<"float", IF IsNaN(d) THEN NaN ELSE d>>

write_compact_float(d, prefix) ==
  IF IsSingle(d) THEN <<prefix.single>> \o Narrow(d) ELSE <<prefix.double>> \o d

get_float(b, i, width, little) ==
  Then(get_string(b, i, <<width>>), LAMBDA bytes, next :
    LET f == IF little THEN Reverse(bytes) ELSE bytes
    IN Got(<<"float", IF width = 4 THEN Widen(f) ELSE f>>, next))
-----------------------------------------------------------------------------
(* Values *)

\* std::map's order of the keys.
KeyLess(k, l) ==
  \E n \in 0..Len(k) :
    /\ \A j \in 1..n : j <= Len(l) /\ k[j] = l[j]
    /\ n < Len(l) /\ (n = Len(k) \/ k[n + 1] < l[n + 1])
Keys(object) ==
  LET keys == DOMAIN object
  IN [i \in 1..Cardinality(keys) |-> CHOOSE k \in keys : Cardinality({l \in keys : KeyLess(l, k)}) = i - 1]

\* sax->key and the value behind it: a key that comes again takes the new value.
Member(object, key, v) == (key :> v) @@ object

\* What comparison takes for equal: a number's sign and value, any two NaN (a file
\* cannot tell them apart).
RECURSIVE Same(_)
Same(v) ==
  CASE v[1] = "integer" -> <<"unsigned", v[2]>>
    [] v[1] = "float" /\ IsNaN(v[2]) -> <<"float", NaN>>
    [] v[1] = "array" -> <<"array", [i \in DOMAIN v[2] |-> Same(v[2][i])]>>
    [] v[1] = "object" -> <<"object", [k \in DOMAIN v[2] |-> Same(v[2][k])]>>
    [] OTHER -> v
=============================================================================
