-------------------------------- MODULE Cbor --------------------------------
(***************************************************************************)
(* CBOR (json.hpp): binary_writer::write_cbor and                          *)
(* binary_reader::parse_cbor_internal with its three ways to treat a tag.  *)
(* The first byte of an item is its major type and five bits of additional *)
(* information, which the source spells out case by case.                  *)
(***************************************************************************)
EXTENDS BinaryValue

Major(byte) == byte \div 32
Info(byte) == byte % 32
Indefinite == 31

\* The width of the number that follows.
Width(info) == 2^(info - 24)
-----------------------------------------------------------------------------
(* write_cbor *)

WidthInfo(n) ==
  CASE Fits(n, 1) -> 24 [] Fits(n, 2) -> 25 [] Fits(n, 4) -> 26 [] OTHER -> 27

Immediate(n) == Size(n) <= 23

CborHead(major, n) ==
  IF Immediate(n) THEN <<32 * major + Size(n)>>
  ELSE <<32 * major + WidthInfo(n)>> \o write_number(n, Width(WidthInfo(n)))

CborInteger(v) == CborHead(IF v[1] = "negative" THEN 1 ELSE 0, v[2])

CborFloat(d) ==
  IF IsNaN(d) THEN <<249, 126, 0>>
  ELSE IF IsInf(d) THEN <<249, 124 + 128 * Sign(d), 0>>
  ELSE write_compact_float(d, [single |-> 250, double |-> 251])

CborString(s) == CborHead(3, Num(Len(s))) \o s

CborSubtype(subtype) == <<192 + WidthInfo(subtype)>> \o write_number(subtype, Width(WidthInfo(subtype)))

CborBinary(bytes, subtype) ==
  (IF subtype = <<>> THEN <<>> ELSE CborSubtype(subtype[1])) \o CborHead(2, Num(Len(bytes))) \o bytes

RECURSIVE write_cbor(_)
CborArray(a) == CborHead(4, Num(Len(a))) \o FlattenSeq([i \in DOMAIN a |-> write_cbor(a[i])])

CborObject(o) ==
  LET keys == Keys(o)
  IN CborHead(5, Num(Len(keys)))
     \o FlattenSeq([i \in DOMAIN keys |-> CborString(keys[i]) \o write_cbor(o[keys[i]])])

write_cbor(v) ==
  CASE v[1] = "null" -> <<246>>
    [] v[1] \in {"true", "false"} -> <<IF v[1] = "true" THEN 245 ELSE 244>>
    [] v[1] \in {"unsigned", "integer", "negative"} -> CborInteger(v)
    [] v[1] = "float" -> CborFloat(v[2])
    [] v[1] = "string" -> CborString(v[2])
    [] v[1] = "binary" -> CborBinary(v[2][1], v[2][2])
    [] v[1] = "array" -> CborArray(v[2])
    [] v[1] = "object" -> CborObject(v[2])
-----------------------------------------------------------------------------
(* parse_cbor_internal: b is the input, i the place of the current byte. *)

\* The number or the length that belongs to the first byte.
CborArgument(b, i) ==
  LET info == Info(b[i])
  IN CASE info <= 23 -> Got(Num(info), i + 1)
       [] info \in 24..27 -> get_number(b, i + 1, Width(info))
       [] OTHER -> Error

\* -1 - n in 64 bits, which becomes positive when n does not fit.
CborNegative(n) == IF FitsSigned(n, 8) THEN <<"negative", n>> ELSE <<"integer", Complement(n, 8)>>

\* get_cbor_string and get_cbor_binary; a length of 31 is a sequence of chunks.
RECURSIVE CborBytes(_, _, _), CborChunks(_, _, _, _)
CborBytes(b, i, major) ==
  CASE At(b, i) = eof \/ Major(At(b, i)) # major -> Error
    [] Info(b[i]) = Indefinite -> CborChunks(b, i + 1, major, <<>>)
    [] OTHER -> Then(CborArgument(b, i), LAMBDA len, next : get_string(b, next, len))

CborChunks(b, i, major, result) ==
  IF At(b, i) = 255 THEN Got(result, i + 1)
  ELSE Then(CborBytes(b, i, major), LAMBDA chunk, next : CborChunks(b, next, major, result \o chunk))

\* A length that is detail::unknown_size(), as it is read or as 2^64 - 1.
Unknown == [i \in 1..8 |-> 255]
CborLength(b, i) == IF Info(b[i]) = Indefinite THEN Got(Unknown, i + 1) ELSE CborArgument(b, i)

RECURSIVE parse_cbor(_, _, _), get_cbor_array(_, _, _, _, _), get_cbor_object(_, _, _, _, _)
get_cbor_array(b, i, len, result, tags) ==
  IF IF len = Unknown THEN At(b, i) = 255 ELSE Len(result) = Size(len)
  THEN Got(result, IF len = Unknown THEN i + 1 ELSE i)
  ELSE Then(parse_cbor(b, i, tags), LAMBDA v, next :
         get_cbor_array(b, next, len, Append(result, v), tags))

\* left counts what the loop has left, where the length is known.
Open == -1
get_cbor_object(b, i, left, result, tags) ==
  IF IF left = Open THEN At(b, i) = 255 ELSE left = 0
  THEN Got(result, IF left = Open THEN i + 1 ELSE i)
  ELSE Then(CborBytes(b, i, 3), LAMBDA key, value :
         Then(parse_cbor(b, value, tags), LAMBDA v, next :
           get_cbor_object(b, next, IF left = Open THEN left ELSE left - 1, Member(result, key, v), tags)))

CborSimple(b, i) ==
  CASE b[i] \in {244, 245} -> Got(Boolean(b[i] = 245), i + 1)
    [] b[i] = 246 -> Got(Null, i + 1)
    [] b[i] = 249 -> Then(get_string(b, i + 1, <<2>>), LAMBDA half, next : Got(HalfFloat(half), next))
    [] b[i] = 250 -> get_float(b, i + 1, 4, FALSE)
    [] b[i] = 251 -> get_float(b, i + 1, 8, FALSE)
    [] OTHER -> Error

\* A tag is an error, or it is skipped; one with a number is kept as the subtype of
\* the binary value that must follow when tags are stored.
CborTag(b, i, tags) ==
  LET numbered == Info(b[i]) \in 24..27
      behind == IF numbered THEN get_number(b, i + 1, Width(Info(b[i]))) ELSE Got(<<>>, i + 1)
  IN IF tags = "error" \/ Info(b[i]) \notin 6..20 \cup 24..27 THEN Error
     ELSE Then(behind, LAMBDA subtype, next :
            IF tags = "store" /\ numbered
            THEN Then(CborBytes(b, next, 2), LAMBDA bytes, end :
                   Got(<<"binary", <<bytes, <<subtype>>>>>>, end))
            ELSE parse_cbor(b, next, tags))

parse_cbor(b, i, tags) ==
  LET major == Major(b[i])
  IN IF At(b, i) = eof THEN Error ELSE
     CASE major = 0 -> Typed("unsigned", CborArgument(b, i))
       [] major = 1 -> Then(CborArgument(b, i), LAMBDA n, next : Got(CborNegative(n), next))
       [] major = 2 -> Then(CborBytes(b, i, 2), LAMBDA bytes, next : Got(<<"binary", <<bytes, <<>>>>>>, next))
       [] major = 3 -> Typed("string", CborBytes(b, i, 3))
       [] major = 4 -> Typed("array", Then(CborLength(b, i), LAMBDA len, next :
                         get_cbor_array(b, next, len, <<>>, tags)))
       [] major = 5 -> Typed("object", Then(CborLength(b, i), LAMBDA len, next :
                         get_cbor_object(b, next, IF len = Unknown THEN Open ELSE Size(len), <<>>, tags)))
       [] major = 6 -> CborTag(b, i, tags)
       [] major = 7 -> CborSimple(b, i)
=============================================================================
