------------------------------ MODULE MsgPack ------------------------------
(***************************************************************************)
(* MessagePack (json.hpp): binary_writer::write_msgpack and                *)
(* binary_reader::parse_msgpack_internal.  A first byte is a kind of value *)
(* with its size, or a kind and the width of the size behind it.           *)
(***************************************************************************)
EXTENDS BinaryValue

\* The widths of the numbers that follow the bytes first, first + 1, ...
Sized(byte, first, widths) == byte \in first..(first + Len(widths) - 1)
WidthBehind(byte, first, widths) == widths[byte - first + 1]

\* The first of these bytes whose width is enough.
Narrowest(n, first, widths) ==
  LET i == CHOOSE k \in DOMAIN widths : Fits(n, widths[k]) /\ \A j \in 1..(k - 1) : ~Fits(n, widths[j])
  IN <<first + i - 1>> \o write_number(n, widths[i])
-----------------------------------------------------------------------------
(* write_msgpack *)

MsgPackUnsigned(n) == IF Size(n) < 128 THEN Pad(n, 1) ELSE Narrowest(n, 204, <<1, 2, 4, 8>>)

\* slip: -33 is taken for a number that fits in the first byte
FixnumTo33(n) == Size(n) < 33
NegativeFixnum(n) == Size(n) < 32

MsgPackNegative(v) ==
  LET widths == <<1, 2, 4, 8>>
      i == CHOOSE k \in 1..4 : FitsSigned(v[2], widths[k]) /\ \A j \in 1..(k - 1) : ~FitsSigned(v[2], widths[j])
  IN IF NegativeFixnum(v[2]) THEN Bits(v, 1) ELSE <<207 + i>> \o Bits(v, widths[i])

MsgPackString(s) ==
  LET n == Num(Len(s))
  IN (IF Len(s) <= 31 THEN <<160 + Len(s)>> ELSE Narrowest(n, 217, <<1, 2, 4>>)) \o s

\* fixext 1 to fixext 16 have their size in the first byte, the others behind it.
FixExt == (1 :> 212) @@ (2 :> 213) @@ (4 :> 214) @@ (8 :> 215) @@ (16 :> 216)
MsgPackBinary(bytes, subtype) ==
  LET n == Num(Len(bytes))
  IN (IF subtype = <<>> THEN Narrowest(n, 196, <<1, 2, 4>>)
      ELSE (IF Len(bytes) \in DOMAIN FixExt THEN <<FixExt[Len(bytes)]>> ELSE Narrowest(n, 199, <<1, 2, 4>>))
           \o <<Last(Pad(subtype[1], 8))>>)
     \o bytes

RECURSIVE write_msgpack(_)
MsgPackArray(a) ==
  (IF Len(a) <= 15 THEN <<144 + Len(a)>> ELSE Narrowest(Num(Len(a)), 220, <<2, 4>>))
  \o FlattenSeq([i \in DOMAIN a |-> write_msgpack(a[i])])

MsgPackObject(o) ==
  LET keys == Keys(o)
  IN (IF Len(keys) <= 15 THEN <<128 + Len(keys)>> ELSE Narrowest(Num(Len(keys)), 222, <<2, 4>>))
     \o FlattenSeq([i \in DOMAIN keys |-> MsgPackString(keys[i]) \o write_msgpack(o[keys[i]])])

write_msgpack(v) ==
  CASE v[1] = "null" -> <<192>>
    [] v[1] \in {"true", "false"} -> <<IF v[1] = "true" THEN 195 ELSE 194>>
    [] v[1] \in {"unsigned", "integer"} -> MsgPackUnsigned(v[2])
    [] v[1] = "negative" -> MsgPackNegative(v)
    [] v[1] = "float" -> write_compact_float(v[2], [single |-> 202, double |-> 203])
    [] v[1] = "string" -> MsgPackString(v[2])
    [] v[1] = "binary" -> MsgPackBinary(v[2][1], v[2][2])
    [] v[1] = "array" -> MsgPackArray(v[2])
    [] v[1] = "object" -> MsgPackObject(v[2])
-----------------------------------------------------------------------------
(* parse_msgpack_internal: b is the input, i the place of the current byte. *)

get_msgpack_string(b, i) ==
  LET byte == At(b, i)
  IN CASE byte \in 160..191 -> get_string(b, i + 1, Num(byte % 32))
       [] Sized(byte, 217, <<1, 2, 4>>) ->
            Then(get_number(b, i + 1, WidthBehind(byte, 217, <<1, 2, 4>>)), LAMBDA len, next :
              get_string(b, next, len))
       [] OTHER -> Error

\* The length, the subtype of an ext or a fixext, and that many bytes.
get_msgpack_binary(b, i) ==
  LET byte == b[i]
      ext == byte \in 199..201 \cup 212..216
      length == CASE Sized(byte, 196, <<1, 2, 4>>) -> get_number(b, i + 1, WidthBehind(byte, 196, <<1, 2, 4>>))
                  [] Sized(byte, 199, <<1, 2, 4>>) -> get_number(b, i + 1, WidthBehind(byte, 199, <<1, 2, 4>>))
                  [] OTHER -> Got(Num(CHOOSE n \in DOMAIN FixExt : FixExt[n] = byte), i + 1)
  IN Then(length, LAMBDA len, next :
       IF ~ext THEN Typed("binary", Then(get_string(b, next, len), LAMBDA bytes, end : Got(<<bytes, <<>>>>, end)))
       ELSE Then(get_number(b, next, 1), LAMBDA subtype, start :
              Typed("binary", Then(get_string(b, start, len), LAMBDA bytes, end :
                Got(<<bytes, <<subtype>>>>, end)))))

RECURSIVE parse_msgpack(_, _), get_msgpack_array(_, _, _, _), get_msgpack_object(_, _, _, _)
get_msgpack_array(b, i, len, result) ==
  IF Len(result) = len THEN Got(result, i)
  ELSE Then(parse_msgpack(b, i), LAMBDA v, next : get_msgpack_array(b, next, len, Append(result, v)))

get_msgpack_object(b, i, left, result) ==
  IF left = 0 THEN Got(result, i)
  ELSE Then(get_msgpack_string(b, i), LAMBDA key, value :
         Then(parse_msgpack(b, value), LAMBDA v, next :
           get_msgpack_object(b, next, left - 1, Member(result, key, v))))

\* fixarray and fixmap, array 16 and 32, map 16 and 32.
MsgPackContainer(b, i) ==
  LET byte == b[i]
      length == CASE byte \in 128..159 -> Got(Num(byte % 16), i + 1)
                  [] byte \in {220, 222} -> get_number(b, i + 1, 2)
                  [] byte \in {221, 223} -> get_number(b, i + 1, 4)
  IN Then(length, LAMBDA len, next :
       IF byte \in 144..159 \cup {220, 221}
       THEN Typed("array", get_msgpack_array(b, next, Size(len), <<>>))
       ELSE Typed("object", get_msgpack_object(b, next, Size(len), <<>>)))

MsgPackNumber(b, i) ==
  LET byte == b[i]
  IN CASE byte >= 224 -> Got(Signed(<<byte>>), i + 1)
       [] byte = 202 -> get_float(b, i + 1, 4, FALSE)
       [] byte = 203 -> get_float(b, i + 1, 8, FALSE)
       [] Sized(byte, 204, <<1, 2, 4, 8>>) ->
            Typed("unsigned", get_number(b, i + 1, WidthBehind(byte, 204, <<1, 2, 4, 8>>)))
       [] Sized(byte, 208, <<1, 2, 4, 8>>) ->
            LET width == WidthBehind(byte, 208, <<1, 2, 4, 8>>)
            IN Then(get_number(b, i + 1, width), LAMBDA n, next : Got(Signed(Pad(n, width)), next))

\* Strings, nil, the booleans and binaries; 0xC1 is never used.
MsgPackSimple(b, i) ==
  LET byte == b[i]
  IN CASE byte \in 160..191 \cup 217..219 -> Typed("string", get_msgpack_string(b, i))
       [] byte = 192 -> Got(Null, i + 1)
       [] byte = 193 -> Error
       [] byte \in {194, 195} -> Got(Boolean(byte = 195), i + 1)
       [] byte \in 196..201 \cup 212..216 -> get_msgpack_binary(b, i)

parse_msgpack(b, i) ==
  CASE At(b, i) = eof -> Error
    [] At(b, i) \in 0..127 -> Got(<<"unsigned", Num(b[i])>>, i + 1)
    [] At(b, i) \in 128..159 \cup 220..223 -> MsgPackContainer(b, i)
    [] At(b, i) \in 202..211 \cup 224..255 -> MsgPackNumber(b, i)
    [] OTHER -> MsgPackSimple(b, i)
=============================================================================
