-------------------------------- MODULE Bson --------------------------------
(***************************************************************************)
(* BSON (json.hpp): binary_writer::write_bson with the functions that      *)
(* compute the size of a document before it is written, and                *)
(* binary_reader::parse_bson_internal, which does not look at that size.   *)
(***************************************************************************)
EXTENDS BinaryValue

\* Element types.
bDouble == 1   bString == 2   bObject == 3   bArray == 4   bBinary == 5   bBoolean == 8
bNull == 10    bInt32 == 16   bUint64 == 17  bInt64 == 18

Little32(k) == Reverse(Pad(Num(k), 4))
-----------------------------------------------------------------------------
(* write_bson *)

\* A key has no character 0: calc_bson_entry_header_size throws.
RECURSIVE Writable(_)
Writable(v) ==
  CASE v[1] = "object" -> \A key \in DOMAIN v[2] : 0 \notin Range(key) /\ Writable(v[2][key])
    [] v[1] = "array" -> \A i \in DOMAIN v[2] : Writable(v[2][i])
    [] OTHER -> TRUE

\* std::int32_t if it is wide enough, also for an unsigned value.
BsonWidth(v) == IF FitsSigned(v[2], 4) THEN 4 ELSE 8

calc_bson_binary_size(bytes) == 4 + Len(bytes) + 1
calc_bson_string_size(s) == 4 + Len(s) + 1

RECURSIVE calc_bson_element_size(_, _)
calc_bson_object_size(object) ==
  4 + FoldLeft(LAMBDA sum, key : sum + calc_bson_element_size(key, object[key]), 0, Keys(object)) + 1
\* The name of an array's element is its index.
calc_bson_array_size(a) ==
  4 + FoldLeft(LAMBDA sum, i : sum + calc_bson_element_size(to_string(i - 1), a[i]), 0, [i \in DOMAIN a |-> i]) + 1

calc_bson_element_size(name, v) ==
  1 + Len(name) + 1
  + CASE v[1] = "object" -> calc_bson_object_size(v[2])
      [] v[1] = "array" -> calc_bson_array_size(v[2])
      [] v[1] = "binary" -> calc_bson_binary_size(v[2][1])
      [] v[1] \in {"true", "false"} -> 1
      [] v[1] = "float" -> 8
      [] v[1] \in {"integer", "negative", "unsigned"} -> BsonWidth(v)
      [] v[1] = "string" -> calc_bson_string_size(v[2])
      [] v[1] = "null" -> 0

BsonNumberType(v) ==
  CASE BsonWidth(v) = 4 -> bInt32
    [] BsonWidth(v) = 8 /\ FitsSigned(v[2], 8) -> bInt64
    [] OTHER -> bUint64

RECURSIVE write_bson_element(_, _)
write_bson_object(object) ==
  LET keys == Keys(object)
  IN Little32(calc_bson_object_size(object))
     \o FlattenSeq([i \in DOMAIN keys |-> write_bson_element(keys[i], object[keys[i]])]) \o <<0>>

write_bson_array(a) ==
  Little32(calc_bson_array_size(a))
  \o FlattenSeq([i \in DOMAIN a |-> write_bson_element(to_string(i - 1), a[i])]) \o <<0>>

write_bson_binary(bytes, subtype) ==
  Little32(Len(bytes)) \o (IF subtype = <<>> THEN <<0>> ELSE <<Last(Pad(subtype[1], 8))>>) \o bytes

write_bson_element(name, v) ==
  LET entry(type, content) == <<type>> \o name \o <<0>> \o content
  IN CASE v[1] = "object" -> entry(bObject, write_bson_object(v[2]))
       [] v[1] = "array" -> entry(bArray, write_bson_array(v[2]))
       [] v[1] = "binary" -> entry(bBinary, write_bson_binary(v[2][1], v[2][2]))
       [] v[1] \in {"true", "false"} -> entry(bBoolean, <<IF v[1] = "true" THEN 1 ELSE 0>>)
       [] v[1] = "float" -> entry(bDouble, Reverse(v[2]))
       [] v[1] \in {"integer", "negative", "unsigned"} -> entry(BsonNumberType(v), Reverse(Bits(v, BsonWidth(v))))
       [] v[1] = "string" -> entry(bString, Little32(Len(v[2]) + 1) \o v[2] \o <<0>>)
       [] v[1] = "null" -> entry(bNull, <<>>)
-----------------------------------------------------------------------------
(* parse_bson_internal: b is the input, i the first byte that is not read. *)

get_bson_cstr(b, i) ==
  LET ends == {j \in i..Len(b) : b[j] = 0}
      end == CHOOSE j \in ends : \A k \in ends : j <= k
  IN IF ends = {} THEN Error ELSE Got(SubSeq(b, i, end - 1), end + 1)

\* A length of 32 bits with its sign.
BsonLength(b, i) == Then(get_little(b, i, 4), LAMBDA n, next : Got(Signed(Pad(n, 4)), next))

\* A string with a last byte that nobody looks at.
get_bson_string(b, i) ==
  Then(BsonLength(b, i), LAMBDA len, next :
    IF len[1] = "negative" \/ len[2] = <<>> \/ At(b, next + Size(len[2]) - 1) = eof THEN Error
    ELSE Got(SubSeq(b, next, next + Size(len[2]) - 2), next + Size(len[2])))

\* The subtype is there always.
get_bson_binary(b, i) ==
  Then(BsonLength(b, i), LAMBDA len, next :
    IF len[1] = "negative" THEN Error
    ELSE Then(get_number(b, next, 1), LAMBDA subtype, start :
           Then(get_string(b, start, len[2]), LAMBDA bytes, end : Got(<<bytes, <<subtype>>>>, end))))

RECURSIVE parse_bson_element(_, _, _), ElementList(_, _, _)
\* The elements of an object or, without their names, of an array, as pairs.
ElementList(b, i, result) ==
  CASE At(b, i) = 0 -> Got(result, i + 1)
    [] At(b, i) = eof -> Error
    [] OTHER ->
         Then(get_bson_cstr(b, i + 1), LAMBDA key, behind :
           Then(parse_bson_element(b, behind, b[i]), LAMBDA v, next :
             ElementList(b, next, Append(result, <<key, v>>))))

\* What the document's size is, does not matter.
Document(b, i) == Then(BsonLength(b, i), LAMBDA document_size, next : ElementList(b, next, <<>>))

parse_bson_internal(b, i) ==
  Then(Document(b, i), LAMBDA elements, next :
    Got(<<"object", FoldLeft(LAMBDA object, e : Member(object, e[1], e[2]), <<>>, elements)>>, next))

parse_bson_array(b, i) ==
  Then(Document(b, i), LAMBDA elements, next :
    Got(<<"array", [k \in DOMAIN elements |-> elements[k][2]]>>, next))

parse_bson_element(b, i, type) ==
  CASE type = bDouble -> get_float(b, i, 8, TRUE)
    [] type = bString -> Typed("string", get_bson_string(b, i))
    [] type = bObject -> parse_bson_internal(b, i)
    [] type = bArray -> parse_bson_array(b, i)
    [] type = bBinary -> Typed("binary", get_bson_binary(b, i))
    [] type = bBoolean -> Got(Boolean(At(b, i) # 0), i + 1)
    [] type = bNull -> Got(Null, i)
    [] type \in {bInt32, bInt64} ->
         LET width == IF type = bInt32 THEN 4 ELSE 8
         IN Then(get_little(b, i, width), LAMBDA n, next : Got(Signed(Pad(n, width)), next))
    [] type = bUint64 -> Typed("unsigned", get_little(b, i, 8))
    [] OTHER -> Error
=============================================================================
