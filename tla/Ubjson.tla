------------------------------- MODULE Ubjson -------------------------------
(***************************************************************************)
(* UBJSON and its dialect BJData (json.hpp): binary_writer::write_ubjson   *)
(* and binary_reader::get_ubjson_value with the optimized containers and   *)
(* BJData's n-dimensional arrays.  bj says whether it is BJData, whose     *)
(* numbers have the other byte order.                                      *)
(*                                                                         *)
(* An annotated array's keys and the name of its type are the markers      *)
(* below, where the source has "_ArrayType_" or "uint8".                   *)
(***************************************************************************)
EXTENDS BinaryValue

\* The markers, by their character codes.
mZ == 90   mT == 84   mF == 70   mN == 78   mB == 66   mU == 85   mC == 67
mH == 72   mh == 104  mD == 68   md == 100  mS == 83   mi == 105  mI == 73
ml == 108  mL == 76   mu == 117  mm == 109  mM == 77
ArrayOpen == 91   ArrayClose == 93   ObjectOpen == 123   ObjectClose == 125
TypeSign == 36   CountSign == 35

_ArrayType_ == <<1>>
_ArraySize_ == <<2>>
_ArrayData_ == <<3>>

NumberType(mark, width, signed, bjd) == [mark |-> mark, width |-> width, signed |-> signed, bjd |-> bjd]

\* In the order in which they are tried.
NumberTypes ==
  <<NumberType(mi, 1, TRUE, FALSE), NumberType(mU, 1, FALSE, FALSE),
    NumberType(mI, 2, TRUE, FALSE), NumberType(mu, 2, FALSE, TRUE),
    NumberType(ml, 4, TRUE, FALSE), NumberType(mm, 4, FALSE, TRUE),
    NumberType(mL, 8, TRUE, FALSE), NumberType(mM, 8, FALSE, TRUE)>>

Known(t, bj) == bj \/ ~t.bjd
Order(bytes, bj) == IF bj THEN Reverse(bytes) ELSE bytes
-----------------------------------------------------------------------------
(* The text of a high-precision number *)

DivideBy10(n) ==
  FoldLeft(LAMBDA r, byte : [quotient |-> Append(r.quotient, (r.rest * 256 + byte) \div 10),
                             rest |-> (r.rest * 256 + byte) % 10],
           [quotient |-> <<>>, rest |-> 0], n)

RECURSIVE Decimal(_)
Decimal(n) ==
  LET d == DivideBy10(n)
  IN IF n = <<>> THEN <<>> ELSE Append(Decimal(Strip(d.quotient)), 48 + d.rest)

Times10Plus(n, digit) ==
  LET r == FoldRight(LAMBDA byte, r : [bytes |-> <<(byte * 10 + r.carry) % 256>> \o r.bytes,
                                       carry |-> (byte * 10 + r.carry) \div 256],
                     n, [bytes |-> <<>>, carry |-> digit])
  IN Strip(<<r.carry>> \o r.bytes)

NumberOf(text) == FoldLeft(LAMBDA n, char : Times10Plus(n, char - 48), <<>>, text)
-----------------------------------------------------------------------------
(* write_ubjson: o has use_count, use_type, use_bjdata and draft3. *)

Holds(t, v, bj) ==
  /\ Known(t, bj)
  /\ IF t.signed THEN FitsSigned(v[2], t.width) ELSE v[1] # "negative" /\ Fits(v[2], t.width)

\* The type of a whole number, 0 for one that is written as a text.
TypeOf(v, bj) ==
  LET fitting == {t \in 1..8 : Holds(NumberTypes[t], v, bj)}
  IN IF fitting = {} THEN 0 ELSE CHOOSE t \in fitting : \A u \in fitting : t <= u

ubjson_prefix(v, bj) ==
  CASE v[1] = "null" -> mZ
    [] v[1] = "true" -> mT
    [] v[1] = "false" -> mF
    [] v[1] \in {"unsigned", "integer", "negative"} ->
         IF TypeOf(v, bj) = 0 THEN mH ELSE NumberTypes[TypeOf(v, bj)].mark
    [] v[1] = "float" -> mD
    [] v[1] = "string" -> mS
    [] v[1] \in {"array", "binary"} -> ArrayOpen
    [] v[1] = "object" -> ObjectOpen

\* What stands behind the prefix of a number.
RECURSIVE UbjsonBehind(_, _)
UbjsonCount(k, bj) ==
  LET n == <<"unsigned", Num(k)>>
  IN <<ubjson_prefix(n, bj)>> \o UbjsonBehind(n, bj)

UbjsonBehind(v, bj) ==
  CASE v[1] = "float" -> Order(v[2], bj)
    [] TypeOf(v, bj) = 0 -> UbjsonCount(Len(Decimal(v[2])), bj) \o Decimal(v[2])
    [] OTHER -> Order(Bits(v, NumberTypes[TypeOf(v, bj)].width), bj)

UbjsonString(s, bj) == UbjsonCount(Len(s), bj) \o s

\* Whether the values of a container have their prefix in common, written once.
Excluded == {ArrayOpen, ObjectOpen, mS, mH, mT, mF, mN, mZ}
SamePrefix(values, o) ==
  /\ o.use_type /\ values # <<>>
  /\ \A i \in DOMAIN values : ubjson_prefix(values[i], o.use_bjdata) = ubjson_prefix(values[1], o.use_bjdata)
  /\ ~(o.use_bjdata /\ ubjson_prefix(values[1], o.use_bjdata) \in Excluded)

\* The type and the number of the values, and the end mark where it is needed.
UbjsonFrame(type, count, values, close, o) ==
  type \o (IF o.use_count THEN <<CountSign>> \o UbjsonCount(count, o.use_bjdata) ELSE <<>>)
  \o FlattenSeq(values) \o (IF o.use_count THEN <<>> ELSE <<close>>)

UbjsonBinary(bytes, o) ==
  LET draft3 == o.use_bjdata /\ o.draft3
      unit == IF draft3 THEN mB ELSE mU
  IN UbjsonFrame(IF o.use_type /\ (draft3 \/ bytes # <<>>) THEN <<TypeSign, unit>> ELSE <<>>, Len(bytes),
                 [i \in DOMAIN bytes |-> IF o.use_type THEN <<bytes[i]>> ELSE <<unit, bytes[i]>>],
                 ArrayClose, o)

\* What write_bjdata_ndarray makes an array of: the sizes have the product, where
\* none are 0 values and the type is known.
NdWidth ==
  (mU :> 1) @@ (mC :> 1) @@ (mB :> 1) @@ (mi :> 1) @@ (mu :> 2) @@ (mI :> 2) @@ (mm :> 4) @@ (ml :> 4)
  @@ (mM :> 8) @@ (mL :> 8) @@ (md :> 4) @@ (mD :> 8)

IsNdArray(object) ==
  LET sizes == object[_ArraySize_][2]
      len == IF sizes = <<>> THEN 0 ELSE FoldLeft(LAMBDA product, v : product * Size(v[2]), 1, sizes)
      type == object[_ArrayType_][2]
  IN /\ DOMAIN object = {_ArrayType_, _ArraySize_, _ArrayData_}
     /\ type \in {<<mark>> : mark \in DOMAIN NdWidth}
     /\ Len(object[_ArrayData_][2]) = len

\* A value of such an array, cut to its type.
NdValue(v, mark) ==
  Reverse(IF v[1] = "float" THEN IF mark = md THEN Narrow(v[2]) ELSE v[2]
          ELSE SubSeq(Bits(v, 8), 9 - NdWidth[mark], 8))

RECURSIVE write_ubjson(_, _, _)
write_bjdata_ndarray(object, o) ==
  LET mark == object[_ArrayType_][2][1]
      data == object[_ArrayData_][2]
  IN <<ArrayOpen, TypeSign, mark, CountSign>> \o write_ubjson(object[_ArraySize_], o, TRUE)
     \o FlattenSeq([i \in DOMAIN data |-> NdValue(data[i], mark)])

UbjsonArray(a, o) ==
  LET same == SamePrefix(a, o)
  IN UbjsonFrame(IF same THEN <<TypeSign, ubjson_prefix(a[1], o.use_bjdata)>> ELSE <<>>, Len(a),
                 [i \in DOMAIN a |-> write_ubjson(a[i], o, ~same)], ArrayClose, o)

UbjsonObject(object, o) ==
  LET keys == Keys(object)
      values == [i \in DOMAIN keys |-> object[keys[i]]]
      same == SamePrefix(values, o)
  IN UbjsonFrame(IF same THEN <<TypeSign, ubjson_prefix(values[1], o.use_bjdata)>> ELSE <<>>, Len(keys),
                 [i \in DOMAIN keys |-> UbjsonString(keys[i], o.use_bjdata) \o write_ubjson(values[i], o, ~same)],
                 ObjectClose, o)

write_ubjson(v, o, add_prefix) ==
  IF v[1] = "object" /\ o.use_bjdata /\ IsNdArray(v[2]) THEN write_bjdata_ndarray(v[2], o) ELSE
  (IF add_prefix THEN <<ubjson_prefix(v, o.use_bjdata)>> ELSE <<>>)
  \o CASE v[1] \in {"null", "true", "false"} -> <<>>
       [] v[1] \in {"unsigned", "integer", "negative", "float"} -> UbjsonBehind(v, o.use_bjdata)
       [] v[1] = "string" -> UbjsonString(v[2], o.use_bjdata)
       [] v[1] = "binary" -> UbjsonBinary(v[2][1], o)
       [] v[1] = "array" -> UbjsonArray(v[2], o)
       [] v[1] = "object" -> UbjsonObject(v[2], o)
-----------------------------------------------------------------------------
(* get_ubjson_value: b is the input, i the first byte that is not read. *)

\* get_ignore_noop(), the place it gets to.
Noop(b, i) ==
  LET others == {j \in i..Len(b) : b[j] # mN}
  IN IF others = {} THEN Len(b) + 1 ELSE CHOOSE j \in others : \A k \in others : j <= k

TypesOf(mark, bj) == {t \in 1..8 : NumberTypes[t].mark = mark /\ Known(NumberTypes[t], bj)}
IsNumberType(mark, bj) == TypesOf(mark, bj) # {}

UbjsonNumber(b, i, width, bj) == IF bj THEN get_little(b, i, width) ELSE get_number(b, i, width)
UbjsonWhole(b, i, mark, bj) ==
  LET t == NumberTypes[CHOOSE k \in 1..8 : NumberTypes[k].mark = mark]
  IN Then(UbjsonNumber(b, i, t.width, bj), LAMBDA n, next :
       Got(IF t.signed THEN Signed(Pad(n, t.width)) ELSE <<"unsigned", n>>, next))

\* A string of a negative length is empty.
get_ubjson_string(b, i, mark, bj) ==
  IF ~IsNumberType(mark, bj) THEN Error
  ELSE Then(UbjsonWhole(b, i, mark, bj), LAMBDA len, next :
         get_string(b, next, IF len[1] = "negative" THEN <<>> ELSE len[2]))

\* A size that is a number.
CountAt(b, i, mark, bj) ==
  IF ~IsNumberType(mark, bj) THEN Error
  ELSE Then(UbjsonWhole(b, i, mark, bj), LAMBDA n, next :
         IF n[1] = "negative" THEN Error ELSE Got(n[2], next))

\* detail::unknown_size(), also when a size of 2^64 - 1 is read.
Unsized == [k \in 1..8 |-> 255]

\* The product of the dimensions; one that overflows is an error, and more data than
\* any input has is one as well.
Times(m, n) == IF m = 0 \/ n = 0 THEN 0 ELSE IF m > Huge \div n THEN Huge ELSE m * n
Product(dims) == FoldLeft(LAMBDA product, n : Times(product, Size(n)), 1, dims)

\* get_ubjson_size_value: where a vector of sizes may stand, dims is the vector if it
\* makes the container n-dimensional and empty otherwise.  cur is the last character
\* that was read by itself.
VectorSize(dims, cur, next) ==
  LET size(n, d) == Got([size |-> n, dims |-> d, cur |-> cur], next)
  IN CASE Len(dims) = 1 \/ (Len(dims) = 2 /\ dims[1] = <<1>>) -> size(dims[Len(dims)], <<>>)
       [] dims = <<>> \/ \E k \in DOMAIN dims : dims[k] = <<>> -> size(<<>>, <<>>)
       [] Product(dims) = Huge -> Error
       [] OTHER -> size(Num(Product(dims)), dims)

RECURSIVE get_ubjson_ndarray_size(_, _), get_ubjson_size_value(_, _, _, _)
get_ubjson_size_value(b, i, mark, bj) ==
  IF mark = ArrayOpen /\ bj
  THEN Then(get_ubjson_ndarray_size(b, i), LAMBDA vector, next : VectorSize(vector.dims, vector.cur, next))
  ELSE Then(CountAt(b, i, mark, bj), LAMBDA n, next : Got([size |-> n, dims |-> <<>>, cur |-> mark], next))

\* The type and the size of a container; type is 0 for none.
get_ubjson_size_type(b, i, bj, inside_ndarray) ==
  LET first == Noop(b, i)
      typed == At(b, first) = TypeSign
      type == At(b, first + 1)
      count == IF typed THEN Noop(b, first + 2) ELSE first
      place == Noop(b, count + 1)
  IN CASE At(b, first) \notin {TypeSign, CountSign} ->
            Got([type |-> 0, size |-> Unsized, dims |-> <<>>, cur |-> At(b, first)], first + 1)
       [] typed /\ (type = eof \/ (bj /\ type \in Excluded) \/ At(b, count) # CountSign) -> Error
       [] OTHER ->
            Then(get_ubjson_size_value(b, place + 1, At(b, place), bj), LAMBDA s, next :
              IF s.dims # <<>> /\ (~typed \/ inside_ndarray) THEN Error
              ELSE Got([type |-> IF typed THEN type ELSE 0] @@ s, next))

\* The sizes of a vector: so many of one type, so many with their types, or as many
\* as there are up to its end.
RECURSIVE SizesOf(_, _, _, _), SizesUpToEnd(_, _, _)
SizesOf(b, i, st, dims) ==
  LET place == Noop(b, i)
      typed == st.type # 0
  IN IF Len(dims) = Size(st.size) THEN Got([dims |-> dims, cur |-> st.cur], i)
     ELSE Then(IF typed THEN CountAt(b, i, st.type, TRUE) ELSE CountAt(b, place + 1, At(b, place), TRUE),
               LAMBDA n, next :
                 SizesOf(b, next, IF typed THEN st ELSE [st EXCEPT !.cur = At(b, place)], Append(dims, n)))

SizesUpToEnd(b, i, st) ==
  IF st.cur = ArrayClose THEN Got(st, i)
  ELSE Then(CountAt(b, i, st.cur, TRUE), LAMBDA n, next :
         SizesUpToEnd(b, Noop(b, next) + 1, [dims |-> Append(st.dims, n), cur |-> At(b, Noop(b, next))]))

get_ubjson_ndarray_size(b, i) ==
  Then(get_ubjson_size_type(b, i, TRUE, TRUE), LAMBDA st, next :
    IF st.size = Unsized THEN SizesUpToEnd(b, next, [dims |-> <<>>, cur |-> st.cur])
    ELSE SizesOf(b, next, st, <<>>))

\* The token behind a high-precision number's length.  Other numbers than a writer
\* puts there - signs, fractions, exponents, more than 64 bits - are not read here.
HighPrecision(text, next) ==
  IF /\ text # <<>> /\ \A k \in DOMAIN text : text[k] \in 48..57
     /\ text[1] # 48 \/ Len(text) = 1
     /\ Fits(NumberOf(text), 8)
  THEN Got(<<"unsigned", NumberOf(text)>>, next) ELSE Error

get_ubjson_high_precision_number(b, i, bj) ==
  LET place == Noop(b, i)
  IN Then(CountAt(b, place + 1, At(b, place), bj), LAMBDA len, start :
       Then(get_string(b, start, len), HighPrecision))

\* The values of a container: size of them, or up to the closing mark.  A type that
\* was read takes the place of their prefix.
MAX_SIZE == 4096  \* more values of no bytes at all are taken for too many
RECURSIVE get_ubjson_value(_, _, _, _), SomeValues(_, _, _, _, _), ValuesUpTo(_, _, _, _, _)
SomeValues(b, i, st, result, bj) ==
  LET place == Noop(b, i)
  IN CASE Size(st.size) > MAX_SIZE -> Error
       [] Len(result) = Size(st.size) -> Got(result, i)
       [] OTHER ->
            Then(IF st.type # 0 THEN get_ubjson_value(b, i, st.type, bj)
                 ELSE get_ubjson_value(b, place + 1, At(b, place), bj),
                 LAMBDA v, next : SomeValues(b, next, st, Append(result, v), bj))

ValuesUpTo(b, i, cur, result, bj) ==
  IF cur = ArrayClose THEN Got(result, i)
  ELSE Then(get_ubjson_value(b, i, cur, bj), LAMBDA v, next :
         LET place == Noop(b, next) IN ValuesUpTo(b, place + 1, At(b, place), Append(result, v), bj))

\* An n-dimensional array becomes an object, the bytes 'B' a binary value.
NdArray(b, i, st) ==
  LET elements == [st EXCEPT !.type = IF @ \in {mC, mB} THEN mU ELSE @]
      sizes == [k \in DOMAIN st.dims |-> <<"unsigned", st.dims[k]>>]
  IN IF st.type \notin DOMAIN NdWidth THEN Error
     ELSE Then(SomeValues(b, i, elements, <<>>, TRUE), LAMBDA data, next :
            Got(<<"object", (_ArraySize_ :> <<"array", sizes>>) @@ (_ArrayType_ :> <<"string", <<st.type>>>>)
                            @@ (_ArrayData_ :> <<"array", data>>)>>, next))

get_ubjson_array(b, i, bj) ==
  Then(get_ubjson_size_type(b, i, bj, FALSE), LAMBDA st, next :
    CASE st.size = Unsized -> Typed("array", ValuesUpTo(b, next, st.cur, <<>>, bj))
      [] st.dims # <<>> -> NdArray(b, next, st)
      [] bj /\ st.type = mB -> Then(get_string(b, next, st.size), LAMBDA bytes, end :
                                 Got(<<"binary", <<bytes, <<>>>>>>, end))
      [] st.type = mN -> Got(<<"array", <<>>>>, next)
      [] OTHER -> Typed("array", SomeValues(b, next, st, <<>>, bj)))

RECURSIVE SomeMembers(_, _, _, _, _, _), MembersUpTo(_, _, _, _, _)
SomeMembers(b, i, st, count, result, bj) ==
  IF count = Size(st.size) THEN Got(result, i)
  ELSE Then(get_ubjson_string(b, i + 1, At(b, i), bj), LAMBDA key, behind :
         LET place == Noop(b, behind)
         IN Then(IF st.type # 0 THEN get_ubjson_value(b, behind, st.type, bj)
                 ELSE get_ubjson_value(b, place + 1, At(b, place), bj),
                 LAMBDA v, next : SomeMembers(b, next, st, count + 1, Member(result, key, v), bj)))

MembersUpTo(b, i, cur, result, bj) ==
  IF cur = ObjectClose THEN Got(result, i)
  ELSE Then(get_ubjson_string(b, i, cur, bj), LAMBDA key, behind :
         LET value == Noop(b, behind)
         IN Then(get_ubjson_value(b, value + 1, At(b, value), bj), LAMBDA v, next :
              LET place == Noop(b, next)
              IN MembersUpTo(b, place + 1, At(b, place), Member(result, key, v), bj)))

get_ubjson_object(b, i, bj) ==
  Then(get_ubjson_size_type(b, i, bj, FALSE), LAMBDA st, next :
    CASE st.size = Unsized -> Typed("object", MembersUpTo(b, next, st.cur, <<>>, bj))
      [] st.dims # <<>> -> Error
      [] OTHER -> Typed("object", SomeMembers(b, next, st, 0, <<>>, bj)))

\* The value behind its prefix.
get_ubjson_value(b, i, prefix, bj) ==
  CASE prefix = mZ -> Got(Null, i)
    [] prefix \in {mT, mF} -> Got(Boolean(prefix = mT), i)
    [] IsNumberType(prefix, bj) -> UbjsonWhole(b, i, prefix, bj)
    [] prefix = mB /\ bj -> Typed("unsigned", get_number(b, i, 1))
    [] prefix = mh /\ bj -> Then(get_string(b, i, <<2>>), LAMBDA half, next : Got(HalfFloat(Reverse(half)), next))
    [] prefix = md -> get_float(b, i, 4, bj)
    [] prefix = mD -> get_float(b, i, 8, bj)
    [] prefix = mH -> get_ubjson_high_precision_number(b, i, bj)
    [] prefix = mC -> IF At(b, i) \in 0..127 THEN Got(<<"string", <<b[i]>>>>, i + 1) ELSE Error
    [] prefix = mS -> Typed("string", get_ubjson_string(b, i + 1, At(b, i), bj))
    [] prefix = ArrayOpen -> get_ubjson_array(b, i, bj)
    [] prefix = ObjectOpen -> get_ubjson_object(b, i, bj)
    [] OTHER -> Error

parse_ubjson(b, bj) == LET first == Noop(b, 1) IN get_ubjson_value(b, first + 1, At(b, first), bj)
=============================================================================
