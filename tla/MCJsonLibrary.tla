--------------------------- MODULE MCJsonLibrary ---------------------------
(* Constants of JsonLibrary for TLC. *)
EXTENDS JsonLibrary
-----------------------------------------------------------------------------
(* Texts *)

\* The ends of every range either table tells apart, the characters that are
\* escaped or escape, and enough hex digits for every kind of code point.
SomeBytes ==
  {0, 8, 9, 10, 12, 13, 31, 32, 34, 92, 47, 110, 114, 116, 117}
  \cup {48, 56, 67, 100, 102}
  \cup {127, 128, 143, 144, 159, 160, 191, 192, 193, 194, 223, 224, 225, 236, 237,
        238, 239, 240, 241, 243, 244, 245, 255}

\* The numbers around every power of ten and the largest one.
SomeNumbers == 0..111 \cup 985..1012 \cup 9990..10020 \cup 65500..65535

\* 0 7 - + . e ,
SomeChars == {48, 55, 45, 43, 46, 101, 44}

\* The byte order mark, white space, what begins a token, the letters of the
\* literals, NUL and something that is none of these.
SomeBeginnings ==
  {239, 187, 191, 32, 10, 123, 58, 34, 45, 48, 49, 0, 120}
  \cup {116, 114, 117, 101, 102, 97, 108, 115, 110}
-----------------------------------------------------------------------------
(* Binary formats *)

Ubjson(bj, counts, types, d3) ==
  [name |-> "ubjson",
   options |-> [use_bjdata |-> bj, use_count |-> counts, use_type |-> types, draft3 |-> d3]]
SomeFormats ==
  {[name |-> "cbor", tags |-> tags] : tags \in {"error", "ignore", "store"}}
  \cup {[name |-> "msgpack"], [name |-> "bson"]}
  \cup {Ubjson(bj, counts, FALSE, FALSE) : bj, counts \in BOOLEAN}
  \cup {Ubjson(FALSE, TRUE, TRUE, FALSE), Ubjson(TRUE, TRUE, TRUE, FALSE), Ubjson(TRUE, TRUE, TRUE, TRUE)}

N(n) == <<"unsigned", n>>
Below0(n) == <<"negative", n>>
Copies(v, k) == [i \in 1..k |-> v]
Array(a) == <<"array", a>>
Text(k) == <<"string", Copies(97, k)>>
Keyed(k, v) == <<"object", [key \in {<<97 + i>> : i \in 1..k} |-> v]>>
A == <<97>>

\* Around the largest number of every width, signed and unsigned.
Wide(k) == {Copies(255, k), <<127>> \o Copies(255, k - 1), <<128>> \o Copies(0, k - 1), <<1>> \o Copies(0, k)}
SomeBig == {<<>>, <<1>>, <<23>>, <<24>>, <<31>>, <<32>>, <<33>>, Copies(255, 8), <<127>> \o Copies(255, 7),
            <<128>> \o Copies(0, 7)} \cup Wide(1) \cup Wide(2) \cup Wide(4)
SomeSigned == {n \in SomeBig : FitsSigned(n, 8)}

\* 0, -0, 1, pi, infinity, NaN, and what is around the largest and the smallest single.
SomeFloats ==
  {Copies(0, 8), <<128, 0, 0, 0, 0, 0, 0, 0>>, <<63, 240, 0, 0, 0, 0, 0, 0>>,
   <<64, 9, 33, 251, 84, 68, 45, 24>>, Inf(0), Inf(1), NaN, <<71, 239, 255, 255, 224, 0, 0, 0>>,
   <<71, 239, 255, 255, 240, 0, 0, 0>>, <<54, 160, 0, 0, 0, 0, 0, 0>>, <<54, 144, 0, 0, 0, 0, 0, 0>>}

SomeBinaries ==
  {<<"binary", <<Copies(7, k), subtype>>>> :
     k \in {0, 1, 2, 3, 4, 8, 16, 24, 255, 256}, subtype \in {<<>>, << <<>> >>, << <<1, 5>> >>}}

\* BJData's annotated arrays, and one that is none as its data does not fit.
Annotated(sizes, mark, data) ==
  <<"object", (_ArraySize_ :> Array(sizes)) @@ (_ArrayType_ :> <<"string", <<mark>>>>)
              @@ (_ArrayData_ :> Array(data))>>
SomeAnnotated ==
  {Annotated(<<N(<<2>>), N(<<2>>)>>, mark, Copies(N(<<9>>), 4)) : mark \in {mU, mu, mm, mM, mC, mB}}
  \cup {Annotated(<<N(<<2>>), N(<<1>>)>>, mark, Copies(Below0(<<9>>), 2)) : mark \in {mi, mI, ml, mL}}
  \cup {Annotated(<<N(<<2>>), N(<<1>>)>>, mark, Copies(<<"float", <<63, 240, 0, 0, 0, 0, 0, 0>>>>, 2)) :
          mark \in {md, mD}}
  \cup {Annotated(<<N(<<2>>), N(<<2>>)>>, mU, Copies(N(<<9>>), 3))}

SomeArrays ==
  {Array(Copies(v, k)) : v \in {Null, Boolean(TRUE), N(<<200>>), <<"float", NaN>>}, k \in {0, 1, 15, 16, 24}}
  \cup {Array(<<N(<<1>>), N(<<200>>), Below0(<<>>)>>), Array(<<Array(<<>>), Keyed(1, Null)>>),
        Array(<<Array(<<N(<<1>>)>>), Array(<<>>)>>), Array(<<N(Copies(255, 8)), N(Copies(255, 8))>>),
        Array(Copies(Annotated(<<N(<<2>>), N(<<2>>)>>, mU, Copies(N(<<9>>), 4)), 2))}
SomeObjects ==
  {Keyed(k, v) : k \in {0, 1, 2, 15, 16, 24}, v \in {N(<<1>>), Boolean(FALSE)}}
  \cup {Keyed(k, v) : k \in {1, 2}, v \in {Null, Text(1), <<"float", Inf(0)>>, Array(<<N(<<>>)>>)}}
  \cup {Keyed(1, <<"binary", <<<<7>>, << <<5>> >>>>>>), <<"object", <<0>> :> Null>>,
        <<"object", (A :> N(<<1>>)) @@ (<<97, 98>> :> N(<<2>>)) @@ (<<>> :> Keyed(1, Null))>>}

SampleValues ==
  {N(n) : n \in SomeBig} \cup {<<"integer", n>> : n \in SomeSigned} \cup {Below0(n) : n \in SomeSigned}
  \cup {<<"float", f>> : f \in SomeFloats} \cup {Null, Boolean(TRUE), Boolean(FALSE)}
  \cup {Text(k) : k \in {0, 1, 23, 24, 31, 32, 127, 128, 255, 256, 65535, 65536}}
  \cup SomeBinaries \cup SomeAnnotated \cup SomeArrays \cup SomeObjects

\* Numbers, what begins a container in some format, no-op and count.
SomeDamages == {0, 1, 128, 255, 91, 78, 35}
-----------------------------------------------------------------------------
(* Documents *)

MinusOne == Below0(<<>>)
Largest == N(Copies(255, 8))
Object1(key, v) == <<"object", key :> v>>

\* Keys with what a path escapes, keys that look like an index, and the empty one.
SomeDocuments ==
  {Null, N(<<1>>), Largest, MinusOne, <<"integer", <<1>>>>, <<"string", <<48>>>>, EmptyArray, EmptyObject}
  \cup {Array(s) : s \in UNION {[1..n -> {Null, N(<<1>>)}] : n \in 1..3}}
  \cup {Array(<<Array(<<N(<<1>>)>>), N(<<2>>)>>), Array(<<Object1(A, N(<<1>>))>>), Array(<<EmptyArray, EmptyObject>>)}
  \cup {Object1(key, v) : key \in {<<>>, A, <<47>>, <<126, 49>>, <<48>>, <<45>>},
                          v \in {Null, N(<<1>>), Array(<<N(<<1>>), N(<<2>>)>>), Object1(<<47>>, Null)}}
  \cup {<<"object", (A :> N(<<1>>)) @@ (<<48>> :> Null)>>, <<"object", (A :> N(<<1>>)) @@ (<<98>> :> EmptyArray)>>}

\* "" "/" "/a" "/0" "/1" "/3" "/-" "/~1" "/~01" "/a/0" "/a/-" "/0/a" "/01" "/~" "a"
SomeLocations ==
  {<<>>, <<47>>, <<47, 97>>, <<47, 48>>, <<47, 49>>, <<47, 51>>, <<47, 45>>, <<47, 126, 49>>,
   <<47, 126, 48, 49>>, <<47, 97, 47, 48>>, <<47, 97, 47, 45>>, <<47, 48, 47, 97>>, <<47, 48, 49>>,
   <<47, 126>>, A}
SomeAdditions == {Null, N(<<1>>), Array(<<N(<<2>>)>>)}
-----------------------------------------------------------------------------
(* Texts parsed with a callback: containers in containers of both kinds, elements and
   members before and behind them, and keys that come again. *)

B == <<98>>
Members(s) == <<"object", s>>
SomeSources ==
  {N(<<1>>), Array(<<N(<<1>>), Array(<<N(<<2>>)>>), N(<<3>>)>>),
   Members(<< <<A, N(<<1>>)>>, <<A, N(<<2>>)>>, <<B, Members(<< <<A, N(<<1>>)>> >>)>> >>),
   Array(<<Members(<< <<A, N(<<1>>)>>, <<B, N(<<2>>)>> >>), Members(<<>>), N(<<3>>)>>),
   Members(<< <<A, Array(<<N(<<1>>)>>)>>, <<B, Members(<<>>)>>, <<A, Members(<<>>)>> >>)}
=============================================================================
