---------------------------- MODULE JsonPointer ----------------------------
(***************************************************************************)
(* JSON pointers (json.hpp): json_pointer is a path of reference tokens,   *)
(* and operator[], at() and contains() walk along it through a document.   *)
(* Each of them decides for itself what a token means in an array.         *)
(* Characters are their codes; the values are those of BinaryValue.        *)
(***************************************************************************)
EXTENDS BinaryValue

Tilde == 126
Slash == 47
Dash == <<45>>  \* "-", the element behind the last one
DecimalDigit == 48..57
-----------------------------------------------------------------------------
(* Paths *)

\* Every f in s becomes t, from the left, and what was put in is not looked at again.
RECURSIVE replace_substring(_, _, _)
replace_substring(s, f, t) ==
  IF s = <<>> THEN <<>>
  ELSE IF Len(f) <= Len(s) /\ SubSeq(s, 1, Len(f)) = f
  THEN t \o replace_substring(SubSeq(s, Len(f) + 1, Len(s)), f, t)
  ELSE <<s[1]>> \o replace_substring(Tail(s), f, t)

escape(token) ==
  replace_substring(replace_substring(token, <<Tilde>>, <<Tilde, 48>>), <<Slash>>, <<Tilde, 49>>)

\* slip: the tilde first
UnescapeTildeFirst(token) ==
  replace_substring(replace_substring(token, <<Tilde, 48>>, <<Tilde>>), <<Tilde, 49>>, <<Slash>>)
unescape(token) ==
  replace_substring(replace_substring(token, <<Tilde, 49>>, <<Slash>>), <<Tilde, 48>>, <<Tilde>>)

WellEscaped(token) ==
  \A i \in DOMAIN token : token[i] = Tilde => i < Len(token) /\ token[i + 1] \in {48, 49}

Found(v) == [ok |-> TRUE, val |-> v]

\* The reference tokens of a path.
split(path) ==
  LET AddChar(tokens, c) ==
        IF c = Slash THEN Append(tokens, <<>>) ELSE [tokens EXCEPT ![Len(tokens)] = Append(@, c)]
      tokens == FoldLeft(AddChar, <<>>, path)
  IN CASE path = <<>> -> Found(<<>>)
       [] path[1] # Slash -> Error
       [] \E i \in DOMAIN tokens : ~WellEscaped(tokens[i]) -> Error
       [] OTHER -> Found([i \in DOMAIN tokens |-> unescape(tokens[i])])

\* The path of a token below a path.
Extend(path, token) == path \o <<Slash>> \o escape(token)

\* A number without zeros in front; the tokens here have at most nine characters.
array_index(token) ==
  IF /\ token # <<>> /\ \A i \in DOMAIN token : token[i] \in DecimalDigit
     /\ Len(token) > 1 => token[1] # 48
  THEN Found(FoldLeft(LAMBDA n, c : 10 * n + (c - 48), 0, token))
  ELSE Error
-----------------------------------------------------------------------------
(* at() *)

Child(v, token) ==
  CASE v[1] = "object" /\ token \in DOMAIN v[2] -> Found(v[2][token])
    [] v[1] = "array" /\ token # Dash ->
         LET index == array_index(token)
         IN IF index.ok /\ index.val < Len(v[2]) THEN Found(v[2][index.val + 1]) ELSE Error
    [] OTHER -> Error

get_checked(v, tokens) ==
  FoldLeft(LAMBDA r, token : IF r.ok THEN Child(r.val, token) ELSE r, Found(v), tokens)
-----------------------------------------------------------------------------
(* contains(), which is "throws" where array_index throws *)

Has(v, token) ==
  CASE v[1] = "object" -> IF token \in DOMAIN v[2] THEN "yes" ELSE "no"
    [] v[1] = "array" ->
         LET digits == {i \in DOMAIN token : token[i] \in DecimalDigit}
         IN CASE token = Dash -> "no"
              [] Len(token) = 1 /\ 1 \notin digits -> "no"
              [] Len(token) > 1 /\ (token[1] = 48 \/ digits # DOMAIN token) -> "no"
              [] ~array_index(token).ok -> "throws"
              [] OTHER -> IF array_index(token).val < Len(v[2]) THEN "yes" ELSE "no"
    [] OTHER -> "no"

contains(v, tokens) ==
  LET Step(r, token) ==
        IF r.has # "yes" THEN r
        ELSE LET has == Has(r.val, token)
             IN [has |-> has, val |-> IF has # "yes" THEN r.val
                                      ELSE IF r.val[1] = "object" THEN r.val[2][token]
                                      ELSE r.val[2][array_index(token).val + 1]]
  IN FoldLeft(Step, [has |-> "yes", val |-> v], tokens).has
-----------------------------------------------------------------------------
(* A value is assigned to what a pointer refers to: "unchecked" is         *)
(* operator[], "checked" at(), and "unflatten" get_and_create.  A throw    *)
(* leaves what was created on the way.                                     *)

EmptyObject == <<"object", [k \in {} |-> Null]>>
EmptyArray == <<"array", <<>>>>

\* What a null becomes when there is a token left.
Opened(v, token, mode) ==
  CASE v # Null \/ mode = "checked" -> v
    [] mode = "unflatten" -> IF token = <<48>> THEN EmptyArray ELSE EmptyObject
    [] OTHER -> IF token = Dash \/ \A i \in DOMAIN token : token[i] \in DecimalDigit
                THEN EmptyArray ELSE EmptyObject

IndexIn(a, token, mode) ==
  IF mode = "unchecked" /\ token = Dash THEN Found(Len(a)) ELSE array_index(token)

\* The value under a token of an object or an array, which operator[] makes null if
\* it is new.
Slot(v, token, mode) ==
  IF mode = "checked" THEN Child(v, token)
  ELSE CASE v[1] = "object" -> Found(IF token \in DOMAIN v[2] THEN v[2][token] ELSE Null)
         [] v[1] = "array" ->
              LET index == IndexIn(v[2], token, mode)
              IN IF index.ok THEN Found(IF index.val < Len(v[2]) THEN v[2][index.val + 1] ELSE Null)
                             ELSE Error
         [] OTHER -> Error

\* v with w in that place; an array is filled up with nulls.
With(v, token, mode, w) ==
  IF v[1] = "object" THEN <<"object", (token :> w) @@ v[2]>>
  ELSE LET index == IndexIn(v[2], token, mode).val + 1
           size == IF index > Len(v[2]) THEN index ELSE Len(v[2])
       IN <<"array", [i \in 1..size |-> IF i = index THEN w ELSE IF i <= Len(v[2]) THEN v[2][i] ELSE Null]>>

RECURSIVE Assigned(_, _, _, _)
Assigned(v, tokens, mode, w) ==
  IF tokens = <<>> THEN Found(w)
  ELSE LET opened == Opened(v, tokens[1], mode)
           slot == Slot(opened, tokens[1], mode)
       IN IF ~slot.ok THEN [ok |-> FALSE, val |-> opened]
          ELSE LET r == Assigned(slot.val, Tail(tokens), mode, w)
               IN [ok |-> r.ok, val |-> With(opened, tokens[1], mode, r.val)]
-----------------------------------------------------------------------------
(* flatten() and unflatten() *)

Primitive(v) == v[1] \notin {"array", "object"}

\* The object of all primitive values under their paths; an empty array or object is null.
RECURSIVE flatten(_, _)
flatten(path, v) ==
  LET tokens == CASE v[1] = "array" -> [i \in DOMAIN v[2] |-> to_string(i - 1)]
                  [] v[1] = "object" -> Keys(v[2])
                  [] OTHER -> <<>>
      Below(i) == IF v[1] = "array" THEN v[2][i] ELSE v[2][tokens[i]]
  IN CASE Primitive(v) -> path :> v
       [] tokens = <<>> -> path :> Null
       [] OTHER -> FoldLeft(LAMBDA result, i : flatten(Extend(path, tokens[i]), Below(i)) @@ result,
                            <<>>, [i \in DOMAIN tokens |-> i])

unflatten(v) ==
  LET Step(r, path) ==
        LET tokens == split(path)
        IN IF r.ok /\ Primitive(v[2][path]) /\ tokens.ok
           THEN Assigned(r.val, tokens.val, "unflatten", v[2][path])
           ELSE Error
  IN IF v[1] = "object" THEN FoldLeft(Step, Found(Null), Keys(v[2])) ELSE Error
=============================================================================
