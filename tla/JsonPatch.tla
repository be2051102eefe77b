----------------------------- MODULE JsonPatch -----------------------------
(***************************************************************************)
(* Documents that are compared, patched, merged and flattened (json.hpp:   *)
(* diff, patch_inplace, merge_patch, flatten).  A patch is applied one     *)
(* operation after the other, and an operation that throws leaves what the *)
(* ones before it did.  Documents have no floats.                          *)
(***************************************************************************)
EXTENDS JsonPointer

CONSTANTS
  Documents,
  Locations,      \* the paths a user gives
  Additions,      \* the values a user puts in
  MAX_OPERATIONS  \* how many operations a user gives (a bound of the model)

VARIABLES
  doc, other,  \* the document, and the one it is compared or merged with, or was
  todo,        \* the operations of the patch that are left
  given,       \* the operations a user gave
  phase        \* "none", "two" documents, "diff", "merged", one document and a "user",
               \* "flat", "unflattened", or the patch "failed" or something else "threw"

patchVars == <<doc, other, todo, given, phase>>

PatchInit ==
  /\ doc \in Documents
  /\ \/ phase = "two" /\ other \in Documents
     \/ phase = "user" /\ other = Null
  /\ todo = <<>> /\ given = 0
-----------------------------------------------------------------------------
(* operator== *)

IsInteger(v) == v[1] \in {"unsigned", "integer", "negative"}

\* An unsigned number is cast to a signed one before they are compared.
RECURSIVE Equal(_, _)
Equal(a, b) ==
  CASE IsInteger(a) /\ IsInteger(b) -> Bits(a, 8) = Bits(b, 8)
    [] a[1] = "array" /\ b[1] = "array" ->
         Len(a[2]) = Len(b[2]) /\ \A i \in DOMAIN a[2] : Equal(a[2][i], b[2][i])
    [] a[1] = "object" /\ b[1] = "object" ->
         DOMAIN a[2] = DOMAIN b[2] /\ \A key \in DOMAIN a[2] : Equal(a[2][key], b[2][key])
    [] OTHER -> a = b
-----------------------------------------------------------------------------
(* diff *)

AddOf(path, v) == [op |-> "add", path |-> path, value |-> v]
RemoveOf(path) == [op |-> "remove", path |-> path]
ReplaceOf(path, v) == [op |-> "replace", path |-> path, value |-> v]

\* slip: the remaining elements of the source are removed from the front on
RemovedForward(source, n, path) ==
  [k \in 1..(Len(source) - n) |-> RemoveOf(Extend(path, to_string(n + k - 1)))]
Removed(source, n, path) ==
  [k \in 1..(Len(source) - n) |-> RemoveOf(Extend(path, to_string(Len(source) - k)))]

RECURSIVE diff(_, _, _)
diff(source, target, path) ==
  LET s == source[2]
      t == target[2]
      ArrayDiff ==
        LET n == IF Len(s) < Len(t) THEN Len(s) ELSE Len(t)
        IN FlattenSeq([i \in 1..n |-> diff(s[i], t[i], Extend(path, to_string(i - 1)))])
           \o Removed(s, n, path)
           \o [k \in 1..(Len(t) - n) |-> AddOf(Extend(path, Dash), t[n + k])]
      OfKey(key) ==
        IF key \in DOMAIN t THEN diff(s[key], t[key], Extend(path, key))
                            ELSE <<RemoveOf(Extend(path, key))>>
      ObjectDiff ==
        LET new == SelectSeq(Keys(t), LAMBDA key : key \notin DOMAIN s)
            old == Keys(s)
        IN FlattenSeq([i \in DOMAIN old |-> OfKey(old[i])])
           \o [i \in DOMAIN new |-> AddOf(Extend(path, new[i]), t[new[i]])]
  IN CASE Equal(source, target) -> <<>>
       [] source[1] = "array" /\ target[1] = "array" -> ArrayDiff
       [] source[1] = "object" /\ target[1] = "object" -> ObjectDiff
       [] OTHER -> <<ReplaceOf(path, target)>>
-----------------------------------------------------------------------------
(* patch_inplace *)

\* The parent with a new element.  A primitive parent fails JSON_ASSERT, which ends
\* the program.
AddedTo(parent, token, v) ==
  CASE parent = Null -> Found(<<"object", token :> v>>)
    [] parent[1] = "object" -> Found(<<"object", (token :> v) @@ parent[2]>>)
    [] parent[1] = "array" /\ token = Dash -> Found(<<"array", Append(parent[2], v)>>)
    [] parent[1] = "array" /\ token # Dash ->
         LET index == array_index(token)
         IN IF index.ok /\ index.val <= Len(parent[2])
            THEN Found(<<"array", InsertAt(parent[2], index.val + 1, v)>>) ELSE Error
    [] OTHER -> Error

\* A primitive parent stays as it is.
RemovedFrom(parent, token) ==
  CASE parent[1] = "object" ->
         IF token \in DOMAIN parent[2]
         THEN Found(<<"object", [key \in DOMAIN parent[2] \ {token} |-> parent[2][key]]>>) ELSE Error
    [] parent[1] = "array" ->
         LET index == array_index(token)
         IN IF index.ok /\ index.val < Len(parent[2])
            THEN Found(<<"array", RemoveAt(parent[2], index.val + 1)>>) ELSE Error
    [] OTHER -> Found(parent)

operation_add(v, tokens, w) ==
  IF tokens = <<>> THEN Found(w)
  ELSE LET parent == get_checked(v, Front(tokens))
           added == AddedTo(parent.val, Last(tokens), w)
       IN IF parent.ok /\ added.ok THEN Assigned(v, Front(tokens), "checked", added.val) ELSE Error

operation_remove(v, tokens) ==
  IF tokens = <<>> THEN Error
  ELSE LET parent == get_checked(v, Front(tokens))
           rest == RemovedFrom(parent.val, Last(tokens))
       IN IF parent.ok /\ rest.ok THEN Assigned(v, Front(tokens), "checked", rest.val) ELSE Error

\* get_value: a member of the operation, which throws if there is none.
get_value(operation, member) ==
  IF member \in DOMAIN operation THEN Found(operation[member]) ELSE Error

MoveFrom(v, from, tokens) ==
  LET w == get_checked(v, from)
      removed == operation_remove(v, from)
      added == operation_add(removed.val, tokens, w.val)
  IN CASE ~(w.ok /\ removed.ok) -> Error
       [] ~added.ok -> [ok |-> FALSE, val |-> removed.val]
       [] OTHER -> added

\* What the document becomes; without a value nothing of the operation was done.
Applied(v, operation) ==
  LET path == split(operation.path)
      from == get_value(operation, "from")
      w == get_value(operation, "value")
      source == split(from.val)
  IN CASE ~path.ok -> Error
       [] operation.op = "remove" -> operation_remove(v, path.val)
       [] operation.op \in {"add", "replace", "test"} /\ ~w.ok -> Error
       [] operation.op \in {"move", "copy"} /\ (~from.ok \/ ~source.ok) -> Error
       [] operation.op = "add" -> operation_add(v, path.val, w.val)
       [] operation.op = "replace" -> Assigned(v, path.val, "checked", w.val)
       [] operation.op = "move" -> MoveFrom(v, source.val, path.val)
       [] operation.op = "copy" ->
            IF get_checked(v, source.val).ok
            THEN operation_add(v, path.val, get_checked(v, source.val).val) ELSE Error
       [] operation.op = "test" ->
            LET at == get_checked(v, path.val)
            IN IF at.ok /\ Equal(at.val, w.val) THEN Found(v) ELSE Error
       [] OTHER -> Error

PatchOperation ==
  /\ todo # <<>> /\ phase # "failed"
  /\ LET r == Applied(doc, todo[1])
     IN /\ doc' = IF "val" \in DOMAIN r THEN r.val ELSE doc
        /\ phase' = IF r.ok THEN phase ELSE "failed"
  /\ todo' = Tail(todo)
  /\ UNCHANGED <<other, given>>

Diff ==
  /\ phase = "two"
  /\ todo' = diff(doc, other, <<>>) /\ phase' = "diff"
  /\ UNCHANGED <<doc, other, given>>

\* The operations of a patch that someone wrote.
Operations ==
  {AddOf(path, v) : path \in Locations, v \in Additions}
  \cup {RemoveOf(path) : path \in Locations}
  \cup {ReplaceOf(path, v) : path \in Locations, v \in Additions}
  \cup {[op |-> op, from |-> from, path |-> path] : op \in {"move", "copy"}, from, path \in Locations}
  \cup {[op |-> "test", path |-> path, value |-> v] : path \in Locations, v \in Additions}
  \cup {[op |-> "add", path |-> path] : path \in Locations}
  \cup {[op |-> "move", path |-> path] : path \in Locations}

UserOperation ==
  /\ phase = "user" /\ todo = <<>> /\ given < MAX_OPERATIONS
  /\ \E operation \in Operations : todo' = <<operation>>
  /\ given' = given + 1
  /\ UNCHANGED <<doc, other, phase>>

\* operator[] with a pointer, and an assignment to what it returns.
Access ==
  /\ phase = "user" /\ todo = <<>> /\ given < MAX_OPERATIONS
  /\ \E path \in Locations, v \in Additions :
       /\ split(path).ok
       /\ LET r == Assigned(doc, split(path).val, "unchecked", v)
          IN doc' = r.val /\ phase' = IF r.ok THEN "user" ELSE "threw"
  /\ given' = given + 1
  /\ UNCHANGED <<other, todo>>
-----------------------------------------------------------------------------
(* merge_patch, flatten *)

RECURSIVE merge_patch(_, _)
merge_patch(v, apply_patch) ==
  LET patch == apply_patch[2]
      Erased(object, key) == [k \in DOMAIN object \ {key} |-> object[k]]
      Merged(object, key) ==
        IF patch[key] = Null THEN Erased(object, key)
        ELSE LET old == IF key \in DOMAIN object THEN object[key] ELSE Null
             IN (key :> merge_patch(old, patch[key])) @@ object
      object == IF v[1] = "object" THEN v[2] ELSE EmptyObject[2]
  IN IF apply_patch[1] = "object" THEN <<"object", FoldLeft(Merged, object, Keys(patch))>>
                                  ELSE apply_patch

Merge ==
  /\ phase = "two"
  /\ doc' = merge_patch(doc, other) /\ phase' = "merged"
  /\ UNCHANGED <<other, todo, given>>

Flatten ==
  /\ phase = "user" /\ todo = <<>>
  /\ doc' = <<"object", flatten(<<>>, doc)>> /\ phase' = "flat"
  /\ other' = doc
  /\ UNCHANGED <<todo, given>>

\* Also of a document that nobody flattened.
Unflatten ==
  /\ phase \in {"user", "flat"} /\ todo = <<>>
  /\ LET r == unflatten(doc)
         done == IF phase = "flat" THEN "unflattened" ELSE "user"
     IN IF r.ok THEN doc' = r.val /\ phase' = done
                ELSE phase' = "threw" /\ UNCHANGED doc
  /\ UNCHANGED <<other, todo, given>>

PatchIdle ==
  doc = Null /\ other = Null /\ todo = <<>> /\ given = 0 /\ phase = "none"

PatchNext ==
  Diff \/ PatchOperation \/ UserOperation \/ Access \/ Merge \/ Flatten \/ Unflatten
-----------------------------------------------------------------------------
(* An array or object without elements is null in a flattened document. *)
RECURSIVE Emptied(_)
Emptied(v) ==
  CASE v[2] = EmptyObject[2] /\ ~Primitive(v) -> Null
    [] v[1] = "array" -> <<"array", [i \in DOMAIN v[2] |-> Emptied(v[2][i])]>>
    [] v[1] = "object" -> <<"object", [key \in DOMAIN v[2] |-> Emptied(v[2][key])]>>
    [] OTHER -> v

RECURSIVE HasKeyZero(_)
HasKeyZero(v) ==
  CASE v[1] = "array" -> \E i \in DOMAIN v[2] : HasKeyZero(v[2][i])
    [] v[1] = "object" -> <<48>> \in DOMAIN v[2] \/ \E key \in DOMAIN v[2] : HasKeyZero(v[2][key])
    [] OTHER -> FALSE

\* A document that is patched with its difference to another one becomes equal to
\* that one, and no operation on the way throws.
DiffArrives ==
  /\ phase = "diff" /\ todo = <<>> => Equal(doc, other)
  /\ phase = "failed" => given > 0

\* A merge patch that was applied changes nothing when it is applied again.
MergeOnce == phase = "merged" => merge_patch(doc, other) = doc

\* A patch, of either kind, brings the document where it says.
PatchReachesTarget == DiffArrives /\ MergeOnce

\* What contains() finds at() returns, and assigning to it is the same with at() and
\* with operator[]; what operator[] created is where contains() and at() look for it.
AccessAgrees ==
  phase # "none" => \A path \in Locations :
    LET tokens == split(path).val
        Put(mode, v) == Assigned(doc, tokens, mode, v)
    IN split(path).ok =>
         /\ get_checked(doc, tokens).ok <=> contains(doc, tokens) = "yes"
         /\ contains(doc, tokens) = "yes" =>
              \A v \in Additions : Put("unchecked", v) = Put("checked", v)
         /\ \A v \in Additions :
              Put("unchecked", v).ok /\ (\A i \in DOMAIN tokens : tokens[i] # Dash) =>
                /\ get_checked(Put("unchecked", v).val, tokens) = Found(v)
                /\ contains(Put("unchecked", v).val, tokens) = "yes"

\* A flattened document is unflattened to what it was, up to empty containers, unless
\* one of its objects has the key "0" and so passes for an array.
UnflattenInverts ==
  phase = "unflattened" /\ ~HasKeyZero(other) => doc = Emptied(other)

\* A pointer means the same element to at(), contains(), operator[] and unflatten(),
\* which walk along it each in its own way.
PointersAgree == AccessAgrees /\ UnflattenInverts
=============================================================================
