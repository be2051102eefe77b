--------------------------- MODULE CallbackParser ---------------------------
(***************************************************************************)
(* Parsing with a callback (json.hpp): json_sax_dom_callback_parser builds *)
(* the value from the parser's events and asks, after each of them,        *)
(* whether to keep what it is about.  Whether a container is kept is known *)
(* only at its end, and a key comes before its value, so that three stacks *)
(* remember what was answered, and what is rejected later has to be taken  *)
(* out again.                                                              *)
(*                                                                         *)
(* A text is <<"array", elements>>, <<"object", members>> with a sequence  *)
(* of keys and values, or a primitive value of BinaryValue.                *)
(***************************************************************************)
EXTENDS JsonPointer

CONSTANT Sources  \* the texts that are parsed

VARIABLES
  source,          \* the text
  answers,         \* for each event so far "yes", "no", or "unasked"
  root,            \* the value
  ref_stack,       \* a pointer to each open container: its path, or nothing if it is not kept
  keep_stack,      \* what was answered at its beginning
  key_keep_stack,  \* what was answered to the keys that wait for a value
  object_element   \* the path of the member that waits for one

callbackVars ==
  <<source, answers, root, ref_stack, keep_stack, key_keep_stack, object_element>>

Discarded == <<"discarded", <<>>>>
NullPointer == <<>>
PointerTo(path) == <<path>>

BuilderInit ==
  /\ answers = <<>>
  /\ root = Null /\ ref_stack = <<>>
  /\ keep_stack = <<TRUE>> /\ key_keep_stack = <<>>
  /\ object_element = <<>>

CallbackInit == source \in Sources /\ BuilderInit

\* A text without events.
Nothing == <<"nothing", <<>>>>
CallbackIdle == source = Nothing /\ BuilderInit
-----------------------------------------------------------------------------
(* The events of a text, in their order. *)

RECURSIVE Events(_)
Events(v) ==
  CASE v = Nothing -> <<>>
    [] v[1] = "array" ->
         << <<"begin", EmptyArray>> >> \o FlattenSeq([i \in DOMAIN v[2] |-> Events(v[2][i])])
         \o << <<"end", "array">> >>
    [] v[1] = "object" ->
         << <<"begin", EmptyObject>> >>
         \o FlattenSeq([i \in DOMAIN v[2] |-> << <<"key", v[2][i][1]>> >> \o Events(v[2][i][2])])
         \o << <<"end", "object">> >>
    [] OTHER -> << <<"value", v>> >>

Done == Len(answers) = Len(Events(source))
event == Events(source)[Len(answers) + 1]
-----------------------------------------------------------------------------
(* json_sax_dom_callback_parser *)

Asked(keep) == answers' = Append(answers, IF keep THEN "yes" ELSE "no")
NotAsked == answers' = Append(answers, "unasked")

ValueAt(path) == get_checked(root, path).val
Put(v, path, w) == Assigned(v, path, "checked", w).val
NotNull(pointer) == pointer # NullPointer

FirstAnswer == key_keep_stack[1]                                  \* slip
StoreElement == Last(key_keep_stack)

\* A value that is kept: where it goes, and what its place in the value is.
handle_value(v) ==
  LET parent == Last(ref_stack)
      Into == ValueAt(parent[1])
      element == Append(parent[1], to_string(Len(Into[2])))
      Place(pointer, result) ==
        [root |-> result, pointer |-> pointer, key_keep_stack |-> key_keep_stack]
  IN CASE ref_stack = <<>> -> Place(PointerTo(<<>>), v)
       [] ref_stack # <<>> /\ ~NotNull(parent) -> Place(NullPointer, root)
       [] NotNull(parent) /\ Into[1] = "array" ->
            Place(PointerTo(element), Put(root, parent[1], <<"array", Append(Into[2], v)>>))
       [] OTHER ->
            [(IF StoreElement THEN Place(PointerTo(object_element), Put(root, object_element, v))
                              ELSE Place(NullPointer, root))
             EXCEPT !.key_keep_stack = Front(key_keep_stack)]

Store(v) ==
  /\ root' = handle_value(v).root
  /\ key_keep_stack' = handle_value(v).key_keep_stack

\* null, boolean, the numbers, string.  Of a value that is rejected, or is in a
\* container whose beginning was, the key's answer stays on its stack.
PrimitiveValue ==
  /\ ~Done /\ event[1] = "value"
  /\ \/ /\ Last(keep_stack)
        /\ \E keep \in BOOLEAN :
             /\ Asked(keep)
             /\ IF keep THEN Store(event[2]) ELSE UNCHANGED <<root, key_keep_stack>>
     \/ /\ ~Last(keep_stack)
        /\ NotAsked
        /\ UNCHANGED <<root, key_keep_stack>>
  /\ UNCHANGED <<source, ref_stack, keep_stack, object_element>>

\* start_object, start_array.
Begin ==
  /\ ~Done /\ event[1] = "begin"
  /\ \E keep \in BOOLEAN :
       /\ Asked(keep)
       /\ keep_stack' = Append(keep_stack, keep)
       /\ \/ /\ keep
             /\ Store(event[2])
             /\ ref_stack' = Append(ref_stack, handle_value(event[2]).pointer)
          \/ /\ ~keep
             /\ ref_stack' = Append(ref_stack, NullPointer)
             /\ UNCHANGED <<root, key_keep_stack>>
  /\ UNCHANGED <<source, object_element>>

\* The member is there, discarded, until its value comes.
Key ==
  /\ ~Done /\ event[1] = "key"
  /\ \E keep \in BOOLEAN :
       /\ Asked(keep)
       /\ key_keep_stack' = Append(key_keep_stack, keep)
       /\ LET object == Last(ref_stack)
              element == Append(object[1], event[2])
          IN \/ /\ keep /\ NotNull(object)
                /\ root' = Put(root, object[1],
                               <<"object", (event[2] :> Discarded) @@ ValueAt(object[1])[2]>>)
                /\ object_element' = element
             \/ /\ ~(keep /\ NotNull(object))
                /\ UNCHANGED <<root, object_element>>
  /\ UNCHANGED <<source, ref_stack, keep_stack>>

\* The first discarded value in a container is erased, and no other.
WithoutFirst(container) ==
  LET items == container[2]
      discarded == {k \in DOMAIN items : items[k] = Discarded}
      first == IF container[1] = "array" THEN CHOOSE i \in discarded : \A j \in discarded : i <= j
               ELSE CHOOSE k \in discarded : \A l \in discarded : ~KeyLess(l, k)
  IN CASE discarded = {} -> container
       [] container[1] = "array" -> <<"array", RemoveAt(items, first)>>
       [] OTHER -> <<"object", [k \in DOMAIN items \ {first} |-> items[k]]>>

\* end_object looks for what to erase in the container around it; end_array erases
\* what it has discarded itself, from an array only.
Cleared(v, type, keep, parent) ==
  LET around == get_checked(v, parent[1]).val
  IN CASE ~NotNull(parent) -> v
       [] NotNull(parent) /\ type = "object" -> Put(v, parent[1], WithoutFirst(around))
       [] NotNull(parent) /\ type = "array" /\ ~keep /\ around[1] = "array" ->
            Put(v, parent[1], <<"array", Front(around[2])>>)
       [] OTHER -> v

\* end_object, end_array.
End ==
  /\ ~Done /\ event[1] = "end"
  /\ ref_stack' = Front(ref_stack) /\ keep_stack' = Front(keep_stack)
  /\ LET container == Last(ref_stack)
         parent == IF Len(ref_stack) = 1 THEN NullPointer ELSE ref_stack[Len(ref_stack) - 1]
     IN \/ /\ NotNull(container)
           /\ \E keep \in BOOLEAN :
                /\ Asked(keep)
                /\ root' = Cleared(IF keep THEN root ELSE Put(root, container[1], Discarded),
                                   event[2], keep, parent)
        \/ /\ ~NotNull(container)
           /\ NotAsked
           /\ root' = Cleared(root, event[2], TRUE, parent)
  /\ UNCHANGED <<source, key_keep_stack, object_element>>

CallbackNext == PrimitiveValue \/ Begin \/ Key \/ End

\* What parse() returns.
ParseResult == IF root = Discarded THEN Null ELSE root
-----------------------------------------------------------------------------
(* What the answers say is to be left of the text v whose first event is   *)
(* the n-th: nothing, or a value.                                          *)
RECURSIVE Left(_, _)
Left(v, n) ==
  LET items == v[2]
      EventsOf(i) == IF v[1] = "array" THEN Events(items[i]) ELSE Events(items[i][2])
      gap == IF v[1] = "object" THEN 1 ELSE 0
      place[i \in 1..(Len(items) + 1)] ==
        IF i = 1 THEN n + 1 + gap ELSE place[i - 1] + Len(EventsOf(i - 1)) + gap
      left == [i \in DOMAIN items |-> Left(IF v[1] = "array" THEN items[i] ELSE items[i][2], place[i])]
      KeepElement(a, i) == IF left[i].ok THEN Append(a, left[i].val) ELSE a
      KeepMember(o, i) ==
        CASE answers[place[i] - 1] # "yes" -> o
          [] left[i].ok -> (items[i][1] :> left[i].val) @@ o
          [] OTHER -> [k \in DOMAIN o \ {items[i][1]} |-> o[k]]
      indexes == [i \in DOMAIN items |-> i]
  IN CASE answers[n] # "yes" -> Error
       [] v[1] \notin {"array", "object"} -> Found(v)
       [] answers[n + Len(Events(v)) - 1] # "yes" -> Error
       [] v[1] = "array" -> Found(<<"array", FoldLeft(KeepElement, <<>>, indexes)>>)
       [] v[1] = "object" -> Found(<<"object", FoldLeft(KeepMember, EmptyObject[2], indexes)>>)

\* The members that are still there as discarded ones.
RECURSIVE WithoutDiscarded(_)
WithoutDiscarded(v) ==
  CASE v[1] = "array" -> <<"array", [i \in DOMAIN v[2] |-> WithoutDiscarded(v[2][i])]>>
    [] v[1] = "object" ->
         <<"object", [k \in {l \in DOMAIN v[2] : v[2][l] # Discarded} |-> WithoutDiscarded(v[2][k])]>>
    [] OTHER -> v

\* What the callback kept is the value, and nothing that it rejected is: neither an
\* element or a member, nor what is below one, nor what comes with a rejected key;
\* a rejected member may be left behind, but as a discarded one.  On the way, a
\* pointer that is not null is to a container that is there, and below it is none
\* that is null, so that none is followed that is.
CallbackObeyed ==
  /\ Done /\ source # Nothing =>
       LET left == Left(source, 1)
       IN WithoutDiscarded(ParseResult) = IF left.ok THEN left.val ELSE Null
  /\ \A i \in DOMAIN ref_stack : NotNull(ref_stack[i]) =>
       /\ get_checked(root, ref_stack[i][1]).ok
       /\ ValueAt(ref_stack[i][1])[1] \in {"array", "object"}
       /\ i > 1 => NotNull(ref_stack[i - 1]) /\ Front(ref_stack[i][1]) = ref_stack[i - 1][1]
=============================================================================
