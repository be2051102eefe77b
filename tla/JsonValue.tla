----------------------------- MODULE JsonValue -----------------------------
(***************************************************************************)
(* The end of a parsed value (json.hpp): the destructor of the union       *)
(* json_value.  However deep the value is, nothing recurses: containers    *)
(* are emptied into a stack on the heap and destroyed when they hold       *)
(* nothing but the nulls that moved values leave behind.  A value that is  *)
(* cut off by a parse error is destroyed in the same way.                  *)
(***************************************************************************)
EXTENDS JsonParser

VARIABLES
  at_end,  \* "alive", "flattened" or "destroyed"
  stack,   \* the values that were moved out of their containers, as paths
  nulls,   \* the places that were moved from
  freed    \* the values whose storage was released, in that order

valueVars == <<at_end, stack, nulls, freed>>

ValueInit == at_end = "alive" /\ stack = <<>> /\ nulls = {} /\ freed = <<>>

\* The values in a container, in the order of its elements.
Items(p) == SetToSeq(Children(p))

NotInvalidated(p) == nulls                                        \* slip
\* The move constructor leaves a null in each place.
MovedFrom(p) == nulls \cup Children(p)

\* What a destructor releases with a value: all that was not moved out of it.
StillIn(p, moved) ==
  {q \in DOMAIN tree : /\ IsPrefix(p, q)
                       /\ \A n \in Len(p) + 1..Len(q) : SubSeq(q, 1, n) \notin moved}

\* The top-level items are moved to the stack.
Flatten ==
  /\ at_end = "alive"
  /\ at_end' = "flattened"
  /\ stack' = Items(<<>>)
  /\ nulls' = MovedFrom(<<>>)
  /\ UNCHANGED freed

\* The last item is taken, its children take its place, and it goes out of scope.
TakeItem ==
  /\ at_end = "flattened" /\ stack # <<>>
  /\ LET current_item == Last(stack) IN
       /\ stack' = Front(stack) \o Items(current_item)
       /\ nulls' = MovedFrom(current_item)
       /\ freed' = freed \o SetToSeq(StillIn(current_item, nulls'))
  /\ UNCHANGED at_end

\* The container itself.
FreeRoot ==
  /\ at_end = "flattened" /\ stack = <<>>
  /\ at_end' = "destroyed"
  /\ freed' = freed \o SetToSeq(StillIn(<<>>, nulls))
  /\ UNCHANGED <<stack, nulls>>

Destroy == Flatten \/ TakeItem \/ FreeRoot
-----------------------------------------------------------------------------
\* The value is a tree while it is built, so that nothing is lost when one takes
\* the place of another, and when it is destroyed no value is released twice and
\* none is forgotten.  One step of the loop releases one value, for which a
\* destructor need not call another: what is neither released nor the root is in
\* the value on the stack it was moved with.
FreedOnce ==
  /\ ValueIsTree
  /\ IsInjective(freed)
  /\ at_end = "flattened" =>
       \A p \in DOMAIN tree \ ({<<>>} \cup ToSet(freed)) :
         Cardinality({i \in DOMAIN stack : IsPrefix(stack[i], p)}) = 1
  /\ at_end = "destroyed" => ToSet(freed) = DOMAIN tree
=============================================================================
