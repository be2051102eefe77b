----------------------------- MODULE JsonParser -----------------------------
(***************************************************************************)
(* Reading a JSON text (json.hpp): parser::sax_parse_internal, its stack   *)
(* of booleans, and json_sax_dom_parser, which builds the value through    *)
(* pointers into it.  The two keep their stacks apart and check each other *)
(* only by assertions that a release build leaves out.                     *)
(*                                                                         *)
(* A text is a sequence of tokens, as lexer::scan returns them; white      *)
(* space and the byte order mark are gone.  A value is a function from     *)
(* paths to nodes: the path of a member is its parent's and its key, that  *)
(* of an array's element its parent's and its index.                       *)
(***************************************************************************)
EXTENDS Integers, Sequences, SequencesExt, FiniteSets

CONSTANTS
  Tokens,     \* what an edited file is made of
  MAX_TOKENS, \* how many of them (a bound of the model)
  Endings     \* how a text that was refused might have gone on

Scalars == {"string", "unsigned", "integer", "float", "true", "false", "null"}

Structural ==
  {"begin_object", "end_object", "begin_array", "end_array", "name_separator",
   "value_separator", "parse_error", "end_of_input"}

Token == [type : Scalars \cup Structural, val : STRING]

Tok(type) == [type |-> type, val |-> "none"]

EndOfInput == Tok("end_of_input")
Null == Tok("null")

\* The last conjunct is true of every literal, which the prover does not know.
ASSUME ParserAssumption ==
  /\ Tokens \subseteq Token
  /\ MAX_TOKENS \in Nat
  /\ Endings \subseteq Seq(Token)
  /\ "none" \in STRING

VARIABLES
  text, open,      \* the tokens not read yet; whether the file may go on
  read,            \* the tokens read so far
  at,              \* the get_token that comes next, "evaluate", "accepted" or "error"
  states,          \* "array" for true, "object" for false
  tree,            \* the value
  ref_stack,       \* the paths of the values it points to
  object_element   \* as well

textVars == <<text, open, read>>
domVars == <<tree, ref_stack, object_element>>
parserVars == <<at, states, domVars>>

ParserInit ==
  /\ read = <<>>
  /\ at = "value"
  /\ states = <<>>
  /\ tree = [p \in {<<>>} |-> Null]
  /\ ref_stack = <<>>
  /\ object_element = <<>>
-----------------------------------------------------------------------------
(* json_sax_dom_parser *)

MemberPath(p, k) == Append(p, <<"key", k>>)
ItemPath(p, i) == Append(p, <<"index", i>>)

Back == Last(ref_stack)

Children(p) == {q \in DOMAIN tree : Len(q) = Len(p) + 1 /\ IsPrefix(p, q)}

\* Where handle_value puts a value: it is the root, the array's last element or
\* what object_element points to.
Slot ==
  IF ref_stack = <<>> THEN <<>>
  ELSE IF tree[Back].type = "array" THEN ItemPath(Back, Cardinality(Children(Back)))
  ELSE object_element

\* What an assignment to a value destroys.
Replaced(p) == {q \in DOMAIN tree : IsPrefix(p, q)}

handle_value(v) ==
  tree' = [q \in (DOMAIN tree \ Replaced(Slot)) \cup {Slot} |->
             IF q = Slot THEN v ELSE tree[q]]

start(type) ==
  /\ handle_value(Tok(type))
  /\ ref_stack' = Append(ref_stack, Slot)
  /\ UNCHANGED object_element

StaleElement(k) ==                                                  \* slip
  IF object_element = <<>> THEN MemberPath(Back, k) ELSE object_element
Element(k) == MemberPath(Back, k)

key(k) ==
  /\ object_element' = Element(k)
  /\ tree' = [q \in DOMAIN tree \cup {Element(k)} |->
                IF q \in DOMAIN tree THEN tree[q] ELSE Null]
  /\ UNCHANGED ref_stack

end == ref_stack' = Front(ref_stack) /\ UNCHANGED <<tree, object_element>>
-----------------------------------------------------------------------------
(* sax_parse_internal: one action for each get_token and what is done with *)
(* the token t.                                                            *)

t == IF text # <<>> THEN Head(text) ELSE EndOfInput

GetToken(where) ==
  /\ at = where
  /\ text # <<>> \/ ~open
  /\ text' = IF text # <<>> THEN Tail(text) ELSE text
  /\ read' = Append(read, t)
  /\ UNCHANGED open

Error == at' = "error" /\ UNCHANGED <<states, domVars>>

Overflows(token) == token.type = "float" /\ token.val = "inf"

\* The switch over the token at the place of a value.
Switch ==
  \/ /\ t.type = "begin_object" /\ start("object")
     /\ at' = "object"
  \/ /\ t.type = "begin_array" /\ start("array")
     /\ at' = "array"
  \/ /\ t.type \in Scalars /\ ~Overflows(t) /\ handle_value(t)
     /\ at' = "evaluate"
     /\ UNCHANGED <<ref_stack, object_element>>
  \/ /\ t.type \notin Scalars \cup {"begin_object", "begin_array"} \/ Overflows(t)
     /\ at' = "error"
     /\ UNCHANGED domVars

Value == GetToken("value") /\ Switch /\ UNCHANGED states

\* After {.
ObjectBegun ==
  /\ GetToken("object")
  /\ \/ t.type = "end_object" /\ end /\ at' = "evaluate" /\ UNCHANGED states
     \/ t.type = "string" /\ key(t.val) /\ at' = "first_separator" /\ UNCHANGED states
     \/ t.type \notin {"end_object", "string"} /\ Error

\* The array is remembered.
InArray == Append(states, "array")

\* After [.
ArrayBegun ==
  /\ GetToken("array")
  /\ \/ t.type = "end_array" /\ end /\ at' = "evaluate" /\ UNCHANGED states
     \/ t.type # "end_array" /\ states' = InArray /\ Switch

\* After a key; the object is remembered after its first.
Separator ==
  \/ /\ GetToken("first_separator")
     /\ \/ /\ t.type = "name_separator" /\ at' = "value"
           /\ states' = Append(states, "object")
           /\ UNCHANGED domVars
        \/ t.type # "name_separator" /\ Error
  \/ /\ GetToken("separator")
     /\ \/ t.type = "name_separator" /\ at' = "value" /\ UNCHANGED <<states, domVars>>
        \/ t.type # "name_separator" /\ Error

\* After a comma in an object.
Key ==
  /\ GetToken("key")
  /\ \/ t.type = "string" /\ key(t.val) /\ at' = "separator" /\ UNCHANGED states
     \/ t.type # "string" /\ Error

AnyCloser(container) == {"end_array", "end_object"}                       \* slip
Closer(container) == IF container = "array" THEN {"end_array"} ELSE {"end_object"}

\* A value is complete.
Evaluate ==
  \/ /\ at = "evaluate" /\ states = <<>>
     /\ at' = "accepted"
     /\ UNCHANGED <<textVars, states, domVars>>
  \/ /\ states # <<>> /\ GetToken("evaluate")
     /\ \/ /\ t.type = "value_separator"
           /\ at' = (IF Last(states) = "array" THEN "value" ELSE "key")
           /\ UNCHANGED <<states, domVars>>
        \/ /\ t.type \in Closer(Last(states)) /\ end
           /\ states' = Front(states)
           /\ UNCHANGED at
        \/ t.type \notin Closer(Last(states)) \cup {"value_separator"} /\ Error

Parse == Value \/ ObjectBegun \/ ArrayBegun \/ Separator \/ Key \/ Evaluate
-----------------------------------------------------------------------------
\* A file that was edited holds any tokens.
Edit ==
  /\ open /\ text = <<>>
  /\ \/ /\ at \notin {"accepted", "error"} /\ Len(read) < MAX_TOKENS
        /\ \E token \in Tokens : text' = <<token>>
        /\ UNCHANGED open
     \/ open' = FALSE /\ UNCHANGED text
  /\ UNCHANGED <<read, parserVars>>
-----------------------------------------------------------------------------
(* The grammar of RFC 8259: whether a text is a value, one or more members *)
(* or one or more elements.                                                *)

\* A text of n tokens is one if its parts are.
ValueOf(is, s, n) ==
  \/ n = 1 /\ s[1].type \in Scalars
  \/ /\ n >= 2 /\ s[1].type = "begin_object" /\ s[n].type = "end_object"
     /\ n = 2 \/ is[<<"members", SubSeq(s, 2, n - 1)>>]
  \/ /\ n >= 2 /\ s[1].type = "begin_array" /\ s[n].type = "end_array"
     /\ n = 2 \/ is[<<"elements", SubSeq(s, 2, n - 1)>>]

MembersOf(is, s, n) ==
  /\ n >= 3 /\ s[1].type = "string" /\ s[2].type = "name_separator"
  /\ \/ is[<<"value", SubSeq(s, 3, n)>>]
     \/ \E k \in 4..n : /\ s[k].type = "value_separator"
                        /\ is[<<"value", SubSeq(s, 3, k - 1)>>]
                        /\ is[<<"members", SubSeq(s, k + 1, n)>>]

ElementsOf(is, s, n) ==
  \/ is[<<"value", s>>]
  \/ \E k \in 2..n : /\ s[k].type = "value_separator"
                     /\ is[<<"value", SubSeq(s, 1, k - 1)>>]
                     /\ is[<<"elements", SubSeq(s, k + 1, n)>>]

Sayings == {"value", "members", "elements"} \X Seq(Token)

\* Of what it is said, and the text.
Is[saying \in Sayings] ==
  LET s == saying[2]
      n == Len(s)
  IN CASE saying[1] = "value" -> ValueOf(Is, s, n)
       [] saying[1] = "members" -> MembersOf(Is, s, n)
       [] saying[1] = "elements" -> ElementsOf(Is, s, n)

IsValue(s) == Is[<<"value", s>>]

\* The tokens that close these containers.
Closing(containers) ==
  [i \in DOMAIN containers |->
     IF Reverse(containers)[i] = "array" THEN Tok("end_array") ELSE Tok("end_object")]

\* The tokens that complete what was read: up to the end of a value or of a
\* container that has just begun, and then of every container around it.
Missing ==
  (CASE at = "object" -> <<Tok("end_object")>>
     [] at = "array" -> <<Tok("end_array")>>
     [] at = "key" -> <<Tok("string"), Tok("name_separator"), Null>>
     [] at \in {"first_separator", "separator"} -> <<Tok("name_separator"), Null>>
     [] at = "value" -> <<Null>>
     [] OTHER -> <<>>)
  \o (IF at = "first_separator" THEN <<Tok("end_object")>> ELSE <<>>)
  \o Closing(states)
-----------------------------------------------------------------------------
Path == Seq(({"key"} \X STRING) \cup ({"index"} \X Nat))
Node == [type : Scalars \cup {"object", "array"}, val : STRING]

ParserTypeOK ==
  /\ text \in Seq(Token) /\ read \in Seq(Token)
  /\ open \in BOOLEAN
  /\ at \in {"value", "object", "array", "first_separator", "separator", "key",
             "evaluate", "accepted", "error"}
  /\ states \in Seq({"array", "object"})
  /\ \A p \in DOMAIN tree : p \in Path /\ tree[p] \in Node
  /\ ref_stack \in Seq(DOMAIN tree)
  /\ object_element \in DOMAIN tree

\* The parser accepts values and nothing else.  As long as it has not complained
\* what it has read is the beginning of a value, and when it complains it is not,
\* however it might go on, unless it ends in a number that overflows: a text that is
\* cut is refused at its end, and any other at the first token that does not fit.
\* What follows the value is not read (operator>> is not strict).
ValuesOnly ==
  /\ at = "accepted" => IsValue(read)
  /\ at \notin {"accepted", "error"} => IsValue(read \o Missing)
  /\ at = "error" =>
       Overflows(Last(read)) \/ \A ending \in Endings : ~IsValue(read \o ending)

Containers == [i \in DOMAIN ref_stack |-> tree[ref_stack[i]].type]

\* The parser's stack and the builder's agree on the containers that are
\* open: what the assertions of key, end_object, end_array and handle_value
\* ask for, so that a value is never taken for an array or an object that it
\* is not.
StacksAgree ==
  at # "error" =>
    Containers = states \o (CASE at \in {"object", "first_separator"} -> <<"object">>
                              [] at = "array" -> <<"array">>
                              [] OTHER -> <<>>)

\* Every pointer is to a value that is there and whose address is final: each
\* one on ref_stack is to a child of the one below it, the last of its array
\* if that is one, so that no array grows and moves under it; object_element
\* is a member of the innermost object when a value is assigned to it.  No value
\* is taken for a container that it is not.
PointersValid ==
  /\ ParserTypeOK /\ StacksAgree
  /\ \A i \in 2..Len(ref_stack) :
       LET parent == ref_stack[i - 1] IN
       /\ ref_stack[i] \in Children(parent)
       /\ tree[parent].type = "array" =>
            ref_stack[i] = ItemPath(parent, Cardinality(Children(parent)) - 1)
  /\ (/\ at \in {"first_separator", "separator", "value"}
      /\ ref_stack # <<>>
      /\ tree[Back].type = "object") => object_element \in Children(Back)

\* The value is a tree at every step, also where a key comes twice and its
\* second value replaces a container: only containers have children, each path
\* has its parent, and an array's indexes have no gap.
ValueIsTree ==
  \A p \in DOMAIN tree :
    /\ p # <<>> => Front(p) \in DOMAIN tree
    /\ tree[p].type \notin {"array", "object"} => Children(p) = {}
    /\ tree[p].type = "array" =>
         Children(p) = {ItemPath(p, i) : i \in 0..Cardinality(Children(p)) - 1}
=============================================================================
