----------------------------- MODULE StatusFile -----------------------------
(***************************************************************************)
(* A status on its way through its file: file_transfer_status::to_json and *)
(* from_json (include/file.h), operator<< with serializer::dump for the    *)
(* values to_json builds, the parser of JsonParser, value() (json.hpp) and *)
(* the end of the value (JsonValue).                                       *)
(* The file is written token by token and may end after any of them, or    *)
(* inside one, or the user may edit it; it shows that all this is a        *)
(* SavedStatus.                                                            *)
(***************************************************************************)
EXTENDS JsonValue

CONSTANTS
  Statuses,           \* what may be saved
  Ids,                \* the segments' ids, in the order of std::map
  Invalid,            \* the strings that are not UTF-8
  Refused             \* what an exception leaves of it

Segment ==
  [start_byte : STRING, end_byte : STRING, copied_offset_ : STRING, completed_ : BOOLEAN]

\* The keys that to_json writes, in the order of std::map.
Sorted ==
  Ids \o <<"checksum", "completed", "destination_file", "end_byte", "last_copied_byte",
           "segments", "source_file", "start_byte", "total_copied", "total_size">>

ASSUME StatusAssumption ==
  /\ Ids \in Seq(STRING) /\ Sorted \in Seq(STRING) /\ "cut" \in STRING
  /\ IsInjective(Sorted)
  /\ Statuses # {}
  /\ \A s \in Statuses :
       /\ s \in [source_file : STRING, destination_file : STRING, total_size : STRING,
                total_copied : STRING, checksum : STRING, segments : {s.segments}]
       /\ \E ids \in SUBSET Range(Ids) : s.segments \in [ids -> Segment]

VARIABLES
  status,  \* what is saved
  phase,   \* "writing", "closed" or "edited"
  dumped, rest,  \* the tokens that are written, and the ones that are to be
  loaded   \* nothing yet, then what from_json returned, or Refused after an exception

fileVars == <<status, phase, dumped, rest>>
allVars == <<textVars, parserVars, valueVars, fileVars, loaded>>
-----------------------------------------------------------------------------
(* to_json.  Only the members that are saved are in a status here. *)

Leaf(type, val) == [type |-> type, val |-> val]

SegmentJson(seg) ==
  [start_byte |-> Leaf("unsigned", seg.start_byte),
   end_byte |-> Leaf("unsigned", seg.end_byte),
   last_copied_byte |-> Leaf("unsigned", seg.copied_offset_),
   completed |-> Tok(IF seg.completed_ THEN "true" ELSE "false")]

StatusJson(s) ==
  [source_file |-> Leaf("string", s.source_file),
   destination_file |-> Leaf("string", s.destination_file),
   total_size |-> Leaf("unsigned", s.total_size),
   total_copied |-> Leaf("unsigned", s.total_copied),
   checksum |-> Leaf("string", s.checksum),
   segments |-> Tok("object")]

SegmentsPath == MemberPath(<<>>, "segments")
SegmentPath(id) == MemberPath(SegmentsPath, id)

Paths(s) ==
  {<<>>} \cup {MemberPath(<<>>, k) : k \in DOMAIN StatusJson(s)}
  \cup {SegmentPath(id) : id \in DOMAIN s.segments}
  \cup {MemberPath(SegmentPath(x[1]), x[2]) :
          x \in (DOMAIN s.segments) \X {"start_byte", "end_byte", "last_copied_byte", "completed"}}

to_json(s) ==
  [p \in Paths(s) |->
     CASE Len(p) = 1 -> StatusJson(s)[p[1][2]]
       [] Len(p) = 3 -> SegmentJson(s.segments[p[2][2]])[p[3][2]]
       [] OTHER -> Tok("object")]
-----------------------------------------------------------------------------
(* operator<<: dump, without indentation.  A value of to_json is an object *)
(* or a leaf.                                                              *)

Dump(v) ==
  LET dump[p \in DOMAIN v] ==
        LET present(i) == MemberPath(p, Sorted[i]) \in DOMAIN v
            member(i) ==
              IF ~present(i) THEN <<>>
              ELSE (IF \E j \in 1..i - 1 : present(j) THEN <<Tok("value_separator")>> ELSE <<>>)
                   \o <<Leaf("string", Sorted[i]), Tok("name_separator")>>
                   \o dump[MemberPath(p, Sorted[i])]
        IN IF v[p].type # "object" THEN <<v[p]>>
           ELSE <<Tok("begin_object")>> \o FlattenSeq([i \in DOMAIN Sorted |-> member(i)])
                \o <<Tok("end_object")>>
  IN dump[<<>>]

\* dump_escaped throws at a string that is not UTF-8.
Throws == Head(rest).type = "string" /\ Head(rest).val \in Invalid

WriteToken ==
  /\ phase = "writing" /\ rest # <<>>
  /\ ~Throws
  /\ dumped' = Append(dumped, Head(rest))
  /\ rest' = Tail(rest)
  /\ UNCHANGED <<textVars, parserVars, valueVars, status, phase, loaded>>

\* What the lexer makes of a token whose end is missing: nothing at all, a
\* string or a literal that is none, or another number.
Torn ==
  {<<>>}
  \cup (IF Head(rest).type \in {"string", "true", "false"}
        THEN {<<Tok("parse_error")>>} ELSE {})
  \cup (IF Head(rest).type = "unsigned" THEN {<<Leaf("unsigned", "cut")>>} ELSE {})

\* The file ends: it is closed, dump_escaped has thrown and the stream's
\* destructor closes it, the process is killed or the disk is full.
Close ==
  /\ phase = "writing"
  /\ \/ rest = <<>> /\ text' = dumped
     \/ rest # <<>> /\ \E end_of_file \in Torn : text' = dumped \o end_of_file
  /\ phase' = "closed"
  /\ open' = FALSE
  /\ UNCHANGED <<read, parserVars, valueVars, status, dumped, rest, loaded>>
-----------------------------------------------------------------------------
(* get_json and from_json.  A value of the wrong type, or a member of what  *)
(* is no object, is an exception.                                           *)

Numeric == {"unsigned", "integer", "float", "true", "false"}

Has(p, k) == MemberPath(p, k) \in DOMAIN tree

Convertible(p, k, types) ==
  tree[p].type = "object" /\ (Has(p, k) => tree[MemberPath(p, k)].type \in types)

\* j.value(k, default) for the value j at p.
value(p, k, default) == IF Has(p, k) THEN tree[MemberPath(p, k)].val ELSE default

SegmentOf(p) ==
  [start_byte |-> value(p, "start_byte", "0"),
   end_byte |-> value(p, "end_byte", "0"),
   copied_offset_ |-> value(p, "last_copied_byte", "0"),
   completed_ |-> Has(p, "completed") /\ tree[MemberPath(p, "completed")].type = "true"]

SegmentPaths ==
  IF Has(<<>>, "segments") /\ tree[SegmentsPath].type = "object"
  THEN Children(SegmentsPath) ELSE {}

StatusConvertible ==
  /\ \A k \in {"source_file", "destination_file", "checksum"} : Convertible(<<>>, k, {"string"})
  /\ \A k \in {"total_size", "total_copied"} : Convertible(<<>>, k, Numeric)
  /\ \A p \in SegmentPaths :
       /\ \A k \in {"start_byte", "end_byte", "last_copied_byte"} : Convertible(p, k, Numeric)
       /\ Convertible(p, "completed", {"true", "false"})

StatusOf ==
  [source_file |-> value(<<>>, "source_file", ""),
   destination_file |-> value(<<>>, "destination_file", ""),
   total_size |-> value(<<>>, "total_size", "0"),
   total_copied |-> value(<<>>, "total_copied", "0"),
   checksum |-> value(<<>>, "checksum", ""),
   segments |-> [id \in {Last(p)[2] : p \in SegmentPaths} |-> SegmentOf(SegmentPath(id))]]

IgnoreErrors == {"accepted", "error"}                             \* slip
\* Where get_json has its result.
Parsed == {"accepted"}

Load ==
  /\ phase # "writing" /\ ~open /\ loaded = <<>>
  /\ at \in {"accepted", "error"}
  /\ loaded' = <<IF at \in Parsed /\ StatusConvertible THEN StatusOf ELSE Refused>>
  /\ UNCHANGED <<textVars, parserVars, valueVars, fileVars>>
-----------------------------------------------------------------------------
FileInit ==
  /\ ParserInit /\ ValueInit
  /\ text = <<>> /\ open = TRUE
  /\ \/ phase = "writing" /\ status \in Statuses
     \/ phase = "edited" /\ status = CHOOSE s \in Statuses : TRUE
  /\ dumped = <<>> /\ rest = Dump(to_json(status))
  /\ loaded = <<>>

Edited == phase = "edited" /\ Edit /\ UNCHANGED <<valueVars, fileVars, loaded>>

Read == Parse /\ UNCHANGED <<valueVars, fileVars, loaded>>

\* The value goes out of scope in main, or in get_json after a parse error.
Release ==
  /\ loaded # <<>>
  /\ Destroy
  /\ UNCHANGED <<textVars, parserVars, fileVars, loaded>>

FileNext == WriteToken \/ Close \/ Edited \/ Read \/ Load \/ Release

\* The run that loads the file goes on until it has it.
FileSpec == FileInit /\ [][FileNext]_allVars /\ WF_allVars(Read \/ Load)
-----------------------------------------------------------------------------
\* Saving and loading through the file is saving and loading: a later run gets
\* the status as it was saved, or refuses the file, which it does exactly when
\* the file is cut, wherever that is and whatever the cut makes of its last
\* token; and it gets to an end, whatever was edited into the file.
Saved == INSTANCE SavedStatus WITH
  file <- CASE open -> "none"
            [] ~open /\ phase = "edited" -> "edited"
            [] ~open /\ phase # "edited" -> IF rest = <<>> THEN "whole" ELSE "cut"

SavedSpec == Saved!Spec
=============================================================================
