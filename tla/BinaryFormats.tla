--------------------------- MODULE BinaryFormats ---------------------------
(***************************************************************************)
(* A value is written in one of the binary formats of json.hpp, the file   *)
(* may be cut or damaged, and is read again; what was read of a damaged    *)
(* file is written and read once more.                                     *)
(***************************************************************************)
EXTENDS Cbor, MsgPack, Ubjson, Bson

CONSTANTS
  Formats,     \* the formats with the options of to_ubjson and of from_cbor
  Values,
  Damages,     \* the bytes that are put into a file
  MAX_DAMAGED  \* the longest file that is damaged

VARIABLES
  format,
  binary,      \* the value to be written
  stage,       \* "idle", "value", "written", "read" or "threw"
  damage,      \* "none", "cut", "changed", "longer" or "written again"
  file,
  loaded       \* the value that was read, or Error

binaryVars == <<format, binary, stage, damage, file, loaded>>

BinaryInit ==
  /\ format \in Formats
  /\ binary \in Values
  /\ stage = "value" /\ damage = "none" /\ file = <<>> /\ loaded = Error

BinaryIdle ==
  /\ format = [name |-> "none"] /\ binary = Null
  /\ stage = "idle" /\ damage = "none" /\ file = <<>> /\ loaded = Error

\* to_cbor and the others.  write_bson throws for what is no object and for keys
\* with a character 0.
ToBinary(v) ==
  CASE format.name = "cbor" -> write_cbor(v)
    [] format.name = "msgpack" -> write_msgpack(v)
    [] format.name = "ubjson" -> write_ubjson(v, format.options, TRUE)
    [] format.name = "bson" -> write_bson_object(v[2])

Refuses(v) == format.name = "bson" /\ (v[1] # "object" \/ ~Writable(v))

Write ==
  /\ stage = "value"
  /\ IF Refuses(binary) THEN stage' = "threw" /\ UNCHANGED file
                        ELSE stage' = "written" /\ file' = ToBinary(binary)
  /\ UNCHANGED <<format, binary, damage, loaded>>

\* The file is cut, one byte is another, or there is one more.
Damage ==
  /\ stage = "written" /\ damage = "none" /\ Len(file) <= MAX_DAMAGED
  /\ \/ damage' = "cut" /\ \E n \in 0..(Len(file) - 1) : file' = SubSeq(file, 1, n)
     \/ damage' = "changed" /\ \E i \in DOMAIN file, byte \in Damages : file' = [file EXCEPT ![i] = byte]
     \/ damage' = "longer" /\ \E byte \in Damages : file' = Append(file, byte)
  /\ UNCHANGED <<format, binary, stage, loaded>>

\* binary_reader::sax_parse, strict: behind the value the input must end.
Parsed(b) ==
  CASE format.name = "cbor" -> parse_cbor(b, 1, format.tags)
    [] format.name = "msgpack" -> parse_msgpack(b, 1)
    [] format.name = "ubjson" -> parse_ubjson(b, format.options.use_bjdata)
    [] format.name = "bson" -> parse_bson_internal(b, 1)

AtEnd(b) ==
  LET r == Parsed(b)
  IN IF format.name = "ubjson" THEN Noop(b, r.next) > Len(b) ELSE r.next > Len(b)

FromBinary(b) == IF Parsed(b).ok /\ AtEnd(b) THEN [ok |-> TRUE, val |-> Parsed(b).val] ELSE Error

Load ==
  /\ stage = "written"
  /\ stage' = "read"
  /\ loaded' = FromBinary(file)
  /\ UNCHANGED <<format, binary, damage, file>>

\* What was read of a damaged file is a value like any other.
Again ==
  /\ stage = "read" /\ damage \in {"changed", "longer"} /\ loaded.ok
  /\ binary' = loaded.val
  /\ stage' = "value" /\ damage' = "written again" /\ file' = <<>> /\ loaded' = Error
  /\ UNCHANGED format

BinaryNext == Write \/ Damage \/ Load \/ Again
-----------------------------------------------------------------------------
(* What a format does not keep of a binary: CBOR's tag when tags are       *)
(* ignored, all but one byte of a subtype, or that it is no array.         *)
LowByte(n) == Strip(<<Last(Pad(n, 8))>>)
Bytewise(bytes) == <<"array", [i \in DOMAIN bytes |-> <<"unsigned", Num(bytes[i])>>]>>
KeptBinary(bytes, subtype) ==
  LET low == IF subtype = <<>> THEN <<>> ELSE <<LowByte(subtype[1])>>
      ndarray == format.options.use_bjdata /\ format.options.draft3 /\ format.options.use_type
  IN CASE format.name = "cbor" -> <<"binary", <<bytes, IF format.tags = "store" THEN subtype ELSE <<>>>>>>
       [] format.name = "msgpack" -> <<"binary", <<bytes, low>>>>
       [] format.name = "bson" -> <<"binary", <<bytes, <<IF low = <<>> THEN <<>> ELSE low[1]>>>>>>
       [] format.name = "ubjson" -> IF ndarray THEN <<"binary", <<bytes, <<>>>>>> ELSE Bytewise(bytes)

RECURSIVE Kept(_)
Kept(v) ==
  CASE v[1] = "array" -> <<"array", [i \in DOMAIN v[2] |-> Kept(v[2][i])]>>
    [] v[1] = "object" -> <<"object", [key \in DOMAIN v[2] |-> Kept(v[2][key])]>>
    [] v[1] = "binary" -> KeptBinary(v[2][1], v[2][2])
    [] OTHER -> v

RECURSIVE HasTag(_)
HasTag(v) ==
  CASE v[1] = "array" -> \E i \in DOMAIN v[2] : HasTag(v[2][i])
    [] v[1] = "object" -> \E key \in DOMAIN v[2] : HasTag(v[2][key])
    [] v[1] = "binary" -> v[2][2] # <<>>
    [] OTHER -> FALSE

\* Every value that is written is read back, and so is what was read of a damaged
\* file; from_cbor refuses a binary's tag if it is asked to.
LoadedAsWritten ==
  stage = "read" /\ damage \in {"none", "written again"} =>
    IF format.name = "cbor" /\ format.tags = "error" /\ HasTag(binary) THEN ~loaded.ok
    ELSE loaded.ok /\ Same(loaded.val) = Same(Kept(binary))

\* The size in front of a BSON document, which the writer adds up before it writes and
\* the reader steps over, is the file's.
SizeWritten ==
  stage = "written" /\ damage = "none" /\ format.name = "bson" => SubSeq(file, 1, 4) = Little32(Len(file))

\* A file that was cut anywhere is refused, never read as a smaller value.
CutRefused == stage = "read" /\ damage = "cut" => ~loaded.ok

\* A value survives its way through any of the binary formats, in the sizes the writer
\* has for it and the reader looks for, or is not read at all.
RoundTrip == LoadedAsWritten /\ SizeWritten /\ CutRefused
=============================================================================
