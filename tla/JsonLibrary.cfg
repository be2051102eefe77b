\* A string buffer just large enough for two code points, numbers of 16 bits, and texts
\* with numbers of up to five characters; files of up to twelve bytes are damaged, and a
\* user gives one operation.
CONSTANTS
  Bytes <- SomeBytes
  STRING_BUFFER = 14
  Numbers <- SomeNumbers
  MAX_UNSIGNED = 65535
  NUMBER_BUFFER = 8
  Chars <- SomeChars
  MAX_TEXT = 5
  Beginnings <- SomeBeginnings
  Formats <- SomeFormats
  Values <- SampleValues
  Damages <- SomeDamages
  MAX_DAMAGED = 12
  Documents <- SomeDocuments
  Locations <- SomeLocations
  Additions <- SomeAdditions
  MAX_OPERATIONS = 1
  Sources <- SomeSources
SPECIFICATION Spec
INVARIANTS
  TypeOK
  TextReadBack
  RoundTrip
  PatchReachesTarget
  PointersAgree
  CallbackObeyed
\* The token is read, the value is loaded or parsed, or the documents are patched.
CHECK_DEADLOCK FALSE
