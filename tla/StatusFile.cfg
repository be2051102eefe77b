\* A saved file is cut after or inside every token; an edited one has up to
\* ten tokens, so that a container is replaced by the second value of a key.
CONSTANTS
  Tokens <- SomeTokens
  MAX_TOKENS = 10
  Endings <- SomeEndings
  Statuses <- SomeStatuses
  Ids <- SomeIds
  Invalid = {"bad"}
  Refused = Refused
SPECIFICATION FileSpec
INVARIANTS
  ValuesOnly
  PointersValid
  FreedOnce
PROPERTIES SavedSpec
\* The file is loaded, or nobody loads it.
CHECK_DEADLOCK FALSE
