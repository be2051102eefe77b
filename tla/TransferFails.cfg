\* One call fails on a file that is otherwise fine.
CONSTANTS
  s1 = s1
  s2 = s2
  s3 = s3
  Segments <- ThreeSegments
  Layouts <- SteadySource
  UPDATE_THRESHOLD = 2
  MaxChunk = 2
  MaxFailures = 1
SPECIFICATION FairSpec
INVARIANTS FailuresHandled
CHECK_DEADLOCK FALSE
