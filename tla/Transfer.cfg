\* Two calls fail, and the source may be shorter or longer than it was.
CONSTANTS
  s1 = s1
  s2 = s2
  s3 = s3
  Segments <- ThreeSegments
  Layouts <- AllLayouts
  UPDATE_THRESHOLD = 2
  MaxChunk = 2
  MaxFailures = 2
SPECIFICATION FairSpec
INVARIANTS
  TypeOK
  DestFaithful
  StatusBehindDisk
  BarsFollow
PROPERTIES
  Implements
  TasksFinish
\* The program ends.
CHECK_DEADLOCK FALSE
