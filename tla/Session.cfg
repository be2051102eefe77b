\* Any number of runs, crashes, edits and deletions over two paths.
CONSTANTS
  p1 = p1
  p2 = p2
  folder = folder
  A = A
  B = B
  C = C
  g1 = g1
  g2 = g2
  Paths <- TwoPaths
  Versions <- ThreeVersions
  Content <- SomeContent
  Unhandled <- OneFolder
  Invalid = {p2}
  Missing = missing
  Faults = {"changed", "denied", "disk", "copy", "no terminal"}
  CHECKSUM_UPPER_BOUND = 1
  CHECKSUM_LOWER_BOUND = 1
  CHECKSUM_SCALE_FACTOR = 2
  MAX_CHECKSUM_FILE_SIZE = 3
  MIN_FILE_SEGMENTS = 2
  Threads = 2
  Garbage <- SomeGarbage
SYMMETRY GarbageAlike
SPECIFICATION Spec
INVARIANTS
  TypeOK
  FreshRunExact
  StatusCarriedOut
  StatusIsAboutChecksum
  ThrowsOnlyWhen
