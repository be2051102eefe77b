\* One source is copied, replaced by a longer one, copied, restored and copied.
CONSTANTS
  p1 = p1
  p2 = p2
  folder = folder
  A = A
  B = B
  C = C
  g1 = g1
  g2 = g2
  Paths <- OnePath
  Versions <- TwoVersions
  Content <- TwoContents
  Unhandled = {}
  Invalid = {}
  Missing = missing
  Faults = {}
  CHECKSUM_UPPER_BOUND = 1
  CHECKSUM_LOWER_BOUND = 1
  CHECKSUM_SCALE_FACTOR = 2
  MAX_CHECKSUM_FILE_SIZE = 3
  MIN_FILE_SEGMENTS = 2
  Threads = 2
  Garbage <- OneGarbage
SPECIFICATION Spec
INVARIANTS ReusedStatusFits
