\* Sizes on both sides of the threshold, and below, at and above every multiple
\* of the thread count; 0 threads as hardware_concurrency() may report them.  A
\* file of 70 bytes takes several calls.  Calls that take no time, less, as much
\* and more than the latency bound.
CONSTANTS
  FileSizes <- SomeFileSizes
  ThreadCounts <- SomeThreadCounts
  MIN_FILE_SEGMENTS = 3
  MIN_BUF_SIZE = 20
  BASELINE_BUF_SIZE = 24
  MAX_BUF_SIZE = 34
  HIGH_LATENCY_NS = 3
  Durations <- SomeDurations
SPECIFICATION BufferSpec
INVARIANTS TypeOK EveryByteOnce PastTheEnd RequestsBounded
PROPERTIES AdaptsToSpeed
\* The loop ends, or the process dies of the division.
CHECK_DEADLOCK FALSE
