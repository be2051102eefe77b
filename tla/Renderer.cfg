\* Two tasks with two rounds of frames each, so that their frames interleave in
\* the queue.  No symmetry: liveness is checked too.
CONSTANTS
  s1 = s1
  s2 = s2
  Root = root
  Segments <- TwoSegments
  MaxRounds = 2
  MaxSpurious = 1
SPECIFICATION FairSpec
INVARIANTS TypeOK ScreenInOrder
PROPERTIES DisplaySpec EveryFrameShown StopReturnsUnlessDozing
\* stop() has returned, or hangs.
CHECK_DEADLOCK FALSE
