\* stop() notifies between the worker's test and its sleep.
CONSTANTS
  s1 = s1
  s2 = s2
  Root = root
  Segments <- TwoSegments
  MaxRounds = 1
  MaxSpurious = 0
SPECIFICATION FairSpec
PROPERTIES StopReturns
CHECK_DEADLOCK FALSE
