\* stop() clears running_ but notifies nobody.
CONSTANTS
  w1 = w1
  w2 = w2
  w3 = w3
  Workers <- TwoWorkers
  MaxTasks = 2
  MaxSpurious = 1
SPECIFICATION FairSpec
PROPERTIES StopReturns
CHECK_DEADLOCK FALSE
