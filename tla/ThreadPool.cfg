\* Three workers, so that a notified, a busy and a sleeping one coexist.  No
\* symmetry: liveness is checked too.
CONSTANTS
  w1 = w1
  w2 = w2
  w3 = w3
  Workers <- ThreeWorkers
  MaxTasks = 4
  MaxSpurious = 2
SPECIFICATION FairSpec
INVARIANTS TypeOK TasksConserved
PROPERTIES ExecutorSpec EveryTaskRuns StopReturnsOnceAwake
\* The owner may never call stop(), and stop() itself can hang.
CHECK_DEADLOCK FALSE
