SPECIFICATION Spec
CONSTANTS
  t1 = t1
  t2 = t2
  t3 = t3
  Threads = {t1, t2, t3}
  Parallel = TRUE
  Requesting = TRUE
SYMMETRY Symmetry
INVARIANTS NoLostSignal RequestReachesWaiter
CHECK_DEADLOCK FALSE
