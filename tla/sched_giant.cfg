SPECIFICATION FairSpec
CONSTANTS
  t1 = t1
  t2 = t2
  t3 = t3
  Threads = {t1, t2, t3}
  Parallel = FALSE
  SpawnMayFail = TRUE
  Resumable = TRUE
PROPERTIES QueuedThreadRuns PureComputeTakesTurns
