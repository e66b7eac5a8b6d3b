SPECIFICATION FairSpec
CONSTANTS
  t1 = t1
  t2 = t2
  t3 = t3
  Threads = {t1, t2, t3}
  Parallel = TRUE
  SpawnMayFail = FALSE
  Resumable = FALSE
INVARIANTS LockAccounting RegistryInvariant NoStaleRoots
PROPERTIES StopsTheWorld CollectionCompletes SleeperResumes
