SPECIFICATION MutexSpec
CONSTANTS
  Thread = {t1, t2, t3}
  wait = wait
  Queue = {wait}
  Forever = Forever
  Recursive = TRUE
  MaxDepth = 2
  Null = Null
INVARIANTS MutualExclusion CountMatches NoSleeperWhenFree
PROPERTIES WaitersWoken
