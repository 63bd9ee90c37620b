SPECIFICATION Spec
CONSTANTS
  Thread = {t1, t2, t3}
  Queue = {s1}
  Forever = Forever
  Timeouts = {1}
  MaxCount = 2
INVARIANTS TypeOK NoLostWakeup
PROPERTIES TokenReachesWaiter
