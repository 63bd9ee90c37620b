CONSTANTS
  t1 = t1
  t2 = t2
  Thread = {t1, t2}
  WaitQ = {w1, w2}
  MaxPrio = 1
  Preemptive = TRUE
  Main = t1
  Idle = Idle
  NULL = NULL
  Off = Off
SPECIFICATION FairSpec
PROPERTIES
  TimeoutsFire
  IdleGivesWay
