CONSTANTS
  t1 = t1
  t2 = t2
  t3 = t3
  Thread = {t1, t2, t3}
  WaitQ = {w1}
  MaxPrio = 1
  Preemptive = TRUE
  Main = t1
  Idle = Idle
  NULL = NULL
  Off = Off
SPECIFICATION Spec
SYMMETRY ThreadSymmetry
INVARIANTS
  
  
  WaitersBlocked
  AssertsHold
  
PROPERTIES
  TimeoutsNotLost
  RunQueueFifo
  NoNewInversion
