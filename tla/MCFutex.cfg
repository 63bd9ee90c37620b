SPECIFICATION Spec
CONSTANTS
  Thread = {t1, t2}
  Addr = {x, y}
  Value = {0, 1}
  Count = {0, 1, 2}
  Preempt = FALSE
INVARIANTS WokenAreBlocked
CHECK_DEADLOCK FALSE
