SPECIFICATION Spec
CONSTANTS
  Thread = {t1, t2, t3}
  shared = shared
  exclusive = exclusive
  Queue = {shared, exclusive}
  Forever = Forever
  Spin = TRUE
  Null = Null
INVARIANTS Exclusion AssertsHold NobodyForgotten
PROPERTIES NeitherStarves
