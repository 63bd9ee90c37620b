SPECIFICATION MboxSpec
CONSTANTS
  Thread = {t1, t2}
  readsem = readsem
  writesem = writesem
  Queue = {readsem, writesem}
  Forever = Forever
  Timeouts = {1}
  MaxCount = 2
  Size = 2
  Msg = {m1, m2}
  Handler = isr
  None = None
INVARIANTS AssertsHold TokensComeBack
PROPERTIES ImplementsFifo
SYMMETRY Symmetry
