SPECIFICATION MallocSpec
CONSTANTS
  Page <- SixteenPages
  MaxOrder = 3
  Region <- TwoRegions
  Garbage = Garbage
  PageSize = 8
  MetaSize = 3
  MetaPow2 = 4
  SizeMod = 128
  Size = {1, 12, 126}
  Alignment = {2, 8, 16}
  None = None
INVARIANTS
  FreeListsExact LevelTrusted NoFalseENOMEM
  PointersSound FreeFindsBlock
PROPERTIES ImplementsPageHeap
