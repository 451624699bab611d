SPECIFICATION Spec
CONSTANTS
  PtSize = 2
  HeapTables = 2
  NFrames = 15
  LowFrames = 13
  Users = {1}
  MaxCode = 1
PROPERTY HeapPagesStay
CHECK_DEADLOCK FALSE
