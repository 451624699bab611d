SPECIFICATION Spec
CONSTANTS
  PtSize = 2
  HeapTables = 2
  NFrames = 14
  LowFrames = 12
  Users = {1, 2}
  MaxCode = 2
INVARIANTS OneHeap OwnMemory OnlyTablesAndCodeLeak OwnAccessServed
CHECK_DEADLOCK FALSE
