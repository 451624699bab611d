SPECIFICATION Spec
CONSTANTS
  Hdr = 4
  Align = 2
  PageSize = 12
  HeapStart = 100
  HeapMax = 136
  WordMod = 256
  Clients = {shell, syscall}
  Requests = {0, 1, 4, 18}
  Interruptible = {}
INVARIANTS ListIsHeap Coalesced HeldIntact
PROPERTY KmallocReturns
