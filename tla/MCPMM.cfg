SPECIFICATION Spec
CONSTANTS
  PageSize = 2
  WordBits = 4
  MaxPages = 12
  LowEnd = 4
  KernelEnd = 7
  Fallback = 16
  Boots <- AllBoots
  Clients = {shell, irq}
  Interruptible = {shell}
INVARIANTS CountExact NoSharing ReservedKept OnlyRam
PROPERTY NullMeansFull
