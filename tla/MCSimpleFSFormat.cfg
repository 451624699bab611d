SPECIFICATION Spec
CONSTANTS
  InodeCount = 4
  PerSector = 2
  Direct = 2
  EntriesPer = 4
  SectorSize = 2
  SizeMod = 16
  Blocks = {1, 2, 3, 4, 5, 6, 7, 8, 9}
  Names = {a, b}
  Actors = {shell, user}
  Shell = shell
  Sizes = {0, 2, 3, 5}
  ToolSizes = {3}
  MaxTools = 1
  RawInodes <- MCRaw
  Interruptible = {}
  CrashInFormat = TRUE
INVARIANT RootExists
