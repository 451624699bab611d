SPECIFICATION Spec
CONSTANTS
  Names = {"a", "bcd", "a/a", "lengthy"}
  Words = {"a", "bcd", "lengthy", "overlong"}
  NameLen <- Lengths
  NameMax = 3
  TokenMax = 5
  DirMax = 3
  SizeMax = 2
  NInodes = 3
  Tasks = {"shell", "user"}
  Shell = "shell"
  Clients = {"user"}
  MaxFd = 3
  NFiles = 7
  Paths <- Roads
  OpenPaths <- OpenRoads
  Sizes = {2, 3}
  MaxOffset = 0
  BufSizes = {0, 1, 2, 3, 4, 7, 8}
VIEW LiveState
INVARIANTS DescriptorsOwnFiles NodesCurrent ResolveRight GetPathRight
CHECK_DEADLOCK FALSE
