SPECIFICATION Spec
CONSTANTS
  Base = 2
  Parts = 2
  Weight <- Weights
  NWords = 2
  Lbas = {1, 2}
  Values = {0, 1}
  Clients = {shell, user}
  Interruptible = {}
  Drives = {"quick", "slow"}
  LateBusy = TRUE
INVARIANTS ReadsStored KeptUntilPowerLoss
PROPERTIES CallsReturn
