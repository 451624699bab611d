SPECIFICATION Spec
CONSTANTS
  MaxPid = 2
  Delays = {1, 2}
  KernelDelays = {1}
  TimerFreq = 2
  Second = 2
  TickMod = 3
  MaxTick = 3
  BootTick = 0
  Windows <- HarmlessWindows
VIEW LiveState
PROPERTIES RoundRobin SleeperWakes DeadReaped
