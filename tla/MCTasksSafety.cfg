SPECIFICATION Spec
CONSTANTS
  MaxPid = 3
  Delays = {1, 3, 4}
  KernelDelays = {1, 4}
  TimerFreq = 1
  Second = 2
  TickMod = 6
  MaxTick = 4
  BootTick = 0
  Windows <- HarmlessWindows
VIEW LiveState
INVARIANTS TypeOK RingIntact EspOwn RunningIsCurrent UserContext NoUseAfterFree
PROPERTY NoEarlyWake
