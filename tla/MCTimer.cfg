SPECIFICATION TimerFairSpec
CONSTANTS
  main = main
  idle = idle
  a = a
  b = b
  NULL = NULL
  Thread = {main, idle, a}
  initial_thread = main
  IdlePage = idle
  TIME_SLICE = 2
  Duration = {0, 1, 3}
  Pri = {1, 2}
  StartPri <- MCStartPri
  Build = {{TRUE}, {TRUE, FALSE}}
  Floor = 1
CHECK_DEADLOCK FALSE
INVARIANTS
  SleepersListed
PROPERTIES
  TopWakesOnTime
  TopSleeperReturns
