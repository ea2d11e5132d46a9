SPECIFICATION TimerSpec
CONSTANTS
  main = main
  idle = idle
  a = a
  b = b
  NULL = NULL
  Thread = {main, idle, a}
  initial_thread = main
  IdlePage = idle
  TIME_SLICE = 2
  Duration <- MCNegative
  Pri = {1, 2}
  StartPri <- MCStartPri
  Build = {{TRUE}}
  Floor = 1
CHECK_DEADLOCK FALSE
INVARIANT NoPanic
