CONSTANTS
  main = main
  idle = idle
  l = l
  Thread = {main, idle, a, b}
  initial_thread = main
  IdlePage = idle
  NULL = NULL
  TIME_SLICE = 2
  Semaphore = {started, s}
  idle_started = started
  IntrSema = {s}
  Lock = {tid_lock}
  tid_lock = tid_lock
  Condition = {}
  LockOf <- MCLockOf
  MaxValue = 2
  MaxTid = 4
SPECIFICATION SynchFairSpec
PROPERTIES WakeupArrives ReadyThreadRuns
