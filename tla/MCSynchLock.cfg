CONSTANTS
  main = main
  idle = idle
  l = l
  Thread = {main, idle, a, b}
  initial_thread = main
  IdlePage = idle
  NULL = NULL
  TIME_SLICE = 2
  Semaphore = {started}
  idle_started = started
  IntrSema = {}
  Lock = {tid_lock, l}
  tid_lock = tid_lock
  Condition = {c}
  LockOf <- MCLockOf
  MaxValue = 2
  MaxTid = 5
SPECIFICATION SynchSpec
INVARIANTS NoPanic ThreadsSound NoLostWakeup NoLostSignal
PROPERTIES ImplementsMutex UsesScheduler
