SPECIFICATION KernelSpec
CONSTANTS
  Thread = {t1, t2, t3}
  NULL = NULL
  PageCnt = 3
  MaxCnt = 2
  r1 = r1  r2 = r2  w1 = w1  w2 = w2  x = x  y = y
  pd1 = pd1  pd2 = pd2  base = base  u = u  k1 = k1  k2 = k2
CHECK_DEADLOCK FALSE
INVARIANTS
  NoPageTwice
  FailsOnlyWhenFull
  HeapSound
  TLBCoherent
PROPERTIES
  GetReturns
  ImplementsFifo
