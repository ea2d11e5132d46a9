SPECIFICATION DevicesSpec
CONSTANTS
  Reader = {r}
  Writer = {w}
  Byte = {x}
  NULL = NULL
  INTQ_BUFSIZE = 3
  d1 = d1  d2 = d2  s1 = s1  s2 = s2  v0 = v0  v1 = v1
INVARIANTS
  IerMatchesQueues
  NoStaleCompletion
  ReadsLatest
PROPERTIES
  BytesSent
  WriterReturns
  InputResumes
  DiskReturns
