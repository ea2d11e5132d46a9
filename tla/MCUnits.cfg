SPECIFICATION Spec
CONSTANTS
  initial = initial  p1 = p1  p2 = p2  code_page = code_page  stack = stack
  t1 = t1  t2 = t2  intr = intr  none = none
SYMMETRY Alike
INVARIANTS
  ContainersExact
  AlgorithmsExact
  TextExact
  BytesExact
  ActiveDirLive
  FramesOwned
  SegmentExact
  TerminalSound
  InterruptsSound
  RelayFifo
PROPERTY
  GetExact
