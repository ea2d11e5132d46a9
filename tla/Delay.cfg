SPECIFICATION Spec
CONSTANTS
  W = 7  START = 8  REFINE = 3
  Thousand = 10  TIMER_FREQ = 3
  Num = {1, 2, 40}
INVARIANT CalibrationFits
