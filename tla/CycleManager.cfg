SPECIFICATION FairSpec
CONSTANTS
  MAX = 31
  HALF = 7
  HDRAW = 3
  HBLANK = 2
  SAMPLE = 2
  Timers = {0}
  TIME_OVERFLOW = 2
  Reloads = {0}
  Shifts = {0, 1}
  MaxSlice = 2
  MaxClock = 27
  ImmEvent = {0, 1}
  Saves = FALSE
  BootLoads = FALSE
INVARIANTS NextEventSound TimerOnTime
PROPERTIES LinesAdvance
