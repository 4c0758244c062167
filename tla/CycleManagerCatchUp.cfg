SPECIFICATION Spec
CONSTANTS
  MAX = 31
  HALF = 15
  HDRAW = 2
  HBLANK = 1
  SAMPLE = 2
  Timers = {0}
  TIME_OVERFLOW = 2
  Reloads = {1}
  Shifts = {0}
  MaxSlice = 5
  MaxClock = 10
  ImmEvent = {}
  Saves = TRUE
  BootLoads = TRUE
INVARIANTS GridExact
PROPERTIES DueOrder
