SPECIFICATION Spec
CONSTANTS
  kTimerFreq = 2
  kTaskTimerPeriod = 1
  Modulus = 8192
  Terminal = {t1}
  Clock = Clock
  Main = Main
  Value = {2}
  Millisecond = {499, 1499, 4200}
  MaxTick = 3
  MaxTimers = 2
  MaxRuns = 2
  None = None
  Gone = Gone
INVARIANTS PeriodsKept CursorBlinks
PROPERTY ImplementsAlarms
CHECK_DEADLOCK FALSE
