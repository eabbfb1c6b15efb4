SPECIFICATION DevicesSpec
CONSTANTS
  NPins = 2
  DebounceTicks = 4
  LongCounts = 2
  TimerQueue = 2
  Workers = {w1, w2}
  QueueMax = 2
INVARIANTS
  PressSequence
  PressIsOver
  OneWorker
  FoundIsFresh
PROPERTIES
  SeesButtons
  WorkerStops
CHECK_DEADLOCK FALSE
