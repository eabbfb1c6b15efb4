SPECIFICATION Spec
CONSTANTS
  c1 = c1
  c2 = c2
  Callers <- MCCallers
  Keys = {k1}
  Values = {v1, empty}
  Empty = empty
  NoValue = NoValue
  NoFrame = NoFrame
  QueueSize = 1
  MaxReboots = 2
  CloseFails = TRUE
INVARIANTS
  DoneMeansWritten
