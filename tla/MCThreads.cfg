SPECIFICATION ThreadsSpec
CONSTANTS
  Writers = {cli, screen}
  Cli = cli
  RxBuffer = 1
  MaxBatches = 2
  EventMax = 2
INVARIANTS
  ThreadsTypeOK
  TxNotStranded
  HolderMatchesState
  AnswerIsAwaited
PROPERTIES
  WritersWake
  NobodyWaitsForEver
CHECK_DEADLOCK FALSE
