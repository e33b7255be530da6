SPECIFICATION PathFairSpec
CONSTANTS
  Incidents = {i1}
  Silents = {s1}
  NoEvent = NoEvent
  Workers = {w1, w2}
  SinkQueue = 1
  HistoryQueue = 3
  HistoryBatch = 2
  MinioOn = TRUE
  Budget <- TwoTroubles
INVARIANTS
  CloseLosesNoIncident
  StopFlushesABatch
PROPERTIES
  ImplementsChannel
  EveryEventEnds
CHECK_DEADLOCK FALSE
