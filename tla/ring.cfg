SPECIFICATION RingFairSpec
CONSTANTS
  Callers = {t1, t2}
  Supervisors = {s1, s2}
  Cameras = {1}
  uA = uA
  uB = uB
  Uris <- BothUris
  Coding <- BothCoding
  NoUri = NoUri
  MaxStreams = 1
  DefaultCodec = "h265"
  QuickDeaths = FALSE
  NoOne = NoOne
  NoWorker = NoWorker
  Budgets <- CallsAndEvents
INVARIANTS
  OneRecorder
PROPERTIES
  StopSilences
  RingStops
  RingConverges
  RecordsAgain
CHECK_DEADLOCK FALSE
