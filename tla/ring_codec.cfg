SPECIFICATION RingFairSpec
CONSTANTS
  Callers = {t1}
  Supervisors = {s1}
  Cameras = {1}
  uA = uA
  uB = uB
  Uris <- BothUris
  Coding <- BothCoding
  NoUri = NoUri
  MaxStreams = 1
  DefaultCodec = "h265"
  QuickDeaths = TRUE
  NoOne = NoOne
  NoWorker = NoWorker
  Budgets <- OneCallOneEvent
PROPERTIES
  RecordsAgain
CHECK_DEADLOCK FALSE
