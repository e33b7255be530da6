SPECIFICATION Spec
CONSTANTS
  api = api
  video = video
  j1 = j1
  j2 = j2
  u1 = u1
  u2 = u2
  NoRow = NoRow
  NoEvent = NoEvent
  NoJob = NoJob
  Workers = {api, video}
  Jobs = {j1, j2}
  Events = {e1}
  Hooks = {1}
  Urls = {u1, u2}
  BatchLimit = 2
  Lease = 3
  PostMax = 2
  MaxBackoff = 2
  MaxAttempts = 2
  OverdueCap = 1
  SharedMinio = FALSE
  Prompt = TRUE
  Payloads <- LocalClips
  InitialHooks <- OneHook
  Budget <- OneOfEach
SYMMETRY Symmetry
INVARIANTS
  LeaseExclusive
  BudgetRespected
  OkMeansAccepted
  ClipOutlivesDelivery
PROPERTIES
  DeliveredIsFinal
