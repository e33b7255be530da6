SPECIFICATION FairSpec
CONSTANTS
  api = api
  video = video
  j1 = j1
  j2 = j2
  u1 = u1
  u2 = u2
  NoRow = NoRow
  NoEvent = NoEvent
  NoJob = NoJob
  Workers = {api, video}
  Jobs = {j1, j2}
  Events = {e1}
  Hooks = {1, 2}
  Urls = {u1, u2}
  BatchLimit = 2
  Lease = 2
  PostMax = 1
  MaxBackoff = 2
  MaxAttempts = 2
  OverdueCap = 0
  SharedMinio = TRUE
  Prompt = TRUE
  Payloads <- Incident
  InitialHooks <- SameUrlHooks
  Budget <- OneFault
PROPERTIES
  EventuallySettled
