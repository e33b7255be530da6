SPECIFICATION FairAdminSpec
CONSTANTS
  Api = api
  Video = video
  Commands = {cli}
  Fields = {f1, f2}
  None = none
  SettingsCalls <- FileCalls
  Ids = {1, 2}
  ApiThreads = {1, 2}
  RingThread = ring
  Loop = loop
  MaxStreams = 1
  CameraCalls <- RowCalls
  Clients = {1, 2}
  Tokens = {1, 2}
  Orgs = {o1}
  OrgOf <- Memberships
  TTL = 2
  CacheMax = 1
  ConsoleCalls <- LoginCalls
  RowIds = {1, 2, 3, 4}
  Keys = {1, 2}
  Limits = {1, 2}
  Edits = 2
  Askers = {asker}
  Checkers = {command}
  LicenceCalls <- VerdictCalls
  Bystanders = {postgres, ui}
  Mishaps = 1
  Clips = {"fight", "silence"}
  KindOf <- ClipScenarios
  LabCalls <- LabPresses
INVARIANTS
  AdminTypeOK
  DropMeansGone
  OpenOnlyAtFirstBoot
  EachRowOnce
  FaultIffBroken
PROPERTIES
  
  PollersHear
  WritesAsSeen
  
  LicenceFollows
  TeardownFinishes
  RunEndsJudged
CHECK_DEADLOCK FALSE
