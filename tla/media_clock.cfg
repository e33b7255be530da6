SPECIFICATION TriggerSpec
CONSTANTS
  Warmup = 1
  StaticAge = 1
  StickyTtl = 1
  Sustain = 1
  MissHold = 1
  Cooldown = 2
  SilentS = 2
  ClipPre = 1
  ClipPost = 1
  Lead = 1
  MaxPre = 2
  Gap = 1
  MinContact = 1
  MicroFrom = 1
  NanoFrom = 5
  Factor = 1000
  Kinds = {"vif"}
  Never = Never
  MaxTime = 6
  MaxEvents = 1
PROPERTIES
  MediaTimeIncreases
CHECK_DEADLOCK FALSE
