SPECIFICATION ClipSpec
CONSTANTS
  Warmup = 1
  StaticAge = 3
  StickyTtl = 2
  Sustain = 1
  MissHold = 1
  Cooldown = 1
  SilentS = 2
  ClipPre = 1
  ClipPost = 1
  Lead = 4
  MaxPre = 6
  Gap = 1
  MinContact = 1
  MicroFrom = 0
  NanoFrom = 0
  Factor = 1
  Kinds = {"presence", "convergence", "vif", "stream_silent"}
  Never = Never
  MaxTime = 8
  MaxFrame = 3
  SegmentS = 3
  MarginS = 2
  KeepS = 11
  Recorded = 5
  Rings = {"own", "stale", "missing"}
  MaxOutages = 1
  MaxEvents = 3
INVARIANTS
  
  MarkedIffSent
  ClipShowsWindow
  PromptEventGetsClip
  ClipShowsContact
  
CHECK_DEADLOCK FALSE
