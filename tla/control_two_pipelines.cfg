SPECIFICATION ControlSpec
CONSTANTS
  Callers = {watch, lab, http}
  Watch = watch
  Lab = lab
  Handlers = {http}
  Loops = {l1}
  Cameras = {1}
  MaxStreams = 1
  Available = TRUE
  AutoStart = TRUE
  MaxFiles = 1
  NoThread = NoThread
  NoConfig = NoConfig
  Budget <- OneRequestOneLab
INVARIANTS
  OnePipeline
