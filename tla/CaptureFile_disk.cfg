CONSTANTS
  Clients = {c1}
  Paths = {p}
  RingModes = {"none", "count"}
  AutostopModes = {"none", "totalSize"}
  Threshold = 2
  Links = {"eth", "loop"}
  Sizes = {1}
  Modes = {"live", "replay"}
  QueueCapacity = 2
  MaxFrames = 2
  MaxIndex = 2
  MaxRequests = 3
  MaxCrashes = 1
  MaxFaults = 1
  MaxTicks = 0
  FaultKinds = {"create", "finish"}
SPECIFICATION Spec
INVARIANTS TypeOK FinalFilesComplete EveryFrameInOneMember
PROPERTIES PartialNeverClobbered
CHECK_DEADLOCK FALSE
