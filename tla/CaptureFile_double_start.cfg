CONSTANTS
  Clients = {c1}
  Paths = {p, q}
  RingModes = {"none"}
  AutostopModes = {"none"}
  Threshold = 2
  Links = {"eth"}
  Sizes = {1}
  Modes = {"live"}
  QueueCapacity = 2
  MaxFrames = 1
  MaxIndex = 2
  MaxRequests = 3
  MaxCrashes = 0
  MaxFaults = 0
  MaxTicks = 0
  FaultKinds = {"create", "finish"}
SPECIFICATION Spec
INVARIANTS NoOrphanedPartial
CHECK_DEADLOCK FALSE
