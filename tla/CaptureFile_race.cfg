CONSTANTS
  Clients = {c1}
  Paths = {p, q}
  RingModes = {"size"}
  AutostopModes = {"none"}
  Threshold = 1
  Links = {"eth"}
  Sizes = {1}
  Modes = {"live"}
  QueueCapacity = 2
  MaxFrames = 2
  MaxIndex = 2
  MaxRequests = 3
  MaxCrashes = 0
  MaxFaults = 1
  MaxTicks = 1
  FaultKinds = {"finish"}
SPECIFICATION Spec
INVARIANTS ActiveMeansOpen BytesSpanRotations SelfStopIsOnDisk
SYMMETRY Alike
CHECK_DEADLOCK FALSE
