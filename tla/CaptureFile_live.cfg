CONSTANTS
  Clients = {c1}
  Paths = {p}
  RingModes = {"none", "duration"}
  AutostopModes = {"none", "duration"}
  Threshold = 1
  Links = {"eth"}
  Sizes = {1}
  Modes = {"live"}
  QueueCapacity = 2
  MaxFrames = 1
  MaxIndex = 2
  MaxRequests = 3
  MaxCrashes = 0
  MaxFaults = 1
  MaxTicks = 0
  FaultKinds = {"create", "write", "finish"}
SPECIFICATION FairSpec
PROPERTIES StopCloses TimedRunEnds
CHECK_DEADLOCK FALSE
