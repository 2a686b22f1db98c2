SPECIFICATION Spec
CONSTANTS
  Addrs = {1, 2}
  Ports = {1}
  Protos = {"tcp"}
  FlagSets <- Handshake
  Locals <- Roaming
  Modes = {"live", "replay"}
  MaxFlows = 1
  SynIdle = 0
  UdpIdle = 1
  ClosingIdle = 1
  LongIdle = 2
  ChannelCap = 1
  Limits = {1}
  MaxTime = 2
  MaxFrames = 3
  MaxSwitches = 1
  MaxOutages = 0
  MaxUserActions = 0
INVARIANTS TypeOK FlowsAccounted OneFlowUnlessBothLocal
PROPERTIES FreshFlowsSurvive
