SPECIFICATION FairSpec
CONSTANTS
  Addrs = {1, 2, 3}
  Ports = {1}
  Protos = {"udp"}
  FlagSets = {}
  Locals <- Host
  Modes = {"replay"}
  MaxFlows = 1
  SynIdle = 0
  UdpIdle = 1
  ClosingIdle = 0
  LongIdle = 0
  ChannelCap = 2
  Limits = {2}
  MaxTime = 2
  MaxFrames = 2
  MaxSwitches = 0
  MaxOutages = 1
  MaxUserActions = 1
INVARIANTS NoZombie
PROPERTIES LiveFlowsShown
