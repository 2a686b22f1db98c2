SPECIFICATION AgentSpec
CONSTANTS
  f1 = f1  f2 = f2  h = h  a1 = a1  a2 = a2  a3 = a3
  en0 = en0  lo0 = lo0  tun = tun
  Hole = Hole
  Flows <- MCFlows
  Host <- MCHost
  Peer <- MCPeer
  KnownPort <- MCKnownPort
  Addrs <- MCAddrs
  DnsServer <- MCDnsServer
  Topics <- MCTopics
  Stamps <- MCStamps
  MaxFrames <- MCMaxFrames
  Replays <- MCReplays
  Ticks <- MCTicks
  Shows <- MCShows
  CaptureFiles <- MCFiles
  OwnWrites <- MCOwnWrites
  MaxInterfaces = 2
  MaxNameBytes = 3
  MaxTime = 3
  Second = 2
  Devices = {en0, lo0, tun}
  WithAddress = {en0, lo0, tun}
  LinkOf <- MCLinkOf
  DefaultSnap = 3
  MaxSnap = 4
  ShortFilters = {Hole, "ip", "ether"}
  Compiles <- MCCompiles
  Requests <- MCRequests
  Faults <- MCFaults
  StartOn <- MCStartOn
  Tolerance = 2
  MinInterval = 1
  NameCapacity = 2
  MinKeep = 2
  MaxKeep = 5
  Unlearnable = {}
  DnsTimeout = 2
  HttpTimeout = 2
  SweepInterval = 1
  MaxPending = 2
  MaxPipeline = 2
  RecentSamples = 2
  WireMod = 8
  FlowIdle = 2
  Rows = {"r1", "r2"}
  Target <- MCTarget
  Route <- MCRoute
  HopCeiling = 2
  Retries = 2
  HopTimeout = 1
  TraceTimeout = 2
  ProbeMod = 16
  MaxTraces = 2
  MaxRunning = 1
  MaxHopTime = 4
  MaxProbeFaults = 1
INVARIANTS ClockFollows TransactionsAccounted NamesExact MetricsExact ReplayExact
  ConfigMatchesHandle HopsExact
CHECK_DEADLOCK FALSE
