SPECIFICATION ReassemblySpec
CONSTANTS
  f1 = f1  d1 = d1  d2 = d2  k1 = k1  k2 = k2
  Hole = Hole
  FragKeys = {k1, k2}
  Datagrams = {d1, d2}
  DatagramLen <- MCDatagramLen
  Carries <- MCCarries
  Cuts = {0, 1}
  MaxGroupBytes = 3
  MaxGroups = 1
  MaxFragBytes = 6
  FragTimeout = 1
  MaxFragTime = 2
  MaxFragFeeds = 3
  Flows = {f1}
  SeqMod = 32
  MaxStreamBytes = 6
  MaxStreams = 2
  MaxSegBytes = 20
  StreamIdle = 1
  DecisionWindow = 1
  ByteBase = 8
  LineFeed = 7
  MethodByte = 6
  VersionByte = 6
  HandshakeByte = 3
  HelloLen = 3
  DnsHeaderLen = 1
  ResponseFlags = {4}
  NameBytes = {5}
  MaxDnsTcp = 4
  PlausibleFlags = {1, 4}
  CutWindow = 1
  EvictEvery = 1
  Scenarios = {"ordered", "lossy", "forged", "fragmented"}
  ForgedByte = 7
  MaxPayload = 4
  Edges <- MCEdges
  MaxSniffTime = 2
  MaxPackets <- MCMaxPackets
  Class <- MCClass
  Content <- MCContent
  FirstSeq <- MCFirstSeq
INVARIANTS OneDatagramPerTimeout ReassemblyAccounted OnlyRealMessages
PROPERTY FirstSeenWins
SYMMETRY MCSymmetry
CHECK_DEADLOCK FALSE
