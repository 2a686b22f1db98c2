SPECIFICATION TlsSpec
CONSTANTS
  one = one  early = early  c2 = c2  c3 = c3  c4 = c4  l5 = l5  l6 = l6  deny = deny  bye = bye
  Hole = Hole
  Conns <- MCConns
  Pids <- MCPids
  PidOf <- MCPidOf
  Random <- MCRandom
  ClientOut <- MCClientOut
  Sent <- MCSent
  SynSeq <- MCSynSeq
  Record <- MCRecord
  Suites <- MCSuites
  EarlyHellos = {"earlyHello"}
  FinishedMsgs = {"finished"}
  KeyUpdateMsgs = {"update"}
  Supported = 1
  MaxTlsBytes = 7
  MaxDirections = 2
  MaxPidDirections = 1
  MaxKeyWait = 4
  KeyWait = 1
  GapHold = 1
  MaxEarlyRecords = 1
  MaxEarlyBytes = 2
  Scenes <- MCScenes
  TlsFaults <- MCTlsFaults
  TlsEdges <- MCTlsEdges
  MaxTlsPackets <- MCMaxTlsPackets
  KeyText <- MCKeyText
  KeyEdges <- MCKeyEdges
  LineLen <- MCLineLen
  LineSecret <- MCLineSecret
  SecretLen = 1
  MaxLineBytes = 3
  ReadBudget = 4
  MaxSessions = 2
  MaxSecretBytes = 4
  SecretTtl = 1
  MaxKeyTime = 1
  MaxFinds = 2
  ItemLen <- MCItemLen
  MaxRecord = 3
  ReorderWindow = 5
  MaxHandshake = 3
  MaxFrame = 3
  BadItems = {}
  ShownFrames = {"f1", "f2", "f3"}
  RingCap = 3
  TlsSeqMod = 16
INVARIANTS  TlsBounded OptOutForgets KeyLogExact
CHECK_DEADLOCK FALSE
