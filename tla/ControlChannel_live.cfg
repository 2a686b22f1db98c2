CONSTANTS
  Socks = {s1, s2}
  Peers = {}
  Agents = {a1, a2}
  Streams = {t1}
  MaxPending = 1
  MaxAuth = 1
  MaxLaunches = 2
  MaxStops = 1
  MaxLate = 1
  MaxWire = 1
  None = None
SPECIFICATION FairSpec
INVARIANTS StatusIsCurrent
PROPERTIES LinkSpec Reconnects
