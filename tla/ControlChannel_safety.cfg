CONSTANTS
  Socks = {s1, s2}
  Peers = {p1}
  Agents = {a1, a2}
  Streams = {}
  MaxPending = 1
  MaxAuth = 1
  MaxLaunches = 2
  MaxStops = 1
  MaxLate = 1
  MaxWire = 1
  None = None
SPECIFICATION Spec
INVARIANTS TypeOK OneAttempt NeverStranded DeadlineWhileHandshaking ConnectedMeansAdmitted PermitsConserved CredentialIsServers
