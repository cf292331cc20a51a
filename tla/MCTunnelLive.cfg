SPECIFICATION FairSpec
CONSTANTS
  c1 = c1
  k1 = k1
  k2 = k2
  l1 = l1
  l2 = l2
  p1 = p1
  p2 = p2
  q1 = q1
  q2 = q2
  None = None
  Conns = {c1}
  RdpConns = {c1}
  Calls = {k1, k2}
  Procs = {p1, p2}
  Clients = {q1, q2}
  Loops = {l1, l2}
  NHosts = 1
  Platforms = {"darwin"}
  Origins = {"ipc"}

INVARIANTS
  ConnectedHasEntry
PROPERTIES
  CallsSettle
  ConnectingSettles
  LoopsEnd
