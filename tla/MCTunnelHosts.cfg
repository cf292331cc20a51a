SPECIFICATION Spec
CONSTANTS
  c1 = c1
  c2 = c2
  c3 = c3
  k1 = k1
  k2 = k2
  p1 = p1
  p2 = p2
  p3 = p3
  q1 = q1
  q2 = q2
  q3 = q3
  None = None
  Conns = {c1, c2, c3}
  RdpConns = {}
  Calls = {k1, k2}
  Procs = {p1, p2, p3}
  Clients = {q1, q2, q3}
  Loops = {}
  NHosts = 4
  Platforms = {"linux", "darwin"}
  Origins = {"ipc", "tray"}
SYMMETRY HostsSymmetry
INVARIANTS
  HostsDistinct
