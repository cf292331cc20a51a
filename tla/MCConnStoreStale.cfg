SPECIFICATION Spec
CONSTANTS
  i1 = i1
  k1 = k1
  k2 = k2
  None = None
  Ids = {i1}
  Calls = {k1, k2}

INVARIANTS
  CacheLatest
