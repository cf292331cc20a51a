SPECIFICATION ListsSpec
CONSTANTS
  i1 = i1
  i2 = i2
  k1 = k1
  u1 = u1
  u2 = u2
  s1 = s1
  f1 = f1
  f2 = f2
  t1 = t1
  t2 = t2
  None = None
  NoSync = NoSync

  Ids = {i1, i2}
  Calls = {k1}

  Urls = {u1, u2}
  PolicyUrls = {NoSync, u1}
  Saves = {s1}
  Fetches = {f1, f2}
  Timers = {t1, t2}
INVARIANTS
  ConfiguredKept
PROPERTIES
  ImplementsListStore
  ConfiguredIsPolled
