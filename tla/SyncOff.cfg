SPECIFICATION SyncSpec
CONSTANTS
  u1 = u1
  u2 = u2
  s1 = s1
  f1 = f1
  f2 = f2
  t1 = t1
  t2 = t2

  NoSync = NoSync
  Urls = {u1, u2}
  PolicyUrls = {NoSync}
  Saves = {s1}
  Fetches = {f1, f2}
  Timers = {t1, t2}
INVARIANTS
  OnlyEffectivePolled
