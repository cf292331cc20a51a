SPECIFICATION FairSpec
CONSTANTS
  t1 = t1
  t2 = t2
  w1 = w1
  None = None
  Tabs = {t1, t2}
  Watched = {t1}
  Windows = {w1}
  Protocols = {"ssh", "telnet", "serial"}
  JumpHosts = {TRUE, FALSE}
  Sources = {"own", "managed"}
  MaxAttempts = 3
  MaxOutbox = 1
INVARIANTS
  TypeOK
  SessionHasTab
  OpenTabBacked
  ConnectedBacked
PROPERTIES
  TabsSettle
  ClosedTabEnds
CHECK_DEADLOCK FALSE
