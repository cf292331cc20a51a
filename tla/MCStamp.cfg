SPECIFICATION StampSpec
CONSTANTS
  t1 = t1
  t2 = t2
  w1 = w1
  w2 = w2
  None = None
  Tabs = {t1, t2}
  Watched = {t1}
  Windows = {w1, w2}
  Protocols = {"ssh"}
  JumpHosts = {FALSE}
  Sources = {"own"}
  MaxAttempts = 1
  MaxOutbox = 1
PROPERTY
  StampIsOwn
CHECK_DEADLOCK FALSE
