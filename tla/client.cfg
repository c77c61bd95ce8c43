SPECIFICATION ClientSpec
CONSTANTS
  Sends = {s1, s2}
  Parts = {m, d}
  Requests = {r1}
  Tokens = {t1, t2}
  None = None
  Nobody = Nobody
  TTLs = {2}
  GrantTTL = 1
  CreatingMaxAge = 1
  MaxTime = 2
  MaxFaults = 0
  TeamMode = TRUE
  Saver = Saver
  Loaders = {l1}
  Hosts = {h1, h2}
  Manifest = m
  PostRetries = 1
  RedeemRetries = 1
  GrantWindow = 2
  MaxLate = 1
CHECK_DEADLOCK FALSE
SYMMETRY Symmetric
INVARIANTS
  ClientTypeOK
  ClientInv
  LinkIsComplete
  OneMachineReads
  CachedGrantWorks
PROPERTIES
  ApiImplementsContract
