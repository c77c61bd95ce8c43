SPECIFICATION ClientSpec
CONSTANTS
  Sends = {s1}
  Parts = {m}
  Requests = {r1}
  Tokens = {t1}
  None = None
  Nobody = Nobody
  TTLs = {2}
  GrantTTL = 1
  CreatingMaxAge = 1
  MaxTime = 2
  MaxFaults = 0
  TeamMode = TRUE
  Saver = Saver
  Loaders = {l1}
  Hosts = {h1}
  Manifest = m
  PostRetries = 1
  RedeemRetries = 1
  GrantWindow = 2
  MaxLate = 1
CHECK_DEADLOCK FALSE
INVARIANTS
  OneObject
