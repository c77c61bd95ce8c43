SPECIFICATION FairSpec
CONSTANTS
  Sends = {s1}
  Parts = {m}
  Requests = {r1}
  Tokens = {t1}
  None = None
  Nobody = Nobody
  TTLs = {0, 2}
  GrantTTL = 1
  CreatingMaxAge = 1
  MaxTime = 3
  MaxFaults = 1
PROPERTIES
  OrphanCollected
  DueIsReaped
  SweepsGoOn
