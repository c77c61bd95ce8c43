SPECIFICATION Spec
CONSTANTS
  Sends = {s1}
  Parts = {m}
  Requests = {r1}
  Tokens = {t1}
  None = None
  Nobody = Nobody
  TTLs = {2}
  GrantTTL = 1
  CreatingMaxAge = 4
  MaxTime = 3
  MaxFaults = 0
SYMMETRY Symmetric
INVARIANTS
  ConsumedHasGrant
