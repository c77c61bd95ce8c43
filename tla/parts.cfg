SPECIFICATION Spec
CONSTANTS
  Sends = {s1}
  Parts = {m, d}
  Requests = {r1, r2}
  Tokens = {t1}
  None = None
  Nobody = Nobody
  TTLs = {2}
  GrantTTL = 1
  CreatingMaxAge = 1
  MaxTime = 2
  MaxFaults = 0
SYMMETRY Symmetric
INVARIANTS
  FinalizedComplete
  GrantedPartReadable
