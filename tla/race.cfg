SPECIFICATION Spec
CONSTANTS
  Sends = {s1}
  Parts = {m}
  Requests = {r1, r2}
  Tokens = {t1, t2}
  None = None
  Nobody = Nobody
  TTLs = {3}
  GrantTTL = 1
  CreatingMaxAge = 2
  MaxTime = 3
  MaxFaults = 1
SYMMETRY Symmetric
INVARIANTS
  TypeOK
  IInv
  OneRedemption
  UploadSurvives
  OneReader
  RefusedLinkWasSpent
  TempsOwned
PROPERTIES
  ReapOnlyDead
  ImplementsContract
