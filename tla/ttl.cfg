SPECIFICATION CreateSpec
CONSTANTS
  DefaultTTL = 4
  MaxTTL = 6
  HardMaxTTL = 12
  MaxPartBytes = 8
  MaxTotalBytes = 9
  MaxPartCount = 2
  Second = 3
  Word = 32
  PartIds = {m, d}
  Sizes <- SomeSizes
  AskedTTLs <- SomeTTLs
  Instants <- SomeInstants
SYMMETRY SymmetricIds
INVARIANTS
  LongTTLRefused
