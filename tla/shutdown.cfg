SPECIFICATION SenddSpec
CONSTANTS
  Conns = {c1, c2}
  GC = GC
  Run = Run
  Nobody = Nobody
  Statements = 2
CHECK_DEADLOCK FALSE
INVARIANTS
  SenddInv
  NothingCutOff
  CompleteBackup
PROPERTIES
  ShutdownEnds
