SPECIFICATION RateSpec
CONSTANTS
  Clients = {c1, c2}
  PerWindow = 2
  Window = 2
  MaxKeys = 1
  NoReply = NoReply
  MaxTime = 5
SYMMETRY SymmetricClients
INVARIANTS
  RateInv
  RateBound
PROPERTIES
  EvictionUnobservable
  GrowsOnlyBusy
