SPECIFICATION Spec
CONSTANTS
  alice = alice
  bob = bob
  carol = carol
  Users = {alice, bob, carol}
  Storage = storage
  Fees = fees
  Fiat = {"EUR"}
  Ids = {1, 2, 3, 4}
  Form <- RefusedForms
  MinAmount = 1
  Tick = 10
  PriceDen = 1
  Rate <- NoCommission
  RateDen = 1
  Moves <- RefusedMoves
  Workers = {w1, w2}
  MaxMoves = 4
  MaxCrashes = 0
INVARIANTS
  NoNegativeBalance
PROPERTIES
  CoverLostOnlyByActivation
SYMMETRY WorkerSymmetry
CHECK_DEADLOCK FALSE
