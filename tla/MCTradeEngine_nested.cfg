SPECIFICATION FairSpec
CONSTANTS
  alice = alice
  bob = bob
  carol = carol
  Users = {alice, bob, carol}
  Storage = storage
  Fees = fees
  Fiat = {"EUR"}
  Ids = {1, 2, 3, 4}
  Form <- MixedForms
  MinAmount = 1
  Tick = 1
  PriceDen = 1
  Rate <- Commission
  RateDen = 2
  Moves <- MixedMoves
  Workers = {w1}
  MaxMoves = 3
  MaxCrashes = 1
INVARIANTS
  BooksBalance
PROPERTIES
  ImplementsSettlement
  
  ExecutionTerminates
CHECK_DEADLOCK FALSE
