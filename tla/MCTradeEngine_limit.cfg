SPECIFICATION Spec
CONSTANTS
  alice = alice
  bob = bob
  carol = carol
  Users = {alice, bob, carol}
  Storage = storage
  Fees = fees
  Fiat = {"EUR"}
  Ids = {1, 2, 3, 4}
  Form <- LimitForms
  MinAmount = 1
  Tick = 2
  PriceDen = 4
  Rate <- NoCommission
  RateDen = 1
  Moves <- LimitMoves
  Workers = {w1}
  MaxMoves = 5
  MaxCrashes = 0
INVARIANTS
  StandingOrdersFunded
  FillsAddUp
  RemaindersPositive
  ExecuteNeverRaises
  BookUncrossed
  TradesHonourLimits
CHECK_DEADLOCK FALSE
