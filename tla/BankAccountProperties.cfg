SPECIFICATION BankFairSpec
CONSTANTS
  Workers = {w1, w2}
  Admins = {a1, a2}
  Users = {u1}
  Wires = {1}
  Instant = {2, 3}
  Banks = {b1}
  Amounts = {3}
  Grid = 2
  Minimum = 2
  Funds = 5
  Reserve = 3
  MaxFailures = 2
INVARIANTS
  RowsTellWhatWasSent
  LossesAreInterruptions
PROPERTIES
  OnlyFirstTransactionsOverdraw
  TransfersAreFinal
  WiresGoToAccounts
  RequestsEnd
