SPECIFICATION FairSpec
CONSTANTS
  Runs = {r1, r2}
  Spaced = TRUE
  Prompt = TRUE
  MaxKills = 1
  Outputs = {1, 2, 3, 4}
  AccountOf <- ForAccount
  TxOf <- InTransaction
  Window = 2
  Enough = 1
  MaxFailures = 1
  MaxReorgs = 1
INVARIANTS
  CreditedOncePerAccount
  SpendableIsConfirmed
PROPERTIES
  SpendableStays
  ConfirmedIsCredited
