SPECIFICATION FairSpec
CONSTANTS
  Runs = {r1, r2}
  Spaced = TRUE
  Prompt = TRUE
  MaxKills = 1
  Invoices = {1, 2}
  Unreachable = {1}
  MaxFailures = 1
  Cap = 2
INVARIANTS
  MutualExclusion
  PaidWasCredited
  CreditsBacked
  CreditedOncePerFailure
  ToldAfterCredit
PROPERTIES
  StateNeverRegresses
  PaymentsHonoured
  TaskRunsAgain
