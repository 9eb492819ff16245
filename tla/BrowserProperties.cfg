SPECIFICATION FairSpec
CONSTANTS
  Pages = {p1, p2}
  FormPage = p1
  Second = 2
  Minute = 2
  Interval = 2
  Delay = 1
  Lag = 1
  Change = 4
  Hour = 6
  Currencies = {"EUR"}
  Prices = {3}
  Amounts = {5}
  Fine = 2
  MaxActs = 3
  Latency = 1
  LastRequest = 1
  MaxClock = 6
INVARIANTS
  NeverPromisesMore
  BalanceAnswersChoice
  TotalFollowsFields
PROPERTIES
  CutShortOnlyIfUsedElsewhere
  AbandonedPagesLeave
CHECK_DEADLOCK FALSE
