SPECIFICATION CallbackSpec
CONSTANTS
  Pecunix = {1}
  Liberty = {}
  Unknown = {}
  PageSize = 2
  Workers = {w1, w2}
  Jobs = {}
  MaxCalls = 2
  MaxInterruptions = 0
  Cap = 2
INVARIANTS
  PecunixCreditedOnce
CHECK_DEADLOCK FALSE
