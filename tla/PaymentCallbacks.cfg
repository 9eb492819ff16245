SPECIFICATION CallbackFairSpec
CONSTANTS
  Pecunix = {1}
  Liberty = {2, 3, 4}
  Unknown = {2}
  PageSize = 2
  Workers = {w1, w2}
  Jobs = {j1, j2}
  MaxCalls = 3
  MaxInterruptions = 1
  Cap = 3
INVARIANTS
  LibertyCreditedOnce

  
