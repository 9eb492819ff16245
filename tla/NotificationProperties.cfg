SPECIFICATION FairSpec
CONSTANTS
  Runs = {r1, r2}
  Spaced = TRUE
  Prompt = TRUE
  MaxKills = 1
  Workers = {w1, w2}
  Users = {1, 2}
  Ids = {1, 2}
  Unreachable = {2}
  MaxFailures = 1
  Cap = 3
INVARIANTS
  MissedOnlyInRaces
  RepeatsAreInterruptions
PROPERTIES
  TradesAreAnnounced
