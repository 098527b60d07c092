CONSTANTS
  a1 = a1 a2 = a2 v1 = v1 v2 = v2 v3 = v3
  Agents = {a1, a2} Asking = {a2}
  K = 1 Press = {1} Values = {v1, v2} Wanted = v1
  PoolSize = 1 Cap = 2 Cooldown = 2
  MaxClock = 2 MaxCards = 2 MaxAnswers = 1 MaxApprovals = 1
  MaxEdits = 0 MaxRevokes = 1 None = None
SPECIFICATION Spec
INVARIANTS PoolIsExact OneCardPerWindow
PROPERTIES StagedWorkEnds
