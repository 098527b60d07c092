CONSTANTS
  a1 = a1 a2 = a2 v1 = v1 v2 = v2 v3 = v3
  Agents = {a1, a2} Asking = {a2}
  K = 2 Press = {} Values = {v1, v2, v3} Wanted = v1
  PoolSize = 1 Cap = 1 Cooldown = 1
  MaxClock = 0 MaxCards = 2 MaxAnswers = 1 MaxApprovals = 2
  MaxEdits = 1 MaxRevokes = 0 None = None
SPECIFICATION Spec
INVARIANTS StaleWritesNothing VerifiedMeansWhole
PROPERTIES OnlyShownChanges
SYMMETRY OtherValues
