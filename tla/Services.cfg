CONSTANTS
  None = None
  Agents = {a1}
  Threshold = 1
  MaxRuns = 1
  MaxSaves = 2
  MaxStarts = 2
  Asks = {q1}
  RestartBudget = 1
  MaxSettings = 1
  MaxChildren = 1
  MaxQueue = 1
  Cards = {k1, k2}
  Hashes = {x, y}
  MaxPolls = 2
  MaxServerRuns = 2
  MaxServerCalls = 2
  AuditEvents = {e1, e2, e3}
  VaultCalls = {c1, c2}
  Nonces = {n1, n2}
  MaxGrants = 3
  Rotations = {d1, d2}
  MaxTokens = 4
  MaxAttempts = 3
SPECIFICATION Spec
INVARIANTS
  AutonomyIsEarned
  ShownIsTrue
  CredentialsAreSound
  ServerWritesWhatWasShown
  AuditIsOneChain
CHECK_DEADLOCK FALSE
