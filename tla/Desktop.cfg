CONSTANTS
  None = None
  Watchers = {w1}
  Crons = {c1}
  Threads = {t1}
  Sweeper = sweeper
  Occurrences = {1}
  Cooling = 2
  SpoolCap = 2
  MaxClock = 2
  MaxSessions = 2
  Fields = {f1}
  Contents = {x, y, z}
  MaxEdits = 2
  Helpers = {h1, h2}
  MaxStarted = 2
  MaxCalls = 2
  Requests = {r1, r2}
  MaxLinks = 2
  MaxPairings = 2
  MaxRestarts = 1
  Folded <- MCFolded
  Typed = {"1", "2", "sk"}
  SecretShaped = {"sk"}
  WindowPages <- MCWindowPages
  Tasks <- MCTasks
  SurfaceLimit = 2
  MaxWindowRuns = 2
  MaxPageMoves = 1
  MaxTimeouts = 1
SPECIFICATION Spec
INVARIANTS
  WindowIsFaithful
  FiringsAreFaithful
  RevertRestores
  ApprovalIsMeant
  PanelOffersAWayOn
  RelayKeepsItsWaiters
PROPERTY
  NoBlindOverwrite
CHECK_DEADLOCK FALSE
