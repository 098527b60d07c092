CONSTANTS
  None = None
  BufferCap = 3
  MaxObservations = 4
  Candidates <- MCCandidates
  Runtimes <- MCRuntimes
  Policies <- MCPolicies
  Plans <- MCPlans
  Workflows <- MCWorkflows
  Pages <- MCPages
  Traces <- MCTraces
  MaxSteps = 7
  CrmLimit = 2
  MaxWrites = 4
  CostBudget = 2
  MaxCost = 2
  EventKinds <- MCEventKinds
  Gaps = {1, 7, 11}
  Restarts = {TRUE, FALSE}
  GapBoundary = 10
  InactivityBoundary = 6
  MinEpisodeEvents = 2
  MinEpisodeActive = 3
  SwitchMinEvents = 2
  DurationCap = 3
  TrailingTime = 1
  MaxEvents = 4
  Shapes <- MCShapes
  CapabilityChain <- MCChain
  PackWorkflows <- MCPackWorkflows
  PackActions <- MCPackActions
  Tunings <- MCTunings
  VerifyWindow = 3
  VerifyMinRuns = 2
  VerifyMinMatch = 500
  MaxNoise = 1
  WeekDays = 1
  MonthDays = 2
  MaxRecorded = 4
  w1 = w1
  w2 = w2
  MonthLengths <- MCMonthLengths
  WeekLength = 3
  CloseStartDay = 4
  PackRules <- MCPackRules
  Tracked = {w1, w2}
  Labels <- MCLabels
  UserQuiet <- MCUserQuiet
  Ladder <- MCLadder
  DismissalCooldown = 3
  SnoozeDays = 1
  Autonomies = {2}
  ObservedDow = 2
  MaxToday = 12
  MaxAnswers = 2
  MaxLabels = 1
SPECIFICATION Spec
INVARIANTS
  EvidenceIsEarned
  CardsAreTimely
  TracesAreSound
  CompiledRunsAreSound
CHECK_DEADLOCK FALSE
