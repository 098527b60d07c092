SPECIFICATION Spec
CONSTANTS
  N = 3
  Plans <- ThreeStepPlans
  Changes = {c1, c2}
  Owned = {c1}
  ReadAttempts = 2
  BookAttempts = 1
  MaxRestarts = 1
  MaxApprovals = 2
  None = None
INVARIANTS
  WritesAreAuthorised
  WritesAtMostOnce
  CancelStopsLaterWrites
  RefusedStepsStayUnwritten
  CleanCompletionIsComplete
PROPERTIES
  FinalIsFinal
  RunTerminates
  ImplementsAuthorisedWrites
CHECK_DEADLOCK FALSE
