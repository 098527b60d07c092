SPECIFICATION Spec
CONSTANTS
  Agents = {a1}
  Keys = {k1}
  Runs = {r1, r2, r3}
  PublishStates = {"supervised"}
  MaxCrashes = 1
  None = None
INVARIANTS
  OneWorkflowPerKey
  AnswersAgree
  CancelledRowsWereSignalled
PROPERTY AnsweredRunsEnd
CHECK_DEADLOCK FALSE
