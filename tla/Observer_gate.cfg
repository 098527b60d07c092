CONSTANTS
  None = None
  Asks = {q1}
  RestartBudget = 1
  MaxSettings = 1
  MaxChildren = 1
  MaxQueue = 1
SPECIFICATION ObserverSpec
INVARIANT PauseIsObeyed
CHECK_DEADLOCK FALSE
