SPECIFICATION Spec
CONSTANTS
  Agents = {a1}
  Keys = {k1}
  Runs = {r1}
  PublishStates = {"draft", "supervised"}
  MaxCrashes = 1
  None = None
PROPERTY KillSwitchHaltsRuns
CHECK_DEADLOCK FALSE
