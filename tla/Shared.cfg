CONSTANTS
  None = None
  Sites = {"x1"}
  Origins = {"o1"}
  BrowserApps = {"b1"}
  OtherApps = {}
  Extras = {"e1"}
  PauseLengths = {1}
  Unreadable = Unreadable
  MaxClock = 1
  MaxUpdates = 2
  MaxMishaps = 1
  Observations <- MCObservations
  MaxDrafts = 2
  MaxTaughtEdits = 2
  MaxLoads = 1
  MaxInvoked = 1
  s1 = s1
  s2 = s2
  f1 = f1
  Patterns = {s1, s2}
  Families = {f1}
  FamilyOf <- MCFamilyOf
  Budget = 1
  MaxSaid = 1
  MaxEras = 1
  MaxBoots = 2
  MaxCrossings = 0
  Readings = {r1}
  LineCap = 1
  MaxTaught = 2
  MaxFrames = 2
SPECIFICATION Spec
INVARIANTS
  SharedFilesAreHonest
  DecisionsArePersisted
  SavedWereKept
CHECK_DEADLOCK FALSE
