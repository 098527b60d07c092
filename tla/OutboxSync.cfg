CONSTANTS
  e1 = e1
  e2 = e2
  crm = crm
  mail = mail
  t1 = t1
  Events = {e1, e2}
  Apps = {crm, mail}
  AppOf <- MCAppOf
  Invalid = {e2}
  Tokens = {t1, t2}
  Limit = 2
  MaxInserts = 3
  MaxFaults = 1
  None = None
SPECIFICATION MCSpec
INVARIANTS
  NothingLost
  ErasedNeverLeave
PROPERTY
  QueuedEventsArrive
CHECK_DEADLOCK FALSE
