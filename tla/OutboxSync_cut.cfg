CONSTANTS
  e1 = e1 e2 = e2 crm = crm mail = mail
  Events = {e1, e2} Apps = {crm, mail}
  AppOf <- MCAppOf
  Invalid = {} t1 = t1 Tokens = {t1} Limit = 2
  MaxInserts = 1 MaxFaults = 1 None = None
SPECIFICATION Spec
INVARIANT DeletedEventsLeaveTheQueue
CHECK_DEADLOCK FALSE
