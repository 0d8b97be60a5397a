SPECIFICATION Spec
CONSTANTS
  e1 = e1
  r1 = r1
  r2 = r2
  a1 = a1
  a2 = a2
  Worker = Worker
  Founder = Founder
  None = None
  Employees = {e1}
  Emails = {Founder, a1, a2}
  Elsewhere = {a2}
  Edits = {a1}
  Requests = {r1, r2}
  MaxFaults = 0
INVARIANT LeaverLosesAccess
CHECK_DEADLOCK FALSE
