SPECIFICATION PayrollSpec
SYMMETRY Interchangeable
CONSTANTS
  e1 = e1
  e2 = e2
  a1 = a1
  a2 = a2
  r1 = r1
  r2 = r2
  None = None
  Employees = {e1, e2}
  Advances = {a1, a2}
  Requests = {r1, r2}
  MaxMonth = 2
  MaxFaults = 1
INVARIANTS PayrollTypeOK TakenOnce ToldOnce
CHECK_DEADLOCK FALSE
CONSTRAINT InOrder
