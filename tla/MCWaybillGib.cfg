SPECIFICATION Spec
SYMMETRY Interchangeable
CONSTANTS
  w1 = w1
  p1 = p1
  p2 = p2
  c1 = c1
  c2 = c2
  Waybills = {w1}
  Runs = {p1, p2}
  Clients = {c1}
  MaxAttempts = 2
  BatchSize = 2
  MaxRequests = 2
  MaxDocs = 2
  MaxWaits = 1
  MaxFaults = 1
INVARIANTS TypeOK VerdictIsGibs ClosedSendIsPolled
PROPERTIES CancelledIsFinal
CHECK_DEADLOCK FALSE
