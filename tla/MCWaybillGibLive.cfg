SPECIFICATION FairSpec
CONSTANTS
  w1 = w1
  p1 = p1
  p2 = p2
  c1 = c1
  c2 = c2
  Waybills = {w1}
  Runs = {p1}
  Clients = {c1}
  MaxAttempts = 2
  BatchSize = 2
  MaxRequests = 2
  MaxDocs = 4
  MaxWaits = 2
  MaxFaults = 2
PROPERTIES RecordsSettle
CHECK_DEADLOCK FALSE
