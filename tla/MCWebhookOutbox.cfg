SPECIFICATION FairSpec
CONSTANTS
  e1 = e1
  e2 = e2
  s1 = s1
  s2 = s2
  i1 = i1
  i2 = i2
  invoices = invoices
  orders = orders
  Events = {e1, e2}
  Subs = {s1}
  Instances = {i1, i2}
  Topics = {invoices}
  Filters = {{invoices}}
  MaxAttempts = 2
  BatchSize = 1
  MaxFaults = 1
INVARIANTS TypeOK SentWasAccepted RetryBudget
PROPERTIES IsDelivery EventuallySettled
CHECK_DEADLOCK FALSE
