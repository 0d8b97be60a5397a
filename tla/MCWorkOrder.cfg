SPECIFICATION Spec
SYMMETRY Interchangeable
CONSTANTS
  o1 = o1
  b1 = b1
  m1 = m1
  m2 = m2
  r1 = r1
  r2 = r2
  Product = Product
  None = None
  Orders = {o1}
  Boms = {b1}
  Materials = {m1, m2}
  Requests = {r1, r2}
  MaxRuns = 2
  MaxFaults = 1
INVARIANTS TypeOK ProducedFromBill ProducedOnce
CHECK_DEADLOCK FALSE
