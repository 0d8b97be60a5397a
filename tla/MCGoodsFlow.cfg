SPECIFICATION Spec
SYMMETRY Interchangeable
CONSTANTS
  o1 = o1
  c1 = c1
  c2 = c2
  p1 = p1
  p2 = p2
  p3 = p3
  NoOrder = NoOrder
  Orders = {o1}
  Clients = {c1, c2}
  Products = {p1, p2, p3}
  Lines = {p1, p2}
  Ordered = 2
  ItemLists <- SomeItems
  MaxDocs = 2
  MaxCalls = 5
  MaxFaults = 1
INVARIANTS TypeOK SyncedIsMoved ReceivedIsDocumented ReceivedIsComplete WaybillIsEarned
PROPERTIES CancelIsFinal
CHECK_DEADLOCK FALSE
