SPECIFICATION Spec
SYMMETRY Interchangeable
CONSTANTS
  a = a
  b = b
  c1 = c1
  c2 = c2
  NoOne = NoOne
  Warehouses = {a, b}
  Clients = {c1, c2}
  Methods = {"FIFO", "AVG"}
  Types = {"GIRIS", "CIKIS", "TRANSFER", "SAYIM"}
  Quantities = {1, 2}
  Costs = {0, 3}
  MaxMovements = 3
  MaxEdits = 1
INVARIANTS TypeOK NoNegativeWarehouse LedgerAddsUp LayersAreStock ConsumeIsFifo
PROPERTIES ValueIsBooked
CHECK_DEADLOCK FALSE
