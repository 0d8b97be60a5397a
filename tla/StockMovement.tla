--------------------------- MODULE StockMovement ---------------------------
(***************************************************************************)
(* The stock service (apps/stock-service): movements of one product        *)
(* between warehouses, the stock and cost columns of its row, and the      *)
(* FIFO and average cost engines.                                          *)
(*                                                                         *)
(* A movement runs in a transaction that locks the product row, so         *)
(* movements of one product take turns and those of two products touch     *)
(* nothing in common: one product is enough.  What does not lock the row   *)
(* is PATCH and DELETE /products: they read the product, change a field    *)
(* and save the whole entity, stock columns included.  The ghost           *)
(* overwritten says that such a save has put stale stock back, or that the *)
(* cost method was changed with stock on hand.                             *)
(***************************************************************************)
EXTENDS Integers, Sequences, FiniteSets, SequencesExt, Totals

CONSTANTS
    Warehouses, Clients,
    NoOne,         \* nobody holds the row lock; no target warehouse
    Methods,       \* cost methods a product is created with
    Types,         \* movement types of the requests
    Quantities,    \* quantities of the requests, in the smallest unit
    Costs,         \* unit costs of the requests, in kurus
    MaxMovements,  \* bound: transactions begun
    MaxEdits       \* bound: product edits begun

Receipts == {"GIRIS", "IADE_CIKIS"}
Issues   == {"CIKIS", "IADE_GIRIS", "FIRE"}

ASSUME StockAssumption ==
    /\ NoOne \notin Warehouses \cup Clients
    /\ Methods \subseteq {"FIFO", "AVG"}
    /\ Types \subseteq Receipts \cup Issues \cup {"TRANSFER", "SAYIM"}
    /\ Quantities \subseteq Nat \ {0}
    /\ Costs \subseteq Nat
    /\ {MaxMovements, MaxEdits} \subseteq Nat

VARIABLES
    product,     \* the products row
    movements,   \* stock_movements, in the order of their commits
    lock,        \* who holds the row lock
    client,      \* what each request has in memory
    announced,   \* movements the waybill service was told of
    begun,       \* transactions begun; the latest has this id
    edits,       \* product edits begun
    overwritten  \* ghost: an edit has put the stock columns out of step

vars == <<product, movements, lock, client, announced, begun, edits, overwritten>>

Layer    == [qty : Nat, cost : Nat]
Product  == [method : {"FIFO", "AVG"}, tracked : BOOLEAN, qty : Nat, avg : Nat, layers : Seq(Layer)]
Request  == [id : Nat, type : Types, from : Warehouses, to : Warehouses \cup {NoOne},
             qty : Quantities, cost : Costs]
Movement == [id : Nat, type : Types, from : Warehouses, to : Warehouses \cup {NoOne},
             qty : Quantities, total : Nat, balance : Nat]

-----------------------------------------------------------------------------
(* The cost engines.  A list of layers is in the order of receipt.          *)

Rounded(a, b) == (2 * a + b) \div (2 * b)    \* Math.round(a / b), b > 0
Least(a, b)   == IF a < b THEN a ELSE b
Gap(a, b)     == IF a < b THEN b - a ELSE a - b

LayerQty(layers)   == Total([k \in DOMAIN layers |-> layers[k].qty])
TotalValue(layers) == Total([k \in DOMAIN layers |-> layers[k].qty * layers[k].cost])

\* FifoCostEngine.consume: from the front, a layer that is used up is dropped.
ConsumeLayer_ByAnyLayer(acc, l) ==
    LET used == Least(acc.open, l.qty)
    IN  IF acc.open > 0 /\ l.qty < acc.open
          THEN [acc EXCEPT !.kept = Append(@, l)]
          ELSE [open |-> acc.open - used, total |-> acc.total + used * l.cost,
                kept |-> Append(acc.kept, [qty |-> l.qty - used, cost |-> l.cost])]

ConsumeLayer(acc, l) ==
    LET used == Least(acc.open, l.qty)
    IN  [open  |-> acc.open - used,
         total |-> acc.total + used * l.cost,
         kept  |-> IF acc.open > 0 /\ l.qty <= acc.open
                     THEN acc.kept
                     ELSE Append(acc.kept, [qty |-> l.qty - used, cost |-> l.cost])]

Consume(layers, q) ==
    LET after[n \in 0 .. Len(layers)] ==
          IF n = 0 THEN [open |-> q, total |-> 0, kept |-> <<>>]
          ELSE ConsumeLayer(after[n - 1], layers[n])
    IN  after[Len(layers)]

\* The cost the list and the ledger show for a FIFO product.
DisplayCost(layers) ==
    IF LayerQty(layers) > 0 THEN Rounded(TotalValue(layers), LayerQty(layers)) ELSE 0

\* AvgCostEngine.onReceipt.
AvgAfterReceipt(row, q, cost) == Rounded(row.qty * row.avg + q * cost, row.qty + q)

-----------------------------------------------------------------------------
(* What a movement makes of the row it read under the lock.                 *)

\* The new quantity, average and layers, and the total cost of the movement.
Effect(qty, avg, layers, total) == [qty |-> qty, avg |-> avg, layers |-> layers, total |-> total]

Received(row, m) ==
    IF row.method = "FIFO"
      THEN Effect(row.qty + m.qty, row.avg,
                  Append(row.layers, [qty |-> m.qty, cost |-> m.cost]), m.qty * m.cost)
      ELSE Effect(row.qty + m.qty, AvgAfterReceipt(row, m.qty, m.cost),
                  row.layers, m.qty * m.cost)

Issued(row, m) ==
    LET used == Consume(row.layers, m.qty)
    IN  IF row.method = "FIFO"
          THEN Effect(row.qty - m.qty, row.avg, used.kept, used.total)
          ELSE Effect(row.qty - m.qty, row.avg, row.layers, m.qty * row.avg)

Transferred_AtAverage(row, m) ==
    LET used == Consume(row.layers, m.qty)
    IN  IF row.method = "FIFO"
          THEN Effect(row.qty, row.avg,
                      Append(used.kept, [qty |-> m.qty, cost |-> row.avg]), used.total)
          ELSE Effect(row.qty, row.avg, row.layers, m.qty * row.avg)

\* The layers consumed come back as one layer at their average cost, or at the
\* cost on display if they were free.
Transferred(row, m) ==
    LET used == Consume(row.layers, m.qty)
        cost == IF used.total > 0 THEN Rounded(used.total, m.qty) ELSE row.avg
    IN  IF row.method = "FIFO"
          THEN Effect(row.qty, row.avg,
                      Append(used.kept, [qty |-> m.qty, cost |-> cost]), used.total)
          ELSE Effect(row.qty, row.avg, row.layers, m.qty * row.avg)

Counted_SurplusOnly(row, m) ==
    LET layers == IF row.method = "AVG" \/ m.qty <= row.qty THEN row.layers
                  ELSE Append(row.layers, [qty |-> m.qty - row.qty, cost |-> row.avg])
    IN  Effect(m.qty, row.avg, layers, Gap(m.qty, row.qty) * row.avg)

\* SAYIM: the counted quantity becomes the total.
Counted(row, m) ==
    LET layers == IF row.method = "AVG" \/ m.qty = row.qty THEN row.layers
                  ELSE IF m.qty > row.qty
                    THEN Append(row.layers, [qty |-> m.qty - row.qty, cost |-> row.avg])
                    ELSE Consume(row.layers, row.qty - m.qty).kept
    IN  Effect(m.qty, row.avg, layers, Gap(m.qty, row.qty) * row.avg)

EffectOf(row, m) ==
    LET e == CASE m.type \in Receipts  -> Received(row, m)
               [] m.type \in Issues    -> Issued(row, m)
               [] m.type = "TRANSFER"  -> Transferred(row, m)
               [] m.type = "SAYIM"     -> Counted(row, m)
    IN  IF row.method = "FIFO" THEN [e EXCEPT !.avg = DisplayCost(e.layers)] ELSE e

\* getWarehouseStock: what the movements say of warehouse w; SAYIM says nothing.
Signed(m, w) ==
    CASE m.type \in Receipts /\ m.from = w  -> m.qty
      [] m.type \in Issues /\ m.from = w    -> -m.qty
      [] m.type = "TRANSFER" /\ m.from = w  -> -m.qty
      [] m.type = "TRANSFER" /\ m.to = w    -> m.qty
      [] OTHER -> 0

WarehouseStock(w) == Total([k \in DOMAIN movements |-> Signed(movements[k], w)])

\* The checks before the costs are worked out; a consume that finds too few
\* layers throws, and the transaction rolls back.
Sufficient_TotalOnly(row, m) ==
    /\ m.type \in Issues \cup {"TRANSFER"} => m.qty <= row.qty
    /\ row.method = "FIFO" =>
         /\ m.type \in Issues \cup {"TRANSFER"} => m.qty <= LayerQty(row.layers)
         /\ m.type = "SAYIM" => row.qty - m.qty <= LayerQty(row.layers)

Sufficient_WarehouseOnly(row, m) ==
    /\ m.type \in Issues \cup {"TRANSFER"} => m.qty <= WarehouseStock(m.from)
    /\ row.method = "FIFO" =>
         /\ m.type \in Issues \cup {"TRANSFER"} => m.qty <= LayerQty(row.layers)
         /\ m.type = "SAYIM" => row.qty - m.qty <= LayerQty(row.layers)

Sufficient(row, m) ==
    /\ m.type \in Issues \cup {"TRANSFER"} =>
         m.qty <= WarehouseStock(m.from) /\ m.qty <= row.qty
    /\ row.method = "FIFO" =>
         /\ m.type \in Issues \cup {"TRANSFER"} => m.qty <= LayerQty(row.layers)
         /\ m.type = "SAYIM" => row.qty - m.qty <= LayerQty(row.layers)

-----------------------------------------------------------------------------
(* Movements: a transaction takes the row lock, works, and commits.         *)

NoRequest == [id |-> 0, type |-> "none", from |-> NoOne, to |-> NoOne, qty |-> 0, cost |-> 0]
NoRow == [method |-> "AVG", tracked |-> TRUE, qty |-> 0, avg |-> 0, layers |-> <<>>]
Idle  == [pc |-> "idle", row |-> NoRow, request |-> NoRequest]

\* ProductService.create: a FIFO product keeps its initial cost in an empty layer.
Init ==
    /\ \E method \in Methods, cost \in Costs, tracked \in BOOLEAN :
         product = [method |-> method, tracked |-> tracked, qty |-> 0,
                    avg    |-> IF method = "AVG" THEN cost ELSE 0,
                    layers |-> IF method = "FIFO" /\ cost > 0
                                 THEN <<[qty |-> 0, cost |-> cost]>> ELSE <<>>]
    /\ movements = <<>>
    /\ lock = NoOne
    /\ client = [c \in Clients |-> Idle]
    /\ announced = {}
    /\ begun = 0
    /\ edits = 0
    /\ overwritten = FALSE

CanLock_Always(c) == client[c].pc = "idle"

\* SELECT ... FOR UPDATE returns once no other transaction holds the row.
CanLock(c) == client[c].pc = "idle" /\ lock = NoOne

\* A transfer is announced inside the transaction, if the channel is open.
Begin(c, m) ==
    /\ CanLock(c)
    /\ begun < MaxMovements
    /\ product.tracked \/ m.type = "SAYIM"
    /\ IF m.type = "TRANSFER" THEN m.to \in Warehouses \ {m.from} ELSE m.to = NoOne
    /\ Sufficient(product, m)
    /\ lock' = c
    /\ client' = [client EXCEPT ![c] = [pc |-> "open", row |-> product, request |-> m]]
    /\ announced' \in {announced} \cup
                      (IF m.type = "TRANSFER" THEN {announced \cup {m.id}} ELSE {})
    /\ begun' = begun + 1
    /\ UNCHANGED <<product, movements, edits, overwritten>>

\* COMMIT: the row of the movement, and the stock columns of the product.
Commit(c) ==
    LET m == client[c].request
        e == EffectOf(client[c].row, m)
    IN  /\ client[c].pc = "open"
        /\ movements' = Append(movements,
             [id |-> m.id, type |-> m.type, from |-> m.from, to |-> m.to, qty |-> m.qty,
              total |-> e.total, balance |-> e.qty])
        /\ product' = [method |-> product.method, tracked |-> product.tracked,
                       qty |-> e.qty, avg |-> e.avg, layers |-> e.layers]
        /\ lock' = NoOne
        /\ client' = [client EXCEPT ![c] = Idle]
        /\ UNCHANGED <<announced, begun, edits, overwritten>>

Rollback(c) ==
    /\ client[c].pc = "open"
    /\ lock' = NoOne
    /\ client' = [client EXCEPT ![c] = Idle]
    /\ UNCHANGED <<product, movements, announced, begun, edits, overwritten>>

-----------------------------------------------------------------------------
(* Edits: findById, then a save that waits for the row lock.                *)

Displayed(row) ==
    IF row.method = "FIFO" THEN [row EXCEPT !.avg = DisplayCost(row.layers)] ELSE row

\* findById puts the display cost into the entity.
ReadProduct(c) ==
    /\ client[c].pc = "idle"
    /\ edits < MaxEdits
    /\ edits' = edits + 1
    /\ client' = [client EXCEPT ![c] =
         [pc |-> "editing", request |-> NoRequest, row |-> Displayed(product)]]
    /\ UNCHANGED <<product, movements, lock, announced, begun, overwritten>>

\* A new unit cost for all layers, or one layer for stock that has none.
Recosted(row, cost) ==
    IF row.layers # <<>> THEN [k \in DOMAIN row.layers |-> [qty |-> row.layers[k].qty, cost |-> cost]]
    ELSE IF row.qty > 0 THEN <<[qty |-> row.qty, cost |-> cost]>> ELSE <<>>

OutOfStep(row) ==
    \/ row.qty # product.qty
    \/ row.method = "FIFO" /\ LayerQty(row.layers) # LayerQty(product.layers)
    \/ row.method # product.method /\ (row.qty > 0 \/ LayerQty(row.layers) > 0)

\* save(product), or update() when the cost of a FIFO product is set.
SaveProduct(c, row) ==
    /\ client[c].pc = "editing"
    /\ lock = NoOne
    /\ product' = row
    /\ overwritten' = (overwritten \/ OutOfStep(row))
    /\ client' = [client EXCEPT ![c] = Idle]
    /\ UNCHANGED <<movements, lock, announced, begun, edits>>

\* A change of other columns, deactivate included.
EditProduct(c) == SaveProduct(c, client[c].row)

EditMethod(c, method) == SaveProduct(c, [client[c].row EXCEPT !.method = method])

EditCost(c, cost) ==
    SaveProduct(c, IF client[c].row.method = "FIFO"
                     THEN [product EXCEPT !.avg = cost, !.layers = Recosted(client[c].row, cost)]
                     ELSE [client[c].row EXCEPT !.avg = cost])

-----------------------------------------------------------------------------
Requests == [id : {begun + 1}, type : Types, from : Warehouses, to : Warehouses \cup {NoOne},
             qty : Quantities, cost : Costs]

Next ==
    \/ \E c \in Clients : \E m \in Requests : Begin(c, m)
    \/ \E c \in Clients : Commit(c)
    \/ \E c \in Clients : Rollback(c)
    \/ \E c \in Clients : ReadProduct(c)
    \/ \E c \in Clients : EditProduct(c)
    \/ \E c \in Clients, method \in {"FIFO", "AVG"} : EditMethod(c, method)
    \/ \E c \in Clients, cost \in Costs : EditCost(c, cost)

Spec == Init /\ [][Next]_vars

-----------------------------------------------------------------------------
(* Properties.                                                             *)

\* The shape of the state; quantities, costs and balances are never negative.
TypeOK ==
    /\ product \in Product
    /\ movements \in Seq(Movement)
    /\ lock \in Clients \cup {NoOne}
    /\ client \in [Clients -> [pc : {"idle", "open", "editing"}, row : Product,
                             request : Request \cup {NoRequest}]]
    /\ announced \subseteq 1 .. MaxMovements
    /\ begun \in 0 .. MaxMovements
    /\ edits \in 0 .. MaxEdits
    /\ overwritten \in BOOLEAN

\* No warehouse ever gives out more than it took in, whatever requests race
\* (assertWarehouseStock under the row lock).
NoNegativeWarehouse == \A w \in Warehouses : WarehouseStock(w) >= 0

\* The balance a movement with this type leaves behind.
BalanceAfter(balance, m) ==
    CASE m.type \in Receipts -> balance + m.qty
      [] m.type \in Issues   -> balance - m.qty
      [] m.type = "TRANSFER" -> balance
      [] m.type = "SAYIM"    -> m.qty

\* The ledger adds up: each running balance follows from the one before, and
\* the product shows the last, as long as no edit wrote stale stock back.
LedgerAddsUp ==
    ~overwritten =>
      /\ \A k \in DOMAIN movements :
           movements[k].balance =
             BalanceAfter(IF k = 1 THEN 0 ELSE movements[k - 1].balance, movements[k])
      /\ movements # <<>> => product.qty = movements[Len(movements)].balance

\* The layers of a FIFO product are its stock, as long as no edit wrote stale
\* stock back.
LayersAreStock ==
    ~overwritten /\ product.method = "FIFO" => LayerQty(product.layers) = product.qty

\* The units of the layers, oldest first, each by its cost.
Units(layers) == FlattenSeq([k \in DOMAIN layers |-> [u \in 1 .. layers[k].qty |-> layers[k].cost]])

\* Reference definition of FIFO: an issue of q takes the q oldest units, costs
\* what they cost, and leaves the others.
ConsumeIsFifo ==
    LET units == Units(product.layers)
    IN  \A q \in 1 .. Len(units) :
          LET used == Consume(product.layers, q)
          IN  /\ used.open = 0
              /\ used.total = Total(SubSeq(units, 1, q))
              /\ Units(used.kept) = SubSeq(units, q + 1, Len(units))

\* What each movement of a FIFO product does to the value of its layers, against
\* the total cost it writes in the ledger.  A receipt adds its total cost, an issue
\* takes its total cost away, a transfer of stock that cost something is off by the
\* rounding of its unit cost.  The others make or lose value: a transfer of free
\* layers puts the displayed cost on them and books nothing, and a count
\* books every difference at the displayed cost: a surplus comes in at it, but
\* a shortage takes the oldest units at what they cost.
ValueIsBooked ==
    [][(Len(movements') > Len(movements) /\ product.method = "FIFO") =>
         LET m       == Last(movements')
             before  == TotalValue(product.layers)
             after   == TotalValue(product'.layers)
             gap     == Gap(m.qty, product.qty)
             missing == Total(SubSeq(Units(product.layers), 1, gap))
         IN  /\ m.type \in Receipts => after = before + m.total
             /\ m.type \in Issues   => after + m.total = before
             /\ m.type = "TRANSFER" =>
                  IF m.total > 0 THEN 2 * Gap(after, before) <= m.qty
                  ELSE after = before + m.qty * product.avg
             /\ m.type = "SAYIM" =>
                  /\ m.total = gap * product.avg
                  /\ IF m.qty < product.qty THEN after + missing = before
                     ELSE after = before + m.total]_vars
=============================================================================
