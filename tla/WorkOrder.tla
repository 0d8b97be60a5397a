----------------------------- MODULE WorkOrder -----------------------------
(***************************************************************************)
(* The work orders of the manufacturing service.  Each request reads the   *)
(* row, checks its status, and saves it again later, with no lock and no   *)
(* condition on the update: a save may put an old status over a newer one. *)
(* The completion of an order calls the stock service in between, once for *)
(* each line of the recipe and once for the product, and what has been     *)
(* posted when a call fails stays posted: the stock service has no route   *)
(* for the DELETE that should take it back.                                *)
(*                                                                         *)
(* The movements in stock are pairs of a completion's number and a line.   *)
(* Two ghosts tell where the promises end: overlapped holds the orders     *)
(* that two requests handled at a time, and unsure those whose product was *)
(* posted by a completion that never learned of it or never saved it.      *)
(***************************************************************************)
EXTENDS Naturals

CONSTANTS
    Orders, Boms, Materials, Requests,
    Product,    \* the line of a completion that brings the product in
    None,       \* no order, no recipe
    MaxRuns,    \* bound: completions begun
    MaxFaults   \* bound: answers lost and requests broken off

ASSUME WorkOrderAssumption ==
    /\ Product \notin Materials
    /\ None \notin Orders \cup Boms
    /\ MaxRuns \in Nat /\ MaxFaults \in Nat

VARIABLES
    status,     \* of each order; "none": not created yet
    bom,        \* the recipe of each order
    store,      \* orders that name a warehouse
    lines,      \* where each line of a recipe draws its material from
    req,        \* what each running request has in memory
    runs,       \* completions begun so far
    maker,      \* the order of each completion
    bill,       \* the materials on the recipe each completion read
    moved,      \* movements that stock-service has booked
    faults,
    overlapped, \* ghost: orders that two requests handled at a time
    unsure      \* ghost: orders with a product their completion did not save

vars == <<status, bom, store, lines, req, runs, maker, bill, moved, faults, overlapped, unsure>>

Statuses == {"none", "TASLAK", "PLANLI", "URETIMDE", "TAMAMLANDI", "IPTAL"}
Final    == {"TAMAMLANDI", "IPTAL"}
Runs     == 1 .. MaxRuns

\* A line has a warehouse of its own, takes the order's, or is not there.
Recipes == {f \in [Materials -> {"own", "order", "absent"}] : \E m \in Materials : f[m] # "absent"}
Bill(f) == {m \in Materials : f[m] # "absent"}

Steps   == {"idle", "confirm", "start", "cancel", "lines", "product", "save", "undo"}
Request == [pc : Steps, order : Orders \cup {None}, run : 0 .. MaxRuns,
            left : SUBSET Materials, own : SUBSET Materials]
Idle    == [pc |-> "idle", order |-> None, run |-> 0, left |-> {}, own |-> {}]
At(pc, o) == [pc |-> pc, order |-> o, run |-> 0, left |-> {}, own |-> {}]

Init ==
    /\ status = [o \in Orders |-> "none"]
    /\ bom = [o \in Orders |-> None]
    /\ store = {}
    /\ lines \in [Boms -> Recipes]
    /\ req = [r \in Requests |-> Idle]
    /\ runs = 0
    /\ maker = [n \in Runs |-> None]
    /\ bill = [n \in Runs |-> {}]
    /\ moved = {}
    /\ faults = 0
    /\ overlapped = {}
    /\ unsure = {}

Do(r, x) == req' = [req EXCEPT ![r] = x]
Busy(o)  == \E q \in Requests : req[q].pc # "idle" /\ req[q].order = o

\* A request starts on o, and remembers whether another is still at it.
Begin(r, o, x) ==
    /\ req[r].pc = "idle"
    /\ Do(r, x)
    /\ overlapped' = IF Busy(o) THEN overlapped \cup {o} ELSE overlapped

orders == <<status, bom, store>>
ledger == <<runs, maker, bill, moved>>

-----------------------------------------------------------------------------
(* The order's own life: each request reads and checks, and saves later.    *)

Create(o, b, named) ==
    /\ status[o] = "none"
    /\ status' = [status EXCEPT ![o] = "TASLAK"]
    /\ bom' = [bom EXCEPT ![o] = b]
    /\ store' = IF named THEN store \cup {o} ELSE store
    /\ UNCHANGED <<lines, req, ledger, faults, overlapped, unsure>>

ReadToConfirm(r, o) ==
    /\ status[o] = "TASLAK" /\ Begin(r, o, At("confirm", o))
    /\ UNCHANGED <<orders, lines, ledger, faults, unsure>>

ReadToStart(r, o) ==
    /\ status[o] = "PLANLI" /\ Begin(r, o, At("start", o))
    /\ UNCHANGED <<orders, lines, ledger, faults, unsure>>

MayCancel(st) == st \notin Final \cup {"none"}

ReadToCancel(r, o) ==
    /\ MayCancel(status[o]) /\ Begin(r, o, At("cancel", o))
    /\ UNCHANGED <<orders, lines, ledger, faults, unsure>>

\* The save of TypeORM updates the columns that differ, whatever came between.
Outcome_Unlisted(pc) == IF pc = "confirm" THEN "PLANLANDI" ELSE "URETIMDE"
Outcome(pc) == CASE pc = "confirm" -> "PLANLI" [] pc = "start" -> "URETIMDE"
                 [] pc = "cancel" -> "IPTAL"   [] pc = "save" -> "TAMAMLANDI"

Save(r) ==
    /\ req[r].pc \in {"confirm", "start", "cancel", "save"}
    /\ status' = [status EXCEPT ![req[r].order] = Outcome(req[r].pc)]
    /\ Do(r, Idle)
    /\ UNCHANGED <<bom, store, lines, ledger, faults, overlapped, unsure>>

-----------------------------------------------------------------------------
(* complete.                                                                *)

MayComplete_Again(st) == st \in {"URETIMDE", "TAMAMLANDI"}
MayComplete(st) == st = "URETIMDE"

\* The row and its recipe; the warehouse of a line may be the order's.
ReadToComplete(r, o) ==
    LET f == lines[bom[o]]
        n == runs + 1
    IN
    /\ MayComplete(status[o]) /\ runs < MaxRuns
    /\ Begin(r, o, [pc |-> "lines", order |-> o, run |-> n, left |-> Bill(f),
                    own |-> {m \in Materials : f[m] = "own"}])
    /\ runs' = n
    /\ maker' = [maker EXCEPT ![n] = o]
    /\ bill' = [bill EXCEPT ![n] = Bill(f)]
    /\ UNCHANGED <<orders, lines, moved, faults, unsure>>

\* Where the request goes on, after a line and after a failure.
Go(r, pc, rest) ==
    Do(r, [pc |-> pc, order |-> req[r].order, run |-> req[r].run,
           left |-> rest, own |-> req[r].own])

Placed(r, m) == m \in req[r].own \/ req[r].order \in store

\* CIKIS of one material.
Withdraw(r, m) ==
    LET rest == req[r].left \ {m} IN
    /\ req[r].pc = "lines" /\ m \in req[r].left /\ Placed(r, m)
    /\ moved' = moved \cup {<<req[r].run, m>>}
    /\ Go(r, IF rest = {} THEN "product" ELSE "lines", rest)
    /\ UNCHANGED <<orders, lines, runs, maker, bill, faults, overlapped, unsure>>

\* The line has no warehouse, or stock-service answers that it cannot.
RefuseLine_Skipped(r, m) ==
    LET rest == req[r].left \ {m} IN
    /\ req[r].pc = "lines" /\ m \in req[r].left
    /\ Go(r, IF rest = {} THEN "product" ELSE "lines", rest)
    /\ UNCHANGED <<orders, lines, ledger, faults, overlapped, unsure>>
RefuseLine(r, m) ==
    /\ req[r].pc = "lines" /\ m \in req[r].left
    /\ Go(r, "undo", {})
    /\ UNCHANGED <<orders, lines, ledger, faults, overlapped, unsure>>

\* GIRIS of the product.
Produce(r) ==
    /\ req[r].pc = "product" /\ req[r].order \in store
    /\ moved' = moved \cup {<<req[r].run, Product>>}
    /\ Go(r, "save", {})
    /\ UNCHANGED <<orders, lines, runs, maker, bill, faults, overlapped, unsure>>

RefuseProduct(r) ==
    /\ req[r].pc = "product"
    /\ Go(r, "undo", {})
    /\ UNCHANGED <<orders, lines, ledger, faults, overlapped, unsure>>

\* stock-service books the movement, and its answer is lost.
LoseAnswer(r, i) ==
    /\ faults < MaxFaults /\ faults' = faults + 1
    /\ \/ req[r].pc = "lines" /\ i \in req[r].left /\ Placed(r, i)
       \/ req[r].pc = "product" /\ i = Product /\ req[r].order \in store
    /\ moved' = moved \cup {<<req[r].run, i>>}
    /\ unsure' = IF i = Product THEN unsure \cup {req[r].order} ELSE unsure
    /\ Go(r, "undo", {})
    /\ UNCHANGED <<orders, lines, runs, maker, bill, overlapped>>

\* DELETE of each movement: 404, logged and swallowed.  The answer is 400.
Undo(r) ==
    /\ req[r].pc = "undo"
    /\ Do(r, Idle)
    /\ UNCHANGED <<orders, lines, ledger, faults, overlapped, unsure>>

-----------------------------------------------------------------------------
(* What happens around them.                                                *)

\* BomService.update deletes the lines and writes others, in a transaction.
ChangeBom(b, f) ==
    /\ lines' = [lines EXCEPT ![b] = f]
    /\ UNCHANGED <<orders, req, ledger, faults, overlapped, unsure>>

\* The process stops, or the save fails.
BreakOff(r) ==
    /\ req[r].pc # "idle" /\ faults < MaxFaults
    /\ faults' = faults + 1
    /\ unsure' = IF req[r].pc = "save" THEN unsure \cup {req[r].order} ELSE unsure
    /\ Do(r, Idle)
    /\ UNCHANGED <<orders, lines, ledger, overlapped>>

Next ==
    \/ \E o \in Orders, b \in Boms, named \in BOOLEAN : Create(o, b, named)
    \/ \E b \in Boms, f \in Recipes : ChangeBom(b, f)
    \/ \E r \in Requests :
         \/ \E o \in Orders : \/ ReadToConfirm(r, o) \/ ReadToStart(r, o)
                              \/ ReadToCancel(r, o)  \/ ReadToComplete(r, o)
         \/ \E m \in Materials : Withdraw(r, m) \/ RefuseLine(r, m)
         \/ \E i \in Materials \cup {Product} : LoseAnswer(r, i)
         \/ Produce(r) \/ RefuseProduct(r) \/ Undo(r) \/ Save(r) \/ BreakOff(r)

Spec == Init /\ [][Next]_vars

-----------------------------------------------------------------------------
(* Properties.                                                              *)

\* Every variable has its type.
TypeOK ==
    /\ status \in [Orders -> Statuses]
    /\ bom \in [Orders -> Boms \cup {None}]
    /\ store \subseteq Orders
    /\ lines \in [Boms -> Recipes]
    /\ req \in [Requests -> Request]
    /\ runs \in 0 .. MaxRuns
    /\ maker \in [Runs -> Orders \cup {None}]
    /\ bill \in [Runs -> SUBSET Materials]
    /\ moved \subseteq Runs \X (Materials \cup {Product})
    /\ faults \in 0 .. MaxFaults
    /\ overlapped \subseteq Orders
    /\ unsure \subseteq Orders

\* The completions that brought a product of o into stock.
Made(o) == {n \in Runs : maker[n] = o /\ <<n, Product>> \in moved}

\* No product comes into stock before every material on the recipe that was
\* read for it has left; and an order that is done has such a product, however
\* its requests interleave, fail or change the recipe meanwhile.
ProducedFromBill ==
    /\ \A n \in Runs : <<n, Product>> \in moved => \A m \in bill[n] : <<n, m>> \in moved
    /\ \A o \in Orders : status[o] = "TAMAMLANDI" => Made(o) # {}

\* An order that one request handles at a time is produced once if it is done,
\* or about to be saved as done, and otherwise not at all: a completion that is
\* refused half way, and begun again, and again, never brings in a second one,
\* and a cancelled order none.
ProducedOnce ==
    \A o \in Orders \ (overlapped \cup unsure) :
        /\ \A n, k \in Made(o) : n = k
        /\ Made(o) # {} <=> \/ status[o] = "TAMAMLANDI"
                            \/ \E r \in Requests : req[r].pc = "save" /\ req[r].order = o
=============================================================================
