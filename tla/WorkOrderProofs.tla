-------------------------- MODULE WorkOrderProofs --------------------------
(***************************************************************************)
(* Proofs about WorkOrder, for any number of orders, recipes, requests,    *)
(* completions and failures: its type invariant, that a product is backed  *)
(* by the materials of its recipe, and that an order which one request     *)
(* handles at a time is produced once.                                     *)
(***************************************************************************)
EXTENDS WorkOrder, TLAPS

Running == {r \in Requests : req[r].pc \in {"lines", "product", "save", "undo"}}

\* What the memory of a request is worth, and that of a completion above all.
Memory ==
    /\ \A r \in Requests : req[r].pc # "idle" => req[r].order \in Orders
    /\ \A r \in Running : /\ req[r].run \in 1 .. runs
                          /\ maker[req[r].run] = req[r].order
    /\ \A r, q \in Running : req[r].run = req[q].run => r = q

\* Numbers not given out yet have no order and no movements; orders not
\* created yet have no completion.
Fresh ==
    \A n \in Runs : n > runs => /\ maker[n] = None
                                /\ \A i \in Materials \cup {Product} : <<n, i>> \notin moved

\* How far a completion has come, in stock.
Progress ==
    \A r \in Running :
        LET n == req[r].run IN
        /\ req[r].pc \in {"lines", "product"} => <<n, Product>> \notin moved
        /\ req[r].pc = "lines" => \A m \in bill[n] \ req[r].left : <<n, m>> \in moved
        /\ req[r].pc \in {"product", "save"} => \A m \in bill[n] : <<n, m>> \in moved
        /\ req[r].pc = "save" => <<n, Product>> \in moved

\* An order that no two requests handled at a time has one request at most,
\* and still the status that request read.
Alone ==
    \A r \in Requests :
        req[r].pc # "idle" /\ req[r].order \notin overlapped =>
            /\ \A q \in Requests : req[q].pc # "idle" /\ req[q].order = req[r].order => q = r
            /\ req[r].pc = "confirm" => status[req[r].order] = "TASLAK"
            /\ req[r].pc = "start" => status[req[r].order] = "PLANLI"
            /\ req[r].pc = "cancel" => status[req[r].order] \notin Final
            /\ r \in Running => status[req[r].order] = "URETIMDE"

\* The parts of ProducedFromBill and of ProducedOnce, without the set Made.
Posted(n) == <<n, Product>> \in moved
Backed == \A n \in Runs : Posted(n) => \A m \in bill[n] : <<n, m>> \in moved
Finished == \A o \in Orders : status[o] = "TAMAMLANDI" => \E n \in Runs : maker[n] = o /\ Posted(n)
Clear == Orders \ (overlapped \cup unsure)
Single == \A n, k \in Runs :
    Posted(n) /\ Posted(k) /\ maker[n] = maker[k] /\ maker[n] \in Clear => n = k
Earned == \A n \in Runs :
    Posted(n) /\ maker[n] \in Clear =>
        \/ status[maker[n]] = "TAMAMLANDI"
        \/ \E r \in Requests : req[r].pc = "save" /\ req[r].order = maker[n]

Inv == TypeOK /\ Memory /\ Fresh /\ Progress /\ Alone /\ Backed /\ Finished /\ Single /\ Earned

\* Every variable keeps its type.
LEMMA TypeStep == ASSUME Inv, [Next]_vars PROVE TypeOK'
<1> USE WorkOrderAssumption DEF Do, orders, ledger
<1>1. ASSUME NEW o \in Orders, NEW b \in Boms, NEW named \in BOOLEAN, Create(o, b, named) PROVE TypeOK'
  BY <1>1 DEF Create, Inv, TypeOK, Statuses
<1>2. ASSUME NEW b \in Boms, NEW f \in Recipes, ChangeBom(b, f) PROVE TypeOK'
  BY <1>2 DEF ChangeBom, Inv, TypeOK
<1>3. ASSUME NEW r \in Requests, NEW o \in Orders, ReadToConfirm(r, o) PROVE TypeOK'
  BY <1>3 DEF ReadToConfirm, Begin, At, Inv, TypeOK, Request, Steps
<1>4. ASSUME NEW r \in Requests, NEW o \in Orders, ReadToStart(r, o) PROVE TypeOK'
  BY <1>4 DEF ReadToStart, Begin, At, Inv, TypeOK, Request, Steps
<1>5. ASSUME NEW r \in Requests, NEW o \in Orders, ReadToCancel(r, o) PROVE TypeOK'
  BY <1>5 DEF ReadToCancel, Begin, At, Inv, TypeOK, Request, Steps
<1>6. ASSUME NEW r \in Requests, NEW o \in Orders, ReadToComplete(r, o) PROVE TypeOK'
  BY <1>6 DEF ReadToComplete, Begin, Bill, Inv, TypeOK, Request, Steps, Runs
<1>7. ASSUME NEW r \in Requests, NEW m \in Materials, Withdraw(r, m) PROVE TypeOK'
  BY <1>7 DEF Withdraw, Go, Inv, TypeOK, Memory, Running, Request, Steps, Runs
<1>8. ASSUME NEW r \in Requests, NEW m \in Materials, RefuseLine(r, m) PROVE TypeOK'
  BY <1>8 DEF RefuseLine, Go, Inv, TypeOK, Request, Steps
<1>9. ASSUME NEW r \in Requests, NEW i \in Materials \cup {Product}, LoseAnswer(r, i) PROVE TypeOK'
  BY <1>9 DEF LoseAnswer, Go, Inv, TypeOK, Memory, Running, Request, Steps, Runs
<1>10. ASSUME NEW r \in Requests, Produce(r) PROVE TypeOK'
  BY <1>10 DEF Produce, Go, Inv, TypeOK, Memory, Running, Request, Steps, Runs
<1>11. ASSUME NEW r \in Requests, RefuseProduct(r) PROVE TypeOK'
  BY <1>11 DEF RefuseProduct, Go, Inv, TypeOK, Request, Steps
<1>12. ASSUME NEW r \in Requests, Undo(r) PROVE TypeOK'
  BY <1>12 DEF Undo, Idle, Inv, TypeOK, Request, Steps
<1>13. ASSUME NEW r \in Requests, Save(r) PROVE TypeOK'
  BY <1>13 DEF Save, Idle, Outcome, Inv, TypeOK, Memory, Request, Steps, Statuses
<1>14. ASSUME NEW r \in Requests, BreakOff(r) PROVE TypeOK'
  BY <1>14 DEF BreakOff, Idle, Inv, TypeOK, Memory, Request, Steps
<1>15. CASE UNCHANGED vars
  BY <1>15 DEF vars, Inv, TypeOK
<1> QED
  BY <1>1, <1>2, <1>3, <1>4, <1>5, <1>6, <1>7, <1>8, <1>9, <1>10, <1>11, <1>12, <1>13, <1>14, <1>15 DEF Next

\* Each completion keeps its number and its order to itself.
LEMMA MemoryStep == ASSUME Inv, [Next]_vars PROVE Memory'
<1> USE WorkOrderAssumption DEF Do, orders, ledger
<1>1. ASSUME NEW o \in Orders, NEW b \in Boms, NEW named \in BOOLEAN, Create(o, b, named) PROVE Memory'
  BY <1>1 DEF Create, Inv, Memory, Running
<1>2. ASSUME NEW b \in Boms, NEW f \in Recipes, ChangeBom(b, f) PROVE Memory'
  BY <1>2 DEF ChangeBom, Inv, Memory, Running
<1>3. ASSUME NEW r \in Requests, NEW o \in Orders, ReadToConfirm(r, o) PROVE Memory'
  BY <1>3 DEF ReadToConfirm, Begin, At, Inv, Memory, Running
<1>4. ASSUME NEW r \in Requests, NEW o \in Orders, ReadToStart(r, o) PROVE Memory'
  BY <1>4 DEF ReadToStart, Begin, At, Inv, Memory, Running
<1>5. ASSUME NEW r \in Requests, NEW o \in Orders, ReadToCancel(r, o) PROVE Memory'
  BY <1>5 DEF ReadToCancel, Begin, At, Inv, Memory, Running
<1>6. ASSUME NEW r \in Requests, NEW o \in Orders, ReadToComplete(r, o) PROVE Memory'
  BY <1>6 DEF ReadToComplete, Begin, Inv, TypeOK, Memory, Running, Runs
<1>7. ASSUME NEW r \in Requests, NEW m \in Materials, Withdraw(r, m) PROVE Memory'
  BY <1>7 DEF Withdraw, Go, Inv, Memory, Running
<1>8. ASSUME NEW r \in Requests, NEW m \in Materials, RefuseLine(r, m) PROVE Memory'
  BY <1>8 DEF RefuseLine, Go, Inv, Memory, Running
<1>9. ASSUME NEW r \in Requests, NEW i \in Materials \cup {Product}, LoseAnswer(r, i) PROVE Memory'
  BY <1>9 DEF LoseAnswer, Go, Inv, Memory, Running
<1>10. ASSUME NEW r \in Requests, Produce(r) PROVE Memory'
  BY <1>10 DEF Produce, Go, Inv, Memory, Running
<1>11. ASSUME NEW r \in Requests, RefuseProduct(r) PROVE Memory'
  BY <1>11 DEF RefuseProduct, Go, Inv, Memory, Running
<1>12. ASSUME NEW r \in Requests, Undo(r) PROVE Memory'
  BY <1>12 DEF Undo, Idle, Inv, TypeOK, Memory, Running, Request, Steps, Runs, Fresh
<1>13. ASSUME NEW r \in Requests, Save(r) PROVE Memory'
  BY <1>13 DEF Save, Idle, Inv, Memory, Running
<1>14. ASSUME NEW r \in Requests, BreakOff(r) PROVE Memory'
  BY <1>14 DEF BreakOff, Idle, Inv, Memory, Running
<1>15. CASE UNCHANGED vars
  BY <1>15 DEF vars, Inv, Memory, Running
<1> QED
  BY <1>1, <1>2, <1>3, <1>4, <1>5, <1>6, <1>7, <1>8, <1>9, <1>10, <1>11, <1>12, <1>13, <1>14, <1>15 DEF Next

\* Completions are numbered before they move anything.
LEMMA FreshStep == ASSUME Inv, [Next]_vars PROVE Fresh'
<1> USE WorkOrderAssumption DEF Do, orders, ledger
<1>1. ASSUME NEW o \in Orders, NEW b \in Boms, NEW named \in BOOLEAN, Create(o, b, named) PROVE Fresh'
  BY <1>1 DEF Create, Inv, Fresh
<1>2. ASSUME NEW b \in Boms, NEW f \in Recipes, ChangeBom(b, f) PROVE Fresh'
  BY <1>2 DEF ChangeBom, Inv, Fresh
<1>3. ASSUME NEW r \in Requests, NEW o \in Orders, ReadToConfirm(r, o) PROVE Fresh'
  BY <1>3 DEF ReadToConfirm, Inv, Fresh
<1>4. ASSUME NEW r \in Requests, NEW o \in Orders, ReadToStart(r, o) PROVE Fresh'
  BY <1>4 DEF ReadToStart, Inv, Fresh
<1>5. ASSUME NEW r \in Requests, NEW o \in Orders, ReadToCancel(r, o) PROVE Fresh'
  BY <1>5 DEF ReadToCancel, Inv, Fresh
<1>6. ASSUME NEW r \in Requests, NEW o \in Orders, ReadToComplete(r, o) PROVE Fresh'
  BY <1>6 DEF ReadToComplete, MayComplete, Bill, Inv, TypeOK, Runs, Fresh
<1>7. ASSUME NEW r \in Requests, NEW m \in Materials, Withdraw(r, m) PROVE Fresh'
  BY <1>7 DEF Withdraw, Inv, Memory, Running, Fresh
<1>8. ASSUME NEW r \in Requests, NEW m \in Materials, RefuseLine(r, m) PROVE Fresh'
  BY <1>8 DEF RefuseLine, Inv, Fresh
<1>9. ASSUME NEW r \in Requests, NEW i \in Materials \cup {Product}, LoseAnswer(r, i) PROVE Fresh'
  BY <1>9 DEF LoseAnswer, Inv, Memory, Running, Fresh
<1>10. ASSUME NEW r \in Requests, Produce(r) PROVE Fresh'
  BY <1>10 DEF Produce, Inv, Memory, Running, Fresh
<1>11. ASSUME NEW r \in Requests, RefuseProduct(r) PROVE Fresh'
  BY <1>11 DEF RefuseProduct, Inv, Fresh
<1>12. ASSUME NEW r \in Requests, Undo(r) PROVE Fresh'
  BY <1>12 DEF Undo, Inv, Fresh
<1>13. ASSUME NEW r \in Requests, Save(r) PROVE Fresh'
  BY <1>13 DEF Save, Inv, Fresh
<1>14. ASSUME NEW r \in Requests, BreakOff(r) PROVE Fresh'
  BY <1>14 DEF BreakOff, Inv, Fresh
<1>15. CASE UNCHANGED vars
  BY <1>15 DEF vars, Inv, Fresh
<1> QED
  BY <1>1, <1>2, <1>3, <1>4, <1>5, <1>6, <1>7, <1>8, <1>9, <1>10, <1>11, <1>12, <1>13, <1>14, <1>15 DEF Next

\* A completion posts the product last, and every material before.
LEMMA ProgressStep == ASSUME Inv, [Next]_vars PROVE Progress'
<1> USE WorkOrderAssumption DEF Do, orders, ledger
<1>1. ASSUME NEW o \in Orders, NEW b \in Boms, NEW named \in BOOLEAN, Create(o, b, named) PROVE Progress'
  BY <1>1 DEF Create, Inv, Running, Progress
<1>2. ASSUME NEW b \in Boms, NEW f \in Recipes, ChangeBom(b, f) PROVE Progress'
  BY <1>2 DEF ChangeBom, Inv, Running, Progress
<1>3. ASSUME NEW r \in Requests, NEW o \in Orders, ReadToConfirm(r, o) PROVE Progress'
  BY <1>3 DEF ReadToConfirm, Begin, At, Inv, Running, Progress
<1>4. ASSUME NEW r \in Requests, NEW o \in Orders, ReadToStart(r, o) PROVE Progress'
  BY <1>4 DEF ReadToStart, Begin, At, Inv, Running, Progress
<1>5. ASSUME NEW r \in Requests, NEW o \in Orders, ReadToCancel(r, o) PROVE Progress'
  BY <1>5 DEF ReadToCancel, Begin, At, Inv, TypeOK, Running, Progress
<1>6. ASSUME NEW r \in Requests, NEW o \in Orders, ReadToComplete(r, o) PROVE Progress'
  BY <1>6 DEF ReadToComplete, Begin, Inv, TypeOK, Memory, Running, Runs, Fresh, Progress
<1>7. ASSUME NEW r \in Requests, NEW m \in Materials, Withdraw(r, m) PROVE Progress'
  BY <1>7 DEF Withdraw, Go, Inv, TypeOK, Running, Progress
<1>8. ASSUME NEW r \in Requests, NEW m \in Materials, RefuseLine(r, m) PROVE Progress'
  BY <1>8 DEF RefuseLine, Go, Inv, Running, Progress
<1>9. ASSUME NEW r \in Requests, NEW i \in Materials \cup {Product}, LoseAnswer(r, i) PROVE Progress'
  BY <1>9 DEF LoseAnswer, Go, Inv, TypeOK, Memory, Running, Progress
<1>10. ASSUME NEW r \in Requests, Produce(r) PROVE Progress'
  BY <1>10 DEF Produce, Go, Inv, TypeOK, Memory, Running, Progress
<1>11. ASSUME NEW r \in Requests, RefuseProduct(r) PROVE Progress'
  BY <1>11 DEF RefuseProduct, Go, Inv, Running, Progress
<1>12. ASSUME NEW r \in Requests, Undo(r) PROVE Progress'
  BY <1>12 DEF Undo, Idle, Inv, Running, Progress
<1>13. ASSUME NEW r \in Requests, Save(r) PROVE Progress'
  BY <1>13 DEF Save, Idle, Inv, TypeOK, Running, Progress
<1>14. ASSUME NEW r \in Requests, BreakOff(r) PROVE Progress'
  BY <1>14 DEF BreakOff, Idle, Inv, Running, Progress
<1>15. CASE UNCHANGED vars
  BY <1>15 DEF vars, Inv, Running, Progress
<1> QED
  BY <1>1, <1>2, <1>3, <1>4, <1>5, <1>6, <1>7, <1>8, <1>9, <1>10, <1>11, <1>12, <1>13, <1>14, <1>15 DEF Next

\* Without a second request nobody changes the status that was read.
LEMMA AloneStep == ASSUME Inv, [Next]_vars PROVE Alone'
<1> USE WorkOrderAssumption DEF Do, orders, ledger
<1>1. ASSUME NEW o \in Orders, NEW b \in Boms, NEW named \in BOOLEAN, Create(o, b, named) PROVE Alone'
  BY <1>1 DEF Create, Inv, Running, Alone, Final
<1>2. ASSUME NEW b \in Boms, NEW f \in Recipes, ChangeBom(b, f) PROVE Alone'
  BY <1>2 DEF ChangeBom, Inv, Running, Alone
<1>3. ASSUME NEW r \in Requests, NEW o \in Orders, ReadToConfirm(r, o) PROVE Alone'
  BY <1>3 DEF ReadToConfirm, Begin, At, Inv, Running, Alone, Busy
<1>4. ASSUME NEW r \in Requests, NEW o \in Orders, ReadToStart(r, o) PROVE Alone'
  BY <1>4 DEF ReadToStart, Begin, At, Inv, Running, Alone, Busy
<1>5. ASSUME NEW r \in Requests, NEW o \in Orders, ReadToCancel(r, o) PROVE Alone'
  BY <1>5 DEF ReadToCancel, Begin, At, MayCancel, Inv, Running, Alone, Busy
<1>6. ASSUME NEW r \in Requests, NEW o \in Orders, ReadToComplete(r, o) PROVE Alone'
  BY <1>6 DEF ReadToComplete, Begin, MayComplete, Inv, Running, Alone, Busy
<1>7. ASSUME NEW r \in Requests, NEW m \in Materials, Withdraw(r, m) PROVE Alone'
  BY <1>7 DEF Withdraw, Go, Inv, Running, Alone
<1>8. ASSUME NEW r \in Requests, NEW m \in Materials, RefuseLine(r, m) PROVE Alone'
  BY <1>8 DEF RefuseLine, Go, Inv, Running, Alone
<1>9. ASSUME NEW r \in Requests, NEW i \in Materials \cup {Product}, LoseAnswer(r, i) PROVE Alone'
  BY <1>9 DEF LoseAnswer, Go, Inv, Running, Alone
<1>10. ASSUME NEW r \in Requests, Produce(r) PROVE Alone'
  BY <1>10 DEF Produce, Go, Inv, Running, Alone
<1>11. ASSUME NEW r \in Requests, RefuseProduct(r) PROVE Alone'
  BY <1>11 DEF RefuseProduct, Go, Inv, Running, Alone
<1>12. ASSUME NEW r \in Requests, Undo(r) PROVE Alone'
  BY <1>12 DEF Undo, Idle, Inv, Running, Alone
<1>13. ASSUME NEW r \in Requests, Save(r) PROVE Alone'
  BY <1>13 DEF Save, Idle, Inv, TypeOK, Running, Alone
<1>14. ASSUME NEW r \in Requests, BreakOff(r) PROVE Alone'
  BY <1>14 DEF BreakOff, Idle, Inv, Running, Alone
<1>15. CASE UNCHANGED vars
  BY <1>15 DEF vars, Inv, Running, Alone
<1> QED
  BY <1>1, <1>2, <1>3, <1>4, <1>5, <1>6, <1>7, <1>8, <1>9, <1>10, <1>11, <1>12, <1>13, <1>14, <1>15 DEF Next

\* What has been produced stays backed by its materials.
LEMMA BackedStep == ASSUME Inv, [Next]_vars PROVE Backed'
<1> USE WorkOrderAssumption DEF Do, orders, ledger
<1>1. ASSUME NEW o \in Orders, NEW b \in Boms, NEW named \in BOOLEAN, Create(o, b, named) PROVE Backed'
  BY <1>1 DEF Create, Inv, Backed, Posted
<1>2. ASSUME NEW b \in Boms, NEW f \in Recipes, ChangeBom(b, f) PROVE Backed'
  BY <1>2 DEF ChangeBom, Inv, Backed, Posted
<1>3. ASSUME NEW r \in Requests, NEW o \in Orders, ReadToConfirm(r, o) PROVE Backed'
  BY <1>3 DEF ReadToConfirm, Inv, Backed, Posted
<1>4. ASSUME NEW r \in Requests, NEW o \in Orders, ReadToStart(r, o) PROVE Backed'
  BY <1>4 DEF ReadToStart, Inv, Backed, Posted
<1>5. ASSUME NEW r \in Requests, NEW o \in Orders, ReadToCancel(r, o) PROVE Backed'
  BY <1>5 DEF ReadToCancel, Inv, Backed, Posted
<1>6. ASSUME NEW r \in Requests, NEW o \in Orders, ReadToComplete(r, o) PROVE Backed'
  BY <1>6 DEF ReadToComplete, Inv, TypeOK, Memory, Fresh, Backed, Posted
<1>7. ASSUME NEW r \in Requests, NEW m \in Materials, Withdraw(r, m) PROVE Backed'
  BY <1>7 DEF Withdraw, Inv, Backed, Posted
<1>8. ASSUME NEW r \in Requests, NEW m \in Materials, RefuseLine(r, m) PROVE Backed'
  BY <1>8 DEF RefuseLine, Go, Inv, TypeOK, Memory, Running, Request, Steps, Runs, Fresh, Progress, Backed, Posted
<1>9. ASSUME NEW r \in Requests, NEW i \in Materials \cup {Product}, LoseAnswer(r, i) PROVE Backed'
  BY <1>9 DEF LoseAnswer, Inv, TypeOK, Running, Request, Progress, Backed, Posted
<1>10. ASSUME NEW r \in Requests, Produce(r) PROVE Backed'
  BY <1>10 DEF Produce, Inv, Running, Progress, Backed, Posted
<1>11. ASSUME NEW r \in Requests, RefuseProduct(r) PROVE Backed'
  BY <1>11 DEF RefuseProduct, Inv, Backed, Posted
<1>12. ASSUME NEW r \in Requests, Undo(r) PROVE Backed'
  BY <1>12 DEF Undo, Inv, Backed, Posted
<1>13. ASSUME NEW r \in Requests, Save(r) PROVE Backed'
  BY <1>13 DEF Save, Inv, Backed, Posted
<1>14. ASSUME NEW r \in Requests, BreakOff(r) PROVE Backed'
  BY <1>14 DEF BreakOff, Inv, Backed, Posted
<1>15. CASE UNCHANGED vars
  BY <1>15 DEF vars, Inv, Backed, Posted
<1> QED
  BY <1>1, <1>2, <1>3, <1>4, <1>5, <1>6, <1>7, <1>8, <1>9, <1>10, <1>11, <1>12, <1>13, <1>14, <1>15 DEF Next

\* An order that is done has a product.
LEMMA FinishedStep == ASSUME Inv, [Next]_vars PROVE Finished'
<1> USE WorkOrderAssumption DEF Do, orders, ledger
<1>1. ASSUME NEW o \in Orders, NEW b \in Boms, NEW named \in BOOLEAN, Create(o, b, named) PROVE Finished'
  <2> SUFFICES ASSUME NEW p \in Orders, status'[p] = "TAMAMLANDI"
               PROVE  \E n \in Runs : maker[n] = p /\ Posted(n)
    BY <1>1 DEF Create, Finished, Posted
  <2>1. status[p] = "TAMAMLANDI"
    BY <1>1 DEF Create, Inv
  <2> QED
    BY <2>1 DEF Inv, Finished
<1>2. ASSUME NEW b \in Boms, NEW f \in Recipes, ChangeBom(b, f) PROVE Finished'
  BY <1>2 DEF ChangeBom, Inv, Finished, Posted
<1>3. ASSUME NEW r \in Requests, NEW o \in Orders, ReadToConfirm(r, o) PROVE Finished'
  BY <1>3 DEF ReadToConfirm, Inv, Finished, Posted
<1>4. ASSUME NEW r \in Requests, NEW o \in Orders, ReadToStart(r, o) PROVE Finished'
  BY <1>4 DEF ReadToStart, Inv, Finished, Posted
<1>5. ASSUME NEW r \in Requests, NEW o \in Orders, ReadToCancel(r, o) PROVE Finished'
  BY <1>5 DEF ReadToCancel, Inv, Finished, Posted
<1>6. ASSUME NEW r \in Requests, NEW o \in Orders, ReadToComplete(r, o) PROVE Finished'
  <2> SUFFICES ASSUME NEW p \in Orders, status[p] = "TAMAMLANDI"
               PROVE  \E n \in Runs : maker'[n] = p /\ Posted(n)'
    BY <1>6 DEF ReadToComplete, Finished
  <2>1. PICK n \in Runs : maker[n] = p /\ Posted(n)
    BY DEF Inv, Finished
  <2>2. n <= runs
    BY <2>1 DEF Inv, TypeOK, Fresh, Posted, Runs
  <2>3. maker'[n] = maker[n] /\ moved' = moved
    BY <1>6, <2>2 DEF ReadToComplete, Inv, TypeOK, Runs
  <2> QED
    BY <2>1, <2>3 DEF Posted
<1>7. ASSUME NEW r \in Requests, NEW m \in Materials, Withdraw(r, m) PROVE Finished'
  BY <1>7 DEF Withdraw, Inv, Finished, Posted
<1>8. ASSUME NEW r \in Requests, NEW m \in Materials, RefuseLine(r, m) PROVE Finished'
  BY <1>8 DEF RefuseLine, Inv, Finished, Posted
<1>9. ASSUME NEW r \in Requests, NEW i \in Materials \cup {Product}, LoseAnswer(r, i) PROVE Finished'
  BY <1>9 DEF LoseAnswer, Inv, Finished, Posted
<1>10. ASSUME NEW r \in Requests, Produce(r) PROVE Finished'
  BY <1>10 DEF Produce, Inv, Finished, Posted
<1>11. ASSUME NEW r \in Requests, RefuseProduct(r) PROVE Finished'
  BY <1>11 DEF RefuseProduct, Inv, Finished, Posted
<1>12. ASSUME NEW r \in Requests, Undo(r) PROVE Finished'
  BY <1>12 DEF Undo, Inv, Finished, Posted
<1>13. ASSUME NEW r \in Requests, Save(r) PROVE Finished'
  <2> SUFFICES ASSUME NEW p \in Orders, status'[p] = "TAMAMLANDI"
               PROVE  \E n \in Runs : maker[n] = p /\ Posted(n)
    BY <1>13 DEF Save, Finished, Posted
  <2>1. CASE status[p] = "TAMAMLANDI"
    BY <2>1 DEF Inv, Finished
  <2>2. CASE status[p] # "TAMAMLANDI"
    <3>1. req[r].pc = "save" /\ req[r].order = p
      BY <1>13, <2>2 DEF Save, Outcome, Inv
    <3>2. req[r].run \in Runs /\ maker[req[r].run] = p /\ Posted(req[r].run)
      BY <3>1 DEF Inv, TypeOK, Memory, Progress, Running, Posted
    <3> QED
      BY <3>2
  <2> QED
    BY <2>1, <2>2
<1>14. ASSUME NEW r \in Requests, BreakOff(r) PROVE Finished'
  BY <1>14 DEF BreakOff, Inv, Finished, Posted
<1>15. CASE UNCHANGED vars
  BY <1>15 DEF vars, Inv, Finished, Posted
<1> QED
  BY <1>1, <1>2, <1>3, <1>4, <1>5, <1>6, <1>7, <1>8, <1>9, <1>10, <1>11, <1>12, <1>13, <1>14, <1>15 DEF Next

\* A second product of an order would need a second request or a lost answer.
LEMMA SingleStep == ASSUME Inv, [Next]_vars PROVE Single'
<1> USE WorkOrderAssumption DEF Do, orders, ledger
<1>1. ASSUME NEW o \in Orders, NEW b \in Boms, NEW named \in BOOLEAN, Create(o, b, named) PROVE Single'
  BY <1>1 DEF Create, Inv, Clear, Single, Posted
<1>2. ASSUME NEW b \in Boms, NEW f \in Recipes, ChangeBom(b, f) PROVE Single'
  BY <1>2 DEF ChangeBom, Inv, TypeOK, Memory, Running, Request, Steps, Runs, Fresh, Progress, Alone, Clear, Single, Earned, Posted, Busy
<1>3. ASSUME NEW r \in Requests, NEW o \in Orders, ReadToConfirm(r, o) PROVE Single'
  BY <1>3 DEF ReadToConfirm, Begin, Inv, Clear, Single, Posted
<1>4. ASSUME NEW r \in Requests, NEW o \in Orders, ReadToStart(r, o) PROVE Single'
  BY <1>4 DEF ReadToStart, Begin, Inv, Clear, Single, Posted
<1>5. ASSUME NEW r \in Requests, NEW o \in Orders, ReadToCancel(r, o) PROVE Single'
  BY <1>5 DEF ReadToCancel, Begin, Inv, Clear, Single, Posted
<1>6. ASSUME NEW r \in Requests, NEW o \in Orders, ReadToComplete(r, o) PROVE Single'
  BY <1>6 DEF ReadToComplete, Begin, MayComplete, Inv, Clear, Single, Earned, Posted, Busy
<1>7. ASSUME NEW r \in Requests, NEW m \in Materials, Withdraw(r, m) PROVE Single'
  BY <1>7 DEF Withdraw, Inv, Clear, Single, Posted
<1>8. ASSUME NEW r \in Requests, NEW m \in Materials, RefuseLine(r, m) PROVE Single'
  BY <1>8 DEF RefuseLine, Go, Inv, TypeOK, Memory, Running, Request, Steps, Runs, Fresh, Progress, Alone, Clear, Single, Earned, Posted, Busy
<1>9. ASSUME NEW r \in Requests, NEW i \in Materials \cup {Product}, LoseAnswer(r, i) PROVE Single'
  BY <1>9 DEF LoseAnswer, Inv, Memory, Running, Clear, Single, Posted
<1>10. ASSUME NEW r \in Requests, Produce(r) PROVE Single'
  <2> DEFINE k == req[r].run
  <2>1. k \in Runs /\ maker[k] = req[r].order /\ r \in Running
    BY <1>10 DEF Produce, Inv, TypeOK, Memory, Running, Runs
  <2>2. \A n \in Runs : Posted(n)' <=> Posted(n) \/ n = k
    BY <1>10 DEF Produce, Posted
  <2>3. \A n \in Runs : Posted(n) /\ maker[n] \in Clear => maker[n] # maker[k]
    BY <1>10, <2>1 DEF Produce, Inv, Earned, Alone, Clear
  <2>4. maker' = maker /\ Clear' = Clear
    BY <1>10 DEF Produce, Clear
  <2> QED
    BY <2>1, <2>2, <2>3, <2>4 DEF Inv, Single
<1>11. ASSUME NEW r \in Requests, RefuseProduct(r) PROVE Single'
  BY <1>11 DEF RefuseProduct, Inv, Clear, Single, Posted
<1>12. ASSUME NEW r \in Requests, Undo(r) PROVE Single'
  BY <1>12 DEF Undo, Inv, Clear, Single, Posted
<1>13. ASSUME NEW r \in Requests, Save(r) PROVE Single'
  BY <1>13 DEF Save, Inv, Clear, Single, Posted
<1>14. ASSUME NEW r \in Requests, BreakOff(r) PROVE Single'
  BY <1>14 DEF BreakOff, Inv, Clear, Single, Posted
<1>15. CASE UNCHANGED vars
  BY <1>15 DEF vars, Inv, Clear, Single, Posted
<1> QED
  BY <1>1, <1>2, <1>3, <1>4, <1>5, <1>6, <1>7, <1>8, <1>9, <1>10, <1>11, <1>12, <1>13, <1>14, <1>15 DEF Next

\* A product belongs to an order that is done or about to be.
LEMMA EarnedStep == ASSUME Inv, [Next]_vars PROVE Earned'
<1> USE WorkOrderAssumption DEF Do, orders, ledger
<1>1. ASSUME NEW o \in Orders, NEW b \in Boms, NEW named \in BOOLEAN, Create(o, b, named) PROVE Earned'
  BY <1>1 DEF Create, Inv, Clear, Earned, Posted
<1>2. ASSUME NEW b \in Boms, NEW f \in Recipes, ChangeBom(b, f) PROVE Earned'
  BY <1>2 DEF ChangeBom, Inv, Clear, Earned, Posted
<1>3. ASSUME NEW r \in Requests, NEW o \in Orders, ReadToConfirm(r, o) PROVE Earned'
  BY <1>3 DEF ReadToConfirm, Begin, Inv, Clear, Earned, Posted
<1>4. ASSUME NEW r \in Requests, NEW o \in Orders, ReadToStart(r, o) PROVE Earned'
  BY <1>4 DEF ReadToStart, Begin, Inv, Clear, Earned, Posted
<1>5. ASSUME NEW r \in Requests, NEW o \in Orders, ReadToCancel(r, o) PROVE Earned'
  BY <1>5 DEF ReadToCancel, Begin, Inv, Clear, Earned, Posted
<1>6. ASSUME NEW r \in Requests, NEW o \in Orders, ReadToComplete(r, o) PROVE Earned'
  <2>1. \A n \in Runs : Posted(n)' <=> Posted(n)
    BY <1>6 DEF ReadToComplete, Posted
  <2>2. \A n \in Runs : Posted(n) => maker'[n] = maker[n]
    BY <1>6 DEF ReadToComplete, Inv, TypeOK, Fresh, Posted
  <2>3. status' = status /\ Clear' \subseteq Clear
    BY <1>6 DEF ReadToComplete, Begin, Clear
  <2>4. \A q \in Requests : req[q].pc = "save" => req'[q] = req[q]
    BY <1>6 DEF ReadToComplete, Begin, Inv
  <2> QED
    BY <2>1, <2>2, <2>3, <2>4 DEF Inv, Earned
<1>7. ASSUME NEW r \in Requests, NEW m \in Materials, Withdraw(r, m) PROVE Earned'
  BY <1>7 DEF Withdraw, Go, Inv, Clear, Earned, Posted
<1>8. ASSUME NEW r \in Requests, NEW m \in Materials, RefuseLine(r, m) PROVE Earned'
  BY <1>8 DEF RefuseLine, Go, Inv, Clear, Earned, Posted
<1>9. ASSUME NEW r \in Requests, NEW i \in Materials \cup {Product}, LoseAnswer(r, i) PROVE Earned'
  BY <1>9 DEF LoseAnswer, Go, Inv, Memory, Running, Clear, Earned, Posted
<1>10. ASSUME NEW r \in Requests, Produce(r) PROVE Earned'
  BY <1>10 DEF Produce, Go, Inv, TypeOK, Memory, Running, Request, Clear, Earned, Posted
<1>11. ASSUME NEW r \in Requests, RefuseProduct(r) PROVE Earned'
  BY <1>11 DEF RefuseProduct, Go, Inv, Clear, Earned, Posted
<1>12. ASSUME NEW r \in Requests, Undo(r) PROVE Earned'
  BY <1>12 DEF Undo, Inv, Clear, Earned, Posted
<1>13. ASSUME NEW r \in Requests, Save(r) PROVE Earned'
  BY <1>13 DEF Save, Outcome, Inv, TypeOK, Request, Alone, Clear, Final, Earned, Posted
<1>14. ASSUME NEW r \in Requests, BreakOff(r) PROVE Earned'
  BY <1>14 DEF BreakOff, Inv, Clear, Earned, Posted
<1>15. CASE UNCHANGED vars
  BY <1>15 DEF vars, Inv, Clear, Earned, Posted
<1> QED
  BY <1>1, <1>2, <1>3, <1>4, <1>5, <1>6, <1>7, <1>8, <1>9, <1>10, <1>11, <1>12, <1>13, <1>14, <1>15 DEF Next

\* The invariant holds before the first order.
LEMMA InitInv == ASSUME Init PROVE Inv
<1> USE WorkOrderAssumption DEF Init, Idle
<1>1. TypeOK
  BY DEF TypeOK, Request, Steps, Statuses
<1>2. Memory /\ Fresh /\ Progress /\ Alone
  BY DEF Memory, Fresh, Progress, Alone, Running
<1>3. Backed /\ Finished /\ Single /\ Earned
  BY DEF Backed, Finished, Single, Earned, Posted
<1> QED
  BY <1>1, <1>2, <1>3 DEF Inv

\* The invariant is inductive, and so it holds of every behaviour.
LEMMA Invariance == Spec => []Inv
<1>1. Init => Inv
  BY InitInv
<1>2. Inv /\ [Next]_vars => Inv'
  BY TypeStep, MemoryStep, FreshStep, ProgressStep, AloneStep, BackedStep, FinishedStep,
     SingleStep, EarnedStep DEF Inv
<1> QED
  BY <1>1, <1>2, PTL DEF Spec

\* Every variable of the work orders always has its type.
THEOREM TypeCorrect == Spec => []TypeOK
<1>1. Inv => TypeOK
  BY DEF Inv
<1> QED
  BY <1>1, Invariance, PTL

\* WorkOrderService.complete never brings a product into stock before all the
\* materials of the recipe it read are out, and never saves an order as done
\* without one, whatever else is under way and whatever fails.
THEOREM FromBill == Spec => []ProducedFromBill
<1>1. Inv => ProducedFromBill
  BY DEF Inv, Backed, Finished, Posted, ProducedFromBill, Made
<1> QED
  BY <1>1, Invariance, PTL

\* An order that one request at a time handles, and no lost answer of the last
\* posting or failed last save, is produced exactly once if it is done and not
\* at all if it is not, after however many refused completions.
THEOREM Once == Spec => []ProducedOnce
<1>1. Inv => ProducedOnce
  <2> SUFFICES ASSUME Inv, NEW o \in Orders \ (overlapped \cup unsure)
               PROVE  /\ \A n, k \in Made(o) : n = k
                      /\ Made(o) # {} <=> \/ status[o] = "TAMAMLANDI"
                                          \/ \E r \in Requests : req[r].pc = "save" /\ req[r].order = o
    BY DEF ProducedOnce
  <2>1. \A n, k \in Made(o) : n = k
    BY DEF Inv, Single, Clear, Posted, Made
  <2>2. ASSUME Made(o) # {}
        PROVE  \/ status[o] = "TAMAMLANDI"
               \/ \E r \in Requests : req[r].pc = "save" /\ req[r].order = o
    BY <2>2 DEF Inv, Earned, Clear, Posted, Made
  <2>3. ASSUME status[o] = "TAMAMLANDI" PROVE Made(o) # {}
    BY <2>3 DEF Inv, Finished, Posted, Made
  <2>4. ASSUME NEW r \in Requests, req[r].pc = "save", req[r].order = o PROVE Made(o) # {}
    <3>1. req[r].run \in Runs /\ maker[req[r].run] = o /\ Posted(req[r].run)
      BY <2>4 DEF Inv, TypeOK, Memory, Progress, Running, Posted
    <3> QED
      BY <3>1 DEF Made, Posted
  <2> QED
    BY <2>1, <2>2, <2>3, <2>4
<1> QED
  BY <1>1, Invariance, PTL

=============================================================================
