--------------------------- MODULE GoodsFlowProofs ---------------------------
(***************************************************************************)
(* Proofs about the goods receipts and deliveries of GoodsFlow, for any    *)
(* orders, products, receipts, requests and faults.                        *)
(*                                                                         *)
(* Inv says what a call in memory knows of its order and of its document   *)
(* at every step; the properties follow from it because no two calls hold  *)
(* one document.  Step lists what the actions do to what Inv speaks of, so *)
(* that each part of Inv is carried over the dozen kinds of step there are *)
(* instead of over every action.                                           *)
(***************************************************************************)
EXTENDS GoodsFlow, TLAPS, WellFoundedInduction

-----------------------------------------------------------------------------
(* Sums.                                                                     *)

\* Induction, for sets of numbers.
LEMMA NatSet ==
    ASSUME NEW T, 0 \in T, \A n \in Nat : n \in T => n + 1 \in T
    PROVE  Nat \subseteq T
<1> DEFINE B == Nat \ T
           R == OpToRel(<, Nat)
<1> SUFFICES ASSUME B # {} PROVE FALSE
  OBVIOUS
<1>1. IsWellFoundedOn(R, Nat) /\ B \subseteq Nat
  BY NatLessThanWellFounded
<1>2. \A y, x \in Nat : <<y, x>> \in R <=> y < x
  BY DEF OpToRel
<1> HIDE DEF R
<1>3. PICK x \in B : \A y \in B : ~ (<<y, x>> \in R)
  <2> HIDE DEF B
  <2> QED BY <1>1, WFMin
<1>4. x # 0 /\ x - 1 \in Nat /\ x - 1 < x
  OBVIOUS
<1>5. x - 1 \notin B
  BY <1>2, <1>3, <1>4
<1> QED
  BY <1>4, <1>5

\* The partial sums of the first N numbers, which is what Total chooses.
IsSum(f, v, N) == f = [n \in 0 .. N |-> IF n = 0 THEN 0 ELSE f[n - 1] + v[n]]

LEMMA SumExists ==
    ASSUME NEW v, NEW N \in Nat
    PROVE  \E f : IsSum(f, v, N)
<1> DEFINE T == {n \in Nat : \E f : IsSum(f, v, n)}
<1>1. 0 \in T
  <2>1. IsSum([n \in 0 .. 0 |-> 0], v, 0)
    BY DEF IsSum
  <2> QED BY <2>1
<1>2. ASSUME NEW n \in Nat, n \in T PROVE n + 1 \in T
  <2>1. PICK f : IsSum(f, v, n)
    BY <1>2
  <2> DEFINE g == [k \in 0 .. n + 1 |-> IF k = n + 1 THEN f[n] + v[n + 1] ELSE f[k]]
  <2>2. \A k \in 0 .. n : f[k] = IF k = 0 THEN 0 ELSE f[k - 1] + v[k]
    BY <2>1 DEF IsSum
  <2>3. \A k \in 0 .. n + 1 : g[k] = IF k = 0 THEN 0 ELSE g[k - 1] + v[k]
    BY <2>2
  <2>4. g = [k \in 0 .. n + 1 |-> g[k]]
    OBVIOUS
  <2> HIDE DEF g
  <2>5. IsSum(g, v, n + 1)
    BY <2>3, <2>4 DEF IsSum
  <2> QED BY <2>5
<1> HIDE DEF T
<1>3. N \in T
  BY <1>1, <1>2, NatSet
<1> QED
  BY <1>3 DEF T

LEMMA TotalIs ==
    ASSUME NEW v, NEW N \in Nat, Len(v) = N
    PROVE  \E f : IsSum(f, v, N) /\ Total(v) = f[N]
<1> DEFINE s == CHOOSE f : IsSum(f, v, N)
<1>1. IsSum(s, v, N)
  BY SumExists
<1>2. Total(v) = s[N]
  BY DEF Total, IsSum
<1> QED BY <1>1, <1>2

\* The order in which a sum is added up.
LEMMA Shift ==
    ASSUME NEW a \in Int, NEW b \in Int, NEW x \in Int
    PROVE  a + b \in Int /\ a + (b + x) = (a + b) + x /\ (a + x) + b = (a + b) + x
OBVIOUS

\* A total moves by as much as the one number that changed.
LEMMA TotalUpdate ==
    ASSUME NEW N \in Nat, NEW v \in [1 .. N -> Int], NEW w \in [1 .. N -> Int],
           NEW i \in 1 .. N, NEW x \in Int,
           w[i] = v[i] + x, \A k \in 1 .. N : k # i => w[k] = v[k]
    PROVE  Total(w) = Total(v) + x
<1>1. Len(v) = N /\ Len(w) = N
  OBVIOUS
<1>2. PICK f : IsSum(f, v, N) /\ Total(v) = f[N]
  BY <1>1, TotalIs
<1>3. PICK g : IsSum(g, w, N) /\ Total(w) = g[N]
  BY <1>1, TotalIs
<1>4. /\ \A k \in 0 .. N : f[k] = IF k = 0 THEN 0 ELSE f[k - 1] + v[k]
      /\ \A k \in 0 .. N : g[k] = IF k = 0 THEN 0 ELSE g[k - 1] + w[k]
  BY <1>2, <1>3 DEF IsSum
<1> DEFINE T == {n \in Nat : n <= N => /\ f[n] \in Int
                                       /\ g[n] = IF n < i THEN f[n] ELSE f[n] + x}
<1>5. 0 \in T
  BY <1>4
<1>6. ASSUME NEW n \in Nat, n \in T PROVE n + 1 \in T
  <2> SUFFICES ASSUME n + 1 <= N
               PROVE  f[n + 1] \in Int /\ g[n + 1] = IF n + 1 < i THEN f[n + 1] ELSE f[n + 1] + x
    OBVIOUS
  <2>1. f[n] \in Int /\ g[n] = IF n < i THEN f[n] ELSE f[n] + x
    BY <1>6
  <2>2. n + 1 \in 0 .. N /\ n + 1 # 0 /\ (n + 1) - 1 = n /\ n + 1 \in 1 .. N
    OBVIOUS
  <2>3. f[n + 1] = f[n] + v[n + 1] /\ g[n + 1] = g[n] + w[n + 1]
    BY <1>4, <2>2
  <2>4. v[n + 1] \in Int /\ w[n + 1] = IF n + 1 = i THEN v[n + 1] + x ELSE v[n + 1]
    BY <2>2
  <2>5. /\ f[n] + v[n + 1] \in Int /\ f[n] + (v[n + 1] + x) = (f[n] + v[n + 1]) + x
        /\ (f[n] + x) + v[n + 1] = (f[n] + v[n + 1]) + x
    <3>1. f[n] \in Int /\ v[n + 1] \in Int /\ x \in Int
      BY <2>1, <2>4
    <3> QED BY <3>1, Shift, SMTT(60)
  <2>6. CASE n + 1 < i
    <3>1. n < i /\ n + 1 # i
      BY <2>6
    <3>2. g[n + 1] = f[n] + v[n + 1]
      BY <2>1, <2>3, <2>4, <3>1
    <3>3. f[n + 1] \in Int /\ g[n + 1] = f[n + 1]
      BY <2>3, <2>5, <3>2, Zenon
    <3> QED BY <2>6, <3>3, Zenon
  <2>7. CASE n + 1 = i
    <3>1. n < i /\ ~ (n + 1 < i)
      BY <2>7
    <3>2. g[n + 1] = f[n] + (v[n + 1] + x)
      BY <2>1, <2>3, <2>4, <2>7, <3>1
    <3>3. f[n + 1] \in Int /\ g[n + 1] = f[n + 1] + x
      BY <2>5, <2>3, <3>2, Zenon
    <3> QED BY <3>1, <3>3, Zenon
  <2>8. CASE n + 1 > i
    <3>1. ~ (n < i) /\ n + 1 # i /\ ~ (n + 1 < i)
      BY <2>8
    <3>2. g[n + 1] = (f[n] + x) + v[n + 1]
      BY <2>1, <2>3, <2>4, <3>1
    <3>3. f[n + 1] \in Int /\ g[n + 1] = f[n + 1] + x
      BY <2>5, <2>3, <3>2, Zenon
    <3> QED BY <3>1, <3>3, Zenon
  <2> QED BY <2>6, <2>7, <2>8
<1> HIDE DEF T
<1>7. N \in T
  BY <1>5, <1>6, NatSet
<1> QED
  BY <1>2, <1>3, <1>7 DEF T

\* Nothing adds up to nothing.
LEMMA TotalZero ==
    ASSUME NEW N \in Nat PROVE Total([d \in 1 .. N |-> 0]) = 0
<1> DEFINE v == [d \in 1 .. N |-> 0]
<1>1. Len(v) = N /\ \A k \in 1 .. N : v[k] = 0
  OBVIOUS
<1> HIDE DEF v
<1>2. PICK f : IsSum(f, v, N) /\ Total(v) = f[N]
  BY <1>1, TotalIs
<1>3. \A k \in 0 .. N : f[k] = IF k = 0 THEN 0 ELSE f[k - 1] + v[k]
  BY <1>2 DEF IsSum
<1> DEFINE T == {n \in Nat : n <= N => f[n] = 0}
<1>4. 0 \in T
  BY <1>3
<1>5. ASSUME NEW n \in Nat, n \in T PROVE n + 1 \in T
  BY <1>1, <1>3, <1>5
<1> HIDE DEF T
<1>6. N \in T
  BY <1>4, <1>5, NatSet
<1> QED
  BY <1>2, <1>6 DEF T, v
-----------------------------------------------------------------------------
(* The inductive invariant.                                                  *)

Steps == {"idle", "save", "insert", "post", "undo", "order", "publish"}
Words == Statuses["purchase"] \cup Statuses["sale"] \cup {"none"}
Call == [pc : Steps, order : Orders \cup {NoOrder}, to : Words,
         read : [status : Words, got : [Products -> Nat]], doc : 0 .. MaxDocs,
         items : ItemLists \cup {NoItems}, left : SUBSET Products]

\* The types TypeOK leaves to be inferred.
Typed ==
    /\ kind \in [Orders -> {"purchase", "sale"}]
    /\ order \in [Orders -> [status : Words, got : [Products -> Nat]]]
    /\ call \in [Clients -> Call]

\* What a call in memory knows of its order and its document, by the step it is at.
CallOK(c) ==
    LET d == call[c].doc
        k == kind[call[c].order]
    IN  /\ call[c].pc \in {"idle", "save", "insert"} => d = 0
        /\ call[c].pc # "idle" => call[c].order \in Orders
        /\ call[c].pc # "idle" => call[c].read \in Order(k)
        /\ call[c].pc = "save" =>
             call[c].to \in Statuses[k] \ {"received"} /\ call[c].read.status \notin Final(k)
        /\ call[c].pc = "insert" => call[c].left = ItemsOf(call[c].items)
        /\ call[c].pc \in {"insert", "post", "undo", "order"} => call[c].read.status \in Open(k)
        /\ call[c].pc \in {"post", "undo", "order", "publish"} =>
             d \in Docs /\ doc[d].of = call[c].order /\ doc[d].items = call[c].items
        /\ call[c].pc \in {"post", "undo"} => doc[d].state = "pending"
        /\ call[c].pc \in {"order", "publish"} =>
             doc[d].state = "synced" /\ queue[d] + waybills[d] = 0
        /\ call[c].pc = "post" =>
             \A p \in Products :
               moves[d][p] = IF p \in ItemsOf(call[c].items) \ call[c].left THEN 1 ELSE 0
CallsOK == \A c \in Clients : CallOK(c)

\* No document is in the hands of two calls.
Owned == \A b, c \in Clients : b # c /\ call[b].doc = call[c].doc => call[b].doc = 0

\* Nothing moved for a document that was never inserted.
Fresh == \A d \in Docs : doc[d].state = "none" => moves[d] = NoItems

\* An order that was never created has received nothing.
Blank == \A o \in Orders : order[o].status = "none" => order[o].got = NoItems

Inv == /\ TypeOK /\ Typed /\ CallsOK /\ Owned /\ Fresh /\ Blank
       /\ SyncedIsMoved /\ ReceivedIsDocumented /\ ReceivedIsComplete /\ WaybillIsEarned

-----------------------------------------------------------------------------
(* What the operators of the model do.                                       *)

\* Every order has its types, whichever service it belongs to.
LEMMA OrderTypes ==
    /\ \A k \in {"purchase", "sale"} :
         /\ Order(k) \subseteq [status : Words, got : [Products -> Nat]]
         /\ Statuses[k] \subseteq Words /\ Open(k) \subseteq Statuses[k]
         /\ Open(k) \cap Final(k) = {} /\ "none" \notin Statuses[k] /\ "received" \notin Open(k)
    /\ NoItems \in [Products -> Nat]
    /\ ItemLists \subseteq [Products -> Nat]
    /\ NoOrder \notin Orders /\ Lines \subseteq Products /\ Lines # {}
    /\ Ordered \in Nat /\ Ordered > 0 /\ MaxDocs \in Nat /\ MaxCalls \in Nat /\ MaxFaults \in Nat
<1>1. \A k \in {"purchase", "sale"} : Statuses[k] \subseteq Words /\ "none" \notin Statuses[k]
  BY DEF Statuses, Words
<1>2. \A k \in {"purchase", "sale"} :
        /\ Open(k) \subseteq Statuses[k]
        /\ Open(k) \cap Final(k) = {} /\ "received" \notin Open(k)
  BY DEF Open, Final, Statuses
<1>3. \A k \in {"purchase", "sale"} : Order(k) \subseteq [status : Words, got : [Products -> Nat]]
  BY <1>1 DEF Order, Words
<1>4. NoItems \in [Products -> Nat]
  BY DEF NoItems
<1> QED BY <1>1, <1>2, <1>3, <1>4, GoodsFlowAssumption

\* An update of one call changes that call.
LEMMA Becomes ==
    ASSUME Typed, NEW c \in Clients, NEW r \in Call, call' = [call EXCEPT ![c] = r]
    PROVE  /\ call' \in [Clients -> Call]
           /\ call'[c] = r
           /\ \A b \in Clients : b # c => call'[b] = call[b]
BY DEF Typed

\* A call that goes on keeps what it holds but its step, its document and what is left.
LEMMA Goes ==
    ASSUME Typed, NEW c \in Clients, NEW pc \in Steps, NEW d \in 0 .. MaxDocs,
           NEW left \in SUBSET Products, GoOn(c, pc, d, left)
    PROVE  /\ call' \in [Clients -> Call]
           /\ call'[c].pc = pc /\ call'[c].doc = d /\ call'[c].left = left
           /\ call'[c].order = call[c].order /\ call'[c].to = call[c].to
           /\ call'[c].read = call[c].read /\ call'[c].items = call[c].items
           /\ \A b \in Clients : b # c => call'[b] = call[b]
<1> DEFINE r == [pc |-> pc, order |-> call[c].order, to |-> call[c].to, read |-> call[c].read,
                 doc |-> d, items |-> call[c].items, left |-> left]
<1>1. r \in Call
  BY DEF Typed, Call
<1>2. call' = [call EXCEPT ![c] = r]
  BY DEF GoOn
<1>3. r.pc = pc /\ r.doc = d /\ r.left = left /\ r.order = call[c].order
      /\ r.to = call[c].to /\ r.read = call[c].read /\ r.items = call[c].items
  OBVIOUS
<1> HIDE DEF r
<1> QED BY <1>1, <1>2, <1>3, Becomes

\* A client without a call is one that holds nothing, and Done makes it that.
LEMMA IdleIsCall == Idle \in Call
<1>1. NewOrder \in [status : Words, got : [Products -> Nat]]
  BY OrderTypes DEF NewOrder, Words
<1>2. 0 \in 0 .. MaxDocs /\ "none" \in Words /\ "idle" \in Steps
  BY OrderTypes DEF Words, Steps
<1> QED BY <1>1, <1>2 DEF Idle, Call

LEMMA Ends ==
    ASSUME Typed, NEW c \in Clients, Done(c)
    PROVE  /\ call' \in [Clients -> Call]
           /\ call'[c] = Idle
           /\ \A b \in Clients : b # c => call'[b] = call[b]
BY Becomes, IdleIsCall DEF Done

\* A call that begins holds the order as it read it.
LEMMA Starts ==
    ASSUME TypeOK, Typed, NEW c \in Clients, NEW o \in Orders, NEW pc \in Steps, NEW to \in Words,
           NEW items \in ItemLists \cup {NoItems}, Begins(c, o, pc, to, items)
    PROVE  /\ call' \in [Clients -> Call]
           /\ call'[c].pc = pc /\ call'[c].doc = 0 /\ call'[c].left = ItemsOf(items)
           /\ call'[c].order = o /\ call'[c].to = to
           /\ call'[c].read = order[o] /\ call'[c].items = items
           /\ \A b \in Clients : b # c => call'[b] = call[b]
           /\ calls' \in 0 .. MaxCalls
           /\ UNCHANGED <<goods, broker, faults, stale, cut>>
<1> DEFINE r == [pc |-> pc, order |-> o, to |-> to, read |-> order[o],
                 doc |-> 0, items |-> items, left |-> ItemsOf(items)]
<1>1. r \in Call
  <2>1. order[o] \in [status : Words, got : [Products -> Nat]]
    BY DEF Typed
  <2>2. ItemsOf(items) \subseteq Products /\ 0 \in 0 .. MaxDocs
    BY OrderTypes DEF ItemsOf
  <2> QED BY <2>1, <2>2 DEF Call
<1>2. call' = [call EXCEPT ![c] = r]
  BY DEF Begins
<1>3. r.pc = pc /\ r.doc = 0 /\ r.left = ItemsOf(items) /\ r.order = o
      /\ r.to = to /\ r.read = order[o] /\ r.items = items
  OBVIOUS
<1>4. calls' \in 0 .. MaxCalls /\ UNCHANGED <<goods, broker, faults, stale, cut>>
  BY OrderTypes DEF Begins, TypeOK
<1> HIDE DEF r
<1> QED BY <1>1, <1>2, <1>3, <1>4, Becomes

\* Every edit is a call that read an order it may still change.
LEMMA Edits ==
    ASSUME TypeOK, Typed, NEW c \in Clients, NEW o \in Orders, Edit(c, o)
    PROVE  \E to \in Statuses[kind[o]] \ {"received"} :
             /\ Begins(c, o, "save", to, NoItems)
             /\ order[o].status \notin Final(kind[o])
<1>1. kind[o] \in {"purchase", "sale"} /\ order[o].status \in Statuses[kind[o]] \cup {"none"}
  BY DEF TypeOK, Typed, Order
<1>2. CASE kind[o] = "purchase"
  BY <1>1, <1>2 DEF Edit, Statuses, Final
<1>3. CASE kind[o] = "sale"
  BY <1>1, <1>3 DEF Edit, Statuses, Final
<1> QED BY <1>1, <1>2, <1>3

\* A document changes its state and whether it is invoiced, nothing else.
LEMMA Marks ==
    ASSUME doc \in [Docs -> Doc], NEW d \in Docs, NEW invoiced \in BOOLEAN,
           NEW state \in {"none", "pending", "synced", "deleted"}, SetDoc(d, state, invoiced)
    PROVE  /\ doc' \in [Docs -> Doc]
           /\ doc'[d].of = doc[d].of /\ doc'[d].items = doc[d].items
           /\ doc'[d].state = state /\ doc'[d].invoiced = invoiced
           /\ \A e \in Docs : e # d => doc'[e] = doc[e]
<1> DEFINE r == [of |-> doc[d].of, items |-> doc[d].items, state |-> state, invoiced |-> invoiced]
<1>1. r \in Doc
  BY DEF Doc
<1>2. doc' = [doc EXCEPT ![d] = r]
  BY DEF SetDoc
<1>3. r.of = doc[d].of /\ r.items = doc[d].items /\ r.state = state /\ r.invoiced = invoiced
  OBVIOUS
<1> HIDE DEF r
<1> QED BY <1>1, <1>2, <1>3

\* A movement is made for one item of the document the call is posting, and once.
LEMMA Moves ==
    ASSUME TypeOK, Typed, CallsOK, NEW c \in Clients, NEW p \in Products, Posting(c, p), Move(c, p)
    PROVE  /\ call[c].doc \in Docs
           /\ moves' \in [Docs -> [Products -> 0 .. 1]]
           /\ moves'[call[c].doc][p] = 1
           /\ \A q \in Products : q # p => moves'[call[c].doc][q] = moves[call[c].doc][q]
           /\ \A e \in Docs : e # call[c].doc => moves'[e] = moves[e]
<1> DEFINE d == call[c].doc
<1>1. d \in Docs /\ moves[d][p] = 0
  BY DEF Posting, CallsOK, CallOK
<1> HIDE DEF d
<1>2. moves[d] \in [Products -> 0 .. 1]
  BY <1>1 DEF TypeOK
<1> DEFINE m == [moves[d] EXCEPT ![p] = moves[d][p] + 1]
<1>3. m \in [Products -> 0 .. 1] /\ m[p] = 1 /\ \A q \in Products : q # p => m[q] = moves[d][q]
  BY <1>1, <1>2
<1>4. moves' = [moves EXCEPT ![d] = m]
  BY DEF Move, d
<1> HIDE DEF m
<1>5. /\ moves' \in [Docs -> [Products -> 0 .. 1]] /\ moves'[d] = m
      /\ \A e \in Docs : e # d => moves'[e] = moves[e]
  BY <1>1, <1>3, <1>4 DEF TypeOK
<1> QED BY <1>1, <1>3, <1>5 DEF d

\* A call that is on its way knows its order and, past the insertion, its document.
LEMMA Knows ==
    ASSUME TypeOK, Typed, CallsOK, NEW c \in Clients
    PROVE  /\ call[c].pc \in Steps
           /\ call[c].to \in Words /\ call[c].doc \in 0 .. MaxDocs
           /\ call[c].items \in ItemLists \cup {NoItems}
           /\ call[c].left \subseteq Products /\ call[c].left \subseteq ItemsOf(call[c].items)
           /\ call[c].read \in [status : Words, got : [Products -> Nat]]
           /\ call[c].pc # "idle" => /\ call[c].order \in Orders
                                     /\ kind[call[c].order] \in {"purchase", "sale"}
                                     /\ call[c].read \in Order(kind[call[c].order])
BY DEF TypeOK, Typed, Call, CallsOK, CallOK

\* What a call writes back is an order of its service.
LEMMA Writes ==
    ASSUME TypeOK, Typed, NEW o \in Orders, NEW read, NEW new \in Order(kind[o]),
           WriteBack(o, read, new), UNCHANGED kind
    PROVE  /\ order' \in [Orders -> [status : Words, got : [Products -> Nat]]]
           /\ \A r \in Orders : order'[r] \in Order(kind'[r])
           /\ order'[o] = new /\ \A r \in Orders : r # o => order'[r] = order[r]
           /\ stale \subseteq stale'
           /\ o \notin stale' => order[o] = read
<1>1. kind[o] \in {"purchase", "sale"}
  BY DEF Typed
<1>2. new \in [status : Words, got : [Products -> Nat]]
  BY <1>1, OrderTypes
<1> QED BY <1>2 DEF WriteBack, TypeOK, Typed

\* The two orders a call writes.
LEMMA SaveWrites ==
    ASSUME TypeOK, Typed, CallsOK, NEW c \in Clients, call[c].pc = "save"
    PROVE  [status |-> call[c].to, got |-> call[c].read.got] \in Order(kind[call[c].order])
BY DEF CallsOK, CallOK, Order

Update(c) ==
    LET got == Received(call[c].read, call[c].items)
    IN  IF kind[call[c].order] = "purchase"
          THEN [status |-> IF AllReceived(got) THEN "received" ELSE "partial", got |-> got]
          ELSE [status |-> "shipped", got |-> call[c].read.got]

\* UpdateOrder writes Update, and that is an order of the call's service.
LEMMA UpdateWrites ==
    ASSUME TypeOK, Typed, CallsOK, NEW c \in Clients, call[c].pc = "order"
    PROVE  /\ Update(c) \in Order(kind[call[c].order])
           /\ UpdateOrder(c) => WriteBack(call[c].order, call[c].read, Update(c))
<1>1. /\ kind[call[c].order] \in {"purchase", "sale"}
      /\ call[c].read.got \in [Products -> Nat]
      /\ call[c].items \in [Products -> Nat]
  BY Knows, OrderTypes
<1> DEFINE got == Received(call[c].read, call[c].items)
<1>2. got \in [Products -> Nat]
  BY <1>1, OrderTypes DEF Received
<1>3. UpdateOrder(c) => WriteBack(call[c].order, call[c].read, Update(c))
  BY DEF UpdateOrder, Update
<1>4. Update(c) = IF kind[call[c].order] = "purchase"
                    THEN [status |-> IF AllReceived(got) THEN "received" ELSE "partial", got |-> got]
                    ELSE [status |-> "shipped", got |-> call[c].read.got]
  BY DEF Update
<1> HIDE DEF got
<1>5. CASE kind[call[c].order] = "purchase"
  BY <1>2, <1>3, <1>4, <1>5 DEF Order, Statuses
<1>6. CASE kind[call[c].order] = "sale"
  BY <1>1, <1>3, <1>4, <1>6 DEF Order, Statuses
<1> QED BY <1>1, <1>3, <1>5, <1>6

-----------------------------------------------------------------------------
(* Types.                                                                    *)

Types == TypeOK /\ Typed

LEMMA InitTypes == Init => Types
<1> SUFFICES ASSUME Init PROVE Types
  OBVIOUS
<1>1. NewOrder \in [status : Words, got : [Products -> Nat]]
  BY OrderTypes DEF NewOrder, Words
<1>2. NewOrder = [status |-> "none", got |-> NoItems] /\ NoItems \in [Products -> Nat]
  BY OrderTypes DEF NewOrder
<1>3. \A o \in Orders : order[o] \in Order(kind[o])
  BY <1>2 DEF Init, Order
<1>4. NoDoc \in Doc
  BY DEF NoDoc, Doc
<1>5. \A c \in Clients : call[c] = Idle
  BY DEF Init
<1>6. ItemsOf(NoItems) = {}
  BY DEF ItemsOf, NoItems
<1>7. Idle.pc = "idle" /\ Idle.doc = 0 /\ Idle.left = {} /\ Idle.items = NoItems
  BY DEF Idle
<1>8. NoItems \in [Products -> 0 .. 1]
  BY DEF NoItems
<1>9. TypeOK
  <2>1. \A c \in Clients : /\ call[c].pc = "idle" /\ call[c].doc \in 0 .. MaxDocs
                           /\ call[c].left \subseteq ItemsOf(call[c].items)
    BY <1>5, <1>6, <1>7, OrderTypes
  <2>2. doc \in [Docs -> Doc] /\ moves \in [Docs -> [Products -> 0 .. 1]]
    BY <1>4, <1>8 DEF Init
  <2>3. queue \in [Docs -> Nat] /\ waybills \in [Docs -> Nat] /\ repeated \in [Docs -> Nat]
    BY DEF Init
  <2>4. dead \subseteq Docs /\ calls \in 0 .. MaxCalls /\ faults \in 0 .. MaxFaults
    BY OrderTypes DEF Init
  <2> QED BY <1>3, <2>1, <2>2, <2>3, <2>4 DEF TypeOK
<1>10. Typed
  BY <1>1, IdleIsCall DEF Init, Typed
<1> QED BY <1>9, <1>10 DEF Types

\* The types of the calls, of the orders and of the rest, part by part.
CallTypes == /\ call \in [Clients -> Call]
             /\ \A c \in Clients : call[c].left \subseteq ItemsOf(call[c].items)
OrdersTyped == /\ kind \in [Orders -> {"purchase", "sale"}]
               /\ order \in [Orders -> [status : Words, got : [Products -> Nat]]]
               /\ \A o \in Orders : order[o] \in Order(kind[o])
GoodsTypes == doc \in [Docs -> Doc] /\ moves \in [Docs -> [Products -> 0 .. 1]]
BrokerTypes == /\ queue \in [Docs -> Nat] /\ waybills \in [Docs -> Nat]
               /\ repeated \in [Docs -> Nat] /\ dead \subseteq Docs
BoundTypes == calls \in 0 .. MaxCalls /\ faults \in 0 .. MaxFaults

LEMMA TypeParts ==
    Types <=> CallTypes /\ OrdersTyped /\ GoodsTypes /\ BrokerTypes /\ BoundTypes
<1>1. CallTypes => \A c \in Clients : call[c].pc \in Steps /\ call[c].doc \in 0 .. MaxDocs
  BY DEF CallTypes, Call
<1> QED
  BY <1>1 DEF Types, TypeOK, Typed, CallTypes, OrdersTyped, GoodsTypes, BrokerTypes, BoundTypes, Steps

\* The parts again, of the next state.
LEMMA NextTypes ==
    ASSUME CallTypes', OrdersTyped', GoodsTypes', BrokerTypes', BoundTypes'
    PROVE  Types'
<1>1. \A c \in Clients : call'[c].pc \in Steps /\ call'[c].doc \in 0 .. MaxDocs
  BY DEF CallTypes, Call
<1> QED
  BY <1>1 DEF Types, TypeOK, Typed, CallTypes, OrdersTyped, GoodsTypes, BrokerTypes, BoundTypes, Steps

\* Calls that go on, end or begin keep their types.
LEMMA CallTypesGo ==
    ASSUME Types, CallsOK, NEW c \in Clients, NEW pc \in Steps, NEW d \in 0 .. MaxDocs,
           NEW left \in SUBSET call[c].left, GoOn(c, pc, d, left)
    PROVE  CallTypes'
<1>1. Types /\ left \in SUBSET Products /\ left \subseteq ItemsOf(call[c].items)
  BY Knows DEF Types
<1>2. /\ call' \in [Clients -> Call] /\ call'[c].left = left /\ call'[c].items = call[c].items
      /\ \A b \in Clients : b # c => call'[b] = call[b]
  BY <1>1, Goes DEF Types
<1> QED BY <1>1, <1>2, TypeParts DEF CallTypes, ItemsOf

LEMMA CallTypesEnd ==
    ASSUME Types, NEW c \in Clients, Done(c)
    PROVE  CallTypes'
<1>1. /\ call' \in [Clients -> Call] /\ call'[c] = Idle
      /\ \A b \in Clients : b # c => call'[b] = call[b]
  BY Ends DEF Types
<1>2. Idle.left = {}
  BY DEF Idle
<1> QED BY <1>1, <1>2, TypeParts DEF CallTypes, ItemsOf

LEMMA TypesStart ==
    ASSUME Types, NEW c \in Clients, NEW o \in Orders, NEW pc \in Steps, NEW to \in Words,
           NEW items \in ItemLists \cup {NoItems}, Begins(c, o, pc, to, items)
    PROVE  Types'
<1>1. /\ call' \in [Clients -> Call] /\ call'[c].left = ItemsOf(items) /\ call'[c].items = items
      /\ \A b \in Clients : b # c => call'[b] = call[b]
      /\ calls' \in 0 .. MaxCalls
      /\ UNCHANGED <<goods, broker, faults, stale, cut>>
  BY Starts DEF Types
<1>2. CallTypes'
  BY <1>1, TypeParts DEF CallTypes, ItemsOf
<1>3. OrdersTyped' /\ GoodsTypes' /\ BrokerTypes' /\ BoundTypes'
  BY <1>1, TypeParts DEF OrdersTyped, GoodsTypes, BrokerTypes, BoundTypes, goods, broker
<1> QED BY <1>2, <1>3, NextTypes

LEMMA TypesStep == Types /\ CallsOK /\ [Next]_vars => Types'
<1> SUFFICES ASSUME Types, CallsOK, [Next]_vars PROVE Types'
  OBVIOUS
<1> USE DEF Types
<1>0. CallTypes /\ OrdersTyped /\ GoodsTypes /\ BrokerTypes /\ BoundTypes
  BY TypeParts
<1>a. UNCHANGED call => CallTypes'
  BY <1>0 DEF CallTypes, ItemsOf
<1>b. UNCHANGED <<kind, order>> => OrdersTyped'
  BY <1>0 DEF OrdersTyped
<1>c. UNCHANGED <<doc, moves>> => GoodsTypes'
  BY <1>0 DEF GoodsTypes
<1>d. UNCHANGED <<queue, waybills, repeated, dead>> => BrokerTypes'
  BY <1>0 DEF BrokerTypes
<1>e. UNCHANGED calls /\ (Fault \/ UNCHANGED faults) => BoundTypes'
  BY <1>0, OrderTypes DEF BoundTypes, Fault
<1>f. \A c \in Clients : call[c].pc # "idle" /\ call[c].pc # "save" /\ call[c].pc # "insert"
                           => call[c].doc \in Docs
  BY Knows DEF CallsOK, CallOK, Steps
<1>1. ASSUME NEW o \in Orders, Create(o) PROVE Types'
  <2>1. [status |-> "draft", got |-> NoItems] \in Order(kind[o])
    BY <1>0, OrderTypes DEF Order, Statuses, OrdersTyped
  <2>2. [status |-> "draft", got |-> NoItems] \in [status : Words, got : [Products -> Nat]]
    BY OrderTypes DEF Words, Statuses
  <2>3. OrdersTyped'
    BY <1>0, <1>1, <2>1, <2>2 DEF Create, OrdersTyped
  <2> QED BY <1>a, <1>c, <1>d, <1>e, <1>1, <2>3, NextTypes DEF Create, broker
<1>2. ASSUME NEW c \in Clients, NEW o \in Orders, Edit(c, o) PROVE Types'
  <2>1. PICK to \in Statuses[kind[o]] \ {"received"} : Begins(c, o, "save", to, NoItems)
    BY <1>2, Edits
  <2>2. to \in Words /\ "save" \in Steps
    BY <1>0, OrderTypes DEF OrdersTyped, Steps
  <2> QED BY <2>1, <2>2, TypesStart
<1>3. ASSUME NEW c \in Clients, Save(c) PROVE Types'
  <2>1. call[c].order \in Orders
    BY <1>3, Knows DEF Save
  <2>2. OrdersTyped'
    BY <1>0, <1>3, <2>1, SaveWrites, Writes DEF Save, OrdersTyped
  <2>3. CallTypes'
    BY <1>3, CallTypesEnd DEF Save
  <2> QED BY <1>c, <1>d, <1>e, <1>3, <2>2, <2>3, NextTypes DEF Save, broker
<1>4. ASSUME NEW c \in Clients, NEW o \in Orders, NEW items \in ItemLists, Receive(c, o, items)
      PROVE  Types'
  <2>1. "insert" \in Steps /\ "none" \in Words
    BY DEF Steps, Words
  <2> QED BY <1>4, <2>1, TypesStart DEF Receive
<1>5. ASSUME NEW c \in Clients, InsertDoc(c) PROVE Types'
  <2>1. PICK d \in Docs :
          /\ doc' = [doc EXCEPT ![d] = [of |-> call[c].order, items |-> call[c].items,
                                        state |-> "pending", invoiced |-> FALSE]]
          /\ GoOn(c, "post", d, call[c].left)
    BY <1>5 DEF InsertDoc
  <2>2. d \in 0 .. MaxDocs /\ "post" \in Steps
    BY OrderTypes DEF Docs, Steps
  <2>3. CallTypes'
    BY <2>1, <2>2, CallTypesGo
  <2>4. [of |-> call[c].order, items |-> call[c].items, state |-> "pending", invoiced |-> FALSE] \in Doc
    BY <1>5, Knows DEF InsertDoc, Doc
  <2>5. GoodsTypes'
    BY <1>0, <1>5, <2>1, <2>4 DEF GoodsTypes, InsertDoc
  <2> QED BY <1>b, <1>d, <1>e, <1>5, <2>3, <2>5, NextTypes DEF InsertDoc, broker
<1>6. ASSUME NEW c \in Clients, NEW p \in Products, NEW pc \in Steps, TakeItem(c, p, pc)
      PROVE  CallTypes'
  <2>1. call[c].doc \in 0 .. MaxDocs
    BY Knows
  <2> QED BY <1>6, <2>1, CallTypesGo DEF TakeItem
<1>7. ASSUME NEW c \in Clients, NEW p \in Products, Posting(c, p), Move(c, p), UNCHANGED doc
      PROVE  GoodsTypes'
  BY <1>0, <1>7, Moves DEF GoodsTypes
<1>8. "post" \in Steps /\ AfterRefusal \in Steps /\ "order" \in Steps /\ "publish" \in Steps
  BY DEF Steps, AfterRefusal
<1>9. ASSUME NEW c \in Clients, NEW p \in Products, Post(c, p) PROVE Types'
  BY <1>b, <1>d, <1>e, <1>6, <1>7, <1>8, <1>9, NextTypes DEF Post, broker
<1>10. ASSUME NEW c \in Clients, NEW p \in Products, PostRefused(c, p) PROVE Types'
  BY <1>b, <1>c, <1>d, <1>e, <1>6, <1>8, <1>10, NextTypes DEF PostRefused, goods, broker
<1>11. ASSUME NEW c \in Clients, NEW p \in Products, ReplyLost(c, p) PROVE Types'
  BY <1>b, <1>d, <1>e, <1>6, <1>7, <1>8, <1>11, NextTypes DEF ReplyLost, broker
<1>12. ASSUME NEW c \in Clients, DeleteDoc(c) PROVE Types'
  <2>1. GoodsTypes'
    BY <1>0, <1>f, <1>12, Marks DEF DeleteDoc, GoodsTypes
  <2>2. CallTypes'
    BY <1>12, CallTypesEnd DEF DeleteDoc
  <2> QED BY <1>b, <1>d, <1>e, <1>12, <2>1, <2>2, NextTypes DEF DeleteDoc, broker
<1>13. ASSUME NEW c \in Clients, SyncDoc(c) PROVE Types'
  <2>1. GoodsTypes'
    BY <1>0, <1>f, <1>13, Marks DEF SyncDoc, GoodsTypes
  <2>2. CallTypes'
    BY <1>8, <1>13, Knows, CallTypesGo DEF SyncDoc, Goto
  <2> QED BY <1>b, <1>d, <1>e, <1>13, <2>1, <2>2, NextTypes DEF SyncDoc, broker
<1>14. ASSUME NEW c \in Clients, UpdateOrder(c) PROVE Types'
  <2>1. call[c].order \in Orders /\ call[c].pc = "order"
    BY <1>14, Knows DEF UpdateOrder
  <2>2. UNCHANGED kind
    BY <1>14 DEF UpdateOrder
  <2>3. OrdersTyped'
    BY <1>0, <1>14, <2>1, <2>2, UpdateWrites, Writes DEF OrdersTyped
  <2>4. CallTypes'
    BY <1>8, <1>14, Knows, CallTypesGo DEF UpdateOrder, Goto
  <2> QED BY <1>c, <1>d, <1>e, <1>14, <2>3, <2>4, NextTypes DEF UpdateOrder, broker
<1>15. ASSUME NEW c \in Clients, NEW invoiced \in BOOLEAN, NEW sent \in BOOLEAN,
              Announce(c, invoiced, sent)
       PROVE  Types'
  <2> DEFINE d == call[c].doc
  <2>1. d \in Docs
    BY <1>f, <1>15 DEF Announce
  <2>2. doc[d].state \in {"none", "pending", "synced", "deleted"}
    BY <1>0, <2>1 DEF GoodsTypes, Doc
  <2>3. GoodsTypes'
    BY <1>0, <1>15, <2>1, <2>2, Marks DEF Announce, GoodsTypes
  <2>4. CallTypes'
    BY <1>15, CallTypesEnd DEF Announce
  <2>5. queue' \in [Docs -> Nat]
    BY <1>0, <1>15, <2>1 DEF Announce, BrokerTypes
  <2>6. BrokerTypes' /\ BoundTypes'
    BY <1>0, <1>e, <1>15, <2>5 DEF Announce, BrokerTypes
  <2>7. OrdersTyped'
    BY <1>b, <1>15 DEF Announce
  <2> QED BY <2>3, <2>4, <2>6, <2>7, NextTypes
<1>16. ASSUME NEW c \in Clients, CallEnds(c) PROVE Types'
  BY <1>b, <1>c, <1>d, <1>e, <1>16, CallTypesEnd, NextTypes DEF CallEnds, goods, broker
<1>17. ASSUME NEW d \in Docs, CreateWaybill(d) PROVE Types'
  <2>1. BrokerTypes'
    BY <1>0, <1>17 DEF CreateWaybill, Acknowledged, BrokerTypes
  <2> QED BY <1>a, <1>b, <1>c, <1>e, <1>17, <2>1, NextTypes DEF CreateWaybill, goods
<1>18. ASSUME NEW d \in Docs, Redelivered(d) PROVE Types'
  <2>1. BrokerTypes'
    BY <1>0, <1>18 DEF Redelivered, BrokerTypes
  <2> QED BY <1>a, <1>b, <1>c, <1>e, <1>18, <2>1, NextTypes DEF Redelivered, goods
<1>19. ASSUME NEW d \in Docs, DeadLetter(d) PROVE Types'
  <2>1. BrokerTypes'
    BY <1>0, <1>19 DEF DeadLetter, BrokerTypes
  <2> QED BY <1>a, <1>b, <1>c, <1>e, <1>19, <2>1, NextTypes DEF DeadLetter, goods
<1>20. ASSUME UNCHANGED vars PROVE Types'
  BY <1>a, <1>b, <1>c, <1>d, <1>e, <1>20, NextTypes DEF vars
<1> QED
  BY <1>1, <1>2, <1>3, <1>4, <1>5, <1>9, <1>10, <1>11, <1>12, <1>13, <1>14, <1>15, <1>16,
     <1>17, <1>18, <1>19, <1>20 DEF Next

-----------------------------------------------------------------------------
(* What each step does, in the terms of the invariants.                     *)

\* A call goes on at pc with document d, or is over; the others stay where they are.
Onward(c, pc, d, left) ==
    /\ call'[c].pc = pc /\ call'[c].doc = d /\ call'[c].left = left
    /\ call'[c].order = call[c].order /\ call'[c].to = call[c].to
    /\ call'[c].read = call[c].read /\ call'[c].items = call[c].items
    /\ \A b \in Clients : b # c => call'[b] = call[b]
Over(c) == /\ call'[c].pc = "idle" /\ call'[c].doc = 0
           /\ \A b \in Clients : b # c => call'[b] = call[b]

Marked(d, state, invoiced) ==
    /\ doc'[d].of = doc[d].of /\ doc'[d].items = doc[d].items
    /\ doc'[d].state = state /\ doc'[d].invoiced = invoiced
    /\ \A e \in Docs : e # d => doc'[e] = doc[e]

\* The steps told apart as far as the invariants need.
Started(c, o) ==
    /\ call[c].pc = "idle" /\ call'[c].pc \in {"save", "insert"} /\ call'[c].doc = 0
    /\ call'[c].order = o /\ call'[c].read = order[o]
    /\ call'[c].pc = "save" => /\ call'[c].to \in Statuses[kind[o]] \ {"received"}
                               /\ order[o].status \notin Final(kind[o])
    /\ call'[c].pc = "insert" => /\ order[o].status \in Open(kind[o])
                                 /\ call'[c].left = ItemsOf(call'[c].items)
    /\ \A b \in Clients : b # c => call'[b] = call[b]
    /\ UNCHANGED <<kind, order, doc, moves, queue, waybills, repeated, stale, cut>>

Saved(c) ==
    /\ call[c].pc = "save" /\ Over(c)
    /\ WriteBack(call[c].order, call[c].read, [status |-> call[c].to, got |-> call[c].read.got])
    /\ UNCHANGED <<kind, doc, moves, queue, waybills, repeated, cut>>

Inserted(c, d) ==
    /\ call[c].pc = "insert" /\ doc[d].state = "none" /\ Onward(c, "post", d, call[c].left)
    /\ doc'[d].of = call[c].order /\ doc'[d].items = call[c].items
    /\ doc'[d].state = "pending" /\ doc'[d].invoiced = FALSE
    /\ \A e \in Docs : e # d => doc'[e] = doc[e]
    /\ UNCHANGED <<kind, order, moves, queue, waybills, repeated, stale, cut>>

Posted(c, d, p, pc) ==
    /\ call[c].pc = "post" /\ call[c].doc = d /\ p \in call[c].left
    /\ Onward(c, pc, d, call[c].left \ {p})
    /\ pc = "post" => moves'[d][p] = 1
    /\ \A q \in Products : q # p => moves'[d][q] = moves[d][q]
    /\ \A e \in Docs : e # d => moves'[e] = moves[e]
    /\ UNCHANGED <<kind, order, doc, queue, waybills, repeated, stale, cut>>

Deleted(c, d) ==
    /\ call[c].pc = "undo" /\ call[c].doc = d /\ Over(c) /\ Marked(d, "deleted", FALSE)
    /\ UNCHANGED <<kind, order, moves, queue, waybills, repeated, stale, cut>>

SyncedNow(c, d) ==
    /\ call[c].pc = "post" /\ call[c].doc = d /\ call[c].left = {}
    /\ Onward(c, "order", d, {}) /\ Marked(d, "synced", FALSE)
    /\ UNCHANGED <<kind, order, moves, queue, waybills, repeated, stale, cut>>

Updated(c, d) ==
    /\ call[c].pc = "order" /\ call[c].doc = d /\ Onward(c, "publish", d, call[c].left)
    /\ WriteBack(call[c].order, call[c].read, Update(c))
    /\ UNCHANGED <<kind, doc, moves, queue, waybills, repeated, cut>>

Announced(c, d) ==
    /\ call[c].pc = "publish" /\ call[c].doc = d /\ Over(c)
    /\ \E invoiced \in BOOLEAN : Marked(d, "synced", invoiced)
    /\ queue'[d] \in 0 .. 1 /\ \A e \in Docs : e # d => queue'[e] = queue[e]
    /\ UNCHANGED <<kind, order, moves, waybills, repeated, stale, cut>>

Ended(c) ==
    /\ call[c].pc # "idle" /\ Over(c)
    /\ cut' = IF call[c].doc = 0 THEN cut ELSE cut \cup {call[c].doc}
    /\ UNCHANGED <<kind, order, doc, moves, queue, waybills, repeated, stale>>

Handled(d) ==
    /\ queue[d] > 0
    /\ waybills'[d] + queue'[d] - repeated'[d] <= waybills[d] + queue[d] - repeated[d]
    /\ \A e \in Docs : e # d => /\ queue'[e] = queue[e] /\ waybills'[e] = waybills[e]
                                /\ repeated'[e] = repeated[e]
    /\ UNCHANGED <<kind, order, doc, call, moves, stale, cut>>

Step ==
    \/ \E o \in Orders : Create(o)
    \/ \E c \in Clients, o \in Orders : Started(c, o)
    \/ \E c \in Clients : Saved(c)
    \/ \E c \in Clients, d \in Docs : Inserted(c, d)
    \/ \E c \in Clients, d \in Docs, p \in Products, pc \in {"post", "undo"} : Posted(c, d, p, pc)
    \/ \E c \in Clients, d \in Docs : Deleted(c, d)
    \/ \E c \in Clients, d \in Docs : SyncedNow(c, d)
    \/ \E c \in Clients, d \in Docs : Updated(c, d)
    \/ \E c \in Clients, d \in Docs : Announced(c, d)
    \/ \E c \in Clients : Ended(c)
    \/ \E d \in Docs : Handled(d)
    \/ UNCHANGED vars

\* Those terms, of the calls and documents an action updates.
LEMMA GoesOn ==
    ASSUME Types, CallsOK, NEW c \in Clients, NEW pc \in Steps, NEW d \in Docs,
           NEW left \in SUBSET call[c].left, GoOn(c, pc, d, left)
    PROVE  Onward(c, pc, d, left)
<1>1. left \in SUBSET Products /\ d \in 0 .. MaxDocs
  BY Knows, OrderTypes DEF Types, Docs
<1> QED BY <1>1, Goes DEF Types, Onward

LEMMA IsOver ==
    ASSUME Types, NEW c \in Clients, Done(c)
    PROVE  Over(c)
<1>1. Idle.pc = "idle" /\ Idle.doc = 0
  BY DEF Idle
<1> QED BY <1>1, Ends DEF Types, Over

LEMMA IsMarked ==
    ASSUME Types, NEW d \in Docs, NEW invoiced \in BOOLEAN,
           NEW state \in {"none", "pending", "synced", "deleted"}, SetDoc(d, state, invoiced)
    PROVE  Marked(d, state, invoiced)
BY Marks DEF Types, TypeOK, Marked

\* Every step of the specification is one of these.
LEMMA NextIsStep == Types /\ CallsOK /\ [Next]_vars => Step
<1> SUFFICES ASSUME Types, CallsOK, [Next]_vars PROVE Step
  OBVIOUS
<1>a. \A c \in Clients : call[c].pc \in {"post", "undo", "order", "publish"} => call[c].doc \in Docs
  BY DEF CallsOK, CallOK
<1>b. {"post", "undo", "order", "publish"} \subseteq Steps
  BY DEF Steps
<1>c. queue \in [Docs -> Nat] /\ waybills \in [Docs -> Nat] /\ repeated \in [Docs -> Nat]
  BY TypeParts DEF BrokerTypes
<1>1. ASSUME NEW o \in Orders, Create(o) PROVE Step
  BY <1>1 DEF Step
<1>2. ASSUME NEW c \in Clients, NEW o \in Orders, Edit(c, o) PROVE Started(c, o)
  <2>1. PICK to \in Statuses[kind[o]] \ {"received"} :
          Begins(c, o, "save", to, NoItems) /\ order[o].status \notin Final(kind[o])
    BY <1>2, Edits DEF Types
  <2>2. to \in Words /\ "save" \in Steps
    BY OrderTypes DEF Types, Typed, Steps
  <2>3. /\ call'[c].pc = "save" /\ call'[c].doc = 0 /\ call'[c].order = o /\ call'[c].to = to
        /\ call'[c].read = order[o] /\ \A b \in Clients : b # c => call'[b] = call[b]
        /\ UNCHANGED <<goods, broker, stale, cut>>
    BY <2>1, <2>2, Starts DEF Types
  <2>4. call[c].pc = "idle"
    BY <2>1 DEF Begins
  <2> QED BY <2>1, <2>3, <2>4 DEF Started, goods, broker
<1>3. ASSUME NEW c \in Clients, Save(c) PROVE Saved(c)
  BY <1>3, IsOver DEF Save, Saved, broker
<1>4. ASSUME NEW c \in Clients, NEW o \in Orders, NEW items \in ItemLists, Receive(c, o, items)
      PROVE  Started(c, o)
  <2>1. "insert" \in Steps /\ "none" \in Words
    BY DEF Steps, Words
  <2>2. Begins(c, o, "insert", "none", items) /\ order[o].status \in Open(kind[o])
    BY <1>4 DEF Receive
  <2>3. /\ call'[c].pc = "insert" /\ call'[c].doc = 0 /\ call'[c].order = o
        /\ call'[c].left = ItemsOf(items) /\ call'[c].items = items
        /\ call'[c].read = order[o] /\ \A b \in Clients : b # c => call'[b] = call[b]
        /\ UNCHANGED <<goods, broker, stale, cut>>
    BY <2>1, <2>2, Starts DEF Types
  <2>4. call[c].pc = "idle"
    BY <2>2 DEF Begins
  <2> QED BY <2>2, <2>3, <2>4 DEF Started, goods, broker
<1>5. ASSUME NEW c \in Clients, InsertDoc(c) PROVE \E d \in Docs : Inserted(c, d)
  <2>1. PICK d \in Docs :
          /\ doc[d].state = "none"
          /\ doc' = [doc EXCEPT ![d] = [of |-> call[c].order, items |-> call[c].items,
                                        state |-> "pending", invoiced |-> FALSE]]
          /\ GoOn(c, "post", d, call[c].left)
    BY <1>5 DEF InsertDoc
  <2>2. Onward(c, "post", d, call[c].left)
    BY <1>b, <2>1, GoesOn
  <2>3. /\ doc'[d].of = call[c].order /\ doc'[d].items = call[c].items
        /\ doc'[d].state = "pending" /\ doc'[d].invoiced = FALSE
        /\ \A e \in Docs : e # d => doc'[e] = doc[e]
    BY <2>1 DEF Types, TypeOK
  <2> QED BY <1>5, <2>1, <2>2, <2>3 DEF Inserted, InsertDoc, broker
<1>6. ASSUME NEW c \in Clients, NEW p \in Products, Posting(c, p), NEW pc \in {"post", "undo"},
             TakeItem(c, p, pc), UNCHANGED <<kind, order, doc, broker, stale, cut>>,
             Move(c, p) \/ (pc = "undo" /\ UNCHANGED moves)
      PROVE  Step
  <2>1. Onward(c, pc, call[c].doc, call[c].left \ {p})
    BY <1>a, <1>b, <1>6, GoesOn DEF Posting, TakeItem
  <2>2. /\ pc = "post" => moves'[call[c].doc][p] = 1
        /\ \A q \in Products : q # p => moves'[call[c].doc][q] = moves[call[c].doc][q]
        /\ \A e \in Docs : e # call[c].doc => moves'[e] = moves[e]
    BY <1>6, Moves DEF Types
  <2>3. Posted(c, call[c].doc, p, pc)
    BY <1>6, <2>1, <2>2 DEF Posted, Posting, broker
  <2> QED BY <1>a, <1>6, <2>3 DEF Step, Posting
<1>7. AfterRefusal \in {"post", "undo"} /\ AfterRefusal = "undo"
  BY DEF AfterRefusal
<1>8. ASSUME NEW c \in Clients, NEW p \in Products, Post(c, p) PROVE Step
  <2>1. /\ Posting(c, p) /\ Move(c, p) /\ TakeItem(c, p, "post")
        /\ UNCHANGED <<kind, order, doc, broker, stale, cut>>
    BY <1>8 DEF Post
  <2> QED BY <1>6, <2>1
<1>9. ASSUME NEW c \in Clients, NEW p \in Products, PostRefused(c, p) PROVE Step
  <2>1. /\ Posting(c, p) /\ TakeItem(c, p, AfterRefusal)
        /\ UNCHANGED <<kind, order, doc, broker, stale, cut>> /\ UNCHANGED moves
    BY <1>9 DEF PostRefused, goods
  <2> QED BY <1>6, <1>7, <2>1
<1>10. ASSUME NEW c \in Clients, NEW p \in Products, ReplyLost(c, p) PROVE Step
  <2>1. /\ Posting(c, p) /\ Move(c, p) /\ TakeItem(c, p, AfterRefusal)
        /\ UNCHANGED <<kind, order, doc, broker, stale, cut>>
    BY <1>10 DEF ReplyLost
  <2> QED BY <1>6, <1>7, <2>1
<1>11. ASSUME NEW c \in Clients, DeleteDoc(c) PROVE call[c].doc \in Docs /\ Deleted(c, call[c].doc)
  BY <1>a, <1>11, IsOver, IsMarked DEF DeleteDoc, Deleted, broker
<1>12. ASSUME NEW c \in Clients, SyncDoc(c) PROVE call[c].doc \in Docs /\ SyncedNow(c, call[c].doc)
  <2>1. Onward(c, "order", call[c].doc, call[c].left)
    BY <1>a, <1>b, <1>12, GoesOn DEF SyncDoc, Goto
  <2> QED BY <1>a, <1>12, <2>1, IsMarked DEF SyncDoc, SyncedNow, broker
<1>13. ASSUME NEW c \in Clients, UpdateOrder(c) PROVE call[c].doc \in Docs /\ Updated(c, call[c].doc)
  <2>1. Onward(c, "publish", call[c].doc, call[c].left)
    BY <1>a, <1>b, <1>13, GoesOn DEF UpdateOrder, Goto
  <2>2. WriteBack(call[c].order, call[c].read, Update(c))
    BY <1>13, UpdateWrites DEF Types, UpdateOrder
  <2> QED BY <1>a, <1>13, <2>1, <2>2 DEF UpdateOrder, Updated, broker
<1>14. ASSUME NEW c \in Clients, NEW invoiced \in BOOLEAN, NEW sent \in BOOLEAN,
              Announce(c, invoiced, sent)
       PROVE  call[c].doc \in Docs /\ Announced(c, call[c].doc)
  <2> DEFINE d == call[c].doc
  <2>1. /\ call[c].pc = "publish" /\ Done(c) /\ SetDoc(d, doc[d].state, invoiced)
        /\ queue' = IF sent THEN [queue EXCEPT ![d] = @ + 1] ELSE queue
        /\ UNCHANGED <<kind, order, moves, waybills, repeated, stale, cut>>
    BY <1>14 DEF Announce
  <2>2. d \in Docs /\ doc[d].state = "synced" /\ queue[d] + waybills[d] = 0
    BY <2>1 DEF CallsOK, CallOK
  <2>3. Marked(d, "synced", invoiced) /\ Over(c)
    BY <2>1, <2>2, IsMarked, IsOver
  <2> HIDE DEF d
  <2>4. queue[d] = 0 /\ waybills[d] = 0
    BY <1>c, <2>2
  <2>5. queue'[d] \in 0 .. 1 /\ \A e \in Docs : e # d => queue'[e] = queue[e]
    BY <1>c, <2>1, <2>2, <2>4
  <2> QED BY <2>1, <2>2, <2>3, <2>5 DEF Announced, d
<1>15. ASSUME NEW c \in Clients, CallEnds(c) PROVE Ended(c)
  BY <1>15, IsOver DEF CallEnds, Ended, goods, broker
<1>16. ASSUME NEW d \in Docs, CreateWaybill(d) PROVE Handled(d)
  BY <1>c, <1>16 DEF CreateWaybill, Acknowledged, Handled, goods
<1>17. ASSUME NEW d \in Docs, Redelivered(d) PROVE Handled(d)
  BY <1>c, <1>17 DEF Redelivered, Handled, goods
<1>18. ASSUME NEW d \in Docs, DeadLetter(d) PROVE Handled(d)
  BY <1>c, <1>18 DEF DeadLetter, Handled, goods
<1>19. CASE Next
  BY <1>1, <1>2, <1>3, <1>4, <1>5, <1>8, <1>9, <1>10, <1>11, <1>12, <1>13, <1>14, <1>15,
     <1>16, <1>17, <1>18, <1>19 DEF Next, Step
<1> QED BY <1>19 DEF Step

-----------------------------------------------------------------------------
(* The calls.                                                               *)

\* A call that no step touches, and whose document none does, knows what it knew.
DocKept(d) == /\ doc'[d].of = doc[d].of /\ doc'[d].items = doc[d].items
              /\ doc'[d].state = doc[d].state /\ moves'[d] = moves[d]
              /\ queue'[d] = queue[d] /\ waybills'[d] = waybills[d]

LEMMA CallKept ==
    ASSUME NEW b \in Clients, CallOK(b), call'[b] = call[b], UNCHANGED kind,
           call[b].doc \in Docs => DocKept(call[b].doc)
    PROVE  CallOK(b)'
<1>1. call[b].pc \in {"post", "undo", "order", "publish"} => DocKept(call[b].doc)
  BY DEF CallOK
<1> QED BY <1>1 DEF CallOK, DocKept

\* The other calls know what they knew when a call only touches its own document.
LEMMA OthersKept ==
    ASSUME CallsOK, Owned, NEW c \in Clients, UNCHANGED kind,
           \A b \in Clients : b # c => call'[b] = call[b],
           \A d \in Docs : d # call[c].doc => DocKept(d)
    PROVE  \A b \in Clients : b # c => CallOK(b)'
<1> SUFFICES ASSUME NEW b \in Clients, b # c PROVE CallOK(b)'
  OBVIOUS
<1>1. call[b].doc \in Docs => call[b].doc # call[c].doc
  BY OrderTypes DEF Owned, Docs
<1> QED BY <1>1, CallKept DEF CallsOK

\* A step that makes no call and touches no document of one.
LEMMA AllKept ==
    ASSUME CallsOK, UNCHANGED <<kind, call>>,
           \A b \in Clients : call[b].doc \in Docs => DocKept(call[b].doc)
    PROVE  CallsOK'
<1> SUFFICES ASSUME NEW b \in Clients PROVE CallOK(b)'
  BY DEF CallsOK
<1> QED BY CallKept DEF CallsOK

\* Calls that came to their end, and all others, know what they knew.
LEMMA EndKnows ==
    ASSUME CallsOK, Owned, NEW c \in Clients, Over(c), UNCHANGED kind,
           \A d \in Docs : d # call[c].doc => DocKept(d)
    PROVE  CallsOK'
<1>1. CallOK(c)'
  BY DEF Over, CallOK
<1> QED BY <1>1, OthersKept DEF CallsOK, Over

LEMMA CallsInit == Init => CallsOK
<1>1. Idle.pc = "idle" /\ Idle.doc = 0
  BY DEF Idle
<1> QED BY <1>1 DEF Init, CallsOK, CallOK

\* A document in the hands of a call is there, and was not announced yet.
LEMMA OwnedDocs ==
    ASSUME Types, CallsOK, WaybillIsEarned, NEW c \in Clients, call[c].doc \in Docs
    PROVE  /\ call[c].pc \in {"post", "undo", "order", "publish"}
           /\ doc[call[c].doc].state \in {"pending", "synced"}
           /\ queue[call[c].doc] = 0 /\ waybills[call[c].doc] = 0
<1> DEFINE d == call[c].doc
<1>1. d # 0
  BY OrderTypes DEF Docs
<1>2. call[c].pc \in {"post", "undo", "order", "publish"}
  BY <1>1, Knows DEF Types, CallsOK, CallOK, Steps
<1>3. doc[d].state \in {"pending", "synced"}
  BY <1>2 DEF CallsOK, CallOK
<1>4. queue[d] \in Nat /\ waybills[d] \in Nat
  BY TypeParts DEF BrokerTypes
<1>5. call[c].pc \in {"order", "publish"} => queue[d] + waybills[d] = 0
  BY DEF CallsOK, CallOK
<1>6. call[c].pc \in {"post", "undo"} => doc[d].state # "synced"
  BY DEF CallsOK, CallOK
<1> HIDE DEF d
<1>7. doc[d].state # "synced" => ~ (waybills[d] + queue[d] > 0)
  BY DEF WaybillIsEarned, d
<1>8. queue[d] + waybills[d] = 0
  BY <1>2, <1>4, <1>5, <1>6, <1>7
<1> QED BY <1>2, <1>3, <1>4, <1>8 DEF d

LEMMA CallsStep ==
    Types /\ CallsOK /\ Owned /\ Fresh /\ WaybillIsEarned /\ Step => CallsOK'
<1> SUFFICES ASSUME Types, CallsOK, Owned, Fresh, WaybillIsEarned, Step PROVE CallsOK'
  OBVIOUS
<1>a. UNCHANGED <<doc, moves, queue, waybills>> => \A d \in Docs : DocKept(d)
  BY DEF DocKept
<1>1. ASSUME NEW o \in Orders, Create(o) PROVE CallsOK'
  BY <1>a, <1>1, AllKept DEF Create, broker
<1>2. ASSUME NEW c \in Clients, NEW o \in Orders, Started(c, o) PROVE CallsOK'
  <2>1. order[o] \in Order(kind[o])
    BY DEF Types, TypeOK
  <2>2. CallOK(c)'
    BY <1>2, <2>1 DEF Started, CallOK, ItemsOf
  <2>3. UNCHANGED kind /\ \A d \in Docs : DocKept(d)
    BY <1>a, <1>2 DEF Started
  <2>4. \A b \in Clients : b # c => CallOK(b)'
    BY <1>2, <2>3, OthersKept DEF Started
  <2> QED BY <2>2, <2>4 DEF CallsOK
<1>3. ASSUME NEW c \in Clients, Saved(c) PROVE CallsOK'
  BY <1>a, <1>3, EndKnows DEF Saved
<1>4. ASSUME NEW c \in Clients, NEW d \in Docs, Inserted(c, d) PROVE CallsOK'
  <2>1. /\ call[c].order \in Orders /\ call[c].read \in Order(kind[call[c].order])
        /\ call[c].read.status \in Open(kind[call[c].order])
        /\ call[c].left = ItemsOf(call[c].items)
    BY <1>4 DEF Inserted, CallsOK, CallOK
  <2>2. \A p \in Products : moves'[d][p] = 0
    BY <1>4 DEF Inserted, Fresh, NoItems
  <2>3. CallOK(c)'
    BY <1>4, <2>1, <2>2 DEF Inserted, Onward, CallOK, ItemsOf
  <2>4. \A e \in Docs : e # d => DocKept(e)
    BY <1>4 DEF Inserted, DocKept
  <2>5. \A b \in Clients : call[b].doc \in Docs => call[b].doc # d
    BY <1>4, OwnedDocs DEF Inserted
  <2>6. \A b \in Clients : b # c => CallOK(b)'
    BY <1>4, <2>4, <2>5, CallKept DEF CallsOK, Inserted, Onward
  <2> QED BY <2>3, <2>6 DEF CallsOK
<1>5. ASSUME NEW c \in Clients, NEW d \in Docs, NEW p \in Products, NEW pc \in {"post", "undo"},
             Posted(c, d, p, pc)
      PROVE  CallsOK'
  <2>1. /\ doc[d].of = call[c].order /\ doc[d].items = call[c].items
        /\ doc[d].state = "pending" /\ call[c].order \in Orders
        /\ call[c].read \in Order(kind[call[c].order])
        /\ call[c].read.status \in Open(kind[call[c].order])
        /\ \A q \in Products :
             moves[d][q] = IF q \in ItemsOf(call[c].items) \ call[c].left THEN 1 ELSE 0
    BY <1>5 DEF Posted, CallsOK, CallOK
  <2>2. p \in ItemsOf(call[c].items)
    BY <1>5, Knows DEF Types, Posted
  <2>3. pc = "post" =>
          \A q \in Products :
            moves'[d][q] = IF q \in ItemsOf(call[c].items) \ (call[c].left \ {p}) THEN 1 ELSE 0
    BY <1>5, <2>1, <2>2 DEF Posted
  <2>4. CallOK(c)'
    BY <1>5, <2>1, <2>3 DEF Posted, Onward, CallOK, ItemsOf
  <2>5. \A e \in Docs : e # d => DocKept(e)
    BY <1>5 DEF Posted, DocKept
  <2>6. \A b \in Clients : b # c => CallOK(b)'
    BY <1>5, <2>5, OthersKept DEF Posted, Onward
  <2> QED BY <2>4, <2>6 DEF CallsOK
<1>6. ASSUME NEW c \in Clients, NEW d \in Docs, Deleted(c, d) PROVE CallsOK'
  <2>1. \A e \in Docs : e # d => DocKept(e)
    BY <1>6 DEF Deleted, Marked, DocKept
  <2> QED BY <1>6, <2>1, EndKnows DEF Deleted
<1>7. ASSUME NEW c \in Clients, NEW d \in Docs, SyncedNow(c, d) PROVE CallsOK'
  <2>1. /\ call[c].order \in Orders /\ call[c].read \in Order(kind[call[c].order])
        /\ call[c].read.status \in Open(kind[call[c].order])
        /\ doc[d].of = call[c].order /\ doc[d].items = call[c].items
    BY <1>7 DEF SyncedNow, CallsOK, CallOK
  <2>2. queue[d] = 0 /\ waybills[d] = 0
    BY <1>7, OwnedDocs DEF SyncedNow
  <2>3. CallOK(c)'
    BY <1>7, <2>1, <2>2 DEF SyncedNow, Onward, Marked, CallOK
  <2>4. \A e \in Docs : e # d => DocKept(e)
    BY <1>7 DEF SyncedNow, Marked, DocKept
  <2>5. \A b \in Clients : b # c => CallOK(b)'
    BY <1>7, <2>4, OthersKept DEF SyncedNow, Onward
  <2> QED BY <2>3, <2>5 DEF CallsOK
<1>8. ASSUME NEW c \in Clients, NEW d \in Docs, Updated(c, d) PROVE CallsOK'
  <2>1. /\ call[c].order \in Orders /\ call[c].read \in Order(kind[call[c].order])
        /\ doc[d].of = call[c].order /\ doc[d].items = call[c].items
        /\ doc[d].state = "synced" /\ queue[d] + waybills[d] = 0
    BY <1>8 DEF Updated, CallsOK, CallOK
  <2>2. CallOK(c)'
    BY <1>8, <2>1 DEF Updated, Onward, CallOK
  <2>3. \A e \in Docs : DocKept(e)
    BY <1>a, <1>8 DEF Updated
  <2>4. \A b \in Clients : b # c => CallOK(b)'
    BY <1>8, <2>3, OthersKept DEF Updated, Onward
  <2> QED BY <2>2, <2>4 DEF CallsOK
<1>9. ASSUME NEW c \in Clients, NEW d \in Docs, Announced(c, d) PROVE CallsOK'
  <2>1. \A e \in Docs : e # d => DocKept(e)
    BY <1>9 DEF Announced, Marked, DocKept
  <2> QED BY <1>9, <2>1, EndKnows DEF Announced
<1>10. ASSUME NEW c \in Clients, Ended(c) PROVE CallsOK'
  BY <1>a, <1>10, EndKnows DEF Ended
<1>11. ASSUME NEW d \in Docs, Handled(d) PROVE CallsOK'
  <2>1. \A b \in Clients : call[b].doc \in Docs => call[b].doc # d
    BY <1>11, OwnedDocs DEF Handled
  <2>2. \A e \in Docs : e # d => DocKept(e)
    BY <1>11 DEF DocKept, Handled
  <2> QED BY <1>11, <2>1, <2>2, AllKept DEF Handled
<1>12. ASSUME UNCHANGED vars PROVE CallsOK'
  BY <1>a, <1>12, AllKept DEF vars
<1> QED
  BY <1>1, <1>2, <1>3, <1>4, <1>5, <1>6, <1>7, <1>8, <1>9, <1>10, <1>11, <1>12 DEF Step

\* A call only gets a document by inserting it.
LEMMA OwnedStep ==
    Types /\ CallsOK /\ WaybillIsEarned /\ Owned /\ Step => Owned'
<1> SUFFICES ASSUME Types, CallsOK, WaybillIsEarned, Owned, Step PROVE Owned'
  OBVIOUS
<1>1. ASSUME NEW c \in Clients, call'[c].doc \in {0, call[c].doc},
             \A b \in Clients : b # c => call'[b] = call[b]
      PROVE  Owned'
  BY <1>1 DEF Owned
<1>2. ASSUME NEW o \in Orders, Create(o) PROVE Owned'
  BY <1>2 DEF Create, Owned
<1>3. ASSUME NEW c \in Clients, NEW d \in Docs, Inserted(c, d) PROVE Owned'
  <2>1. \A b \in Clients : call[b].doc \in Docs => call[b].doc # d
    BY <1>3, OwnedDocs DEF Inserted
  <2> QED BY <1>3, <2>1 DEF Owned, Inserted, Onward
<1>4. ASSUME NEW d \in Docs, Handled(d) PROVE Owned'
  BY <1>4 DEF Handled, Owned
<1>5. ASSUME NEW c \in Clients, Over(c) PROVE Owned'
  BY <1>1, <1>5 DEF Over
<1>6. ASSUME NEW c \in Clients, NEW pc, NEW left, Onward(c, pc, call[c].doc, left) PROVE Owned'
  BY <1>1, <1>6 DEF Onward
<1>7. ASSUME NEW c \in Clients, NEW o \in Orders, Started(c, o) PROVE Owned'
  BY <1>1, <1>7 DEF Started
<1>8. ASSUME NEW c \in Clients, NEW d \in Docs, NEW p \in Products, NEW pc \in {"post", "undo"},
             Posted(c, d, p, pc)
      PROVE  Owned'
  BY <1>6, <1>8 DEF Posted
<1>9. ASSUME NEW c \in Clients, NEW d \in Docs, SyncedNow(c, d) \/ Updated(c, d) PROVE Owned'
  BY <1>6, <1>9 DEF SyncedNow, Updated
<1>10. ASSUME UNCHANGED vars PROVE Owned'
  BY <1>10 DEF vars, Owned
<1> QED
  BY <1>2, <1>3, <1>4, <1>5, <1>7, <1>8, <1>9, <1>10
  DEF Step, Saved, Deleted, Announced, Ended

-----------------------------------------------------------------------------
(* The documents.                                                           *)

\* Movements are made for documents in the hands of a call, and only while it posts.
LEMMA FreshStep == Types /\ CallsOK /\ Fresh /\ Step => Fresh'
<1> SUFFICES ASSUME Types, CallsOK, Fresh, Step PROVE Fresh'
  OBVIOUS
<1>1. ASSUME \A d \in Docs : doc'[d].state = "none" => doc[d].state = "none" /\ moves'[d] = moves[d]
      PROVE  Fresh'
  BY <1>1 DEF Fresh
<1>2. ASSUME NEW c \in Clients, NEW d \in Docs, NEW p \in Products, NEW pc \in {"post", "undo"},
             Posted(c, d, p, pc)
      PROVE  Fresh'
  <2>1. doc[d].state = "pending"
    BY <1>2 DEF Posted, CallsOK, CallOK
  <2> QED BY <1>1, <1>2, <2>1 DEF Posted
<1> QED
  BY <1>1, <1>2
  DEF Step, Create, Started, Saved, Inserted, Deleted, SyncedNow, Updated, Announced, Ended, Handled,
      Marked, vars

\* A call syncs its document when it has nothing left to post.
LEMMA SyncedStep == Types /\ CallsOK /\ SyncedIsMoved /\ Step => SyncedIsMoved'
<1> SUFFICES ASSUME Types, CallsOK, SyncedIsMoved, Step PROVE SyncedIsMoved'
  OBVIOUS
<1>1. ASSUME \A d \in Docs : doc'[d].state = "synced" =>
               doc[d].state = "synced" /\ doc'[d].items = doc[d].items /\ moves'[d] = moves[d]
      PROVE  SyncedIsMoved'
  BY <1>1 DEF SyncedIsMoved
<1>2. ASSUME NEW c \in Clients, NEW d \in Docs, NEW p \in Products, NEW pc \in {"post", "undo"},
             Posted(c, d, p, pc)
      PROVE  SyncedIsMoved'
  <2>1. doc[d].state = "pending"
    BY <1>2 DEF Posted, CallsOK, CallOK
  <2> QED BY <1>1, <1>2, <2>1 DEF Posted
<1>3. ASSUME NEW c \in Clients, NEW d \in Docs, SyncedNow(c, d) PROVE SyncedIsMoved'
  <2>1. /\ doc[d].items = call[c].items
        /\ \A p \in Products : moves[d][p] = IF p \in ItemsOf(call[c].items) THEN 1 ELSE 0
    BY <1>3 DEF SyncedNow, CallsOK, CallOK
  <2>2. \A p \in Products : moves'[d][p] = IF doc'[d].items[p] > 0 THEN 1 ELSE 0
    BY <1>3, <2>1 DEF SyncedNow, Marked, ItemsOf
  <2> QED BY <1>3, <2>2 DEF SyncedNow, Marked, SyncedIsMoved
<1>4. ASSUME NEW c \in Clients, NEW d \in Docs, Announced(c, d) PROVE SyncedIsMoved'
  <2>1. doc[d].state = "synced"
    BY <1>4 DEF Announced, CallsOK, CallOK
  <2> QED BY <1>1, <1>4, <2>1 DEF Announced, Marked
<1> QED
  BY <1>1, <1>2, <1>3, <1>4
  DEF Step, Create, Started, Saved, Inserted, Deleted, Updated, Ended, Handled, Marked, vars

\* Only synced documents are announced, once, and none of them is withdrawn.
LEMMA WaybillStep ==
    Types /\ Types' /\ CallsOK /\ WaybillIsEarned /\ Step => WaybillIsEarned'
<1> SUFFICES ASSUME Types, Types', CallsOK, WaybillIsEarned, Step PROVE WaybillIsEarned'
  OBVIOUS
<1>a. queue \in [Docs -> Nat] /\ waybills \in [Docs -> Nat] /\ repeated \in [Docs -> Nat]
  BY TypeParts DEF BrokerTypes
<1> DEFINE Earned(d) == /\ waybills[d] + queue[d] > 0 \/ doc[d].invoiced => doc[d].state = "synced"
                        /\ waybills[d] + queue[d] <= 1 + repeated[d]
<1>b. /\ WaybillIsEarned <=> \A d \in Docs : Earned(d)
      /\ WaybillIsEarned' <=> \A d \in Docs : Earned(d)'
  BY DEF WaybillIsEarned
<1>c. ASSUME NEW d \in Docs, doc'[d] = doc[d], queue'[d] = queue[d], waybills'[d] = waybills[d],
             repeated'[d] = repeated[d]
      PROVE  Earned(d)'
  BY <1>b, <1>c
<1>1. ASSUME UNCHANGED <<doc, queue, waybills, repeated>> PROVE WaybillIsEarned'
  BY <1>b, <1>c, <1>1
<1>2. ASSUME NEW c \in Clients, NEW d \in Docs, Inserted(c, d) PROVE WaybillIsEarned'
  <2>1. Earned(d)'
    <3>1. doc[d].state = "none" /\ doc'[d].invoiced = FALSE
          /\ UNCHANGED <<queue, waybills, repeated>>
      BY <1>2 DEF Inserted
    <3>2. Earned(d)
      BY <1>b
    <3> QED BY <3>1, <3>2
  <2>2. \A e \in Docs : e # d => Earned(e)'
    BY <1>2, <1>c DEF Inserted
  <2> QED BY <1>b, <2>1, <2>2
<1>3. ASSUME NEW c \in Clients, NEW d \in Docs, Deleted(c, d) PROVE WaybillIsEarned'
  <2>1. Earned(d)'
    <3>1. doc[d].state = "pending" /\ doc'[d].invoiced = FALSE
          /\ UNCHANGED <<queue, waybills, repeated>>
      BY <1>3 DEF Deleted, Marked, CallsOK, CallOK
    <3>2. Earned(d)
      BY <1>b
    <3> QED BY <3>1, <3>2
  <2>2. \A e \in Docs : e # d => Earned(e)'
    BY <1>3, <1>c DEF Deleted, Marked
  <2> QED BY <1>b, <2>1, <2>2
<1>4. ASSUME NEW c \in Clients, NEW d \in Docs, SyncedNow(c, d) PROVE WaybillIsEarned'
  <2>1. Earned(d)'
    <3>1. doc'[d].state = "synced" /\ UNCHANGED <<queue, waybills, repeated>>
      BY <1>4 DEF SyncedNow, Marked
    <3>2. Earned(d)
      BY <1>b
    <3> QED BY <3>1, <3>2
  <2>2. \A e \in Docs : e # d => Earned(e)'
    BY <1>4, <1>c DEF SyncedNow, Marked
  <2> QED BY <1>b, <2>1, <2>2
<1>5. ASSUME NEW c \in Clients, NEW d \in Docs, Announced(c, d) PROVE WaybillIsEarned'
  <2>1. Earned(d)'
    <3>1. doc'[d].state = "synced" /\ queue'[d] \in 0 .. 1 /\ UNCHANGED <<waybills, repeated>>
      BY <1>5 DEF Announced, Marked
    <3>2. queue[d] + waybills[d] = 0
      BY <1>5 DEF Announced, CallsOK, CallOK
    <3>3. waybills[d] = 0
      BY <1>a, <3>2
    <3> QED BY <1>a, <3>1, <3>3
  <2>2. \A e \in Docs : e # d => Earned(e)'
    BY <1>5, <1>c DEF Announced, Marked
  <2> QED BY <1>b, <2>1, <2>2
<1>6. ASSUME NEW d \in Docs, Handled(d) PROVE WaybillIsEarned'
  <2>1. Earned(d)'
    <3>1. /\ queue[d] > 0 /\ UNCHANGED doc
          /\ waybills'[d] + queue'[d] - repeated'[d] <= waybills[d] + queue[d] - repeated[d]
      BY <1>6 DEF Handled
    <3>2. queue'[d] \in Nat /\ waybills'[d] \in Nat /\ repeated'[d] \in Nat
      BY DEF Types, TypeOK
    <3>3. Earned(d)
      BY <1>b
    <3> QED BY <1>a, <3>1, <3>2, <3>3
  <2>2. \A e \in Docs : e # d => Earned(e)'
    BY <1>6, <1>c DEF Handled
  <2> QED BY <1>b, <2>1, <2>2
<1> QED
  BY <1>1, <1>2, <1>3, <1>4, <1>5, <1>6
  DEF Step, Create, Started, Saved, Posted, Updated, Ended, broker, vars

-----------------------------------------------------------------------------
(* The orders.                                                              *)

\* The orders a step may change, and how.
LEMMA SaveDoes ==
    ASSUME Types, CallsOK, NEW c \in Clients, Saved(c)
    PROVE  \E o \in Orders :
             /\ o = call[c].order
             /\ order'[o].status \in Statuses[kind[o]] \ {"received"}
             /\ order'[o].got = call[c].read.got
             /\ call[c].read.status \notin Final(kind[o])
             /\ \A r \in Orders : r # o => order'[r] = order[r]
             /\ stale \subseteq stale'
             /\ o \notin stale' => order[o] = call[c].read
<1> DEFINE new == [status |-> call[c].to, got |-> call[c].read.got]
<1>1. call[c].order \in Orders /\ new \in Order(kind[call[c].order])
  BY SaveWrites DEF Types, Saved, CallsOK, CallOK
<1>2. /\ call[c].to \in Statuses[kind[call[c].order]] \ {"received"}
      /\ call[c].read.status \notin Final(kind[call[c].order])
  BY DEF Saved, CallsOK, CallOK
<1>3. WriteBack(call[c].order, call[c].read, new) /\ UNCHANGED kind
  BY DEF Saved
<1>4. new.status = call[c].to /\ new.got = call[c].read.got
  OBVIOUS
<1> HIDE DEF new
<1>5. /\ order'[call[c].order] = new
      /\ \A r \in Orders : r # call[c].order => order'[r] = order[r]
      /\ stale \subseteq stale'
      /\ call[c].order \notin stale' => order[call[c].order] = call[c].read
  BY <1>1, <1>3, Writes DEF Types
<1> QED BY <1>1, <1>2, <1>4, <1>5

LEMMA UpdateDoes ==
    ASSUME Types, CallsOK, NEW c \in Clients, NEW d \in Docs, Updated(c, d)
    PROVE  \E o \in Orders :
             /\ o = call[c].order
             /\ order'[o] = Update(c)
             /\ call[c].read.status \in Open(kind[o])
             /\ \A r \in Orders : r # o => order'[r] = order[r]
             /\ stale \subseteq stale'
             /\ o \notin stale' => order[o] = call[c].read
<1>1. call[c].order \in Orders /\ Update(c) \in Order(kind[call[c].order])
  BY UpdateWrites DEF Types, Updated, CallsOK, CallOK
<1>2. call[c].read.status \in Open(kind[call[c].order])
  BY DEF Updated, CallsOK, CallOK
<1>3. WriteBack(call[c].order, call[c].read, Update(c)) /\ UNCHANGED kind
  BY DEF Updated
<1>4. /\ order'[call[c].order] = Update(c)
      /\ \A r \in Orders : r # call[c].order => order'[r] = order[r]
      /\ stale \subseteq stale'
      /\ call[c].order \notin stale' => order[call[c].order] = call[c].read
  BY <1>1, <1>3, Writes DEF Types
<1> QED BY <1>1, <1>2, <1>4

\* The receipt as Update writes it.
LEMMA UpdateIs ==
    ASSUME Types, CallsOK, NEW c \in Clients, call[c].pc = "order"
    PROVE  /\ Update(c).status \in {"received", "partial", "shipped"}
           /\ kind[call[c].order] = "purchase" =>
                /\ Update(c).status = "received" <=> \A p \in Lines : Update(c).got[p] >= Ordered
                /\ \A p \in Lines : Update(c).got[p] = call[c].read.got[p] + call[c].items[p]
           /\ Update(c).status = "received" => kind[call[c].order] = "purchase"
<1> DEFINE got == Received(call[c].read, call[c].items)
<1>1. Update(c) = IF kind[call[c].order] = "purchase"
                    THEN [status |-> IF AllReceived(got) THEN "received" ELSE "partial", got |-> got]
                    ELSE [status |-> "shipped", got |-> call[c].read.got]
  BY DEF Update
<1>2. \A p \in Lines : got[p] = call[c].read.got[p] + call[c].items[p]
  BY OrderTypes DEF Received
<1>3. AllReceived(got) <=> \A p \in Lines : got[p] >= Ordered
  BY DEF AllReceived
<1> HIDE DEF got
<1> QED BY <1>1, <1>2, <1>3

\* Orders are only written by calls that read an order there was.
LEMMA BlankStep == Types /\ CallsOK /\ Blank /\ Step => Blank'
<1> SUFFICES ASSUME Types, CallsOK, Blank, Step PROVE Blank'
  OBVIOUS
<1>1. ASSUME NEW o \in Orders, Create(o) PROVE Blank'
  <2>1. order'[o].status = "draft" /\ \A r \in Orders : r # o => order'[r] = order[r]
    BY <1>1 DEF Create, Types, Typed
  <2> QED BY <2>1 DEF Blank
<1>2. ASSUME NEW c \in Clients, Saved(c) PROVE Blank'
  <2>1. \A o \in Orders : "none" \notin Statuses[kind[o]]
    BY OrderTypes DEF Types, Typed
  <2> QED BY <1>2, <2>1, SaveDoes DEF Blank
<1>3. ASSUME NEW c \in Clients, NEW d \in Docs, Updated(c, d) PROVE Blank'
  <2>1. Update(c).status # "none"
    BY <1>3, UpdateIs DEF Updated
  <2> QED BY <1>3, <2>1, UpdateDoes DEF Blank
<1>4. ASSUME UNCHANGED order PROVE Blank'
  BY <1>4 DEF Blank
<1> QED
  BY <1>1, <1>2, <1>3, <1>4
  DEF Step, Started, Inserted, Posted, Deleted, SyncedNow, Announced, Ended, Handled, vars

\* Only UpdateOrder makes an order received, and it examines every line.
LEMMA CompleteStep ==
    Types /\ CallsOK /\ ReceivedIsComplete /\ Step => ReceivedIsComplete'
<1> SUFFICES ASSUME Types, CallsOK, ReceivedIsComplete, Step PROVE ReceivedIsComplete'
  OBVIOUS
<1> DEFINE Complete(o) == order[o].status = "received" <=> \A p \in Lines : order[o].got[p] >= Ordered
           Told(o) == kind[o] = "purchase" /\ o \notin stale => Complete(o)
<1>a. /\ ReceivedIsComplete <=> \A o \in Orders : Told(o)
      /\ ReceivedIsComplete' <=> \A o \in Orders : Told(o)'
  BY DEF ReceivedIsComplete
<1>b. ASSUME NEW o \in Orders, order'[o] = order[o], UNCHANGED kind, stale \subseteq stale'
      PROVE  Told(o)'
  BY <1>a, <1>b
<1>1. ASSUME NEW o \in Orders, Create(o) PROVE ReceivedIsComplete'
  <2>1. /\ order'[o].status = "draft" /\ order'[o].got = NoItems /\ UNCHANGED <<kind, stale>>
        /\ \A r \in Orders : r # o => order'[r] = order[r]
    BY <1>1 DEF Create, Types, Typed
  <2>2. ~ (\A p \in Lines : order'[o].got[p] >= Ordered)
    BY <2>1, OrderTypes DEF NoItems
  <2>3. Told(o)'
    BY <2>1, <2>2
  <2> QED BY <1>a, <1>b, <2>1, <2>3
<1>2. ASSUME NEW c \in Clients, Saved(c) PROVE ReceivedIsComplete'
  <2>1. PICK o \in Orders :
          /\ order'[o].status \in Statuses[kind[o]] \ {"received"}
          /\ order'[o].got = call[c].read.got
          /\ call[c].read.status \notin Final(kind[o])
          /\ \A r \in Orders : r # o => order'[r] = order[r]
          /\ stale \subseteq stale'
          /\ o \notin stale' => order[o] = call[c].read
    BY <1>2, SaveDoes
  <2>2. UNCHANGED kind
    BY <1>2 DEF Saved
  <2>3. Told(o)'
    <3> SUFFICES ASSUME kind[o] = "purchase", o \notin stale' PROVE Complete(o)'
      BY <2>2
    <3>1. order[o] = call[c].read /\ o \notin stale
      BY <2>1
    <3>2. order[o].status # "received"
      BY <2>1, <3>1 DEF Final
    <3>3. ~ (\A p \in Lines : order[o].got[p] >= Ordered)
      BY <1>a, <3>1, <3>2
    <3> QED BY <2>1, <3>1, <3>3
  <2> QED BY <1>a, <1>b, <2>1, <2>2, <2>3
<1>3. ASSUME NEW c \in Clients, NEW d \in Docs, Updated(c, d) PROVE ReceivedIsComplete'
  <2>1. PICK o \in Orders :
          /\ o = call[c].order /\ order'[o] = Update(c)
          /\ \A r \in Orders : r # o => order'[r] = order[r]
          /\ stale \subseteq stale'
    BY <1>3, UpdateDoes
  <2>2. UNCHANGED kind
    BY <1>3 DEF Updated
  <2>3. Told(o)'
    BY <1>3, <2>1, <2>2, UpdateIs DEF Updated
  <2> QED BY <1>a, <1>b, <2>1, <2>2, <2>3
<1>4. ASSUME UNCHANGED <<kind, order, stale>> PROVE ReceivedIsComplete'
  BY <1>4 DEF ReceivedIsComplete
<1> QED
  BY <1>1, <1>2, <1>3, <1>4
  DEF Step, Started, Inserted, Posted, Deleted, SyncedNow, Announced, Ended, Handled, vars

\* Only a call that read the order before its cancellation overwrites it.
LEMMA CancelStep ==
    ASSUME Types, CallsOK, Step, NEW o \in Orders, order[o].status = "cancelled", o \notin stale'
    PROVE  order'[o].status = "cancelled"
<1>1. ASSUME NEW r \in Orders, Create(r) PROVE order'[o] = order[o]
  BY <1>1 DEF Create, Types, Typed
<1>2. ASSUME NEW c \in Clients, Saved(c) PROVE order'[o] = order[o]
  <2>1. "cancelled" \in Final(kind[o])
    BY DEF Final
  <2> QED BY <1>2, <2>1, SaveDoes
<1>3. ASSUME NEW c \in Clients, NEW d \in Docs, Updated(c, d) PROVE order'[o] = order[o]
  <2>1. "cancelled" \notin Open(kind[o])
    BY DEF Open
  <2> QED BY <1>3, <2>1, UpdateDoes
<1>4. UNCHANGED order => order'[o] = order[o]
  OBVIOUS
<1> QED
  BY <1>1, <1>2, <1>3, <1>4
  DEF Step, Started, Inserted, Posted, Deleted, SyncedNow, Announced, Ended, Handled, vars

-----------------------------------------------------------------------------
(* What was received, and the receipts that say so.                         *)

\* Membership in the sets Counted is built from, before and after a step.
LEMMA PendingIs ==
    \A d : /\ d \in Pending <=> \E c \in Clients : call[c].pc = "order" /\ call[c].doc = d
           /\ d \in Pending' <=> \E c \in Clients : call'[c].pc = "order" /\ call'[c].doc = d
BY DEF Pending

LEMMA SyncedIs ==
    ASSUME NEW o, NEW d \in Docs
    PROVE  /\ d \in Synced(o) <=> doc[d].state = "synced" /\ doc[d].of = o
           /\ d \in Synced(o)' <=> doc'[d].state = "synced" /\ doc'[d].of = o
BY DEF Synced

\* The receipts that count, one by one.
Counts(o, p) == [d \in Docs |-> IF d \in Synced(o) \ Pending THEN doc[d].items[p] ELSE 0]

LEMMA CountsTyped ==
    ASSUME Types, NEW o \in Orders, NEW p \in Products
    PROVE  Counts(o, p) \in [1 .. MaxDocs -> Int] /\ Counted(o, p) = Total(Counts(o, p))
<1>1. \A d \in Docs : doc[d].items \in [Products -> Nat]
  BY OrderTypes DEF Types, TypeOK, Doc
<1>2. \A d \in Docs : doc[d].items[p] \in Int
  BY <1>1
<1> QED BY <1>2 DEF Counts, Counted, Docs

\* The count is the same when the same receipts count.
LEMMA SameCount ==
    ASSUME NEW o \in Orders, NEW p \in Products,
           \A d \in Docs : d \in Synced(o) \ Pending <=> d \in Synced(o)' \ Pending',
           \A d \in Synced(o) : doc'[d].items = doc[d].items
    PROVE  Counted(o, p)' = Counted(o, p)
<1> DEFINE v == [d \in Docs |-> IF d \in Synced(o) \ Pending THEN doc[d].items[p] ELSE 0]
           w == [d \in Docs |-> IF d \in Synced(o)' \ Pending' THEN doc'[d].items[p] ELSE 0]
<1>1. w = v
  OBVIOUS
<1>2. Counted(o, p) = Total(v) /\ Counted(o, p)' = Total(w)
  BY DEF Counted
<1> HIDE DEF v, w
<1> QED BY <1>1, <1>2

Documented(o) ==
    kind[o] = "purchase" /\ o \notin stale /\ cut \cap Synced(o) = {} =>
      \A p \in Lines : order[o].got[p] = Counted(o, p)

LEMMA IsDocumented ==
    /\ ReceivedIsDocumented <=> \A o \in Orders : Documented(o)
    /\ ReceivedIsDocumented' <=> \A o \in Orders : Documented(o)'
BY DEF ReceivedIsDocumented, Documented

\* An order whose quantities and receipts a step leaves alone.
LEMMA StillDocumented ==
    ASSUME NEW o \in Orders, Documented(o), UNCHANGED kind, stale \subseteq stale', cut \subseteq cut',
           o \notin stale' => \A p \in Lines : order'[o].got[p] = order[o].got[p],
           Synced(o) \subseteq Synced(o)',
           cut' \cap Synced(o)' = {} =>
             \A d \in Docs : d \in Synced(o) \ Pending <=> d \in Synced(o)' \ Pending',
           \A d \in Synced(o) : doc'[d].items = doc[d].items
    PROVE  Documented(o)'
<1> SUFFICES ASSUME kind[o] = "purchase", o \notin stale', cut' \cap Synced(o)' = {}, NEW p \in Lines
             PROVE  order'[o].got[p] = Counted(o, p)'
  BY DEF Documented
<1>1. order[o].got[p] = Counted(o, p)
  BY DEF Documented
<1>2. Counted(o, p)' = Counted(o, p)
  BY SameCount, OrderTypes
<1> QED BY <1>1, <1>2

\* A call that is not at the order, and does not come to it, adds and takes nothing.
LEMMA SamePending ==
    ASSUME NEW c \in Clients, call[c].pc # "order", call'[c].pc # "order",
           \A b \in Clients : b # c => call'[b] = call[b]
    PROVE  Pending' = Pending
<1>1. \A d : d \in Pending' <=> d \in Pending
  BY PendingIs
<1> QED BY <1>1

\* A step that neither syncs a document nor takes a call from the order it is at.
LEMMA NothingSynced ==
    ASSUME NEW o \in Orders, Documented(o), UNCHANGED <<kind, cut>>, stale \subseteq stale',
           o \notin stale' => \A p \in Lines : order'[o].got[p] = order[o].got[p],
           Pending' = Pending,
           \A d \in Docs : /\ doc'[d].state = "synced" <=> doc[d].state = "synced"
                           /\ doc[d].state = "synced" => /\ doc'[d].of = doc[d].of
                                                         /\ doc'[d].items = doc[d].items
    PROVE  Documented(o)'
<1>1. \A d \in Docs : d \in Synced(o)' <=> d \in Synced(o)
  BY SyncedIs
<1>2. Synced(o) \subseteq Docs /\ \A d \in Synced(o) : doc[d].state = "synced"
  BY DEF Synced
<1> QED BY <1>1, <1>2, StillDocumented

\* UpdateOrder adds to each line what its receipt adds to the count, and no other
\* step changes either, unless it makes the order stale or cuts a synced receipt off.
LEMMA DocumentedStep ==
    Types /\ CallsOK /\ Owned /\ Blank /\ ReceivedIsDocumented /\ Step => ReceivedIsDocumented'
<1> SUFFICES ASSUME Types, CallsOK, Owned, Blank, ReceivedIsDocumented, Step, NEW o \in Orders
             PROVE  Documented(o)'
  BY IsDocumented
<1>a. Documented(o)
  BY IsDocumented
<1>b. ASSUME UNCHANGED <<kind, order, stale, cut>>, Pending' = Pending,
             \A d \in Docs : /\ doc'[d].state = "synced" <=> doc[d].state = "synced"
                             /\ doc[d].state = "synced" => /\ doc'[d].of = doc[d].of
                                                           /\ doc'[d].items = doc[d].items
      PROVE  Documented(o)'
  BY <1>a, <1>b, NothingSynced
<1>c. Synced(o) \subseteq Docs /\ \A d \in Synced(o) : doc[d].state = "synced" /\ doc[d].of = o
  BY DEF Synced
<1>1. ASSUME NEW r \in Orders, Create(r) PROVE Documented(o)'
  <2>1. UNCHANGED <<kind, stale, cut, doc, call>>
    BY <1>1 DEF Create
  <2>2. order'[o].got = order[o].got
    <3>1. order[r].got = NoItems
      BY <1>1 DEF Create, Blank
    <3>2. order'[r].got = NoItems /\ \A q \in Orders : q # r => order'[q] = order[q]
      BY <1>1 DEF Create, Types, Typed
    <3> QED BY <3>1, <3>2
  <2>3. Pending' = Pending
    BY <2>1 DEF Pending
  <2> QED BY <1>a, <2>1, <2>2, <2>3, NothingSynced
<1>2. ASSUME NEW c \in Clients, NEW r \in Orders, Started(c, r) PROVE Documented(o)'
  <2>1. Pending' = Pending
    BY <1>2, SamePending DEF Started
  <2> QED BY <1>b, <1>2, <2>1 DEF Started
<1>3. ASSUME NEW c \in Clients, Saved(c) PROVE Documented(o)'
  <2>1. Pending' = Pending
    BY <1>3, SamePending DEF Saved, Over
  <2>2. stale \subseteq stale' /\ (o \notin stale' => order'[o].got = order[o].got)
    BY <1>3, SaveDoes
  <2> QED BY <1>a, <1>3, <2>1, <2>2, NothingSynced DEF Saved
<1>4. ASSUME NEW c \in Clients, NEW d \in Docs, Inserted(c, d) PROVE Documented(o)'
  <2>1. Pending' = Pending
    BY <1>4, SamePending DEF Inserted, Onward
  <2> QED BY <1>b, <1>4, <2>1 DEF Inserted
<1>5. ASSUME NEW c \in Clients, NEW d \in Docs, NEW p \in Products, NEW pc \in {"post", "undo"},
             Posted(c, d, p, pc)
      PROVE  Documented(o)'
  <2>1. Pending' = Pending
    BY <1>5, SamePending DEF Posted, Onward
  <2> QED BY <1>b, <1>5, <2>1 DEF Posted
<1>6. ASSUME NEW c \in Clients, NEW d \in Docs, Deleted(c, d) PROVE Documented(o)'
  <2>1. Pending' = Pending
    BY <1>6, SamePending DEF Deleted, Over
  <2>2. doc[d].state = "pending"
    BY <1>6 DEF Deleted, CallsOK, CallOK
  <2> QED BY <1>b, <1>6, <2>1, <2>2 DEF Deleted, Marked
<1>7. ASSUME NEW c \in Clients, NEW d \in Docs, SyncedNow(c, d) PROVE Documented(o)'
  <2>1. doc[d].state = "pending"
    BY <1>7 DEF SyncedNow, CallsOK, CallOK
  <2>2. \A e : e \in Pending' <=> e \in Pending \/ e = d
    BY <1>7, PendingIs DEF SyncedNow, Onward
  <2>3. \A e \in Docs : e # d => (e \in Synced(o)' <=> e \in Synced(o))
    BY <1>7, SyncedIs DEF SyncedNow, Marked
  <2>4. d \notin Synced(o) /\ d \in Pending'
    BY <1>c, <2>1, <2>2
  <2>5. \A e \in Synced(o) : doc'[e].items = doc[e].items
    BY <1>7, <1>c, <2>4 DEF SyncedNow, Marked
  <2> QED BY <1>a, <1>c, <1>7, <2>2, <2>3, <2>4, <2>5, StillDocumented DEF SyncedNow
<1>8. ASSUME NEW c \in Clients, NEW d \in Docs, Updated(c, d) PROVE Documented(o)'
  <2>1. /\ call[c].order \in Orders /\ doc[d].of = call[c].order /\ doc[d].items = call[c].items
        /\ doc[d].state = "synced" /\ call[c].pc = "order" /\ call[c].doc = d
    BY <1>8 DEF Updated, CallsOK, CallOK
  <2>2. \A e : e \in Pending' <=> e \in Pending /\ e # d
    <3>1. \A b \in Clients : b # c => call[b].doc # d
      BY <2>1, OrderTypes DEF Owned, Docs
    <3> QED BY <1>8, <2>1, <3>1, PendingIs DEF Updated, Onward
  <2>3. d \in Pending
    BY <2>1, PendingIs
  <2>4. UNCHANGED <<kind, doc, cut>>
    BY <1>8 DEF Updated
  <2>5. \A r \in Orders : \A e \in Docs : e \in Synced(r)' <=> e \in Synced(r)
    BY <2>4, SyncedIs
  <2>6. /\ order'[call[c].order] = Update(c)
        /\ \A r \in Orders : r # call[c].order => order'[r] = order[r]
        /\ stale \subseteq stale'
        /\ call[c].order \notin stale' => order[call[c].order] = call[c].read
    BY <1>8, UpdateDoes
  <2>7. CASE o # call[c].order
    <3>1. d \notin Synced(o)
      BY <1>c, <2>1, <2>7
    <3> QED BY <1>a, <1>c, <2>2, <2>4, <2>5, <2>6, <2>7, <3>1, StillDocumented
  <2>8. CASE o = call[c].order
    <3> SUFFICES ASSUME kind[o] = "purchase", o \notin stale', cut' \cap Synced(o)' = {},
                        NEW p \in Lines
                 PROVE  order'[o].got[p] = Counted(o, p)'
      BY <2>4 DEF Documented
    <3>1. order[o].got[p] = Counted(o, p)
      BY <1>a, <1>c, <2>4, <2>5, <2>6 DEF Documented
    <3>2. order'[o].got[p] = order[o].got[p] + doc[d].items[p]
      BY <2>1, <2>6, <2>8, UpdateIs
    <3> DEFINE w == [e \in Docs |-> IF e \in Synced(o)' \ Pending' THEN doc'[e].items[p] ELSE 0]
    <3>3. Counted(o, p)' = Total(w)
      BY DEF Counted
    <3>4. p \in Products /\ d \in 1 .. MaxDocs
      BY OrderTypes DEF Docs
    <3>5. Counts(o, p) \in [1 .. MaxDocs -> Int] /\ Counted(o, p) = Total(Counts(o, p))
      BY <3>4, CountsTyped
    <3>6. doc[d].items[p] \in Int
      <4>1. doc[d].items \in [Products -> Nat]
        BY OrderTypes DEF Types, TypeOK, Doc
      <4> QED BY <3>4, <4>1
    <3>7. d \in Synced(o)
      BY <2>1, <2>8, SyncedIs
    <3>8. Counts(o, p)[d] = 0 /\ w[d] = doc[d].items[p]
      BY <2>2, <2>3, <2>4, <2>5, <3>7 DEF Counts
    <3>9. \A e \in Docs : e # d => w[e] = Counts(o, p)[e]
      BY <2>2, <2>4, <2>5 DEF Counts
    <3>10. w \in [1 .. MaxDocs -> Int]
      <4>1. \A e \in Docs : w[e] \in Int
        BY <3>5, <3>6, <3>8, <3>9 DEF Docs
      <4>2. w = [e \in Docs |-> w[e]]
        OBVIOUS
      <4> HIDE DEF w
      <4> QED BY <4>1, <4>2 DEF Docs
    <3> HIDE DEF w
    <3>11. w[d] = Counts(o, p)[d] + doc[d].items[p]
      BY <3>6, <3>8
    <3>12. Total(w) = Total(Counts(o, p)) + doc[d].items[p]
      <4>1. MaxDocs \in Nat /\ \A e \in 1 .. MaxDocs : e # d => w[e] = Counts(o, p)[e]
        BY <3>9, OrderTypes DEF Docs
      <4> DEFINE v == Counts(o, p)
                 x == doc[d].items[p]
      <4>2. /\ v \in [1 .. MaxDocs -> Int] /\ x \in Int /\ w[d] = v[d] + x
            /\ \A e \in 1 .. MaxDocs : e # d => w[e] = v[e]
        BY <3>5, <3>6, <3>11, <4>1
      <4> HIDE DEF v, x
      <4>3. Total(w) = Total(v) + x
        BY <3>4, <3>10, <4>1, <4>2, TotalUpdate, SMTT(60)
      <4> QED BY <4>3 DEF v, x
    <3> QED BY <3>1, <3>2, <3>3, <3>5, <3>12
  <2> QED BY <2>7, <2>8
<1>9. ASSUME NEW c \in Clients, NEW d \in Docs, Announced(c, d) PROVE Documented(o)'
  <2>1. Pending' = Pending
    BY <1>9, SamePending DEF Announced, Over
  <2>2. doc[d].state = "synced"
    BY <1>9 DEF Announced, CallsOK, CallOK
  <2> QED BY <1>b, <1>9, <2>1, <2>2 DEF Announced, Marked
<1>10. ASSUME NEW c \in Clients, Ended(c) PROVE Documented(o)'
  <2>1. CASE call[c].pc # "order"
    <3>1. Pending' = Pending
      BY <1>10, <2>1, SamePending DEF Ended, Over
    <3>2. cut \subseteq cut' /\ UNCHANGED <<kind, order, doc, stale>>
      BY <1>10 DEF Ended
    <3>3. \A e \in Docs : e \in Synced(o)' <=> e \in Synced(o)
      BY <3>2, SyncedIs
    <3> QED BY <1>a, <1>c, <3>1, <3>2, <3>3, StillDocumented
  <2>2. CASE call[c].pc = "order"
    <3> DEFINE d == call[c].doc
    <3>1. d \in Docs
      BY <2>2 DEF CallsOK, CallOK
    <3>2. d # 0 /\ \A b \in Clients : b # c => call[b].doc # d
      BY <3>1, OrderTypes DEF Owned, Docs
    <3>3. \A e : e \in Pending' <=> e \in Pending /\ e # d
      BY <1>10, <2>2, <3>2, PendingIs DEF Ended, Over
    <3>4. cut' = cut \cup {d} /\ UNCHANGED <<kind, order, doc, stale>>
      BY <1>10, <3>2 DEF Ended
    <3>5. \A e \in Docs : e \in Synced(o)' <=> e \in Synced(o)
      BY <3>4, SyncedIs
    <3> HIDE DEF d
    <3>6. ASSUME cut' \cap Synced(o)' = {}
          PROVE  \A e \in Docs : e \in Synced(o) \ Pending <=> e \in Synced(o)' \ Pending'
      BY <3>1, <3>3, <3>4, <3>5, <3>6
    <3> QED BY <1>a, <1>c, <3>4, <3>5, <3>6, StillDocumented
  <2> QED BY <2>1, <2>2
<1>11. ASSUME UNCHANGED <<kind, order, doc, call, stale, cut>> PROVE Documented(o)'
  <2>1. Pending' = Pending
    BY <1>11 DEF Pending
  <2> QED BY <1>b, <1>11, <2>1
<1> QED
  BY <1>1, <1>2, <1>3, <1>4, <1>5, <1>6, <1>7, <1>8, <1>9, <1>10, <1>11 DEF Step, Handled, vars

-----------------------------------------------------------------------------
(* The invariant and what follows from it.                                  *)

LEMMA InitInv == Init => Inv
<1> SUFFICES ASSUME Init PROVE Inv
  OBVIOUS
<1>1. Types /\ CallsOK
  BY InitTypes, CallsInit
<1>2. \A c \in Clients : call[c].pc = "idle" /\ call[c].doc = 0
  BY DEF Init, Idle
<1>3. \A d \in Docs : doc[d].state = "none" /\ doc[d].invoiced = FALSE /\ moves[d] = NoItems
                      /\ queue[d] = 0 /\ waybills[d] = 0 /\ repeated[d] = 0
  BY DEF Init, NoDoc
<1>4. \A o \in Orders : order[o].status = "none" /\ order[o].got = NoItems
  BY DEF Init, NewOrder
<1>5. Owned /\ Fresh /\ Blank
  BY <1>2, <1>3, <1>4 DEF Owned, Fresh, Blank
<1>6. SyncedIsMoved /\ WaybillIsEarned
  BY <1>3 DEF SyncedIsMoved, WaybillIsEarned
<1>7. ReceivedIsComplete
  <2>1. \A p \in Lines : ~ (NoItems[p] >= Ordered)
    BY OrderTypes DEF NoItems
  <2> QED BY <1>4, <2>1, OrderTypes DEF ReceivedIsComplete
<1>8. ReceivedIsDocumented
  <2> SUFFICES ASSUME NEW o \in Orders, NEW p \in Lines PROVE order[o].got[p] = Counted(o, p)
    BY DEF ReceivedIsDocumented
  <2>1. Synced(o) = {}
    BY <1>3 DEF Synced
  <2>2. [d \in Docs |-> IF d \in Synced(o) \ Pending THEN doc[d].items[p] ELSE 0]
          = [d \in 1 .. MaxDocs |-> 0]
    BY <2>1 DEF Docs
  <2>3. Counted(o, p) = 0
    BY <2>2, TotalZero, OrderTypes DEF Counted
  <2>4. NoItems[p] = 0
    BY OrderTypes DEF NoItems
  <2> QED BY <1>4, <2>3, <2>4
<1> QED BY <1>1, <1>5, <1>6, <1>7, <1>8 DEF Inv, Types

LEMMA NextInv == Inv /\ [Next]_vars => Inv'
<1> SUFFICES ASSUME Inv, [Next]_vars PROVE Inv'
  OBVIOUS
<1>1. /\ Types /\ CallsOK /\ Owned /\ Fresh /\ Blank
      /\ SyncedIsMoved /\ ReceivedIsDocumented /\ ReceivedIsComplete /\ WaybillIsEarned
  BY DEF Inv, Types
<1>2. Types' /\ Step
  BY <1>1, TypesStep, NextIsStep
<1>3. CallsOK' /\ Owned' /\ Fresh' /\ Blank'
  BY <1>1, <1>2, CallsStep, OwnedStep, FreshStep, BlankStep
<1>4. SyncedIsMoved' /\ ReceivedIsDocumented' /\ ReceivedIsComplete' /\ WaybillIsEarned'
  BY <1>1, <1>2, SyncedStep, DocumentedStep, CompleteStep, WaybillStep
<1> QED BY <1>2, <1>3, <1>4 DEF Inv, Types

LEMMA Invariant == Spec => []Inv
BY InitInv, NextInv, PTL DEF Spec

\* Type correctness, for any orders, products, receipts and requests, however many
\* calls fail, stop or lose a reply.
THEOREM TypeCorrect == Spec => []TypeOK
<1>1. Inv => TypeOK
  BY DEF Inv
<1> QED BY <1>1, Invariant, PTL

\* createGoodsReceipt and createDelivery mark a document as synced only when each of
\* its items was moved, once, and nothing else was.
THEOREM SyncedMoved == Spec => []SyncedIsMoved
<1>1. Inv => SyncedIsMoved
  BY DEF Inv
<1> QED BY <1>1, Invariant, PTL

\* The received quantities of a purchase order are the sum of its synced receipts,
\* unless calls overlapped or one of them was cut off.
THEOREM ReceivedDocumented == Spec => []ReceivedIsDocumented
<1>1. Inv => ReceivedIsDocumented
  BY DEF Inv
<1> QED BY <1>1, Invariant, PTL

\* An order no call overwrote is received exactly when all its lines are.
THEOREM ReceivedComplete == Spec => []ReceivedIsComplete
<1>1. Inv => ReceivedIsComplete
  BY DEF Inv
<1> QED BY <1>1, Invariant, PTL

\* Waybills, waybill events and purchase invoices exist only for documents whose
\* stock moved; one per document and one more per redelivery.
THEOREM WaybillEarned == Spec => []WaybillIsEarned
<1>1. Inv => WaybillIsEarned
  BY DEF Inv
<1> QED BY <1>1, Invariant, PTL

\* Nobody reopens a cancelled order but a call that had read it before.
THEOREM CancelFinal == Spec => CancelIsFinal
<1>1. Inv /\ [Next]_vars =>
        [\A o \in Orders : order[o].status = "cancelled" /\ o \notin stale' =>
           order'[o].status = "cancelled"]_vars
  <2> SUFFICES ASSUME Inv, [Next]_vars, NEW o \in Orders, order[o].status = "cancelled",
                      o \notin stale'
               PROVE  order'[o].status = "cancelled"
    OBVIOUS
  <2>1. Types /\ CallsOK
    BY DEF Inv, Types
  <2>2. Step
    BY <2>1, NextIsStep
  <2> QED BY <2>1, <2>2, CancelStep
<1> QED BY <1>1, Invariant, PTL DEF Spec, CancelIsFinal
=============================================================================
