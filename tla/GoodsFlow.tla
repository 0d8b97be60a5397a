------------------------------ MODULE GoodsFlow ------------------------------
(***************************************************************************)
(* Goods receipts of the purchase service and deliveries of the order      *)
(* service.  Both read an order, insert a document, post one stock         *)
(* movement per item over HTTP, mark the document as synced, write the     *)
(* order back and announce the document to the waybill service.            *)
(*                                                                         *)
(* Every step is a query or a call of its own, and the order is read once, *)
(* at the start: calls on one order interleave with each other and with    *)
(* its edits.  A call may end at any step, because a query fails or the    *)
(* process stops.  The stock service and the broker are seen from here:    *)
(* a movement is made or refused, a reply, an event or an acknowledgement  *)
(* may be lost.                                                            *)
(***************************************************************************)
EXTENDS Integers, Totals

CONSTANTS
    Orders, Clients, Products,
    Lines,       \* the products ordered, on every order
    Ordered,     \* how many of each
    ItemLists,   \* what a receipt or delivery may hold: [Products -> Nat]
    NoOrder,
    MaxDocs,     \* bound: receipts and deliveries
    MaxCalls,    \* bound: calls in all
    MaxFaults    \* bound: what fails, stops or is lost

ASSUME GoodsFlowAssumption ==
    /\ NoOrder \notin Orders
    /\ Lines \subseteq Products /\ Lines # {}
    /\ Ordered \in Nat \ {0}
    /\ ItemLists \subseteq [Products -> Nat]
    /\ {MaxDocs, MaxCalls, MaxFaults} \subseteq Nat

VARIABLES
    kind,      \* purchase or sale: the service an order belongs to
    order,     \* status, and the quantity received per line
    doc,       \* goods receipts and deliveries, by number
    call,      \* what each request holds in memory
    moves,     \* stock service: movements made for each document and product
    queue,     \* broker: waybill events of each document not yet acknowledged
    waybills,  \* waybill service: waybills made from each document
    dead,      \* broker: documents whose event was dead-lettered
    calls, faults,
    stale,     \* ghost: orders a call wrote back although they had changed
    cut,       \* ghost: documents whose call ended in the middle
    repeated   \* ghost: events delivered again

vars == <<kind, order, doc, call, moves, queue, waybills, dead, calls, faults,
          stale, cut, repeated>>
goods  == <<kind, order, doc, moves>>
broker == <<queue, waybills, dead, repeated>>

Docs       == 1 .. MaxDocs
Statuses   == [purchase |-> {"draft", "sent", "partial", "received", "cancelled"},
               sale |-> {"draft", "confirmed", "processing", "shipped", "cancelled"}]
Order(k)   == [status : Statuses[k] \cup {"none"}, got : [Products -> Nat]]
NoItems    == [p \in Products |-> 0]
NoDoc      == [of |-> NoOrder, items |-> NoItems, state |-> "none", invoiced |-> FALSE]
Doc        == [of : Orders \cup {NoOrder}, items : ItemLists \cup {NoItems},
               state : {"none", "pending", "synced", "deleted"}, invoiced : BOOLEAN]
NewOrder   == [status |-> "none", got |-> NoItems]
Idle       == [pc |-> "idle", order |-> NoOrder, to |-> "none", read |-> NewOrder,
               doc |-> 0, items |-> NoItems, left |-> {}]

Init ==
    /\ kind \in [Orders -> {"purchase", "sale"}]
    /\ order = [o \in Orders |-> NewOrder]
    /\ doc = [d \in Docs |-> NoDoc]
    /\ call = [c \in Clients |-> Idle]
    /\ moves = [d \in Docs |-> NoItems]
    /\ queue = [d \in Docs |-> 0]
    /\ waybills = [d \in Docs |-> 0]
    /\ dead = {}
    /\ calls = 0
    /\ faults = 0
    /\ stale = {}
    /\ cut = {}
    /\ repeated = [d \in Docs |-> 0]

ItemsOf(items) == {p \in Products : items[p] > 0}
Done(c) == call' = [call EXCEPT ![c] = Idle]

\* The call goes on at pc, with its document and the items it has left to post.
GoOn(c, pc, d, left) ==
    call' = [call EXCEPT ![c] =
      [pc |-> pc, order |-> call[c].order, to |-> call[c].to, read |-> call[c].read,
       doc |-> d, items |-> call[c].items, left |-> left]]
Goto(c, pc) == GoOn(c, pc, call[c].doc, call[c].left)

\* A call begins: the order is read, and its status examined.
Begins(c, o, pc, to, items) ==
    /\ call[c].pc = "idle" /\ calls < MaxCalls
    /\ calls' = calls + 1
    /\ call' = [call EXCEPT ![c] =
         [pc |-> pc, order |-> o, to |-> to, read |-> order[o],
          doc |-> 0, items |-> items, left |-> ItemsOf(items)]]
    /\ UNCHANGED <<goods, broker, faults, stale, cut>>

\* save() of an entity writes what was read, changed here or not, lines included.
WriteBack(o, read, new) ==
    /\ order' = [order EXCEPT ![o] = new]
    /\ stale' = IF order[o] = read THEN stale ELSE stale \cup {o}

Fault == faults < MaxFaults /\ faults' = faults + 1

-----------------------------------------------------------------------------
(* Orders.                                                                  *)

Create(o) ==
    /\ order[o].status = "none"
    /\ order' = [order EXCEPT ![o] = [status |-> "draft", got |-> NoItems]]
    /\ UNCHANGED <<kind, doc, call, moves, broker, calls, faults, stale, cut>>

Final(k) == IF k = "purchase" THEN {"received", "cancelled"} ELSE {"cancelled"}

\* submit, approve, cancel; confirm, pick, cancel: the statuses each accepts.
Edit(c, o) ==
    LET status == order[o].status
    IN  \/ status = "draft" /\ kind[o] = "purchase" /\ Begins(c, o, "save", "sent", NoItems)
        \/ status = "sent" /\ Begins(c, o, "save", "sent", NoItems)
        \/ status = "draft" /\ kind[o] = "sale" /\ Begins(c, o, "save", "confirmed", NoItems)
        \/ status = "confirmed" /\ Begins(c, o, "save", "processing", NoItems)
        \/ status \notin Final(kind[o]) \cup {"none"} /\ Begins(c, o, "save", "cancelled", NoItems)

Save(c) ==
    /\ call[c].pc = "save"
    /\ WriteBack(call[c].order, call[c].read,
                 [status |-> call[c].to, got |-> call[c].read.got])
    /\ Done(c)
    /\ UNCHANGED <<kind, doc, moves, broker, calls, faults, cut>>

-----------------------------------------------------------------------------
(* createGoodsReceipt and createDelivery.                                   *)

Open_EvenCancelled(k) == IF k = "purchase" THEN {"sent", "partial", "cancelled"}
                         ELSE {"processing", "shipped", "confirmed", "cancelled"}
Open(k) == IF k = "purchase" THEN {"sent", "partial"}
           ELSE {"processing", "shipped", "confirmed"}

Receive(c, o, items) ==
    /\ order[o].status \in Open(kind[o])
    /\ Begins(c, o, "insert", "none", items)

InsertDoc(c) ==
    /\ call[c].pc = "insert"
    /\ \E d \in Docs :
         /\ doc[d].state = "none" /\ \A e \in 1 .. d - 1 : doc[e].state # "none"
         /\ doc' = [doc EXCEPT ![d] = [of |-> call[c].order, items |-> call[c].items,
                                       state |-> "pending", invoiced |-> FALSE]]
         /\ GoOn(c, "post", d, call[c].left)
    /\ UNCHANGED <<kind, order, moves, broker, calls, faults, stale, cut>>

\* What a refused item leads to; nothing left to post leads on to the document.
AfterRefusal_NextItem == "post"
AfterRefusal == "undo"

\* POST /movements of one item: made and confirmed, refused, or made without a
\* reply.  A delivery is refused as a matter of course when stock is short.
Move(c, p) ==
    LET d == call[c].doc
    IN  moves' = [moves EXCEPT ![d] = [moves[d] EXCEPT ![p] = moves[d][p] + 1]]
Posting(c, p) == call[c].pc = "post" /\ p \in call[c].left
TakeItem_Kept(c, p, pc) == Goto(c, pc)
TakeItem(c, p, pc) == GoOn(c, pc, call[c].doc, call[c].left \ {p})

Post(c, p) ==
    /\ Posting(c, p)
    /\ Move(c, p)
    /\ TakeItem(c, p, "post")
    /\ UNCHANGED <<kind, order, doc, broker, calls, faults, stale, cut>>

PostRefused(c, p) ==
    /\ Posting(c, p) /\ Fault
    /\ TakeItem(c, p, AfterRefusal)
    /\ UNCHANGED <<goods, broker, calls, stale, cut>>

ReplyLost(c, p) ==
    /\ Posting(c, p) /\ Fault
    /\ Move(c, p)
    /\ TakeItem(c, p, AfterRefusal)
    /\ UNCHANGED <<kind, order, doc, broker, calls, stale, cut>>

SetDoc(d, state, invoiced) ==
    doc' = [doc EXCEPT ![d] = [of |-> doc[d].of, items |-> doc[d].items,
                               state |-> state, invoiced |-> invoiced]]

\* The compensation: the document goes, the movements made so far stay.
DeleteDoc(c) ==
    /\ call[c].pc = "undo"
    /\ SetDoc(call[c].doc, "deleted", FALSE)
    /\ Done(c)
    /\ UNCHANGED <<kind, order, moves, broker, calls, faults, stale, cut>>

SyncDoc(c) ==
    /\ call[c].pc = "post" /\ call[c].left = {}
    /\ SetDoc(call[c].doc, "synced", FALSE)
    /\ Goto(c, "order")
    /\ UNCHANGED <<kind, order, moves, broker, calls, faults, stale, cut>>

\* The order as it was read, plus the items on one of its lines.
Received_LastOnly(read, items) == [p \in Products |-> IF p \in Lines THEN items[p] ELSE 0]
Received(read, items) ==
    [p \in Products |-> IF p \in Lines THEN read.got[p] + items[p] ELSE 0]

AllReceived_AnyLine(got) == \E p \in Lines : got[p] >= Ordered
AllReceived(got) == \A p \in Lines : got[p] >= Ordered

UpdateOrder(c) ==
    LET o   == call[c].order
        got == Received(call[c].read, call[c].items)
        new == IF kind[o] = "purchase"
                 THEN [status |-> IF AllReceived(got) THEN "received" ELSE "partial", got |-> got]
                 ELSE [status |-> "shipped", got |-> call[c].read.got]
    IN  /\ call[c].pc = "order"
        /\ WriteBack(o, call[c].read, new)
        /\ Goto(c, "publish")
        /\ UNCHANGED <<kind, doc, moves, broker, calls, faults, cut>>

\* The purchase invoice is asked for and its failure only logged; the event is
\* dropped when the publisher has no channel.
Announce(c, invoiced, sent) ==
    LET d == call[c].doc
    IN  /\ call[c].pc = "publish"
        /\ invoiced => kind[call[c].order] = "purchase"
        /\ \/ sent /\ UNCHANGED faults
           \/ ~sent /\ Fault
        /\ SetDoc(d, doc[d].state, invoiced)
        /\ queue' = IF sent THEN [queue EXCEPT ![d] = @ + 1] ELSE queue
        /\ Done(c)
        /\ UNCHANGED <<kind, order, moves, waybills, dead, repeated, calls, stale, cut>>

\* A query rejects or the process stops, and the call ends where it is.
CallEnds(c) ==
    /\ call[c].pc # "idle" /\ Fault
    /\ Done(c)
    /\ cut' = IF call[c].doc = 0 THEN cut ELSE cut \cup {call[c].doc}
    /\ UNCHANGED <<goods, broker, calls, stale>>

-----------------------------------------------------------------------------
(* The waybill service's consumer; prefetch is one.                         *)

Acknowledged_Never(d) == queue
Acknowledged(d) == [queue EXCEPT ![d] = @ - 1]

CreateWaybill(d) ==
    /\ queue[d] > 0
    /\ waybills' = [waybills EXCEPT ![d] = @ + 1]
    /\ queue' = Acknowledged(d)
    /\ UNCHANGED <<goods, call, dead, repeated, calls, faults, stale, cut>>

\* The waybill is saved, and the connection breaks before the acknowledgement.
Redelivered(d) ==
    /\ queue[d] > 0 /\ Fault
    /\ waybills' = [waybills EXCEPT ![d] = @ + 1]
    /\ repeated' = [repeated EXCEPT ![d] = @ + 1]
    /\ UNCHANGED <<goods, call, queue, dead, calls, stale, cut>>

\* The handler fails and rejects the event, or nobody takes it for a minute.
DeadLetter(d) ==
    /\ queue[d] > 0 /\ Fault
    /\ queue' = [queue EXCEPT ![d] = @ - 1]
    /\ dead' = dead \cup {d}
    /\ UNCHANGED <<goods, call, waybills, repeated, calls, stale, cut>>

-----------------------------------------------------------------------------
Next ==
    \/ \E o \in Orders : Create(o)
    \/ \E c \in Clients, o \in Orders : Edit(c, o)
    \/ \E c \in Clients : Save(c)
    \/ \E c \in Clients, o \in Orders, items \in ItemLists : Receive(c, o, items)
    \/ \E c \in Clients : InsertDoc(c)
    \/ \E c \in Clients, p \in Products : Post(c, p)
    \/ \E c \in Clients, p \in Products : PostRefused(c, p)
    \/ \E c \in Clients, p \in Products : ReplyLost(c, p)
    \/ \E c \in Clients : DeleteDoc(c)
    \/ \E c \in Clients : SyncDoc(c)
    \/ \E c \in Clients : UpdateOrder(c)
    \/ \E c \in Clients, invoiced \in BOOLEAN, sent \in BOOLEAN : Announce(c, invoiced, sent)
    \/ \E c \in Clients : CallEnds(c)
    \/ \E d \in Docs : CreateWaybill(d)
    \/ \E d \in Docs : Redelivered(d)
    \/ \E d \in Docs : DeadLetter(d)

Spec == Init /\ [][Next]_vars

-----------------------------------------------------------------------------
(* Properties.                                                             *)

\* The shape of the state; each service uses its own statuses.
TypeOK ==
    /\ \A o \in Orders : order[o] \in Order(kind[o])
    /\ doc \in [Docs -> Doc]
    /\ \A c \in Clients :
         /\ call[c].pc \in {"idle", "save", "insert", "post", "undo", "order", "publish"}
         /\ call[c].doc \in 0 .. MaxDocs
         /\ call[c].left \subseteq ItemsOf(call[c].items)
    /\ moves \in [Docs -> [Products -> 0 .. 1]]
    /\ \A f \in {queue, waybills, repeated} : f \in [Docs -> Nat]
    /\ dead \subseteq Docs
    /\ calls \in 0 .. MaxCalls
    /\ faults \in 0 .. MaxFaults

\* A document that says its stock is synced moved each of its items exactly once
\* and nothing else, whatever failed around it.
SyncedIsMoved ==
    \A d \in Docs : doc[d].state = "synced" =>
      \A p \in Products : moves[d][p] = IF doc[d].items[p] > 0 THEN 1 ELSE 0

Synced(o) == {d \in Docs : doc[d].state = "synced" /\ doc[d].of = o}
Pending == {call[c].doc : c \in {b \in Clients : call[b].pc = "order"}}
Counted(o, p) ==
    Total([d \in Docs |-> IF d \in Synced(o) \ Pending THEN doc[d].items[p] ELSE 0])

\* The received quantities of a purchase order add up its synced receipts.  Two
\* calls that overlap (stale), or one cut off, may break that; nothing else may.
ReceivedIsDocumented ==
    \A o \in Orders : kind[o] = "purchase" /\ o \notin stale /\ cut \cap Synced(o) = {} =>
      \A p \in Lines : order[o].got[p] = Counted(o, p)

\* A purchase order is received exactly when every line of it is: none is cancelled
\* or reopened after that, and none stays open.
ReceivedIsComplete ==
    \A o \in Orders : kind[o] = "purchase" /\ o \notin stale =>
      (order[o].status = "received" <=> \A p \in Lines : order[o].got[p] >= Ordered)

\* A cancelled order stays cancelled, unless a call that read it before the
\* cancellation writes it back.
CancelIsFinal ==
    [][\A o \in Orders : order[o].status = "cancelled" /\ o \notin stale' =>
         order'[o].status = "cancelled"]_vars

\* A waybill, an event or an invoice stands for a document whose stock moved;
\* there is one waybill or event for it, and another only after a redelivery.
WaybillIsEarned ==
    \A d \in Docs :
      /\ waybills[d] + queue[d] > 0 \/ doc[d].invoiced => doc[d].state = "synced"
      /\ waybills[d] + queue[d] <= 1 + repeated[d]
=============================================================================
