-------------------------- MODULE WaybillGibProofs --------------------------
(***************************************************************************)
(* Proofs about WaybillGib, for any number of waybills, overlapping runs   *)
(* and requests: its type invariant, that a verdict shown is one that GIB  *)
(* gave, and that a SEND is closed only when GIB has the document and a    *)
(* POLL will ask about it.                                                 *)
(***************************************************************************)
EXTENDS WaybillGib, TLAPS

\* A run at work has a record in hand, and all of its batch is in the table.
Batched ==
    \A p \in Runs : Busy(p) =>
        /\ run[p].batch # <<>>
        /\ \A k \in DOMAIN run[p].batch : run[p].batch[k].id \in DOMAIN outbox

\* A gibUuid, in the table or in a request's copy, is that of a document of
\* the same waybill.
Registered ==
    /\ \A w \in Waybills : waybill[w].uuid \in DocsOf(w) \cup {NoUuid}
    /\ \A c \in Clients : client[c].op # "none" =>
         client[c].copy.uuid \in DocsOf(client[c].waybill) \cup {NoUuid}

\* GIB gave this verdict on a document of w.
Given(w, answer) == \E u \in DocsOf(w) : <<u, answer>> \in verdicts

\* A status that tells a verdict tells one that was given.
Told(w, status) ==
    /\ status = "GIB_ONAYLANDI" => Given(w, "ONAYLANDI")
    /\ status = "GIB_REDDEDILDI" => Given(w, "REDDEDILDI")
Truthful ==
    /\ \A w \in Waybills : Told(w, waybill[w].status)
    /\ \A c \in Clients : client[c].op # "none" =>
         Told(client[c].waybill, client[c].copy.status)

\* A later POLL asks about the waybill of record k.
Asked(k) ==
    \E n \in DOMAIN outbox : n > k /\ outbox[n].action = "POLL"
                             /\ outbox[n].waybill = outbox[k].waybill

\* Only a request has a record to insert.
Enqueuing == \A c \in Clients : client[c].enqueue => client[c].op # "none"

\* What each point that a run has reached says about the record in hand.
Id(p) == Head(run[p].batch).id
ReachedBy(p) ==
    /\ run[p].pc = "sent" => /\ Rec(p).action = "SEND"
                             /\ run[p].uuid \in DocsOf(Rec(p).waybill)
    /\ run[p].pc = "poll" => /\ Rec(p).action = "SEND"
                             /\ DocsOf(Rec(p).waybill) # {}
    /\ run[p].pc = "result" => /\ Rec(p).action = "POLL"
                               /\ Given(Rec(p).waybill, run[p].answer)
    /\ run[p].pc = "done" /\ Rec(p).action = "SEND" =>
         DocsOf(Rec(p).waybill) # {} /\ Asked(Id(p))
Reached == \A p \in Runs : ReachedBy(p)

\* A record that is a closed SEND is at GIB and will be asked about.
Closed(k) ==
    outbox[k].action = "SEND" /\ outbox[k].status = "DONE" =>
        DocsOf(outbox[k].waybill) # {} /\ Asked(k)

Inv ==
    /\ TypeOK /\ Batched /\ Registered /\ Truthful /\ Enqueuing /\ Reached
    /\ \A k \in DOMAIN outbox : Closed(k)

\* Records, documents and verdicts are never taken back, and a record keeps
\* its waybill and its action.
Grows ==
    /\ Len(outbox) <= Len(outbox') /\ Len(outbox') \in Nat
    /\ \A k \in 1 .. Len(outbox) :
         outbox'[k].waybill = outbox[k].waybill /\ outbox'[k].action = outbox[k].action
    /\ \A w \in Waybills : DocsOf(w) \subseteq DocsOf(w)'
    /\ verdicts \subseteq verdicts'

Item == [id : Nat, attempts : Nat]

\* The record in hand, and what is left of the batch.
LEMMA InHand ==
    ASSUME TypeOK, Batched, NEW p \in Runs, Busy(p)
    PROVE  /\ run[p].batch \in Seq(Item) /\ Len(run[p].batch) \in Nat \ {0}
           /\ Head(run[p].batch) = run[p].batch[1] /\ Head(run[p].batch) \in Item
           /\ Id(p) \in 1 .. Len(outbox) /\ Len(outbox) \in Nat
           /\ Rec(p) = outbox[Id(p)] /\ Rec(p) \in Record
<1>1. run[p].batch \in Seq(Item) /\ run[p].batch # <<>> /\ outbox \in Seq(Record)
  BY DEF TypeOK, Run, Batched, Item
<1>2. /\ Len(run[p].batch) \in Nat \ {0} /\ 1 \in DOMAIN run[p].batch
      /\ Head(run[p].batch) = run[p].batch[1] /\ Head(run[p].batch) \in Item
  BY <1>1
<1>3. Id(p) \in 1 .. Len(outbox) /\ Len(outbox) \in Nat
  <2>1. Head(run[p].batch).id \in DOMAIN outbox
    BY <1>2 DEF Batched
  <2> QED
    BY <1>1, <2>1 DEF Id
<1>4. Rec(p) = outbox[Id(p)]
  BY DEF Rec, Id
<1> QED
  BY <1>1, <1>2, <1>3, <1>4

\* What the steps of a run put into its memory, and into a record, has its type.
LEMMA AtTyped ==
    ASSUME TypeOK, NEW p \in Runs, NEW pc \in RunPCs, NEW u \in Nat,
           NEW answer \in {"none", "ONAYLANDI", "REDDEDILDI"}
    PROVE  At(p, pc, u, answer) \in Run
  BY DEF TypeOK, Run, At

LEMMA StartingTyped ==
    ASSUME NEW batch \in Seq(Item)
    PROVE  Starting(batch) \in Run
  BY DEF Starting, Run, RunPCs, NoUuid, Item

LEMMA IdleTyped == IdleRun \in Run
<1>1. <<>> \in Seq(Item)
  OBVIOUS
<1> QED
  BY <1>1 DEF IdleRun, Run, RunPCs, NoUuid, Item

LEMMA IdleClientTyped == IdleClient \in Client
<1>1. (CHOOSE w \in Waybills : TRUE) \in Waybills
  BY WaybillAssumption
<1> QED
  BY <1>1 DEF IdleClient, Client, Ops, Copy, Statuses, NoUuid

LEMMA SaveTyped ==
    ASSUME TypeOK, Batched, NEW p \in Runs, Busy(p), NEW n \in Nat,
           NEW status \in {"PENDING", "PROCESSING", "DONE", "FAILED"}, SaveRecord(p, status, n)
    PROVE  outbox' \in Seq(Record) /\ Len(outbox') = Len(outbox)
<1> DEFINE x == [waybill |-> Rec(p).waybill, action |-> Rec(p).action,
                 status |-> status, attempts |-> n]
<1>1. x \in Record
  BY InHand DEF Record
<1>2. outbox' = [outbox EXCEPT ![Id(p)] = x]
  BY DEF SaveRecord, Id
<1> HIDE DEF x
<1> QED
  BY <1>1, <1>2, InHand DEF TypeOK

LEMMA NextTyped ==
    ASSUME TypeOK, Batched, NEW p \in Runs, Busy(p), NextRecord(p)
    PROVE  run' \in [Runs -> Run]
<1>1. CASE Len(run[p].batch) = 1
  BY <1>1, IdleTyped DEF NextRecord, TypeOK
<1>2. CASE Len(run[p].batch) # 1
  <2>1. Tail(run[p].batch) \in Seq(Item)
    BY <1>2, InHand
  <2> QED
    BY <1>2, <2>1, StartingTyped DEF NextRecord, TypeOK
<1> QED
  BY <1>1, <1>2

LEMMA GotoTyped ==
    ASSUME TypeOK, NEW p \in Runs, NEW pc \in RunPCs, Goto(p, pc)
    PROVE  run' \in [Runs -> Run]
<1>1. run[p].uuid \in Nat /\ run[p].answer \in {"none", "ONAYLANDI", "REDDEDILDI"}
  BY DEF TypeOK, Run
<1>2. At(p, pc, run[p].uuid, run[p].answer) \in Run
  BY <1>1, AtTyped
<1> QED
  BY <1>2 DEF Goto, TypeOK

\* Every variable keeps its type.
LEMMA TypeStep == ASSUME Inv, [Next]_vars PROVE TypeOK'
<1>1. ASSUME NEW w \in Waybills, Create(w) PROVE TypeOK'
  BY <1>1 DEF Create, Inv, TypeOK, Copy, Statuses, NoUuid
<1>2. ASSUME NEW c \in Clients, NEW op \in Ops \ {"none"}, NEW w \in Waybills, Read(c, op, w) PROVE TypeOK'
  <2>1. [op |-> op, waybill |-> w, copy |-> waybill[w], enqueue |-> Enqueues(op, waybill[w].status)]
          \in Client
    BY DEF Inv, TypeOK, Client, Enqueues
  <2> QED
    BY <1>2, <2>1 DEF Read, Inv, TypeOK
<1>3. ASSUME NEW c \in Clients, InsertRecord(c) PROVE TypeOK'
  <2>1. client[c] \in Client
    BY DEF Inv, TypeOK
  <2>2. Pending(client[c].waybill, IF client[c].op = "queue" THEN "SEND" ELSE "CANCEL") \in Record
    BY <2>1 DEF Client, Pending, Record
  <2>3. outbox' \in Seq(Record)
    BY <1>3, <2>2 DEF InsertRecord, Inv, TypeOK
  <2>4. client' \in [Clients -> Client]
    BY <1>3 DEF InsertRecord, Inv, TypeOK, Client
  <2> QED
    BY <1>3, <2>3, <2>4 DEF InsertRecord, Inv, TypeOK
<1>4. ASSUME NEW c \in Clients, Save(c) PROVE TypeOK'
  <2>1. client[c] \in Client
    BY DEF Inv, TypeOK
  <2>2. [status |-> StatusAfter(client[c].op, client[c].copy.status), uuid |-> client[c].copy.uuid] \in Copy
    BY <1>4, <2>1 DEF Save, Client, Copy, StatusAfter, Ops, Statuses
  <2> QED
    BY <1>4, <2>1, <2>2, IdleClientTyped DEF Save, Inv, TypeOK, Client
<1>5. ASSUME NEW c \in Clients, RequestFails(c) PROVE TypeOK'
  BY <1>5, IdleClientTyped DEF RequestFails, Inv, TypeOK
<1>6. ASSUME NEW p \in Runs, StartRun(p) PROVE TypeOK'
  <2>1. PICK n \in 1 .. BatchSize : \E ids \in [1 .. n -> DOMAIN outbox] :
          run' = [run EXCEPT ![p] =
            Starting([i \in 1 .. n |-> [id |-> ids[i], attempts |-> outbox[ids[i]].attempts]])]
    BY <1>6 DEF StartRun
  <2>2. PICK ids \in [1 .. n -> DOMAIN outbox] :
          run' = [run EXCEPT ![p] =
            Starting([i \in 1 .. n |-> [id |-> ids[i], attempts |-> outbox[ids[i]].attempts]])]
    BY <2>1
  <2>3. n \in Nat
    BY WaybillAssumption
  <2>4. \A i \in 1 .. n : [id |-> ids[i], attempts |-> outbox[ids[i]].attempts] \in Item
    <3>1. \A k \in DOMAIN outbox : k \in Nat /\ outbox[k] \in Record
      BY DEF Inv, TypeOK
    <3> QED
      BY <3>1 DEF Record, Item
  <2>5. [i \in 1 .. n |-> [id |-> ids[i], attempts |-> outbox[ids[i]].attempts]] \in Seq(Item)
    BY <2>3, <2>4
  <2> QED
    BY <1>6, <2>2, <2>5, StartingTyped DEF StartRun, Inv, TypeOK
<1>7. ASSUME NEW p \in Runs, MarkProcessing(p) PROVE TypeOK'
  <2> DEFINE attempts == Head(run[p].batch).attempts + 1
             batch == <<[id |-> Head(run[p].batch).id, attempts |-> attempts]>> \o Tail(run[p].batch)
  <2>1. Busy(p)
    BY <1>7 DEF MarkProcessing, Busy
  <2>2. attempts \in Nat /\ Head(run[p].batch).id \in Nat
    <3>1. Head(run[p].batch) \in Item
      BY <2>1, InHand DEF Inv
    <3> QED
      BY <3>1 DEF Item
  <2>3. outbox' \in Seq(Record)
    BY <1>7, <2>1, <2>2, SaveTyped DEF MarkProcessing, Inv
  <2>4. <<[id |-> Head(run[p].batch).id, attempts |-> attempts]>> \in Seq(Item)
    BY <2>2 DEF Item
  <2>5. Tail(run[p].batch) \in Seq(Item)
    BY <2>1, InHand DEF Inv
  <2>6. batch \in Seq(Item)
    BY <2>4, <2>5
  <2>7. [pc |-> "act", uuid |-> NoUuid, answer |-> "none", batch |-> batch] \in Run
    BY <2>6 DEF Run, RunPCs, NoUuid, Item
  <2> HIDE DEF attempts, batch
  <2>8. run' = [run EXCEPT ![p] = [pc |-> "act", uuid |-> NoUuid, answer |-> "none", batch |-> batch]]
    BY <1>7 DEF MarkProcessing, attempts, batch
  <2> QED
    BY <1>7, <2>3, <2>7, <2>8 DEF MarkProcessing, Inv, TypeOK
<1>8. ASSUME NEW p \in Runs, SendToGib(p) PROVE TypeOK'
  <2>1. Rec(p).waybill \in Waybills /\ Len(docs) + 1 \in Nat
    BY <1>8, InHand DEF SendToGib, Acts, Busy, Inv, Record
  <2>2. At(p, "sent", Len(docs) + 1, "none") \in Run
    BY <2>1, AtTyped DEF Inv, RunPCs
  <2> QED
    BY <1>8, <2>1, <2>2 DEF SendToGib, Inv, TypeOK
<1>9. ASSUME NEW p \in Runs, SaveSent(p) PROVE TypeOK'
  <2>1. run' \in [Runs -> Run]
    BY <1>9, GotoTyped DEF SaveSent, Inv, RunPCs
  <2>2. [status |-> "GIB_GONDERILDI", uuid |-> run[p].uuid] \in Copy
    BY DEF Inv, TypeOK, Run, Copy, Statuses
  <2> QED
    BY <1>9, <2>1, <2>2 DEF SaveSent, Inv, TypeOK
<1>10. ASSUME NEW p \in Runs, CreatePoll(p) PROVE TypeOK'
  <2>1. run' \in [Runs -> Run]
    BY <1>10, GotoTyped DEF CreatePoll, Inv, RunPCs
  <2>2. Pending(Rec(p).waybill, "POLL") \in Record
    BY <1>10, InHand DEF CreatePoll, Busy, Inv, Pending, Record
  <2> QED
    BY <1>10, <2>1, <2>2 DEF CreatePoll, Inv, TypeOK
<1>11. ASSUME NEW p \in Runs, NEW a \in {"ONAYLANDI", "REDDEDILDI", "BEKLEMEDE"}, CheckStatus(p, a) PROVE TypeOK'
  <2>1. Rec(p).waybill \in Waybills
    BY <1>11, InHand DEF CheckStatus, Acts, Busy, Inv, Record
  <2>2. Uuid(p) \in Nat
    BY <2>1 DEF Uuid, Inv, TypeOK, Copy
  <2>3. CASE a = "BEKLEMEDE"
    BY <1>11, <2>3, GotoTyped DEF CheckStatus, Inv, TypeOK, RunPCs
  <2>4. CASE a # "BEKLEMEDE"
    <3>1. At(p, "result", NoUuid, a) \in Run
      BY <1>11, <2>4, AtTyped DEF Inv, RunPCs, NoUuid
    <3> QED
      BY <1>11, <2>2, <2>4, <3>1 DEF CheckStatus, Inv, TypeOK
  <2> QED
    BY <2>3, <2>4
<1>12. ASSUME NEW p \in Runs, NothingToPoll(p) PROVE TypeOK'
  <2>1. run' \in [Runs -> Run]
    BY <1>12, GotoTyped DEF NothingToPoll, Inv, RunPCs
  <2> QED
    BY <1>12, <2>1 DEF NothingToPoll, Inv, TypeOK
<1>13. ASSUME NEW p \in Runs, SaveVerdict(p) PROVE TypeOK'
  <2>1. run' \in [Runs -> Run]
    BY <1>13, GotoTyped DEF SaveVerdict, Inv, RunPCs
  <2>2. Rec(p).waybill \in Waybills
    BY <1>13, InHand DEF SaveVerdict, Busy, Inv, Record
  <2>3. [status |-> StatusOf(run[p].answer), uuid |-> Uuid(p)] \in Copy
    BY <2>2 DEF Uuid, Inv, TypeOK, Copy, StatusOf, Statuses
  <2> QED
    BY <1>13, <2>1, <2>3 DEF SaveVerdict, Inv, TypeOK
<1>14. ASSUME NEW p \in Runs, CancelOnGib(p) PROVE TypeOK'
  <2>1. run' \in [Runs -> Run]
    BY <1>14, GotoTyped DEF CancelOnGib, Inv, RunPCs
  <2>2. Rec(p).waybill \in Waybills
    BY <1>14, InHand DEF CancelOnGib, Acts, Busy, Inv, Record
  <2>3. Uuid(p) \in Nat
    BY <2>2 DEF Uuid, Inv, TypeOK, Copy
  <2> QED
    BY <1>14, <2>1, <2>3 DEF CancelOnGib, Inv, TypeOK
<1>15. ASSUME NEW p \in Runs, EndTurn(p) PROVE TypeOK'
  <2> DEFINE attempts == Head(run[p].batch).attempts
  <2>1. Busy(p)
    BY <1>15 DEF EndTurn, Busy
  <2>2. attempts \in Nat
    BY <2>1, InHand DEF Inv, Item
  <2>3. run' \in [Runs -> Run]
    BY <1>15, <2>1, NextTyped DEF EndTurn, Inv
  <2>4. PICK status \in {"PENDING", "DONE", "FAILED"} : SaveRecord(p, status, attempts)
    BY <1>15 DEF EndTurn, StatusAfterWait, StatusAfterError
  <2>5. outbox' \in Seq(Record)
    BY <2>1, <2>2, <2>4, SaveTyped DEF Inv
  <2> QED
    BY <1>15, <2>3, <2>5 DEF EndTurn, Inv, TypeOK
<1>16. ASSUME NEW p \in Runs, StepFails(p) PROVE TypeOK'
  BY <1>16, GotoTyped DEF StepFails, Inv, TypeOK, RunPCs
<1>17. ASSUME NEW p \in Runs, RunFails(p) PROVE TypeOK'
  BY <1>17, IdleTyped DEF RunFails, Inv, TypeOK
<1>18. CASE Restart
  BY <1>18, IdleTyped, IdleClientTyped DEF Restart, Inv, TypeOK
<1>19. CASE UNCHANGED vars
  BY <1>19 DEF vars, TypeOK, Inv
<1> QED
  BY <1>1, <1>2, <1>3, <1>4, <1>5, <1>6, <1>7, <1>8, <1>9, <1>10, <1>11, <1>12, <1>13, <1>14, <1>15, <1>16, <1>17, <1>18, <1>19 DEF Next, RunStep

\* A step that leaves the table and the documents alone takes nothing back,
\* and neither does the save of a record.
LEMMA StillGrows ==
    ASSUME TypeOK, outbox' = outbox, docs' = docs, verdicts \subseteq verdicts'
    PROVE  Grows
<1>1. Len(outbox) \in Nat
  BY DEF TypeOK
<1> QED
  BY <1>1 DEF Grows, DocsOf

LEMMA SavedGrows ==
    ASSUME TypeOK, Batched, NEW p \in Runs, Busy(p), NEW n \in Nat,
           NEW status \in {"PENDING", "PROCESSING", "DONE", "FAILED"}, SaveRecord(p, status, n),
           docs' = docs, verdicts' = verdicts
    PROVE  Grows
<1>1. outbox' \in Seq(Record) /\ Len(outbox') = Len(outbox) /\ Len(outbox) \in Nat
  BY SaveTyped, InHand
<1>2. outbox' = [outbox EXCEPT ![Id(p)] =
        [waybill |-> Rec(p).waybill, action |-> Rec(p).action, status |-> status, attempts |-> n]]
  BY DEF SaveRecord, Id
<1>3. Rec(p) = outbox[Id(p)] /\ DOMAIN outbox = 1 .. Len(outbox)
  BY InHand DEF TypeOK
<1>4. \A k \in 1 .. Len(outbox) :
        outbox'[k].waybill = outbox[k].waybill /\ outbox'[k].action = outbox[k].action
  BY <1>2, <1>3
<1> QED
  BY <1>1, <1>4 DEF Grows, DocsOf

\* The same of a record that is added.
LEMMA AddedGrows ==
    ASSUME TypeOK, NEW r \in Record, outbox' = Append(outbox, r),
           docs' = docs, verdicts' = verdicts
    PROVE  Grows
<1>1. /\ Len(outbox) \in Nat /\ Len(outbox') = Len(outbox) + 1
      /\ \A k \in 1 .. Len(outbox) : outbox'[k] = outbox[k]
  BY DEF TypeOK
<1> QED
  BY <1>1 DEF Grows, DocsOf

\* The record in hand stays the one it was.
LEMMA HandKept ==
    ASSUME TypeOK, Batched, NEW p \in Runs, Busy(p),
           run'[p].batch = run[p].batch, outbox' = outbox
    PROVE  Rec(p).waybill \in Waybills /\ Rec(p)' = Rec(p)
<1>1. Rec(p) \in Record
  BY InHand
<1> QED
  BY <1>1 DEF Rec, Record

\* Nothing is taken back.
LEMMA GrowStep == ASSUME Inv, [Next]_vars PROVE Grows
<1>t. TypeOK /\ Batched
  BY DEF Inv
<1>1. ASSUME NEW w \in Waybills, Create(w) PROVE Grows
  BY <1>1, <1>t, StillGrows DEF Create
<1>2. ASSUME NEW c \in Clients, NEW op \in Ops \ {"none"}, NEW w \in Waybills, Read(c, op, w) PROVE Grows
  BY <1>2, <1>t, StillGrows DEF Read
<1>3. ASSUME NEW c \in Clients, InsertRecord(c) PROVE Grows
  <2>1. client[c].waybill \in Waybills
    BY <1>t DEF TypeOK, Client
  <2>2. PICK action \in {"SEND", "CANCEL"} :
          outbox' = Append(outbox, Pending(client[c].waybill, action))
    BY <1>3 DEF InsertRecord
  <2>3. Pending(client[c].waybill, action) \in Record
    BY <2>1 DEF Pending, Record
  <2>4. docs' = docs /\ verdicts' = verdicts
    BY <1>3 DEF InsertRecord
  <2> QED
    BY <1>t, <2>2, <2>3, <2>4, AddedGrows
<1>4. ASSUME NEW c \in Clients, Save(c) PROVE Grows
  BY <1>4, <1>t, StillGrows DEF Save
<1>5. ASSUME NEW c \in Clients, RequestFails(c) PROVE Grows
  BY <1>5, <1>t, StillGrows DEF RequestFails
<1>6. ASSUME NEW p \in Runs, StartRun(p) PROVE Grows
  BY <1>6, <1>t, StillGrows DEF StartRun
<1>7. ASSUME NEW p \in Runs, MarkProcessing(p) PROVE Grows
  <2> DEFINE attempts == Head(run[p].batch).attempts + 1
  <2>1. Busy(p) /\ SaveRecord(p, "PROCESSING", attempts) /\ docs' = docs /\ verdicts' = verdicts
    BY <1>7 DEF MarkProcessing, Busy
  <2>2. attempts \in Nat
    <3>1. Head(run[p].batch) \in Item
      BY <1>t, <2>1, InHand
    <3> QED
      BY <3>1 DEF Item
  <2> HIDE DEF attempts
  <2> QED
    BY <1>t, <2>1, <2>2, SavedGrows
<1>8. ASSUME NEW p \in Runs, SendToGib(p) PROVE Grows
  <2>1. /\ Busy(p) /\ docs' = Append(docs, Rec(p).waybill)
        /\ outbox' = outbox /\ verdicts' = verdicts
    BY <1>8 DEF SendToGib, Acts, Busy
  <2>2. Rec(p).waybill \in Waybills
    BY <1>t, <2>1, InHand DEF Record
  <2>3. /\ Len(docs) \in Nat /\ DOMAIN docs = 1 .. Len(docs)
        /\ DOMAIN docs' = 1 .. Len(docs) + 1
        /\ \A u \in DOMAIN docs : docs'[u] = docs[u]
    BY <1>t, <2>1, <2>2 DEF TypeOK
  <2>4. \A w \in Waybills : DocsOf(w) \subseteq DocsOf(w)'
    BY <2>3 DEF DocsOf
  <2>5. Len(outbox) \in Nat
    BY <1>t DEF TypeOK
  <2> QED
    BY <2>1, <2>4, <2>5 DEF Grows
<1>9. ASSUME NEW p \in Runs, SaveSent(p) PROVE Grows
  BY <1>9, <1>t, StillGrows DEF SaveSent
<1>10. ASSUME NEW p \in Runs, CreatePoll(p) PROVE Grows
  <2>1. /\ Busy(p) /\ outbox' = Append(outbox, Pending(Rec(p).waybill, "POLL"))
        /\ docs' = docs /\ verdicts' = verdicts
    BY <1>10 DEF CreatePoll, Busy
  <2>2. Pending(Rec(p).waybill, "POLL") \in Record
    BY <1>t, <2>1, InHand DEF Pending, Record
  <2> QED
    BY <1>t, <2>1, <2>2, AddedGrows
<1>11. ASSUME NEW p \in Runs, NEW a \in {"ONAYLANDI", "REDDEDILDI", "BEKLEMEDE"}, CheckStatus(p, a) PROVE Grows
  <2>1. outbox' = outbox /\ docs' = docs /\ verdicts \subseteq verdicts'
    BY <1>11 DEF CheckStatus
  <2> QED
    BY <1>t, <2>1, StillGrows
<1>12. ASSUME NEW p \in Runs, NothingToPoll(p) PROVE Grows
  BY <1>12, <1>t, StillGrows DEF NothingToPoll
<1>13. ASSUME NEW p \in Runs, SaveVerdict(p) PROVE Grows
  BY <1>13, <1>t, StillGrows DEF SaveVerdict
<1>14. ASSUME NEW p \in Runs, CancelOnGib(p) PROVE Grows
  BY <1>14, <1>t, StillGrows DEF CancelOnGib
<1>15. ASSUME NEW p \in Runs, EndTurn(p) PROVE Grows
  <2> DEFINE attempts == Head(run[p].batch).attempts
  <2>1. PICK status \in {"PENDING", "DONE", "FAILED"} : SaveRecord(p, status, attempts)
    BY <1>15 DEF EndTurn, StatusAfterWait, StatusAfterError
  <2>2. Busy(p) /\ docs' = docs /\ verdicts' = verdicts
    BY <1>15 DEF EndTurn, Busy
  <2>3. attempts \in Nat
    BY <1>t, <2>2, InHand DEF Item
  <2> HIDE DEF attempts
  <2> QED
    BY <1>t, <2>1, <2>2, <2>3, SavedGrows
<1>16. ASSUME NEW p \in Runs, StepFails(p) PROVE Grows
  BY <1>16, <1>t, StillGrows DEF StepFails
<1>17. ASSUME NEW p \in Runs, RunFails(p) PROVE Grows
  BY <1>17, <1>t, StillGrows DEF RunFails
<1>18. CASE Restart
  BY <1>18, <1>t, StillGrows DEF Restart
<1>19. CASE UNCHANGED vars
  BY <1>19, <1>t, StillGrows DEF vars
<1> QED
  BY <1>1, <1>2, <1>3, <1>4, <1>5, <1>6, <1>7, <1>8, <1>9, <1>10, <1>11, <1>12, <1>13, <1>14, <1>15, <1>16, <1>17, <1>18, <1>19 DEF Next, RunStep

\* A verdict that was given, a document that is known and a POLL that is in the
\* table remain so; the record in hand keeps its waybill and its action.
LEMMA GivenKept ==
    ASSUME Grows, NEW w \in Waybills, NEW a, Given(w, a)
    PROVE  Given(w, a)'
  BY DEF Grows, Given

LEMMA ToldKept ==
    ASSUME Grows, NEW w \in Waybills, NEW status, Told(w, status)
    PROVE  Told(w, status)'
  BY GivenKept DEF Told

LEMMA AskedKept ==
    ASSUME TypeOK, TypeOK', Grows, NEW k \in DOMAIN outbox, Asked(k)
    PROVE  Asked(k)'
<1>1. PICK n \in DOMAIN outbox : n > k /\ outbox[n].action = "POLL"
                                 /\ outbox[n].waybill = outbox[k].waybill
  BY DEF Asked
<1>2. /\ k \in 1 .. Len(outbox) /\ n \in 1 .. Len(outbox) /\ Len(outbox) \in Nat
      /\ DOMAIN outbox' = 1 .. Len(outbox')
  BY DEF TypeOK
<1>3. n \in DOMAIN outbox' /\ outbox'[n].action = "POLL" /\ outbox'[n].waybill = outbox'[k].waybill
  BY <1>1, <1>2 DEF Grows
<1> QED
  BY <1>1, <1>3 DEF Asked

LEMMA ReachedKept ==
    ASSUME Inv, TypeOK', Grows, NEW q \in Runs, run'[q] = run[q]
    PROVE  ReachedBy(q)'
<1>1. CASE ~Busy(q)
  BY <1>1 DEF Busy, ReachedBy
<1>2. CASE Busy(q)
  <2>1. Id(q)' = Id(q) /\ Id(q) \in DOMAIN outbox /\ Rec(q).waybill \in Waybills
    BY <1>2, InHand DEF Inv, Id, Record
  <2>2. Rec(q)'.waybill = Rec(q).waybill /\ Rec(q)'.action = Rec(q).action
    BY <1>2, <2>1, InHand DEF Rec, Id, Grows
  <2>3. DocsOf(Rec(q).waybill) \subseteq DocsOf(Rec(q).waybill)'
    BY <2>1, <2>2 DEF Grows, DocsOf
  <2>4. ASSUME NEW a, Given(Rec(q).waybill, a) PROVE Given(Rec(q).waybill, a)'
    BY <2>3, <2>4 DEF Grows, Given
  <2>5. Asked(Id(q)) => Asked(Id(q))'
    <3>1. ASSUME NEW k \in DOMAIN outbox, k = Id(q), Asked(k) PROVE Asked(k)'
      BY <3>1, AskedKept DEF Inv
    <3> QED
      BY <2>1, <3>1 DEF Asked
  <2> QED
    BY <2>1, <2>2, <2>3, <2>4, <2>5 DEF Inv, Reached, ReachedBy
<1> QED
  BY <1>1, <1>2

LEMMA TailOf ==
    ASSUME NEW s \in Seq(Item), Len(s) \in Nat \ {0, 1}
    PROVE  /\ Tail(s) # <<>> /\ DOMAIN s = 1 .. Len(s)
           /\ \A k \in DOMAIN Tail(s) : k + 1 \in DOMAIN s /\ Tail(s)[k] = s[k + 1]
<1>1. Len(Tail(s)) = Len(s) - 1 /\ Tail(s) \in Seq(Item) /\ Len(s) \in Nat
  OBVIOUS
<1>2. DOMAIN Tail(s) = 1 .. Len(s) - 1 /\ DOMAIN s = 1 .. Len(s)
  BY <1>1
<1>3. ASSUME NEW k \in 1 .. Len(s) - 1 PROVE k + 1 \in 1 .. Len(s) /\ Tail(s)[k] = s[k + 1]
  BY <1>1, <1>3
<1>4. Tail(s) # <<>>
  <2>1. 1 \in DOMAIN Tail(s) /\ DOMAIN <<>> = {}
    BY <1>1, <1>2
  <2> QED
    BY <2>1
<1> QED
  BY <1>2, <1>3, <1>4

LEMMA ClosedKept ==
    ASSUME Inv, TypeOK', Grows, NEW k \in DOMAIN outbox,
           outbox'[k].status = "DONE" => outbox[k].status = "DONE"
    PROVE  Closed(k)'
<1>1. outbox'[k].waybill = outbox[k].waybill /\ outbox'[k].action = outbox[k].action
  BY DEF Grows
<1>2. outbox[k].waybill \in Waybills
  <2>1. outbox[k] \in Record
    BY DEF Inv, TypeOK
  <2> QED
    BY <2>1 DEF Record
<1>3. DocsOf(outbox[k].waybill) \subseteq DocsOf(outbox[k].waybill)'
  BY <1>1, <1>2 DEF Grows, DocsOf
<1> QED
  BY <1>1, <1>3, AskedKept DEF Inv, Closed

\* What a step can do to a run: nothing, its start, the mark, the end of a
\* turn, another point of the same turn, or its end.
LEMMA RunFrame ==
    ASSUME Inv, [Next]_vars, NEW q \in Runs
    PROVE  \/ run'[q] = run[q] \/ run'[q] = IdleRun
           \/ StartRun(q) \/ MarkProcessing(q) \/ EndTurn(q)
           \/ Busy(q) /\ \E pc, u, answer : run'[q] = At(q, pc, u, answer)
<1> USE DEF Inv, TypeOK
<1>1. ASSUME NEW p \in Runs, RunStep(p), p # q PROVE run'[q] = run[q]
  <2>1. CASE \E a \in {"ONAYLANDI", "REDDEDILDI", "BEKLEMEDE"} : CheckStatus(p, a)
    BY <1>1, <2>1 DEF CheckStatus, Goto
  <2>2. CASE \neg \E a \in {"ONAYLANDI", "REDDEDILDI", "BEKLEMEDE"} : CheckStatus(p, a)
    BY <1>1, <2>2 DEF RunStep, MarkProcessing, SendToGib, SaveSent, CreatePoll, NothingToPoll,
       SaveVerdict, CancelOnGib, EndTurn, NextRecord, Goto
  <2> QED
    BY <2>1, <2>2
<1>2. ASSUME RunStep(q), ~MarkProcessing(q), ~EndTurn(q)
      PROVE  Busy(q) /\ \E pc, u, answer : run'[q] = At(q, pc, u, answer)
  <2>1. ASSUME NEW pc, Goto(q, pc) PROVE \E x, u, answer : run'[q] = At(q, x, u, answer)
    BY <2>1 DEF Goto
  <2>2. CASE SendToGib(q)
    BY <2>2 DEF SendToGib, Acts, Busy
  <2>3. ASSUME NEW a, CheckStatus(q, a)
        PROVE  Busy(q) /\ \E pc, u, answer : run'[q] = At(q, pc, u, answer)
    <3>1. CASE a = "BEKLEMEDE"
      BY <2>1, <2>3, <3>1 DEF CheckStatus, Acts, Busy
    <3>2. CASE a # "BEKLEMEDE"
      BY <2>3, <3>2 DEF CheckStatus, Acts, Busy
    <3> QED
      BY <3>1, <3>2
  <2>4. CASE SaveSent(q) \/ CreatePoll(q) \/ NothingToPoll(q) \/ SaveVerdict(q) \/ CancelOnGib(q)
    BY <2>1, <2>4 DEF SaveSent, CreatePoll, NothingToPoll, SaveVerdict, CancelOnGib, Acts, Busy
  <2> QED
    BY <1>2, <2>2, <2>3, <2>4 DEF RunStep
<1>3. ASSUME NEW p \in Runs, StepFails(p)
      PROVE  \/ run'[q] = run[q]
             \/ Busy(q) /\ \E pc, u, answer : run'[q] = At(q, pc, u, answer)
  <2>1. CASE p = q
    BY <1>3, <2>1 DEF StepFails, Goto, Busy
  <2>2. CASE p # q
    BY <1>3, <2>2 DEF StepFails, Goto
  <2> QED
    BY <2>1, <2>2
<1>4. ASSUME NEW p \in Runs, StartRun(p), p # q PROVE run'[q] = run[q]
  BY <1>4 DEF StartRun
<1>5. ASSUME NEW p \in Runs, RunFails(p) PROVE run'[q] = run[q] \/ run'[q] = IdleRun
  BY <1>5 DEF RunFails
<1>6. CASE Restart
  BY <1>6 DEF Restart
<1>7. CASE \/ UNCHANGED vars \/ \E w \in Waybills : Create(w)
           \/ \E c \in Clients, op \in Ops \ {"none"}, w \in Waybills : Read(c, op, w)
           \/ \E c \in Clients : InsertRecord(c) \/ Save(c) \/ RequestFails(c)
  BY <1>7 DEF vars, Create, Read, InsertRecord, Save, RequestFails
<1> QED
  BY <1>1, <1>2, <1>3, <1>4, <1>5, <1>6, <1>7 DEF Next

\* The batch of a run at work: each of its records was in it before, or was
\* found pending as the run started.
LEMMA BatchStep ==
    ASSUME Inv, [Next]_vars, NEW p \in Runs, Busy(p)'
    PROVE  /\ run'[p].batch # <<>>
           /\ \A k \in DOMAIN run'[p].batch :
                \/ Busy(p) /\ \E j \in DOMAIN run[p].batch : run'[p].batch[k].id = run[p].batch[j].id
                \/ run'[p].batch[k].id \in DOMAIN outbox /\ IsPending(run'[p].batch[k].id)
<1> DEFINE Goal(batch) ==
      /\ batch # <<>>
      /\ \A k \in DOMAIN batch :
           \/ Busy(p) /\ \E j \in DOMAIN run[p].batch : batch[k].id = run[p].batch[j].id
           \/ batch[k].id \in DOMAIN outbox /\ IsPending(batch[k].id)
<1> SUFFICES Goal(run'[p].batch)
  OBVIOUS
<1>1. CASE run'[p] = run[p]
  BY <1>1 DEF Inv, Batched, Busy
<1>2. CASE run'[p] = IdleRun
  BY <1>2 DEF IdleRun, Busy
<1>3. CASE StartRun(p)
  <2>1. PICK n \in 1 .. BatchSize : \E ids \in [1 .. n -> DOMAIN outbox] :
          /\ Oldest(ids, n)
          /\ run' = [run EXCEPT ![p] =
               Starting([i \in 1 .. n |-> [id |-> ids[i], attempts |-> outbox[ids[i]].attempts]])]
    BY <1>3 DEF StartRun
  <2>2. PICK ids \in [1 .. n -> DOMAIN outbox] :
          /\ Oldest(ids, n)
          /\ run' = [run EXCEPT ![p] =
               Starting([i \in 1 .. n |-> [id |-> ids[i], attempts |-> outbox[ids[i]].attempts]])]
    BY <2>1
  <2> DEFINE batch == [i \in 1 .. n |-> [id |-> ids[i], attempts |-> outbox[ids[i]].attempts]]
  <2>3. DOMAIN batch = 1 .. n /\ 1 \in DOMAIN batch
    BY WaybillAssumption
  <2>4. \A k \in DOMAIN batch : batch[k].id \in DOMAIN outbox /\ IsPending(batch[k].id)
    BY <2>2 DEF Oldest
  <2>5. batch # <<>>
    BY <2>3
  <2> HIDE DEF batch
  <2>6. run'[p].batch = batch
    BY <2>2 DEF batch, Starting, Inv, TypeOK
  <2> QED
    BY <2>4, <2>5, <2>6
<1>4. CASE MarkProcessing(p)
  <2> DEFINE x == [id |-> Head(run[p].batch).id, attempts |-> Head(run[p].batch).attempts + 1]
             batch == <<x>> \o Tail(run[p].batch)
  <2>1. Busy(p)
    BY <1>4 DEF MarkProcessing, Busy
  <2>2. run[p].batch \in Seq(Item) /\ Len(run[p].batch) \in Nat \ {0} /\ Tail(run[p].batch) \in Seq(Item)
    BY <2>1, InHand DEF Inv
  <2>3. x.id = run[p].batch[1].id
    BY <2>1, InHand
  <2> HIDE DEF x
  <2>4. batch # <<>> /\ DOMAIN batch = 1 .. Len(run[p].batch) /\ batch[1] = x
        /\ \A k \in 2 .. Len(run[p].batch) : batch[k] = run[p].batch[k]
    BY <2>2
  <2> HIDE DEF batch
  <2>5. \A k \in DOMAIN batch : k \in DOMAIN run[p].batch /\ batch[k].id = run[p].batch[k].id
    BY <2>2, <2>3, <2>4
  <2>6. run'[p].batch = batch
    BY <1>4 DEF MarkProcessing, batch, x, Inv, TypeOK
  <2> QED
    BY <2>1, <2>4, <2>5, <2>6
<1>5. CASE EndTurn(p)
  <2>1. Busy(p) /\ NextRecord(p)
    BY <1>5 DEF EndTurn, Busy
  <2>2. Len(run[p].batch) # 1
    BY <2>1 DEF NextRecord, IdleRun, Inv, TypeOK, Busy
  <2> DEFINE rest == Tail(run[p].batch)
  <2>3. run[p].batch \in Seq(Item) /\ Len(run[p].batch) \in Nat \ {0, 1}
    BY <2>1, <2>2, InHand DEF Inv
  <2>4. rest # <<>> /\ \A k \in DOMAIN rest : k + 1 \in DOMAIN run[p].batch /\ rest[k] = run[p].batch[k + 1]
    BY <2>3, TailOf
  <2> HIDE DEF rest
  <2>5. run'[p].batch = rest
    BY <2>1, <2>2 DEF NextRecord, rest, Starting, Inv, TypeOK
  <2> QED
    BY <2>1, <2>4, <2>5
<1>6. CASE Busy(p) /\ \E pc, u, answer : run'[p] = At(p, pc, u, answer)
  BY <1>6 DEF At, Inv, Batched
<1> QED
  BY <1>1, <1>2, <1>3, <1>4, <1>5, <1>6, RunFrame

\* A run keeps a record in hand, and its batch stays in the table.
LEMMA BatchedStep == ASSUME Inv, [Next]_vars PROVE Batched'
<1>1. \A k \in DOMAIN outbox : k \in DOMAIN outbox'
  BY GrowStep, TypeStep DEF Grows
<1> SUFFICES ASSUME NEW p \in Runs, Busy(p)'
             PROVE  run'[p].batch # <<>> /\ \A k \in DOMAIN run'[p].batch : run'[p].batch[k].id \in DOMAIN outbox'
  BY DEF Batched
<1> QED
  BY <1>1, BatchStep DEF Inv, Batched

\* A gibUuid comes from GIB, and goes back with the copy it was read with.
LEMMA RegisteredStep == ASSUME Inv, [Next]_vars PROVE Registered'
<1>g. Grows
  BY GrowStep
<1>t. TypeOK /\ TypeOK'
  BY TypeStep DEF Inv
<1>c. \A c \in Clients : client[c].waybill \in Waybills
  BY <1>t DEF TypeOK, Client
<1>1. ASSUME NEW w \in Waybills, Create(w) PROVE Registered'
  BY <1>1, <1>g, <1>t, <1>c DEF Create, NoUuid, Inv, Registered, Grows
<1>2. ASSUME NEW c \in Clients, NEW op \in Ops \ {"none"}, NEW w \in Waybills, Read(c, op, w) PROVE Registered'
  BY <1>2, <1>g, <1>t, <1>c DEF Read, Inv, Registered, Grows
<1>3. ASSUME NEW c \in Clients, InsertRecord(c) PROVE Registered'
  BY <1>3, <1>g, <1>t, <1>c DEF InsertRecord, Pending, Inv, Registered, Grows
<1>4. ASSUME NEW c \in Clients, Save(c) PROVE Registered'
  BY <1>4, <1>g, <1>t, <1>c DEF Save, IdleClient, Inv, Registered, Grows
<1>5. ASSUME NEW c \in Clients, RequestFails(c) PROVE Registered'
  BY <1>5, <1>g, <1>t, <1>c DEF RequestFails, IdleClient, Inv, Registered, Grows
<1>6. ASSUME NEW p \in Runs, StartRun(p) PROVE Registered'
  BY <1>6, <1>g, <1>t, <1>c DEF StartRun, Starting, Inv, Registered, Grows
<1>7. ASSUME NEW p \in Runs, MarkProcessing(p) PROVE Registered'
  BY <1>7, <1>g, <1>t, <1>c DEF MarkProcessing, SaveRecord, Inv, Registered, Grows
<1>8. ASSUME NEW p \in Runs, SendToGib(p) PROVE Registered'
  BY <1>8, <1>g, <1>t, <1>c DEF SendToGib, Acts, At, Inv, Registered, Grows
<1>9. ASSUME NEW p \in Runs, SaveSent(p) PROVE Registered'
  <2>1. Rec(p).waybill \in Waybills
    BY <1>9, InHand DEF SaveSent, Busy, Inv, Record
  <2>2. run[p].uuid \in DocsOf(Rec(p).waybill)
    BY <1>9 DEF SaveSent, Inv, Reached, ReachedBy
  <2>3. waybill' = [waybill EXCEPT ![Rec(p).waybill] = [status |-> "GIB_GONDERILDI", uuid |-> run[p].uuid]]
    BY <1>9 DEF SaveSent
  <2> QED
    BY <1>9, <1>g, <1>t, <1>c, <2>1, <2>2, <2>3 DEF SaveSent, Inv, Registered, Grows
<1>10. ASSUME NEW p \in Runs, CreatePoll(p) PROVE Registered'
  BY <1>10, <1>g, <1>t, <1>c DEF CreatePoll, Goto, At, Pending, Inv, Registered, Grows
<1>11. ASSUME NEW p \in Runs, NEW a \in {"ONAYLANDI", "REDDEDILDI", "BEKLEMEDE"}, CheckStatus(p, a) PROVE Registered'
  BY <1>11, <1>g, <1>t, <1>c DEF CheckStatus, Acts, Goto, At, Inv, Registered, Grows
<1>12. ASSUME NEW p \in Runs, NothingToPoll(p) PROVE Registered'
  BY <1>12, <1>g, <1>t, <1>c DEF NothingToPoll, Acts, Goto, At, Inv, Registered, Grows
<1>13. ASSUME NEW p \in Runs, SaveVerdict(p) PROVE Registered'
  <2>1. Rec(p).waybill \in Waybills
    BY <1>13, InHand DEF SaveVerdict, Busy, Inv, Record
  <2>2. \A w \in Waybills : waybill'[w].uuid = waybill[w].uuid
    BY <1>13, <1>t, <2>1 DEF SaveVerdict, Uuid
  <2> QED
    BY <1>13, <1>g, <1>t, <1>c, <2>2 DEF SaveVerdict, Inv, Registered, Grows
<1>14. ASSUME NEW p \in Runs, CancelOnGib(p) PROVE Registered'
  BY <1>14, <1>g, <1>t, <1>c DEF CancelOnGib, Acts, Goto, At, Inv, Registered, Grows
<1>15. ASSUME NEW p \in Runs, EndTurn(p) PROVE Registered'
  BY <1>15, <1>g, <1>t, <1>c DEF EndTurn, SaveRecord, NextRecord, Starting, Inv, Registered, Grows
<1>16. ASSUME NEW p \in Runs, StepFails(p) PROVE Registered'
  BY <1>16, <1>g, <1>t, <1>c DEF StepFails, Goto, At, Inv, Registered, Grows
<1>17. ASSUME NEW p \in Runs, RunFails(p) PROVE Registered'
  BY <1>17, <1>g, <1>t, <1>c DEF RunFails, Inv, Registered, Grows
<1>18. CASE Restart
  BY <1>18, <1>g, <1>t, <1>c DEF Restart, IdleClient, Inv, Registered, Grows
<1>19. CASE UNCHANGED vars
  BY <1>19, <1>g, <1>t, <1>c DEF vars, Inv, Registered, Grows
<1> QED
  BY <1>1, <1>2, <1>3, <1>4, <1>5, <1>6, <1>7, <1>8, <1>9, <1>10, <1>11, <1>12, <1>13, <1>14, <1>15, <1>16, <1>17, <1>18, <1>19 DEF Next, RunStep

\* A status that tells a verdict comes from GIB, or from such a copy.
LEMMA TruthfulStep == ASSUME Inv, [Next]_vars PROVE Truthful'
<1>g. Grows
  BY GrowStep
<1>t. TypeOK /\ TypeOK'
  BY TypeStep DEF Inv
<1>c. \A c \in Clients : client[c].waybill \in Waybills
  BY <1>t DEF TypeOK, Client
<1>1. ASSUME NEW w \in Waybills, Create(w) PROVE Truthful'
  BY <1>1, <1>g, <1>t, <1>c, ToldKept DEF Create, Told, Inv, Truthful, TypeOK
<1>2. ASSUME NEW c \in Clients, NEW op \in Ops \ {"none"}, NEW w \in Waybills, Read(c, op, w) PROVE Truthful'
  BY <1>2, <1>g, <1>t, <1>c, ToldKept DEF Read, Inv, Truthful
<1>3. ASSUME NEW c \in Clients, InsertRecord(c) PROVE Truthful'
  BY <1>3, <1>g, <1>t, <1>c, ToldKept DEF InsertRecord, Pending, Inv, Truthful
<1>4. ASSUME NEW c \in Clients, Save(c) PROVE Truthful'
  <2>1. PICK w \in Waybills, s \in Statuses : w = client[c].waybill /\ s = client[c].copy.status
    BY <1>t DEF TypeOK, Client, Copy
  <2>2. PICK status : status = StatusAfter(client[c].op, s)
    OBVIOUS
  <2>3. Told(w, s)
    BY <1>4, <2>1 DEF Save, Inv, Truthful
  <2>4. client[c].op \in {"approve", "queue", "cancel", "update"}
    BY <1>4, <1>t DEF Save, TypeOK, Client, Ops
  <2>5. Told(w, status)
    BY <2>2, <2>3, <2>4 DEF Told, StatusAfter
  <2>6. Told(w, status)'
    BY <1>g, <2>5, ToldKept
  <2>7. waybill' = [waybill EXCEPT ![w] = [status |-> status, uuid |-> client[c].copy.uuid]]
    BY <1>4, <2>1, <2>2 DEF Save
  <2>8. ASSUME NEW v \in Waybills PROVE Told(v, waybill[v].status)'
    <3>1. CASE v = w
      BY <1>t, <2>6, <2>7, <3>1 DEF TypeOK, Told
    <3>2. CASE v # w
      <4>1. waybill'[v] = waybill[v] /\ Told(v, waybill[v].status)
        BY <1>t, <2>7, <3>2 DEF Inv, Truthful
      <4> QED
        BY <1>g, <4>1, GivenKept DEF Told
    <3> QED
      BY <3>1, <3>2
  <2> QED
    BY <1>4, <1>g, <1>t, <1>c, <2>8, ToldKept DEF Save, IdleClient, Inv, Truthful
<1>5. ASSUME NEW c \in Clients, RequestFails(c) PROVE Truthful'
  BY <1>5, <1>g, <1>t, <1>c, ToldKept DEF RequestFails, IdleClient, Inv, Truthful
<1>6. ASSUME NEW p \in Runs, StartRun(p) PROVE Truthful'
  BY <1>6, <1>g, <1>t, <1>c, ToldKept DEF StartRun, Starting, Inv, Truthful
<1>7. ASSUME NEW p \in Runs, MarkProcessing(p) PROVE Truthful'
  BY <1>7, <1>g, <1>t, <1>c, ToldKept DEF MarkProcessing, SaveRecord, Inv, Truthful
<1>8. ASSUME NEW p \in Runs, SendToGib(p) PROVE Truthful'
  BY <1>8, <1>g, <1>t, <1>c, ToldKept DEF SendToGib, Acts, At, Inv, Truthful
<1>9. ASSUME NEW p \in Runs, SaveSent(p) PROVE Truthful'
  <2>1. PICK w \in Waybills : w = Rec(p).waybill
    BY <1>9, InHand DEF SaveSent, Busy, Inv, Record
  <2> DEFINE status == "GIB_GONDERILDI"
  <2>2. waybill' = [waybill EXCEPT ![w] = [status |-> status, uuid |-> run[p].uuid]] /\ Told(w, status)
    BY <1>9, <2>1 DEF SaveSent, Told
  <2>3. Told(w, status)'
    BY <1>g, <2>2, ToldKept
  <2>4. ASSUME NEW v \in Waybills PROVE Told(v, waybill[v].status)'
    <3>1. CASE v = w
      BY <1>t, <2>2, <2>3, <3>1 DEF TypeOK, Told
    <3>2. CASE v # w
      <4>1. waybill'[v] = waybill[v] /\ Told(v, waybill[v].status)
        BY <1>t, <2>2, <3>2 DEF Inv, Truthful
      <4> QED
        BY <1>g, <4>1, GivenKept DEF Told
    <3> QED
      BY <3>1, <3>2
  <2> QED
    BY <1>9, <1>g, <1>t, <1>c, <2>4, ToldKept DEF SaveSent, Inv, Truthful
<1>10. ASSUME NEW p \in Runs, CreatePoll(p) PROVE Truthful'
  BY <1>10, <1>g, <1>t, <1>c, ToldKept DEF CreatePoll, Goto, At, Pending, Inv, Truthful
<1>11. ASSUME NEW p \in Runs, NEW a \in {"ONAYLANDI", "REDDEDILDI", "BEKLEMEDE"}, CheckStatus(p, a) PROVE Truthful'
  BY <1>11, <1>g, <1>t, <1>c, ToldKept DEF CheckStatus, Acts, Goto, At, Inv, Truthful
<1>12. ASSUME NEW p \in Runs, NothingToPoll(p) PROVE Truthful'
  BY <1>12, <1>g, <1>t, <1>c, ToldKept DEF NothingToPoll, Acts, Goto, At, Inv, Truthful
<1>13. ASSUME NEW p \in Runs, SaveVerdict(p) PROVE Truthful'
  <2>1. PICK w \in Waybills : w = Rec(p).waybill
    BY <1>13, InHand DEF SaveVerdict, Busy, Inv, Record
  <2>0. PICK status : status = StatusOf(run[p].answer)
    OBVIOUS
  <2>2. waybill' = [waybill EXCEPT ![w] = [status |-> status, uuid |-> Uuid(p)]] /\ Told(w, status)
    <3>1. Given(w, run[p].answer)
      BY <1>13, <2>1 DEF SaveVerdict, Inv, Reached, ReachedBy
    <3>2. run[p].answer \in {"none", "ONAYLANDI", "REDDEDILDI"} /\ run[p].pc = "result"
      BY <1>13, <1>t DEF SaveVerdict, TypeOK, Run
    <3>3. run[p].answer # "none"
      BY <1>t, <3>1 DEF Given, TypeOK
    <3> QED
      BY <1>13, <2>0, <2>1, <3>1, <3>2, <3>3 DEF SaveVerdict, Told, StatusOf
  <2>3. Told(w, status)'
    BY <1>g, <2>2, ToldKept
  <2>4. ASSUME NEW v \in Waybills PROVE Told(v, waybill[v].status)'
    <3>1. CASE v = w
      BY <1>t, <2>2, <2>3, <3>1 DEF TypeOK, Told
    <3>2. CASE v # w
      <4>1. waybill'[v] = waybill[v] /\ Told(v, waybill[v].status)
        BY <1>t, <2>2, <3>2 DEF Inv, Truthful
      <4> QED
        BY <1>g, <4>1, GivenKept DEF Told
    <3> QED
      BY <3>1, <3>2
  <2> QED
    BY <1>13, <1>g, <1>t, <1>c, <2>4, ToldKept DEF SaveVerdict, Inv, Truthful
<1>14. ASSUME NEW p \in Runs, CancelOnGib(p) PROVE Truthful'
  BY <1>14, <1>g, <1>t, <1>c, ToldKept DEF CancelOnGib, Acts, Goto, At, Inv, Truthful
<1>15. ASSUME NEW p \in Runs, EndTurn(p) PROVE Truthful'
  BY <1>15, <1>g, <1>t, <1>c, ToldKept DEF EndTurn, SaveRecord, NextRecord, Starting, Inv, Truthful
<1>16. ASSUME NEW p \in Runs, StepFails(p) PROVE Truthful'
  BY <1>16, <1>g, <1>t, <1>c, ToldKept DEF StepFails, Goto, At, Inv, Truthful
<1>17. ASSUME NEW p \in Runs, RunFails(p) PROVE Truthful'
  BY <1>17, <1>g, <1>t, <1>c, ToldKept DEF RunFails, Inv, Truthful
<1>18. CASE Restart
  BY <1>18, <1>g, <1>t, <1>c, ToldKept DEF Restart, IdleClient, Inv, Truthful
<1>19. CASE UNCHANGED vars
  BY <1>19, <1>g, <1>t, <1>c, ToldKept DEF vars, Inv, Truthful
<1> QED
  BY <1>1, <1>2, <1>3, <1>4, <1>5, <1>6, <1>7, <1>8, <1>9, <1>10, <1>11, <1>12, <1>13, <1>14, <1>15, <1>16, <1>17, <1>18, <1>19 DEF Next, RunStep

LEMMA ReachedBut ==
    ASSUME Inv, TypeOK', Grows, NEW p \in Runs,
           \A q \in Runs : q # p => run'[q] = run[q], ReachedBy(p)'
    PROVE  Reached'
  BY ReachedKept DEF Reached

\* A run brings its record on step by step.
LEMMA ReachedStep == ASSUME Inv, [Next]_vars PROVE Reached'
<1>g. Grows
  BY GrowStep
<1>t. TypeOK /\ TypeOK' /\ Batched
  BY TypeStep DEF Inv
<1>1. ASSUME NEW w \in Waybills, Create(w) PROVE Reached'
  BY <1>1, <1>g, <1>t, ReachedKept DEF Create, Reached
<1>2. ASSUME NEW c \in Clients, NEW op \in Ops \ {"none"}, NEW w \in Waybills, Read(c, op, w) PROVE Reached'
  BY <1>2, <1>g, <1>t, ReachedKept DEF Read, Reached
<1>3. ASSUME NEW c \in Clients, InsertRecord(c) PROVE Reached'
  BY <1>3, <1>g, <1>t, ReachedKept DEF InsertRecord, Pending, Reached
<1>4. ASSUME NEW c \in Clients, Save(c) PROVE Reached'
  BY <1>4, <1>g, <1>t, ReachedKept DEF Save, Reached
<1>5. ASSUME NEW c \in Clients, RequestFails(c) PROVE Reached'
  BY <1>5, <1>g, <1>t, ReachedKept DEF RequestFails, Reached
<1>6. ASSUME NEW p \in Runs, StartRun(p) PROVE Reached'
  BY <1>6, <1>g, <1>t, ReachedBut DEF StartRun, Starting, ReachedBy, TypeOK
<1>7. ASSUME NEW p \in Runs, MarkProcessing(p) PROVE Reached'
  BY <1>7, <1>g, <1>t, ReachedBut DEF MarkProcessing, ReachedBy
<1>8. ASSUME NEW p \in Runs, SendToGib(p) PROVE Reached'
  <2>1. Rec(p).waybill \in Waybills /\ Rec(p)' = Rec(p)
    <3>1. Busy(p) /\ run'[p].batch = run[p].batch /\ outbox' = outbox
      BY <1>8, <1>t DEF SendToGib, Acts, Busy, At, TypeOK
    <3> QED
      BY <1>t, <3>1, HandKept
  <2>2. \A q \in Runs : q # p => run'[q] = run[q]
    BY <1>8, <1>t DEF SendToGib, At
  <2>3. ReachedBy(p)'
    BY <1>8, <1>g, <1>t, <2>1 DEF SendToGib, Acts, At, Reached, ReachedBy, DocsOf
  <2> QED
    BY <1>g, <1>t, <2>2, <2>3, ReachedBut
<1>9. ASSUME NEW p \in Runs, SaveSent(p) PROVE Reached'
  <2>1. Rec(p).waybill \in Waybills /\ Rec(p)' = Rec(p)
    <3>1. Busy(p) /\ run'[p].batch = run[p].batch /\ outbox' = outbox
      BY <1>9, <1>t DEF SaveSent, Busy, Goto, At, TypeOK
    <3> QED
      BY <1>t, <3>1, HandKept
  <2>2. \A q \in Runs : q # p => run'[q] = run[q]
    BY <1>9, <1>t DEF SaveSent, Goto, At
  <2>3. ReachedBy(p)'
    BY <1>9, <1>g, <1>t, <2>1 DEF SaveSent, Acts, Goto, At, Inv, Reached, ReachedBy, DocsOf
  <2> QED
    BY <1>g, <1>t, <2>2, <2>3, ReachedBut
<1>10. ASSUME NEW p \in Runs, CreatePoll(p) PROVE Reached'
  <2>1. /\ run[p].pc = "poll" /\ outbox' = Append(outbox, Pending(Rec(p).waybill, "POLL"))
        /\ run'[p] = At(p, "done", run[p].uuid, run[p].answer) /\ docs' = docs
    BY <1>10, <1>t DEF CreatePoll, Goto, TypeOK
  <2>2. Rec(p).waybill \in Waybills /\ Id(p) \in 1 .. Len(outbox) /\ Rec(p) = outbox[Id(p)]
    BY <2>1, InHand DEF Busy, Inv, Record
  <2>3. Pending(Rec(p).waybill, "POLL") \in Record
    BY <2>2 DEF Pending, Record
  <2>4. /\ Len(outbox) \in Nat /\ Len(outbox') = Len(outbox) + 1
        /\ \A k \in 1 .. Len(outbox) : outbox'[k] = outbox[k]
        /\ outbox'[Len(outbox) + 1] = Pending(Rec(p).waybill, "POLL")
        /\ DOMAIN outbox' = 1 .. Len(outbox')
    <3> DEFINE r == Pending(Rec(p).waybill, "POLL")
    <3>1. r \in Record /\ outbox' = Append(outbox, r) /\ outbox \in Seq(Record)
      BY <1>t, <2>1, <2>3 DEF TypeOK
    <3> HIDE DEF r
    <3>2. /\ Len(outbox) \in Nat /\ Len(outbox') = Len(outbox) + 1
          /\ \A k \in 1 .. Len(outbox) : outbox'[k] = outbox[k]
          /\ outbox'[Len(outbox) + 1] = r /\ DOMAIN outbox' = 1 .. Len(outbox')
      BY <3>1
    <3> QED
      BY <3>2 DEF r
  <2>5. Id(p)' = Id(p) /\ Rec(p)' = Rec(p) /\ outbox'[Id(p)] = Rec(p)
    <3>1. Id(p)' = Id(p)
      BY <2>1 DEF At, Id
    <3>2. outbox'[Id(p)] = outbox[Id(p)]
      BY <2>2, <2>4
    <3> QED
      BY <2>2, <3>1, <3>2 DEF Rec, Id
  <2>6. Rec(p).action = "SEND" /\ DocsOf(Rec(p).waybill) # {}
    BY <2>1 DEF Inv, Reached, ReachedBy
  <2>7. Asked(Id(p))'
    <3>1. /\ Len(outbox) + 1 \in DOMAIN outbox' /\ Len(outbox) + 1 > Id(p)
          /\ outbox'[Len(outbox) + 1].action = "POLL"
          /\ outbox'[Len(outbox) + 1].waybill = outbox'[Id(p)].waybill
      BY <2>2, <2>4, <2>5 DEF Pending
    <3> QED
      BY <2>5, <3>1 DEF Asked
  <2>8. ReachedBy(p)'
    BY <2>1, <2>5, <2>6, <2>7 DEF At, ReachedBy, DocsOf
  <2>9. \A q \in Runs : q # p => run'[q] = run[q]
    BY <1>10, <1>t DEF CreatePoll, Goto
  <2> QED
    BY <1>g, <1>t, <2>8, <2>9, ReachedBut
<1>11. ASSUME NEW p \in Runs, NEW a \in {"ONAYLANDI", "REDDEDILDI", "BEKLEMEDE"}, CheckStatus(p, a) PROVE Reached'
  <2>1. Rec(p).waybill \in Waybills /\ Rec(p)' = Rec(p)
    <3>1. Busy(p) /\ run'[p].batch = run[p].batch /\ outbox' = outbox
      BY <1>11, <1>t DEF CheckStatus, Acts, Busy, Goto, At, TypeOK
    <3> QED
      BY <1>t, <3>1, HandKept
  <2>2. \A q \in Runs : q # p => run'[q] = run[q]
    <3>1. CASE a = "BEKLEMEDE"
      BY <1>11, <1>t, <3>1 DEF CheckStatus, Goto, TypeOK
    <3>2. CASE a # "BEKLEMEDE"
      BY <1>11, <1>t, <3>2 DEF CheckStatus, TypeOK
    <3> QED
      BY <3>1, <3>2
  <2>3. CASE a = "BEKLEMEDE"
    <3>1. ReachedBy(p)'
      BY <1>11, <1>t, <2>3 DEF CheckStatus, Goto, At, ReachedBy, TypeOK
    <3> QED
      BY <1>g, <1>t, <2>2, <3>1, ReachedBut
  <2>4. CASE a # "BEKLEMEDE"
    <3>1. Uuid(p) \in DocsOf(Rec(p).waybill) /\ <<Uuid(p), a>> \in verdicts'
      BY <1>11, <2>1, <2>4 DEF CheckStatus, Uuid, Inv, Registered
    <3>2. Given(Rec(p).waybill, a)'
      BY <1>11, <2>1, <3>1 DEF CheckStatus, Given, DocsOf
    <3>3. ReachedBy(p)'
      BY <1>11, <1>t, <2>1, <2>4, <3>2 DEF CheckStatus, Acts, At, ReachedBy, TypeOK
    <3> QED
      BY <1>g, <1>t, <2>2, <3>3, ReachedBut
  <2> QED
    BY <2>3, <2>4
<1>12. ASSUME NEW p \in Runs, NothingToPoll(p) PROVE Reached'
  BY <1>12, <1>g, <1>t, ReachedBut DEF NothingToPoll, Goto, At, ReachedBy, TypeOK
<1>13. ASSUME NEW p \in Runs, SaveVerdict(p) PROVE Reached'
  <2>1. Rec(p).waybill \in Waybills /\ Rec(p)' = Rec(p)
    <3>1. Busy(p) /\ run'[p].batch = run[p].batch /\ outbox' = outbox
      BY <1>13, <1>t DEF SaveVerdict, Busy, Goto, At, TypeOK
    <3> QED
      BY <1>t, <3>1, HandKept
  <2>2. \A q \in Runs : q # p => run'[q] = run[q]
    BY <1>13, <1>t DEF SaveVerdict, Goto, At
  <2>3. ReachedBy(p)'
    BY <1>13, <1>g, <1>t, <2>1 DEF SaveVerdict, Acts, Goto, At, Inv, Reached, ReachedBy, TypeOK
  <2> QED
    BY <1>g, <1>t, <2>2, <2>3, ReachedBut
<1>14. ASSUME NEW p \in Runs, CancelOnGib(p) PROVE Reached'
  <2>1. Rec(p).waybill \in Waybills /\ Rec(p)' = Rec(p)
    <3>1. Busy(p) /\ run'[p].batch = run[p].batch /\ outbox' = outbox
      BY <1>14, <1>t DEF CancelOnGib, Acts, Busy, Goto, At, TypeOK
    <3> QED
      BY <1>t, <3>1, HandKept
  <2>2. \A q \in Runs : q # p => run'[q] = run[q]
    BY <1>14, <1>t DEF CancelOnGib, Goto, At
  <2>3. ReachedBy(p)'
    BY <1>14, <1>g, <1>t, <2>1 DEF CancelOnGib, Acts, Goto, At, Reached, ReachedBy
  <2> QED
    BY <1>g, <1>t, <2>2, <2>3, ReachedBut
<1>15. ASSUME NEW p \in Runs, EndTurn(p) PROVE Reached'
  <2>1. run'[p].pc \in {"idle", "mark"} /\ \A q \in Runs : q # p => run'[q] = run[q]
    BY <1>15, <1>t DEF EndTurn, NextRecord, IdleRun, Starting, TypeOK
  <2> QED
    BY <1>15, <1>g, <1>t, <2>1, ReachedBut DEF ReachedBy
<1>16. ASSUME NEW p \in Runs, StepFails(p) PROVE Reached'
  BY <1>16, <1>g, <1>t, ReachedBut DEF StepFails, Goto, At, ReachedBy, TypeOK
<1>17. ASSUME NEW p \in Runs, RunFails(p) PROVE Reached'
  BY <1>17, <1>g, <1>t, ReachedBut DEF RunFails, IdleRun, ReachedBy
<1>18. CASE Restart
  BY <1>18 DEF Restart, IdleRun, Reached, ReachedBy
<1>19. CASE UNCHANGED vars
  BY <1>19, <1>g, <1>t, ReachedKept DEF vars, Reached
<1> QED
  BY <1>1, <1>2, <1>3, <1>4, <1>5, <1>6, <1>7, <1>8, <1>9, <1>10, <1>11, <1>12, <1>13, <1>14, <1>15, <1>16, <1>17, <1>18, <1>19 DEF Next, RunStep

\* Records are closed by runs that reached the end.
LEMMA ClosedStep == ASSUME Inv, [Next]_vars PROVE (\A k \in DOMAIN outbox : Closed(k))'
<1>g. Grows
  BY GrowStep
<1>t. TypeOK /\ TypeOK'
  BY TypeStep DEF Inv
<1>k. ASSUME NEW k \in DOMAIN outbox, outbox'[k].status = "DONE" => outbox[k].status = "DONE"
      PROVE  Closed(k)'
  BY <1>g, <1>t, <1>k, ClosedKept
<1>1. ASSUME NEW w \in Waybills, Create(w) PROVE (\A k \in DOMAIN outbox : Closed(k))'
  BY <1>1, <1>k DEF Create
<1>2. ASSUME NEW c \in Clients, NEW op \in Ops \ {"none"}, NEW w \in Waybills, Read(c, op, w) PROVE (\A k \in DOMAIN outbox : Closed(k))'
  BY <1>2, <1>k DEF Read
<1>3. ASSUME NEW c \in Clients, InsertRecord(c) PROVE (\A k \in DOMAIN outbox : Closed(k))'
  <2>1. PICK r \in Record : r.status = "PENDING" /\ outbox' = Append(outbox, r)
    BY <1>3, <1>t DEF InsertRecord, Pending, TypeOK, Client, Record
  <2>2. /\ DOMAIN outbox = 1 .. Len(outbox) /\ DOMAIN outbox' = 1 .. Len(outbox) + 1
        /\ Len(outbox) \in Nat /\ outbox'[Len(outbox) + 1] = r
        /\ \A k \in DOMAIN outbox : outbox'[k] = outbox[k]
    BY <1>t, <2>1
  <2>3. ASSUME NEW k \in DOMAIN outbox' PROVE Closed(k)'
    <3>1. CASE k \in DOMAIN outbox
      BY <1>k, <2>2, <3>1
    <3>2. CASE k \notin DOMAIN outbox
      BY <2>1, <2>2, <3>2 DEF Closed
    <3> QED
      BY <3>1, <3>2
  <2> QED
    BY <2>3
<1>4. ASSUME NEW c \in Clients, Save(c) PROVE (\A k \in DOMAIN outbox : Closed(k))'
  BY <1>4, <1>k DEF Save
<1>5. ASSUME NEW c \in Clients, RequestFails(c) PROVE (\A k \in DOMAIN outbox : Closed(k))'
  BY <1>5, <1>k DEF RequestFails
<1>6. ASSUME NEW p \in Runs, StartRun(p) PROVE (\A k \in DOMAIN outbox : Closed(k))'
  BY <1>6, <1>k DEF StartRun, Starting
<1>7. ASSUME NEW p \in Runs, MarkProcessing(p) PROVE (\A k \in DOMAIN outbox : Closed(k))'
  <2>1. Busy(p) /\ SaveRecord(p, "PROCESSING", Head(run[p].batch).attempts + 1)
    BY <1>7 DEF MarkProcessing, Busy
  <2>2. DOMAIN outbox' = DOMAIN outbox
    BY <2>1 DEF SaveRecord
  <2>3. \A k \in DOMAIN outbox : outbox'[k].status = "DONE" => outbox[k].status = "DONE"
    BY <1>t, <2>1 DEF SaveRecord
  <2> QED
    BY <1>k, <2>2, <2>3
<1>8. ASSUME NEW p \in Runs, SendToGib(p) PROVE (\A k \in DOMAIN outbox : Closed(k))'
  BY <1>8, <1>k DEF SendToGib, Acts, At
<1>9. ASSUME NEW p \in Runs, SaveSent(p) PROVE (\A k \in DOMAIN outbox : Closed(k))'
  BY <1>9, <1>k DEF SaveSent, Goto, At
<1>10. ASSUME NEW p \in Runs, CreatePoll(p) PROVE (\A k \in DOMAIN outbox : Closed(k))'
  <2>1. PICK r \in Record : r.status = "PENDING" /\ outbox' = Append(outbox, r)
    BY <1>10, <1>t, InHand DEF CreatePoll, Busy, Inv, Pending, Record
  <2>2. /\ DOMAIN outbox = 1 .. Len(outbox) /\ DOMAIN outbox' = 1 .. Len(outbox) + 1
        /\ Len(outbox) \in Nat /\ outbox'[Len(outbox) + 1] = r
        /\ \A k \in DOMAIN outbox : outbox'[k] = outbox[k]
    BY <1>t, <2>1
  <2>3. ASSUME NEW k \in DOMAIN outbox' PROVE Closed(k)'
    <3>1. CASE k \in DOMAIN outbox
      BY <1>k, <2>2, <3>1
    <3>2. CASE k \notin DOMAIN outbox
      BY <2>1, <2>2, <3>2 DEF Closed
    <3> QED
      BY <3>1, <3>2
  <2> QED
    BY <2>3
<1>11. ASSUME NEW p \in Runs, NEW a \in {"ONAYLANDI", "REDDEDILDI", "BEKLEMEDE"}, CheckStatus(p, a) PROVE (\A k \in DOMAIN outbox : Closed(k))'
  BY <1>11, <1>k DEF CheckStatus, Acts, Goto, At
<1>12. ASSUME NEW p \in Runs, NothingToPoll(p) PROVE (\A k \in DOMAIN outbox : Closed(k))'
  BY <1>12, <1>k DEF NothingToPoll, Acts, Goto, At
<1>13. ASSUME NEW p \in Runs, SaveVerdict(p) PROVE (\A k \in DOMAIN outbox : Closed(k))'
  BY <1>13, <1>k DEF SaveVerdict, Goto, At
<1>14. ASSUME NEW p \in Runs, CancelOnGib(p) PROVE (\A k \in DOMAIN outbox : Closed(k))'
  BY <1>14, <1>k DEF CancelOnGib, Acts, Goto, At
<1>15. ASSUME NEW p \in Runs, EndTurn(p) PROVE (\A k \in DOMAIN outbox : Closed(k))'
  <2>1. PICK status \in {"PENDING", "DONE", "FAILED"} :
          /\ SaveRecord(p, status, Head(run[p].batch).attempts)
          /\ status = "DONE" => run[p].pc = "done"
    BY <1>15 DEF EndTurn, StatusAfterWait, StatusAfterError
  <2>2. Busy(p) /\ docs' = docs
    BY <1>15 DEF EndTurn, Busy
  <2>3. PICK i \in DOMAIN outbox : i = Id(p)
    BY <1>t, <2>2, InHand DEF Inv
  <2>4. PICK w \in Waybills : w = Rec(p).waybill
    BY <2>2, InHand DEF Inv, Record
  <2>5. DOMAIN outbox' = DOMAIN outbox /\ \A k \in DOMAIN outbox : k # i => outbox'[k] = outbox[k]
    BY <2>1, <2>3, <1>t DEF SaveRecord, Id
  <2>6. outbox'[i].status = status /\ outbox'[i].waybill = w /\ outbox'[i].action = Rec(p).action
    BY <2>1, <2>3, <2>4 DEF SaveRecord, Id
  <2>7. Closed(i)'
    <3> SUFFICES ASSUME Rec(p).action = "SEND", status = "DONE"
                 PROVE  DocsOf(w)' # {} /\ Asked(i)'
      BY <2>6 DEF Closed
    <3>1. DocsOf(w) # {} /\ Asked(i)
      BY <2>1, <2>3, <2>4 DEF Inv, Reached, ReachedBy
    <3>2. Asked(i)'
      BY <1>g, <1>t, <3>1, AskedKept
    <3> QED
      BY <2>2, <3>1, <3>2 DEF DocsOf
  <2>8. ASSUME NEW k \in DOMAIN outbox' PROVE Closed(k)'
    <3>1. CASE k = i
      BY <2>7, <3>1
    <3>2. CASE k # i
      BY <1>k, <2>5, <3>2
    <3> QED
      BY <3>1, <3>2
  <2> QED
    BY <2>8
<1>16. ASSUME NEW p \in Runs, StepFails(p) PROVE (\A k \in DOMAIN outbox : Closed(k))'
  BY <1>16, <1>k DEF StepFails, Goto, At
<1>17. ASSUME NEW p \in Runs, RunFails(p) PROVE (\A k \in DOMAIN outbox : Closed(k))'
  BY <1>17, <1>k DEF RunFails
<1>18. CASE Restart
  BY <1>18, <1>k DEF Restart
<1>19. CASE UNCHANGED vars
  BY <1>19, <1>k DEF vars
<1> QED
  BY <1>1, <1>2, <1>3, <1>4, <1>5, <1>6, <1>7, <1>8, <1>9, <1>10, <1>11, <1>12, <1>13, <1>14, <1>15, <1>16, <1>17, <1>18, <1>19 DEF Next, RunStep

\* What a step can do to a request's memory.
LEMMA ClientFrame ==
    ASSUME Inv, [Next]_vars, NEW c \in Clients
    PROVE  \/ client'[c] = client[c] \/ client'[c] = IdleClient
           \/ client[c].op # "none" /\ client'[c] = [client[c] EXCEPT !.enqueue = FALSE]
           \/ \E op \in Ops \ {"none"}, w \in Waybills : Read(c, op, w)
<1> USE DEF Inv, TypeOK
<1>1. ASSUME NEW d \in Clients, NEW op, NEW w, Read(d, op, w), d # c PROVE client'[c] = client[c]
  BY <1>1 DEF Read
<1>2. ASSUME NEW d \in Clients, InsertRecord(d)
      PROVE  \/ client'[c] = client[c]
             \/ client[c].op # "none" /\ client'[c] = [client[c] EXCEPT !.enqueue = FALSE]
  BY <1>2 DEF InsertRecord, Enqueuing
<1>3. ASSUME NEW d \in Clients, Save(d) \/ RequestFails(d)
      PROVE  client'[c] = client[c] \/ client'[c] = IdleClient
  BY <1>3 DEF Save, RequestFails
<1>4. CASE Restart
  BY <1>4 DEF Restart
<1>5. ASSUME NEW p \in Runs, StartRun(p) \/ RunStep(p) \/ StepFails(p) \/ RunFails(p)
      PROVE  client' = client
  BY <1>5 DEF StartRun, RunStep, MarkProcessing, SendToGib, SaveSent, CreatePoll, CheckStatus,
     NothingToPoll, SaveVerdict, CancelOnGib, EndTurn, StepFails, RunFails
<1>6. CASE UNCHANGED vars \/ \E w \in Waybills : Create(w)
  BY <1>6 DEF vars, Create
<1> QED
  BY <1>1, <1>2, <1>3, <1>4, <1>5, <1>6 DEF Next

LEMMA EnqueuingStep == ASSUME Inv, [Next]_vars PROVE Enqueuing'
<1> SUFFICES ASSUME NEW c \in Clients, client'[c].enqueue PROVE client'[c].op # "none"
  BY DEF Enqueuing
<1>1. client[c] \in Client
  BY DEF Inv, TypeOK
<1>2. CASE client'[c] = client[c] \/ client'[c] = IdleClient
  BY <1>2 DEF Inv, Enqueuing, IdleClient
<1>3. CASE client'[c] = [client[c] EXCEPT !.enqueue = FALSE]
  BY <1>1, <1>3 DEF Client
<1>4. ASSUME NEW op \in Ops \ {"none"}, NEW w \in Waybills, Read(c, op, w) PROVE client'[c].op # "none"
  BY <1>4 DEF Read, Inv, TypeOK
<1> QED
  BY <1>2, <1>3, <1>4, ClientFrame

\* At the start no run is at work, no request is open and nothing has a gibUuid.
LEMMA InitInv == Init => Inv
<1> SUFFICES ASSUME Init PROVE Inv
  OBVIOUS
<1>1. TypeOK
  <2>1. <<>> \in Seq(Record) /\ <<>> \in Seq(Waybills)
    OBVIOUS
  <2>2. [status |-> "none", uuid |-> NoUuid] \in Copy
    BY DEF Copy, Statuses, NoUuid
  <2> QED
    BY <2>1, <2>2, IdleTyped, IdleClientTyped DEF Init, TypeOK
<1> QED
  BY <1>1 DEF Init, Inv, Batched, Busy, IdleRun, IdleClient, Registered, Truthful, Told,
     Enqueuing, Reached, ReachedBy, Closed

\* The invariant holds in every state that the service reaches.
LEMMA Invariance == Spec => []Inv
<1>1. ASSUME Inv, [Next]_vars PROVE Inv'
  <2>1. TypeOK' /\ Batched' /\ Registered' /\ Truthful' /\ Enqueuing' /\ Reached'
    BY <1>1, TypeStep, BatchedStep, RegisteredStep, TruthfulStep, EnqueuingStep, ReachedStep
  <2>2. (\A k \in DOMAIN outbox : Closed(k))'
    BY <1>1, ClosedStep
  <2> QED
    BY <2>1, <2>2 DEF Inv
<1> QED
  BY InitInv, <1>1, PTL DEF Spec

\* However requests, overlapping runs, failed calls and restarts interleave,
\* every row and every memory keeps its shape.
THEOREM TypeCorrect == Spec => []TypeOK
<1>1. Inv => TypeOK
  BY DEF Inv
<1> QED
  BY <1>1, Invariance, PTL

\* A waybill shows a verdict only if GIB gave it on a document of that
\* waybill: not through a stale save of a request, nor through two runs.
THEOREM VerdictsAreGibs == Spec => []VerdictIsGibs
<1>1. Inv => VerdictIsGibs
  BY DEF Inv, Truthful, Told, Given, VerdictIsGibs
<1> QED
  BY <1>1, Invariance, PTL

\* A SEND record that is closed has its document at GIB and a later POLL
\* that asks about it: no failure between the steps leaves one out.
THEOREM ClosedSendsArePolled == Spec => []ClosedSendIsPolled
<1>1. Inv => ClosedSendIsPolled
  BY DEF Inv, Closed, Asked, ClosedSendIsPolled
<1> QED
  BY <1>1, Invariance, PTL

\* What a step can do to the waybills, and to the records.
LEMMA WaybillFrame ==
    ASSUME [Next]_vars
    PROVE  \/ waybill' = waybill
           \/ \E w \in Waybills : Create(w)
           \/ \E c \in Clients : Save(c)
           \/ \E p \in Runs : SaveSent(p) \/ SaveVerdict(p)
  BY DEF Next, RunStep, vars, Read, InsertRecord, RequestFails, StartRun, MarkProcessing, SendToGib,
     CreatePoll, CheckStatus, NothingToPoll, CancelOnGib, EndTurn, StepFails, RunFails, Restart

LEMMA OutboxFrame ==
    ASSUME [Next]_vars
    PROVE  \/ outbox' = outbox
           \/ \E c \in Clients : InsertRecord(c)
           \/ \E p \in Runs : CreatePoll(p) \/ MarkProcessing(p) \/ EndTurn(p)
  BY DEF Next, RunStep, vars, Create, Read, Save, RequestFails, StartRun, SendToGib, SaveSent,
     CheckStatus, NothingToPoll, SaveVerdict, CancelOnGib, StepFails, RunFails, Restart

\* Quiet, part by part: the records, the runs and the requests of a waybill.
Foreign(k, w) == outbox[k].waybill = w => outbox[k].action = "CANCEL"
Settled(k) == outbox[k].status \in {"DONE", "FAILED"}
QuietRecords(w) == \A k \in DOMAIN outbox : Foreign(k, w) \/ Settled(k)
QuietRuns(w) ==
    \A p \in Runs : Busy(p) => \A k \in DOMAIN run[p].batch : Foreign(run[p].batch[k].id, w)
QuietRequests(w) == \A c \in Clients : client[c].op # "none" => client[c].waybill # w

LEMMA QuietParts ==
    ASSUME NEW w
    PROVE  /\ Quiet(w) <=> QuietRecords(w) /\ QuietRuns(w) /\ QuietRequests(w)
           /\ Quiet(w)' <=> QuietRecords(w)' /\ QuietRuns(w)' /\ QuietRequests(w)'
  BY DEF Quiet, QuietRecords, QuietRuns, QuietRequests, Foreign, Settled

LEMMA ForeignKept ==
    ASSUME Inv, [Next]_vars, NEW w, NEW k \in DOMAIN outbox, Foreign(k, w)
    PROVE  k \in DOMAIN outbox' /\ Foreign(k, w)'
<1>1. DOMAIN outbox = 1 .. Len(outbox) /\ DOMAIN outbox' = 1 .. Len(outbox')
  BY TypeStep
<1>2. /\ Len(outbox) \in Nat /\ Len(outbox') \in Nat /\ Len(outbox) <= Len(outbox')
      /\ outbox'[k].waybill = outbox[k].waybill /\ outbox'[k].action = outbox[k].action
  BY <1>1, GrowStep DEF Grows
<1> QED
  BY <1>1, <1>2 DEF Foreign

\* The record that a run works on is not one of a quiet waybill, or a CANCEL.
LEMMA ForeignInHand ==
    ASSUME Inv, NEW w, QuietRuns(w), NEW p \in Runs, Busy(p)
    PROVE  Id(p) \in DOMAIN outbox /\ Rec(p) = outbox[Id(p)] /\ Foreign(Id(p), w)
<1>1. Head(run[p].batch) = run[p].batch[1] /\ 1 \in DOMAIN run[p].batch
  BY InHand DEF Inv
<1> QED
  BY <1>1, InHand DEF Inv, QuietRuns, Id

\* No request or run writes to a cancelled waybill that is quiet.
LEMMA CancelledStays ==
    ASSUME Inv, [Next]_vars, NEW w \in Waybills, waybill[w].status = "IPTAL",
           QuietRuns(w), QuietRequests(w)
    PROVE  waybill'[w] = waybill[w]
<1> USE DEF Inv, TypeOK
<1>1. ASSUME NEW v \in Waybills, Create(v) PROVE waybill'[w] = waybill[w]
  BY <1>1 DEF Create
<1>2. ASSUME NEW c \in Clients, Save(c) PROVE waybill'[w] = waybill[w]
  BY <1>2 DEF Save, QuietRequests
<1>3. ASSUME NEW p \in Runs, SaveSent(p) PROVE waybill'[w] = waybill[w]
  <2>1. Rec(p).waybill # w
    BY <1>3, ForeignInHand DEF SaveSent, Busy, Reached, ReachedBy, Foreign
  <2> QED
    BY <1>3, <2>1 DEF SaveSent
<1>4. ASSUME NEW p \in Runs, SaveVerdict(p) PROVE waybill'[w] = waybill[w]
  <2>1. Rec(p).waybill # w
    BY <1>4, ForeignInHand DEF SaveVerdict, Busy, Reached, ReachedBy, Foreign
  <2> QED
    BY <1>4, <2>1 DEF SaveVerdict
<1> QED
  BY <1>1, <1>2, <1>3, <1>4, WaybillFrame

\* A quiet waybill gets no record but a CANCEL, and no record of it is reopened.
LEMMA RecordsStayQuiet ==
    ASSUME Inv, [Next]_vars, NEW w \in Waybills, QuietRecords(w), QuietRuns(w), QuietRequests(w)
    PROVE  QuietRecords(w)'
<1>1. TypeOK /\ DOMAIN outbox = 1 .. Len(outbox) /\ Len(outbox) \in Nat
  BY DEF Inv
<1>2. ASSUME NEW k \in DOMAIN outbox, outbox'[k] = outbox[k] PROVE (Foreign(k, w) \/ Settled(k))'
  BY <1>2 DEF QuietRecords, Foreign, Settled
<1>3. ASSUME NEW r \in Record, r.waybill # w, outbox' = Append(outbox, r) PROVE QuietRecords(w)'
  <2>1. /\ DOMAIN outbox' = 1 .. Len(outbox) + 1 /\ outbox'[Len(outbox) + 1] = r
        /\ \A k \in DOMAIN outbox : outbox'[k] = outbox[k]
    BY <1>1, <1>3
  <2>2. ASSUME NEW k \in DOMAIN outbox' PROVE (Foreign(k, w) \/ Settled(k))'
    <3>1. CASE k \in DOMAIN outbox
      BY <1>2, <2>1, <3>1
    <3>2. CASE k \notin DOMAIN outbox
      BY <1>1, <1>3, <2>1, <3>2 DEF Foreign
    <3> QED
      BY <3>1, <3>2
  <2> QED
    BY <2>2 DEF QuietRecords
<1>4. ASSUME NEW c \in Clients, InsertRecord(c) PROVE QuietRecords(w)'
  <2>1. client[c].waybill \in Waybills \ {w}
    BY <1>1, <1>4 DEF InsertRecord, Inv, Enqueuing, QuietRequests, TypeOK, Client
  <2>2. PICK r \in Record : r.waybill # w /\ outbox' = Append(outbox, r)
    BY <1>4, <2>1 DEF InsertRecord, Pending, Record
  <2> QED
    BY <1>3, <2>2
<1>5. ASSUME NEW p \in Runs, CreatePoll(p) PROVE QuietRecords(w)'
  <2>1. Rec(p).waybill \in Waybills \ {w}
    BY <1>5, InHand, ForeignInHand DEF CreatePoll, Busy, Inv, Record, Reached, ReachedBy, Foreign
  <2>2. PICK r \in Record : r.waybill # w /\ outbox' = Append(outbox, r)
    BY <1>5, <2>1 DEF CreatePoll, Pending, Record
  <2> QED
    BY <1>3, <2>2
<1>6. ASSUME NEW p \in Runs, Busy(p), NEW status, NEW n, SaveRecord(p, status, n)
      PROVE  QuietRecords(w)'
  <2>1. PICK i \in DOMAIN outbox : i = Id(p) /\ Rec(p) = outbox[i] /\ Foreign(i, w)
    BY <1>6, ForeignInHand
  <2>2. DOMAIN outbox' = DOMAIN outbox /\ \A k \in DOMAIN outbox : k # i => outbox'[k] = outbox[k]
    BY <1>1, <1>6, <2>1 DEF SaveRecord, Id
  <2>3. Foreign(i, w)'
    BY <2>1, ForeignKept
  <2>4. ASSUME NEW k \in DOMAIN outbox' PROVE (Foreign(k, w) \/ Settled(k))'
    <3>1. CASE k = i
      BY <2>3, <3>1
    <3>2. CASE k # i
      BY <1>2, <2>2, <3>2
    <3> QED
      BY <3>1, <3>2
  <2> QED
    BY <2>4 DEF QuietRecords
<1>7. ASSUME NEW p \in Runs, MarkProcessing(p) \/ EndTurn(p) PROVE QuietRecords(w)'
  <2>1. PICK status, n : Busy(p) /\ SaveRecord(p, status, n)
    BY <1>7 DEF MarkProcessing, EndTurn, Busy
  <2> QED
    BY <1>6, <2>1
<1>8. CASE outbox' = outbox
  BY <1>2, <1>8 DEF QuietRecords
<1> QED
  BY <1>4, <1>5, <1>7, <1>8, OutboxFrame

\* A run neither keeps nor takes up a record of a quiet waybill but a CANCEL.
LEMMA RunsStayQuiet ==
    ASSUME Inv, [Next]_vars, NEW w \in Waybills, QuietRecords(w), QuietRuns(w)
    PROVE  QuietRuns(w)'
<1>1. ASSUME NEW k \in DOMAIN outbox, IsPending(k) PROVE Foreign(k, w)
  BY <1>1 DEF QuietRecords, IsPending, Settled
<1> SUFFICES ASSUME NEW p \in Runs, Busy(p)', NEW k \in DOMAIN run'[p].batch
             PROVE  Foreign(run[p].batch[k].id, w)'
  BY DEF QuietRuns
<1>2. PICK i \in DOMAIN outbox : i = run'[p].batch[k].id /\ Foreign(i, w)
  <2>1. CASE Busy(p) /\ \E j \in DOMAIN run[p].batch : run'[p].batch[k].id = run[p].batch[j].id
    BY <2>1 DEF Inv, Batched, QuietRuns
  <2>2. CASE run'[p].batch[k].id \in DOMAIN outbox /\ IsPending(run'[p].batch[k].id)
    BY <1>1, <2>2
  <2> QED
    BY <2>1, <2>2, BatchStep
<1>3. Foreign(i, w)'
  BY <1>2, ForeignKept
<1> QED
  BY <1>2, <1>3 DEF Foreign

\* No request takes up a cancelled waybill: each one's check refuses it.
LEMMA RequestsStayQuiet ==
    ASSUME Inv, [Next]_vars, NEW w \in Waybills, waybill[w].status = "IPTAL", QuietRequests(w)
    PROVE  QuietRequests(w)'
<1> SUFFICES ASSUME NEW c \in Clients, client'[c].op # "none" PROVE client'[c].waybill # w
  BY DEF QuietRequests
<1>1. client[c] \in Client
  BY DEF Inv, TypeOK
<1>2. CASE client'[c] = client[c] \/ client'[c] = IdleClient
  BY <1>2 DEF QuietRequests, IdleClient
<1>3. CASE client[c].op # "none" /\ client'[c] = [client[c] EXCEPT !.enqueue = FALSE]
  BY <1>1, <1>3 DEF Client, QuietRequests
<1>4. ASSUME NEW op \in Ops \ {"none"}, NEW v \in Waybills, Read(c, op, v) PROVE client'[c].waybill # w
  <2>1. v # w
    BY <1>4 DEF Read, Permits, Ops
  <2> QED
    BY <1>4, <2>1 DEF Read
<1> QED
  BY <1>2, <1>3, <1>4, ClientFrame

\* A waybill that was cancelled stays cancelled once the work that was open is
\* over: no request, and no record that is left, brings it back.
THEOREM CancelledStaysCancelled == Spec => CancelledIsFinal
<1> DEFINE Final == \A w \in Waybills :
      waybill[w].status = "IPTAL" /\ Quiet(w) => waybill'[w] = waybill[w] /\ Quiet(w)'
<1>1. ASSUME Inv, [Next]_vars PROVE Final
  <2> SUFFICES ASSUME NEW w \in Waybills, waybill[w].status = "IPTAL", Quiet(w)
               PROVE  waybill'[w] = waybill[w] /\ Quiet(w)'
    OBVIOUS
  <2>1. QuietRecords(w) /\ QuietRuns(w) /\ QuietRequests(w)
    BY QuietParts
  <2>2. QuietRecords(w)' /\ QuietRuns(w)' /\ QuietRequests(w)'
    BY <1>1, <2>1, RecordsStayQuiet, RunsStayQuiet, RequestsStayQuiet
  <2>3. Quiet(w)'
    BY <2>2, QuietParts
  <2> QED
    BY <1>1, <2>1, <2>3, CancelledStays
<1>2. Inv /\ [Next]_vars => [Final]_vars
  BY <1>1
<1> QED
  BY <1>2, Invariance, PTL DEF Spec, CancelledIsFinal
=============================================================================
