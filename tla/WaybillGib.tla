----------------------------- MODULE WaybillGib -----------------------------
(***************************************************************************)
(* The waybill service (apps/waybill-service): the life of a waybill, the  *)
(* gib_outbox records that carry it to the tax authority (GIB), and the    *)
(* 30 s cron that works them off.                                          *)
(*                                                                         *)
(* Three things make it hard.  The cron has no re-entrancy guard: a run    *)
(* that takes longer than 30 s overlaps with the next, and each works on   *)
(* the rows it read when it started.  Requests read a waybill and save the *)
(* whole row later (repository.save writes every column that differs from  *)
(* the database).  And a process that stops leaves records in PROCESSING,  *)
(* which nothing picks up again.                                           *)
(***************************************************************************)
EXTENDS Naturals, Sequences, FiniteSets

CONSTANTS
    Waybills,     \* identities of waybills rows
    Runs,         \* cron runs that may be in flight at the same time
    Clients,      \* HTTP requests that may be in flight at the same time
    MaxAttempts,  \* MAX_ATTEMPTS of outbox.service.ts (3 in the code)
    BatchSize,    \* `take' of processPending (20 in the code)
    MaxRequests,  \* bound: outbox rows that requests insert
    MaxDocs,      \* bound: documents GIB receives
    MaxWaits,     \* bound: attempt_count at which GIB stops answering BEKLEMEDE
    MaxFaults     \* bound: stops of the process and calls that fail, together

ASSUME WaybillAssumption ==
    /\ Waybills # {}
    /\ MaxAttempts \in Nat \ {0}
    /\ BatchSize \in Nat \ {0}
    /\ {MaxRequests, MaxDocs, MaxWaits, MaxFaults} \subseteq Nat

VARIABLES
    waybill,   \* waybills: status and gibUuid
    outbox,    \* gib_outbox, in the order of created_at
    run,       \* what each cron run has in memory
    client,    \* what each request has in memory
    docs,      \* docs[u]: the waybill GIB received as document u
    verdicts,  \* <<u, verdict>>: the final answers GIB gave
    revoked,   \* documents cancelled at GIB
    faults,    \* stops, failed calls and failed requests so far
    aborted,   \* whether a run ended in the middle of a record
    requests   \* outbox rows that requests inserted

vars == <<waybill, outbox, run, client, docs, verdicts, revoked, faults, aborted, requests>>

Statuses == {"none", "TASLAK", "ONAYLANDI", "GIB_KUYRUKTA", "GIB_GONDERILDI",
             "GIB_ONAYLANDI", "GIB_REDDEDILDI", "IPTAL"}
NoUuid   == 0
Copy     == [status : Statuses, uuid : Nat]
Record   == [waybill : Waybills, action : {"SEND", "POLL", "CANCEL"},
             status : {"PENDING", "PROCESSING", "DONE", "FAILED"}, attempts : Nat]
RunPCs   == {"idle", "mark", "act", "sent", "poll", "result", "requeue",
             "giveUp", "done", "catch"}
Run      == [pc : RunPCs, batch : Seq([id : Nat, attempts : Nat]), uuid : Nat,
             answer : {"none", "ONAYLANDI", "REDDEDILDI"}]
Ops      == {"none", "approve", "queue", "cancel", "update"}
Client   == [op : Ops, waybill : Waybills, copy : Copy, enqueue : BOOLEAN]

IdleRun  == [pc |-> "idle", batch |-> <<>>, uuid |-> NoUuid, answer |-> "none"]

IdleClient == [op |-> "none", waybill |-> CHOOSE w \in Waybills : TRUE,
               copy |-> [status |-> "none", uuid |-> NoUuid], enqueue |-> FALSE]

Init ==
    /\ waybill = [w \in Waybills |-> [status |-> "none", uuid |-> NoUuid]]
    /\ outbox = <<>>
    /\ run = [p \in Runs |-> IdleRun]
    /\ client = [c \in Clients |-> IdleClient]
    /\ docs = <<>>
    /\ verdicts = {}
    /\ revoked = {}
    /\ faults = 0
    /\ aborted = FALSE
    /\ requests = 0

Pending(w, action) == [waybill |-> w, action |-> action, status |-> "PENDING", attempts |-> 0]

-----------------------------------------------------------------------------
(* Requests: findOne, a check of the status, an outbox row for some, save.  *)

\* POST /waybills, or the RabbitMQ consumer: a draft.
Create(w) ==
    /\ waybill[w].status = "none"
    /\ waybill' = [waybill EXCEPT ![w] = [status |-> "TASLAK", uuid |-> NoUuid]]
    /\ UNCHANGED <<outbox, run, client, docs, verdicts, revoked, faults, aborted, requests>>

Permits_CancelledToo(op, status) ==
    CASE op \in {"approve", "update"} -> status = "TASLAK"
      [] op = "queue"  -> status \notin {"none", "TASLAK", "GIB_KUYRUKTA"}
      [] op = "cancel" -> status \notin {"none", "IPTAL"}

\* The status checks; everything else is a 409, or a 404 without a row.
Permits(op, status) ==
    CASE op \in {"approve", "update"} -> status = "TASLAK"
      [] op = "queue"  -> status \in {"ONAYLANDI", "GIB_REDDEDILDI"}
      [] op = "cancel" -> status \notin {"none", "IPTAL"}

\* Whether the request inserts an outbox row before it saves the waybill.
Enqueues(op, status) == op = "queue" \/ (op = "cancel" /\ status = "GIB_ONAYLANDI")

Read(c, op, w) ==
    /\ client[c].op = "none"
    /\ Permits(op, waybill[w].status)
    /\ client' = [client EXCEPT ![c] =
                    [op |-> op, waybill |-> w, copy |-> waybill[w],
                     enqueue |-> Enqueues(op, waybill[w].status)]]
    /\ UNCHANGED <<waybill, outbox, run, docs, verdicts, revoked, faults, aborted, requests>>

InsertRecord(c) ==
    /\ client[c].enqueue
    /\ requests < MaxRequests
    /\ requests' = requests + 1
    /\ outbox' = Append(outbox, Pending(client[c].waybill,
                                        IF client[c].op = "queue" THEN "SEND" ELSE "CANCEL"))
    /\ client' = [client EXCEPT ![c].enqueue = FALSE]
    /\ UNCHANGED <<waybill, run, docs, verdicts, revoked, faults, aborted>>

StatusAfter_NoPrefix(op, status) ==
    CASE op = "approve" -> "ONAYLANDI"
      [] op = "queue"   -> "KUYRUKTA"
      [] op = "cancel"  -> "IPTAL"
      [] op = "update"  -> status

StatusAfter(op, status) ==
    CASE op = "approve" -> "ONAYLANDI"
      [] op = "queue"   -> "GIB_KUYRUKTA"
      [] op = "cancel"  -> "IPTAL"
      [] op = "update"  -> status

\* save(waybill): the whole copy, its gibUuid as it was read included.
Save(c) ==
    /\ client[c].op # "none" /\ ~client[c].enqueue
    /\ waybill' = [waybill EXCEPT ![client[c].waybill] =
                     [status |-> StatusAfter(client[c].op, client[c].copy.status),
                      uuid   |-> client[c].copy.uuid]]
    /\ client' = [client EXCEPT ![c] = IdleClient]
    /\ UNCHANGED <<outbox, run, docs, verdicts, revoked, faults, aborted, requests>>

\* A query of the request fails: what it inserted stays, nothing is undone.
RequestFails(c) ==
    /\ client[c].op # "none"
    /\ faults < MaxFaults
    /\ faults' = faults + 1
    /\ client' = [client EXCEPT ![c] = IdleClient]
    /\ UNCHANGED <<waybill, outbox, run, docs, verdicts, revoked, aborted, requests>>

-----------------------------------------------------------------------------
(* The cron: one run works off the records it found pending when it began. *)

Rec(p)     == outbox[Head(run[p].batch).id]
Busy(p)    == run[p].pc # "idle"
At(p, pc, uuid, answer) ==
    [pc |-> pc, batch |-> run[p].batch, uuid |-> uuid, answer |-> answer]
Goto(p, pc) == run' = [run EXCEPT ![p] = At(p, pc, run[p].uuid, run[p].answer)]

\* About to mark the first record of the batch.
Starting(batch) == [pc |-> "mark", batch |-> batch, uuid |-> NoUuid, answer |-> "none"]

IsPending(k) == outbox[k].status = "PENDING"

\* The ids of n rows are what processPending reads: the oldest pending ones,
\* all of them unless the batch is full.
Oldest(ids, n) ==
    /\ \A i \in 1 .. n : IsPending(ids[i]) /\ \A j \in 1 .. i - 1 : ids[j] < ids[i]
    /\ \A k \in DOMAIN outbox : IsPending(k) =>
         (n = BatchSize /\ k > ids[n]) \/ \E i \in 1 .. n : ids[i] = k

StartRun(p) ==
    /\ ~Busy(p)
    /\ \E n \in 1 .. BatchSize : \E ids \in [1 .. n -> DOMAIN outbox] :
        /\ Oldest(ids, n)
        /\ run' = [run EXCEPT ![p] =
             Starting([i \in 1 .. n |-> [id |-> ids[i], attempts |-> outbox[ids[i]].attempts]])]
    /\ UNCHANGED <<waybill, outbox, client, docs, verdicts, revoked, faults, aborted, requests>>

\* save(record): status and attempt_count as the run has them in memory.
SaveRecord(p, status, attempts) ==
    outbox' = [outbox EXCEPT ![Head(run[p].batch).id] =
                 [waybill |-> Rec(p).waybill, action |-> Rec(p).action,
                  status |-> status, attempts |-> attempts]]

\* The record is dealt with: on to the next of the batch.
NextRecord(p) ==
    run' = [run EXCEPT ![p] =
              IF Len(run[p].batch) = 1 THEN IdleRun
              ELSE Starting(Tail(run[p].batch))]

MarkProcessing(p) ==
    LET attempts == Head(run[p].batch).attempts + 1
    IN  /\ run[p].pc = "mark"
        /\ SaveRecord(p, "PROCESSING", attempts)
        /\ run' = [run EXCEPT ![p] =
             [pc |-> "act", uuid |-> NoUuid, answer |-> "none",
              batch |-> <<[id |-> Head(run[p].batch).id, attempts |-> attempts]>>
                          \o Tail(run[p].batch)]]
        /\ UNCHANGED <<waybill, client, docs, verdicts, revoked, faults, aborted, requests>>

\* findOne and the call to GIB that follows it: what the run read is what it
\* sends, and only the answer stays in memory.
Uuid(p) == waybill[Rec(p).waybill].uuid
Acts(p, action) == run[p].pc = "act" /\ Rec(p).action = action

SendToGib(p) ==
    /\ Acts(p, "SEND")
    /\ Len(docs) < MaxDocs
    /\ docs' = Append(docs, Rec(p).waybill)
    /\ run' = [run EXCEPT ![p] = At(p, "sent", Len(docs) + 1, "none")]
    /\ UNCHANGED <<waybill, outbox, client, verdicts, revoked, faults, aborted, requests>>

SaveSent_NotPolled(p) ==
    /\ run[p].pc = "sent"
    /\ waybill' = [waybill EXCEPT ![Rec(p).waybill] =
                     [status |-> "GIB_GONDERILDI", uuid |-> run[p].uuid]]
    /\ Goto(p, "done")
    /\ UNCHANGED <<outbox, client, docs, verdicts, revoked, faults, aborted, requests>>

\* waybillRepo.update: the named columns, whatever the status is by now.
SaveSent(p) ==
    /\ run[p].pc = "sent"
    /\ waybill' = [waybill EXCEPT ![Rec(p).waybill] =
                     [status |-> "GIB_GONDERILDI", uuid |-> run[p].uuid]]
    /\ Goto(p, "poll")
    /\ UNCHANGED <<outbox, client, docs, verdicts, revoked, faults, aborted, requests>>

CreatePoll(p) ==
    /\ run[p].pc = "poll"
    /\ outbox' = Append(outbox, Pending(Rec(p).waybill, "POLL"))
    /\ Goto(p, "done")
    /\ UNCHANGED <<waybill, client, docs, verdicts, revoked, faults, aborted, requests>>

\* checkStatus: GIB may answer either verdict, or BEKLEMEDE (no verdict yet).
CheckStatus(p, answer) ==
    /\ Acts(p, "POLL") /\ Uuid(p) # NoUuid
    /\ IF answer = "BEKLEMEDE"
         THEN /\ Head(run[p].batch).attempts < MaxWaits
              /\ Goto(p, "requeue")
              /\ UNCHANGED verdicts
         ELSE /\ verdicts' = verdicts \cup {<<Uuid(p), answer>>}
              /\ run' = [run EXCEPT ![p] = At(p, "result", NoUuid, answer)]
    /\ UNCHANGED <<waybill, outbox, client, docs, revoked, faults, aborted, requests>>

\* A POLL of a waybill without gibUuid is given up.
NothingToPoll(p) ==
    /\ Acts(p, "POLL") /\ Uuid(p) = NoUuid
    /\ Goto(p, "giveUp")
    /\ UNCHANGED <<waybill, outbox, client, docs, verdicts, revoked, faults, aborted, requests>>

StatusOf_Swapped(answer) ==
    IF answer = "ONAYLANDI" THEN "GIB_REDDEDILDI" ELSE "GIB_ONAYLANDI"

StatusOf(answer) == IF answer = "ONAYLANDI" THEN "GIB_ONAYLANDI" ELSE "GIB_REDDEDILDI"

SaveVerdict(p) ==
    /\ run[p].pc = "result"
    /\ waybill' = [waybill EXCEPT ![Rec(p).waybill] =
                     [status |-> StatusOf(run[p].answer), uuid |-> Uuid(p)]]
    /\ Goto(p, "done")
    /\ UNCHANGED <<outbox, client, docs, verdicts, revoked, faults, aborted, requests>>

CancelOnGib(p) ==
    /\ Acts(p, "CANCEL")
    /\ revoked' = revoked \cup ({Uuid(p)} \ {NoUuid})
    /\ Goto(p, "done")
    /\ UNCHANGED <<waybill, outbox, client, docs, verdicts, faults, aborted, requests>>

\* A call inside the try block rejects.
StepFails(p) ==
    /\ run[p].pc \notin {"idle", "mark", "catch"}
    /\ faults < MaxFaults
    /\ faults' = faults + 1
    /\ Goto(p, "catch")
    /\ UNCHANGED <<waybill, outbox, client, docs, verdicts, revoked, aborted, requests>>

StatusAfterWait_StillOpen == "PROCESSING"

\* BEKLEMEDE: asked again by a later run.
StatusAfterWait == "PENDING"

StatusAfterError(attempts) == IF attempts >= MaxAttempts THEN "FAILED" ELSE "PENDING"

\* The save that ends the record's turn.
EndTurn(p) ==
    LET attempts == Head(run[p].batch).attempts
    IN  /\ \/ run[p].pc = "done"    /\ SaveRecord(p, "DONE", attempts)
           \/ run[p].pc = "requeue" /\ SaveRecord(p, StatusAfterWait, attempts)
           \/ run[p].pc = "giveUp"  /\ SaveRecord(p, "FAILED", attempts)
           \/ run[p].pc = "catch"   /\ SaveRecord(p, StatusAfterError(attempts), attempts)
        /\ NextRecord(p)
        /\ UNCHANGED <<waybill, client, docs, verdicts, revoked, faults, aborted, requests>>

\* A save outside the try block rejects: processPending ends there, and the
\* record stays as it is.
RunFails(p) ==
    /\ run[p].pc \in {"mark", "catch"}
    /\ faults < MaxFaults
    /\ faults' = faults + 1
    /\ aborted' = TRUE
    /\ run' = [run EXCEPT ![p] = IdleRun]
    /\ UNCHANGED <<waybill, outbox, client, docs, verdicts, revoked, requests>>

\* The process stops and starts again: memory is gone, the rows stay.
Restart ==
    /\ faults < MaxFaults
    /\ faults' = faults + 1
    /\ aborted' = TRUE
    /\ run' = [p \in Runs |-> IdleRun]
    /\ client' = [c \in Clients |-> IdleClient]
    /\ UNCHANGED <<waybill, outbox, docs, verdicts, revoked, requests>>

-----------------------------------------------------------------------------
RunStep(p) ==
    \/ MarkProcessing(p)
    \/ SendToGib(p) \/ SaveSent(p) \/ CreatePoll(p)
    \/ \E a \in {"ONAYLANDI", "REDDEDILDI", "BEKLEMEDE"} : CheckStatus(p, a)
    \/ NothingToPoll(p) \/ SaveVerdict(p) \/ CancelOnGib(p) \/ EndTurn(p)

Next ==
    \/ \E w \in Waybills : Create(w)
    \/ \E c \in Clients, op \in Ops \ {"none"}, w \in Waybills : Read(c, op, w)
    \/ \E c \in Clients : InsertRecord(c)
    \/ \E c \in Clients : Save(c)
    \/ \E c \in Clients : RequestFails(c)
    \/ \E p \in Runs : StartRun(p)
    \/ \E p \in Runs : RunStep(p)
    \/ \E p \in Runs : StepFails(p)
    \/ \E p \in Runs : RunFails(p)
    \/ Restart

Spec == Init /\ [][Next]_vars

\* The cron fires, and a run gets an answer to each call it makes.
FairSpec == Spec /\ \A p \in Runs : WF_vars(StartRun(p)) /\ WF_vars(RunStep(p))

-----------------------------------------------------------------------------
(* Properties.                                                             *)

\* The shape of the state.
TypeOK ==
    /\ waybill \in [Waybills -> Copy]
    /\ outbox \in Seq(Record)
    /\ run \in [Runs -> Run]
    /\ client \in [Clients -> Client]
    /\ docs \in Seq(Waybills)
    /\ verdicts \subseteq Nat \X {"ONAYLANDI", "REDDEDILDI"}
    /\ revoked \subseteq Nat
    /\ faults \in Nat
    /\ aborted \in BOOLEAN
    /\ requests \in Nat

DocsOf(w) == {u \in DOMAIN docs : docs[u] = w}

\* The status tells the user a verdict only if GIB gave that verdict on a
\* document of this waybill.
VerdictIsGibs ==
    \A w \in Waybills :
      /\ waybill[w].status = "GIB_ONAYLANDI" =>
           \E u \in DocsOf(w) : <<u, "ONAYLANDI">> \in verdicts
      /\ waybill[w].status = "GIB_REDDEDILDI" =>
           \E u \in DocsOf(w) : <<u, "REDDEDILDI">> \in verdicts

\* A SEND is closed only when GIB has the document and a POLL will ask about it.
ClosedSendIsPolled ==
    \A k \in DOMAIN outbox : outbox[k].action = "SEND" /\ outbox[k].status = "DONE" =>
      /\ DocsOf(outbox[k].waybill) # {}
      /\ \E n \in DOMAIN outbox : n > k /\ outbox[n].action = "POLL"
                                  /\ outbox[n].waybill = outbox[k].waybill

\* Nobody works on w any more.
Quiet(w) ==
    /\ \A k \in DOMAIN outbox : outbox[k].waybill = w /\ outbox[k].action # "CANCEL" =>
         outbox[k].status \in {"DONE", "FAILED"}
    /\ \A p \in Runs : Busy(p) => \A k \in DOMAIN run[p].batch :
         LET r == outbox[run[p].batch[k].id] IN r.waybill = w => r.action = "CANCEL"
    /\ \A c \in Clients : client[c].op # "none" => client[c].waybill # w

\* A cancelled waybill stays cancelled once the work that was open is over.
CancelledIsFinal ==
    [][\A w \in Waybills :
         waybill[w].status = "IPTAL" /\ Quiet(w) =>
           waybill'[w] = waybill[w] /\ Quiet(w)']_vars

\* Unless a run ends in the middle of a record, every outbox record is worked
\* off, as long as GIB does not answer BEKLEMEDE for ever.
RecordsSettle ==
    (\E k \in DOMAIN outbox : outbox[k].status \notin {"DONE", "FAILED"})
      ~> (aborted \/ \A k \in DOMAIN outbox : outbox[k].status \in {"DONE", "FAILED"})
=============================================================================
