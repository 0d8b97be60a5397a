---------------------------- MODULE StaffAccounts ----------------------------
(***************************************************************************)
(* How employees come by a user account, and lose it: the hr service hires *)
(* and terminates, and tells the auth service through a queue; the auth    *)
(* service's consumer invites a member or deactivates one, while members   *)
(* are also managed by hand.                                               *)
(*                                                                         *)
(* The queue is RabbitMQ's: one message at a time (prefetch 1), a message  *)
(* goes back to the head when the consumer dies with it, and into the dead *)
(* letters when its handler fails or it has waited for a minute.  Neither  *)
(* service uses a transaction: a termination is two saves and a message,   *)
(* an invitation a check, an insert and three roles.                       *)
(***************************************************************************)
EXTENDS Sequences, Hr

CONSTANTS
    Emails,
    Worker,     \* the consumer of the auth service
    Founder,    \* the account the tenant was set up with
    Elsewhere,  \* addresses registered in another tenant
    Edits       \* bound: addresses that edits of an employee give, or None

Event == [kind : {"hired"}, who : Employees, to : Emails]
         \cup [kind : {"terminated"}, who : Employees, to : {None}]

ASSUME StaffAssumption ==
    /\ Founder \in Emails /\ Elsewhere \subseteq Emails \ {Founder}
    /\ Edits \subseteq Emails \cup {None}
    /\ Worker \notin Requests
    /\ None \notin Employees \cup Emails \cup Event
    /\ MaxFaults \in Nat

VARIABLES
    staff,      \* status of each employee; "none": not hired yet
    mail,       \* address of each employee, if any
    hiredAs,    \* ghost: the address each employee was hired with, if any
    details,    \* employees whose termination has been calculated
    users,      \* the tenant's accounts, oldest first
    enabled,    \* accounts that may log in
    queue,      \* auth.hr-events
    parked,     \* auth.hr-events.dlq
    acked,      \* events the consumer has acknowledged
    unheard,    \* ghost: events that never reached the queue
    overlapped, \* ghost: employees that two requests handled at a time
    stranded    \* ghost: employees whose termination broke off half way

vars == <<staff, mail, hiredAs, details, users, enabled, queue, parked, acked, job, faults,
          unheard, overlapped, stranded>>
hr    == <<staff, mail, hiredAs, details>>
auth  == <<users, enabled>>
mq    == <<queue, parked, acked>>
notes == <<unheard, overlapped, stranded>>

Actors == Requests \cup {Worker}
Hired(e, m)   == [kind |-> "hired", who |-> e, to |-> m]
Terminated(e) == [kind |-> "terminated", who |-> e, to |-> None]

Steps == {"idle", "details", "status", "found", "invite", "insert", "roles", "list", "off", "stuck"}
Job   == [pc : Steps, who : Employees \cup {None}, user : Emails \cup {None},
          was : {"none", "active", "terminated"}, event : Event \cup {None}]
\* A request keeps the employee's row as it read it.
Handling(pc, e)    == [pc |-> pc, who |-> e, user |-> mail[e], was |-> staff[e], event |-> None]
Serving(pc, m, ev) == [pc |-> pc, who |-> None, user |-> m, was |-> "none", event |-> ev]
Idle == Serving("idle", None, None)

Members == {users[i] : i \in DOMAIN users}
Queued  == {queue[i] : i \in DOMAIN queue}

Init ==
    /\ staff = [e \in Employees |-> "none"]
    /\ mail = [e \in Employees |-> None]
    /\ hiredAs = [e \in Employees |-> None]
    /\ details = {}
    /\ users = <<Founder>>
    /\ enabled = {Founder}
    /\ queue = <<>>
    /\ parked = {}
    /\ acked = {}
    /\ job = [a \in Actors |-> Idle]
    /\ faults = 0
    /\ unheard = {}
    /\ overlapped = {}
    /\ stranded = {}

Go(a, pc)   == Do(a, [job[a] EXCEPT !.pc = pc])
Busy(e)     == \E r \in Requests : job[r].who = e
Begin(r, e) == overlapped' = IF Busy(e) THEN overlapped \cup {e} ELSE overlapped

\* publish: without a channel, or when the process stops before, nobody hears.
Publish(ev) ==
    \/ queue' = Append(queue, ev) /\ UNCHANGED <<faults, unheard>>
    \/ Fail /\ unheard' = unheard \cup {ev} /\ UNCHANGED queue

-----------------------------------------------------------------------------
(* The hr service.                                                          *)

Hire(e, m) ==
    /\ staff[e] = "none"
    /\ staff' = [staff EXCEPT ![e] = "active"]
    /\ mail' = [mail EXCEPT ![e] = m]
    /\ hiredAs' = [hiredAs EXCEPT ![e] = m]
    /\ IF m = None THEN UNCHANGED <<queue, faults, unheard>> ELSE Publish(Hired(e, m))
    /\ UNCHANGED <<details, auth, parked, acked, job, overlapped, stranded>>

\* TerminationService.calculate: the details first, then the employee.
Calculate(r, e) ==
    /\ job[r] = Idle /\ staff[e] = "active"
    /\ Begin(r, e)
    /\ Do(r, Handling("details", e))
    /\ UNCHANGED <<hr, auth, mq, faults, unheard, stranded>>

\* One row per employee: a second insert fails and the request with it.
SaveDetails(r) ==
    LET e == job[r].who IN
    /\ job[r].pc = "details"
    /\ details' = details \cup {e}
    /\ IF e \in details THEN Do(r, Idle) ELSE Go(r, "status")
    /\ UNCHANGED <<staff, mail, hiredAs, auth, mq, faults, notes>>

\* Every save writes all columns as they were read, but for those it is about.
Save(e, status, m) ==
    /\ staff' = [staff EXCEPT ![e] = status]
    /\ mail' = [mail EXCEPT ![e] = m]
    /\ UNCHANGED <<hiredAs, details>>

SaveTerminated(r) ==
    /\ job[r].pc = "status"
    /\ Save(job[r].who, "terminated", job[r].user)
    /\ Do(r, Idle)
    /\ Publish(Terminated(job[r].who))
    /\ UNCHANGED <<auth, parked, acked, overlapped, stranded>>

\* EmployeeService.findOne, with which its terminate and its update begin.
Find(r, e) ==
    /\ job[r] = Idle /\ staff[e] # "none"
    /\ Begin(r, e)
    /\ Do(r, Handling("found", e))
    /\ UNCHANGED <<hr, auth, mq, faults, unheard, stranded>>

\* No details, and no event.
Terminate(r) ==
    /\ job[r].pc = "found"
    /\ Save(job[r].who, "terminated", job[r].user)
    /\ Do(r, Idle)
    /\ UNCHANGED <<auth, mq, faults, notes>>

\* The address may be given, changed or taken away; the auth service is not told.
Update_Active(r, m) ==
    /\ job[r].pc = "found"
    /\ Save(job[r].who, "active", m)
    /\ Do(r, Idle)
    /\ UNCHANGED <<auth, mq, faults, notes>>
Update(r, m) ==
    /\ job[r].pc = "found"
    /\ Save(job[r].who, job[r].was, m)
    /\ Do(r, Idle)
    /\ UNCHANGED <<auth, mq, faults, notes>>

-----------------------------------------------------------------------------
(* The members of the tenant, for the consumer and for requests by hand.    *)

\* What a job ends with: the consumer acknowledges its message.
Done(a) ==
    /\ Do(a, Idle)
    /\ acked' = IF a = Worker THEN acked \cup {job[a].event} ELSE acked

Invite(r, m) ==
    /\ job[r] = Idle
    /\ Do(r, Serving("invite", m, None))
    /\ UNCHANGED <<hr, auth, mq, faults, notes>>

\* 409 for an address in use, here or in another tenant: the consumer is content.
Known_Unacked(a) == Go(a, "stuck") /\ UNCHANGED acked
Known(a) == Done(a)

Check(a) ==
    /\ job[a].pc = "invite"
    /\ IF job[a].user \in Members \cup Elsewhere
         THEN Known(a)
         ELSE Go(a, "insert") /\ UNCHANGED acked
    /\ UNCHANGED <<hr, auth, queue, parked, faults, notes>>

\* The password hash takes its time: the address may be in use by now.
Insert_Twice(a) ==
    /\ job[a].pc = "insert"
    /\ users' = Append(users, job[a].user)
    /\ enabled' = enabled \cup {job[a].user}
    /\ Go(a, "roles")
    /\ UNCHANGED <<hr, mq, faults, notes>>
Insert(a) ==
    /\ job[a].pc = "insert" /\ job[a].user \notin Members
    /\ users' = Append(users, job[a].user)
    /\ enabled' = enabled \cup {job[a].user}
    /\ Go(a, "roles")
    /\ UNCHANGED <<hr, mq, faults, notes>>

\* UNIQUE (tenant_id, email): no 409, so the message is a dead letter.
Clash_Dropped(a) == UNCHANGED parked
Clash(a) == parked' = IF a = Worker THEN parked \cup {job[a].event} ELSE parked

InsertClashes(a) ==
    /\ job[a].pc = "insert" /\ job[a].user \in Members
    /\ Clash(a)
    /\ Do(a, Idle)
    /\ UNCHANGED <<hr, auth, queue, acked, faults, notes>>

\* The roles, one insert each; what was left out stays out.
Equip(a) ==
    /\ job[a].pc = "roles"
    /\ Done(a)
    /\ UNCHANGED <<hr, auth, queue, parked, faults, notes>>

DeactivateByHand(m) ==
    /\ m \in enabled
    /\ enabled' = enabled \ {m}
    /\ UNCHANGED <<hr, users, mq, job, faults, notes>>

-----------------------------------------------------------------------------
(* The consumer.                                                            *)

Take ==
    LET ev == Head(queue) IN
    /\ job[Worker] = Idle /\ queue # <<>>
    /\ queue' = Tail(queue)
    /\ Do(Worker, IF ev.kind = "hired"
                    THEN Serving("invite", ev.to, ev)
                    ELSE Serving("list", None, ev))
    /\ UNCHANGED <<hr, auth, parked, acked, faults, notes>>

\* find(m => m.name?.includes(p.sicilNo) || m.userId): every member has a
\* userId, so it is the first of the list, which is ordered by age.
Found(ev) == users[1]

List ==
    /\ job[Worker].pc = "list"
    /\ Do(Worker, Serving("off", Found(job[Worker].event), job[Worker].event))
    /\ UNCHANGED <<hr, auth, mq, faults, notes>>

Deactivate ==
    /\ job[Worker].pc = "off"
    /\ enabled' = enabled \ {job[Worker].user}
    /\ Done(Worker)
    /\ UNCHANGED <<hr, users, queue, parked, faults, notes>>

-----------------------------------------------------------------------------
(* Failures.                                                                *)

\* A handler throws, and the message is a dead letter; nobody reads those.
HandlerFails ==
    /\ job[Worker] # Idle /\ Fail
    /\ parked' = parked \cup {job[Worker].event}
    /\ Do(Worker, Idle)
    /\ UNCHANGED <<hr, auth, queue, acked, notes>>

\* The auth service stops: the message is delivered again.
ConsumerStops ==
    /\ job[Worker] # Idle /\ Fail
    /\ queue' = <<job[Worker].event>> \o queue
    /\ Do(Worker, Idle)
    /\ UNCHANGED <<hr, auth, parked, acked, notes>>

\* x-message-ttl: a minute in the queue.
Expire ==
    /\ queue # <<>> /\ Fail
    /\ parked' = parked \cup {Head(queue)}
    /\ queue' = Tail(queue)
    /\ UNCHANGED <<hr, auth, acked, job, notes>>

\* A save fails, or the process stops.
BreakOff(r) ==
    /\ job[r] # Idle /\ Fail
    /\ stranded' = IF job[r].pc = "status" THEN stranded \cup {job[r].who} ELSE stranded
    /\ Do(r, Idle)
    /\ UNCHANGED <<hr, auth, mq, unheard, overlapped>>

Consume == Take \/ Check(Worker) \/ Insert(Worker) \/ InsertClashes(Worker) \/ Equip(Worker)
           \/ List \/ Deactivate

Next ==
    \/ Consume \/ HandlerFails \/ ConsumerStops \/ Expire
    \/ \E e \in Employees, m \in Emails \cup {None} : Hire(e, m)
    \/ \E m \in Emails : DeactivateByHand(m)
    \/ \E r \in Requests :
         \/ \E e \in Employees : Calculate(r, e) \/ Find(r, e)
         \/ \E m \in Emails : Invite(r, m)
         \/ \E m \in Edits \cup {job[r].user} : Update(r, m)
         \/ SaveDetails(r) \/ SaveTerminated(r) \/ Terminate(r) \/ BreakOff(r)
         \/ Check(r) \/ Insert(r) \/ InsertClashes(r) \/ Equip(r)

\* The consumer goes on; nothing is assumed of the requests.
Spec == Init /\ [][Next]_vars /\ WF_vars(Consume)

-----------------------------------------------------------------------------
(* Properties.                                                              *)

\* Every variable has its type, and no address has two accounts.
TypeOK ==
    /\ staff \in [Employees -> {"none", "active", "terminated"}]
    /\ mail \in [Employees -> Emails \cup {None}]
    /\ hiredAs \in [Employees -> Emails \cup {None}]
    /\ details \subseteq Employees
    /\ users \in Seq(Emails) /\ \A i, k \in DOMAIN users : users[i] = users[k] => i = k
    /\ enabled \subseteq Members
    /\ queue \in Seq(Event)
    /\ parked \subseteq Event /\ acked \subseteq Event
    /\ job \in [Actors -> Job]
    /\ faults \in 0 .. MaxFaults
    /\ unheard \subseteq Event
    /\ overlapped \subseteq Employees /\ stranded \subseteq Employees

Waiting(ev) == ev \in Queued \/ job[Worker].event = ev

\* No employee hired with an address is forgotten between the two services: once
\* the message is out it is in the queue, at the consumer or a dead letter, or
\* it was acknowledged and that address has an account, here or elsewhere, whatever
\* became of the employee and of his address meanwhile.  An address that an edit
\* gives or changes is not covered: it gets neither a message nor an account.
HiredIsAnswered ==
    \A e \in Employees : hiredAs[e] # None =>
        \/ Hired(e, hiredAs[e]) \in unheard \cup parked
        \/ Waiting(Hired(e, hiredAs[e]))
        \/ Hired(e, hiredAs[e]) \in acked /\ hiredAs[e] \in Members \cup Elsewhere

\* A termination that was calculated is final and its employee is out, but for
\* the one moment in between the two saves; unless it stopped right there or a
\* second request handled the employee.
TerminationHolds ==
    \A e \in details \ (overlapped \cup stranded) :
        staff[e] = "terminated" \/ \E r \in Requests : job[r].pc = "status" /\ job[r].who = e

\* Whatever is delivered again: the messages about an employee, who is hired once and
\* leaves once, are all dealt with in the end.
EventsSettle ==
    \A e \in Employees :
        (\E ev \in Event : ev.who = e /\ Waiting(ev)) ~> ~\E ev \in Event : ev.who = e /\ Waiting(ev)

\* "Calisan isten cikarildi -> hesabi devre disi birak": a leaver whose message
\* was acknowledged cannot log in any more.
LeaverLosesAccess ==
    \A e \in Employees : Terminated(e) \in acked => hiredAs[e] \notin enabled
=============================================================================
