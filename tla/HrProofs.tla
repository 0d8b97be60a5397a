------------------------------ MODULE HrProofs ------------------------------
(***************************************************************************)
(* Proofs about the hr service.                                            *)
(*                                                                         *)
(* StaffAccounts, for any employees, addresses and requests: its type      *)
(* invariant, that nobody hired is forgotten between the two services, and *)
(* that a calculated termination holds.                                    *)
(*                                                                         *)
(* Payroll, for any employees, advances, months and requests: its type     *)
(* invariant, that an advance is deducted once, and that the ledger is     *)
(* told once.                                                              *)
(***************************************************************************)
EXTENDS StaffAccounts, Payroll, TLAPS

-----------------------------------------------------------------------------
(* StaffAccounts: the inductive invariant and its lemmas.                   *)

\* What an actor has in memory fits the point it has reached.
Memory(a) ==
    /\ job[a].pc = "idle" => job[a] = Idle
    /\ job[a].pc \in {"invite", "insert", "roles"} => job[a].user \in Emails
    /\ job[a].pc = "roles" => job[a].user \in Members

\* The consumer works on an event, and on the address it names.
Serves ==
    /\ job[Worker].pc \in {"idle", "invite", "insert", "roles", "list", "off"}
    /\ job[Worker].who = None
    /\ job[Worker].pc # "idle" => job[Worker].event \in Event
    /\ job[Worker].pc \in {"invite", "insert", "roles"} =>
         /\ job[Worker].event.kind = "hired"
         /\ job[Worker].user = job[Worker].event.to
    /\ job[Worker].pc \in {"list", "off"} => job[Worker].event.kind = "terminated"

\* A request of the hr service works on somebody who was hired.
Handles(r) ==
    /\ job[r].pc \in {"details", "status", "found"} =>
         job[r].who \in Employees /\ staff[job[r].who] # "none"
    /\ job[r].pc = "found" => job[r].was # "none"

Memories ==
    /\ users # <<>>
    /\ \A a \in Actors : Memory(a)
    /\ Serves
    /\ \A r \in Requests : Handles(r)

\* Two requests at the same employee are noted.
Alone ==
    \A r, q \in Requests :
      r # q /\ job[r].who = job[q].who /\ job[r].who # None => job[r].who \in overlapped

\* Whose termination nothing has disturbed so far.
Undisturbed(e) == e \notin overlapped \cup stranded

\* Nobody calculates the termination of such an employee twice, and whoever
\* edits one that has been calculated has read that he is out.
Orderly ==
    /\ \A e \in details : staff[e] # "none"
    /\ \A r \in Requests : job[r].pc = "details" /\ Undisturbed(job[r].who) =>
         job[r].who \notin details
    /\ \A r \in Requests :
         job[r].pc = "found" /\ job[r].who \in details /\ Undisturbed(job[r].who) =>
           job[r].was = "terminated"

Inv == TypeOK /\ Memories /\ HiredIsAnswered /\ Alone /\ Orderly /\ TerminationHolds

-----------------------------------------------------------------------------
(* Queues and lists, by what is in them.                                    *)

Elems(s) == {s[i] : i \in DOMAIN s}

LEMMA AppendElems ==
    ASSUME NEW S, NEW s \in Seq(S), NEW x \in S
    PROVE  /\ Append(s, x) \in Seq(S) /\ Append(s, x) # <<>>
           /\ Elems(Append(s, x)) = Elems(s) \cup {x}
           /\ \A i \in DOMAIN Append(s, x) : Append(s, x)[i] = IF i \in DOMAIN s THEN s[i] ELSE x
           /\ \A i \in DOMAIN Append(s, x) : i \notin DOMAIN s => i = Len(s) + 1
<1>1. /\ Append(s, x) \in Seq(S) /\ DOMAIN Append(s, x) = 1 .. Len(s) + 1 /\ DOMAIN s = 1 .. Len(s)
      /\ Len(s) \in Nat /\ Append(s, x)[Len(s) + 1] = x
      /\ \A i \in 1 .. Len(s) : Append(s, x)[i] = s[i]
  OBVIOUS
<1>2. Append(s, x) # <<>>
  BY <1>1
<1> HIDE DEF Elems
<1>3. ASSUME NEW y PROVE y \in Elems(Append(s, x)) <=> y \in Elems(s) \cup {x}
  BY <1>1 DEF Elems
<1> QED
  BY <1>1, <1>2, <1>3

LEMMA HeadElems ==
    ASSUME NEW S, NEW s \in Seq(S), s # <<>>
    PROVE  Head(s) \in S /\ Tail(s) \in Seq(S) /\ Elems(s) = Elems(Tail(s)) \cup {Head(s)}
<1>1. /\ Head(s) \in S /\ Tail(s) \in Seq(S) /\ Len(s) \in Nat \ {0} /\ Head(s) = s[1]
      /\ DOMAIN s = 1 .. Len(s) /\ DOMAIN Tail(s) = 1 .. Len(s) - 1
      /\ \A i \in 1 .. Len(s) - 1 : Tail(s)[i] = s[i + 1]
  OBVIOUS
<1>2. ASSUME NEW i \in 2 .. Len(s) PROVE i - 1 \in 1 .. Len(s) - 1 /\ s[i] = Tail(s)[i - 1]
  BY <1>1
<1>3. ASSUME NEW i \in 1 .. Len(s) - 1 PROVE i + 1 \in 1 .. Len(s)
  BY <1>1
<1>4. ASSUME NEW y \in Elems(s) PROVE y \in Elems(Tail(s)) \cup {Head(s)}
  <2>1. PICK i \in 1 .. Len(s) : y = s[i]
    BY <1>1 DEF Elems
  <2>2. CASE i = 1
    BY <1>1, <2>1, <2>2
  <2>3. CASE i # 1
    <3>1. i \in 2 .. Len(s)
      BY <1>1, <2>1, <2>3
    <3>2. i - 1 \in DOMAIN Tail(s) /\ y = Tail(s)[i - 1]
      BY <1>1, <1>2, <2>1, <3>1
    <3> QED
      BY <3>2 DEF Elems
  <2> QED
    BY <2>2, <2>3
<1>5. ASSUME NEW y \in Elems(Tail(s)) \cup {Head(s)} PROVE y \in Elems(s)
  BY <1>1, <1>3 DEF Elems
<1> QED
  BY <1>1, <1>4, <1>5

LEMMA BackElems ==
    ASSUME NEW S, NEW s \in Seq(S), NEW x \in S
    PROVE  <<x>> \o s \in Seq(S) /\ Elems(<<x>> \o s) = Elems(s) \cup {x}
<1> DEFINE t == <<x>> \o s
<1>1. /\ t \in Seq(S) /\ DOMAIN t = 1 .. Len(s) + 1 /\ DOMAIN s = 1 .. Len(s) /\ Len(s) \in Nat
      /\ t[1] = x /\ \A i \in 1 .. Len(s) : t[i + 1] = s[i]
  OBVIOUS
<1> HIDE DEF t
<1>2. ASSUME NEW i \in 2 .. Len(s) + 1 PROVE i - 1 \in 1 .. Len(s) /\ t[i] = s[i - 1]
  BY <1>1
<1>3. ASSUME NEW i \in 1 .. Len(s) PROVE i + 1 \in 1 .. Len(s) + 1
  BY <1>1
<1>4. ASSUME NEW y \in Elems(t) PROVE y \in Elems(s) \cup {x}
  BY <1>1, <1>2, SMTT(60) DEF Elems
<1>5. ASSUME NEW y \in Elems(s) \cup {x} PROVE y \in Elems(t)
  BY <1>1, <1>3 DEF Elems
<1>6. t \in Seq(S) /\ Elems(t) = Elems(s) \cup {x}
  BY <1>1, <1>4, <1>5
<1> QED
  BY <1>6 DEF t

\* An event is one of the two kinds; only a hiring names an address.
LEMMA EventIs ==
    ASSUME NEW ev \in Event
    PROVE  /\ ev.who \in Employees
           /\ ev.kind = "hired" => ev.to \in Emails
           /\ ev.kind # "hired" => ev.kind = "terminated"
  BY DEF Event

LEMMA Events ==
    ASSUME NEW e \in Employees
    PROVE  /\ \A m \in Emails : /\ Hired(e, m) \in Event /\ Hired(e, m).kind = "hired"
                                /\ Hired(e, m).to = m
           /\ Terminated(e) \in Event
  BY DEF Event, Hired, Terminated

-----------------------------------------------------------------------------
(* What a step can change.                                                  *)

\* What somebody has in memory after a step.
LEMMA JobFrame ==
    ASSUME Inv, [Next]_vars, NEW a \in Actors
    PROVE  \/ job'[a] = job[a] \/ job'[a] = Idle
           \/ Check(a) /\ job'[a] = [job[a] EXCEPT !.pc = "insert"]
           \/ Insert(a) /\ job'[a] = [job[a] EXCEPT !.pc = "roles"]
           \/ a \in Requests /\ SaveDetails(a) /\ job[a].who \notin details
              /\ job'[a] = [job[a] EXCEPT !.pc = "status"]
           \/ a = Worker /\ (Take \/ List)
           \/ a \in Requests /\ \E e \in Employees : Calculate(a, e) \/ Find(a, e)
           \/ a \in Requests /\ \E m \in Emails : Invite(a, m)
<1> DEFINE Goal ==
      \/ job'[a] = job[a] \/ job'[a] = Idle
      \/ Check(a) /\ job'[a] = [job[a] EXCEPT !.pc = "insert"]
      \/ Insert(a) /\ job'[a] = [job[a] EXCEPT !.pc = "roles"]
      \/ a \in Requests /\ SaveDetails(a) /\ job[a].who \notin details
         /\ job'[a] = [job[a] EXCEPT !.pc = "status"]
      \/ a = Worker /\ (Take \/ List)
      \/ a \in Requests /\ \E e \in Employees : Calculate(a, e) \/ Find(a, e)
      \/ a \in Requests /\ \E m \in Emails : Invite(a, m)
<1>1. job \in [Actors -> Job] /\ Worker \in Actors /\ Requests \subseteq Actors
  BY DEF Inv, TypeOK, Actors
<1>2. ASSUME NEW b \in Actors, NEW j, Do(b, j), a # b PROVE job'[a] = job[a]
  BY <1>1, <1>2 DEF Do
<1>3. ASSUME NEW b \in Actors, Do(b, Idle) PROVE job'[a] = job[a] \/ job'[a] = Idle
  BY <1>1, <1>3 DEF Do
<1>4. ASSUME NEW b \in Actors, Check(b) PROVE Goal
  BY <1>1, <1>4 DEF Check, Known, Done, Do, Go
<1>5. ASSUME NEW b \in Actors, Insert(b) PROVE Goal
  BY <1>1, <1>5 DEF Insert, Do, Go
<1>6. ASSUME NEW r \in Requests, SaveDetails(r) PROVE Goal
  BY <1>1, <1>6 DEF SaveDetails, Do, Go
<1>7. CASE Take \/ List
  BY <1>1, <1>2, <1>7 DEF Take, List
<1>8. ASSUME NEW r \in Requests, NEW e \in Employees, Calculate(r, e) \/ Find(r, e)
      PROVE  Goal
  BY <1>1, <1>2, <1>8 DEF Calculate, Find
<1>9. ASSUME NEW r \in Requests, NEW m \in Emails, Invite(r, m) PROVE Goal
  BY <1>1, <1>2, <1>9 DEF Invite
<1>10. ASSUME NEW b \in Actors, InsertClashes(b) \/ Equip(b) PROVE Goal
  BY <1>3, <1>10 DEF InsertClashes, Equip, Done
<1>11. CASE Deactivate \/ HandlerFails \/ ConsumerStops
  BY <1>1, <1>3, <1>11 DEF Deactivate, Done, HandlerFails, ConsumerStops
<1>12. ASSUME NEW r \in Requests,
              \/ SaveTerminated(r) \/ Terminate(r) \/ BreakOff(r)
              \/ \E m \in Edits \cup {job[r].user} : Update(r, m)
       PROVE  Goal
  BY <1>1, <1>3, <1>12 DEF SaveTerminated, Terminate, Update, BreakOff
<1>13. CASE \/ UNCHANGED vars \/ Expire
            \/ \E e \in Employees, m \in Emails \cup {None} : Hire(e, m)
            \/ \E m \in Emails : DeactivateByHand(m)
  BY <1>13 DEF vars, Expire, Hire, DeactivateByHand
<1> QED
  BY <1>1, <1>4, <1>5, <1>6, <1>7, <1>8, <1>9, <1>10, <1>11, <1>12, <1>13 DEF Next, Consume

\* The three ways in which a request saves an employee.
Saves(r) ==
    \/ SaveTerminated(r) \/ Terminate(r)
    \/ \E m \in Edits \cup {job[r].user} : Update(r, m)

LEMMA SaveIs ==
    ASSUME Inv, NEW r \in Requests, Saves(r)
    PROVE  /\ job[r].pc \in {"status", "found"} /\ job[r].who \in Employees
           /\ \E status \in {"terminated", job[r].was}, m \in Emails \cup {None} :
                /\ Save(job[r].who, status, m)
                /\ status = "terminated" \/ job[r].pc = "found"
<1>1. job[r].user \in Emails \cup {None} /\ Handles(r)
  BY DEF Inv, TypeOK, Memories, Actors, Job
<1>2. job[r].pc \in {"status", "found"} /\ job[r].who \in Employees
  BY <1>1 DEF Saves, SaveTerminated, Terminate, Update, Handles
<1>3. CASE SaveTerminated(r) \/ Terminate(r)
  BY <1>1, <1>2, <1>3 DEF SaveTerminated, Terminate
<1>4. ASSUME NEW m \in Edits \cup {job[r].user}, Update(r, m)
      PROVE  m \in Emails \cup {None} /\ job[r].pc = "found" /\ Save(job[r].who, job[r].was, m)
  BY <1>1, <1>4, StaffAssumption DEF Update
<1> QED
  BY <1>2, <1>3, <1>4 DEF Saves

LEMMA StaffFrame ==
    ASSUME [Next]_vars
    PROVE  \/ UNCHANGED hr
           \/ \E e \in Employees, m \in Emails \cup {None} : Hire(e, m)
           \/ \E r \in Requests : SaveDetails(r) \/ Saves(r)
  BY DEF Next, Consume, vars, hr, Saves, Take, Check, Insert, InsertClashes, Equip, List,
     Deactivate, HandlerFails, ConsumerStops, Expire, DeactivateByHand, Calculate, Find, Invite,
     BreakOff

LEMMA AccountFrame ==
    ASSUME [Next]_vars
    PROVE  \/ UNCHANGED <<users, enabled>>
           \/ \E a \in Actors : Insert(a)
           \/ Deactivate \/ \E m \in Emails : DeactivateByHand(m)
  BY DEF Next, Consume, Actors, vars, auth, Take, Check, InsertClashes, Equip, List, HandlerFails,
     ConsumerStops, Expire, Terminate, Hire, Calculate, Find, Invite, SaveDetails,
     SaveTerminated, Update, BreakOff

\* A step of the consumer that ends its work on a message.
Ends == Check(Worker) \/ Equip(Worker) \/ Deactivate \/ InsertClashes(Worker)

LEMMA QueueFrame ==
    ASSUME [Next]_vars
    PROVE  \/ UNCHANGED <<queue, parked, acked>>
           \/ Take \/ HandlerFails \/ ConsumerStops \/ Expire \/ Ends
           \/ \E e \in Employees, m \in Emails \cup {None} : Hire(e, m)
           \/ \E r \in Requests : SaveTerminated(r)
<1>1. ASSUME NEW r \in Requests, Check(r) \/ Equip(r) \/ InsertClashes(r)
      PROVE  UNCHANGED <<queue, parked, acked>>
  BY <1>1, StaffAssumption DEF Check, Known, Equip, Done, InsertClashes, Clash, Go
<1> QED
  BY <1>1 DEF Next, Consume, Ends, vars, mq, Insert, List, Terminate, DeactivateByHand, Calculate,
     Find, Invite, SaveDetails, Update, BreakOff

LEMMA NotesFrame ==
    ASSUME [Next]_vars
    PROVE  \/ UNCHANGED <<unheard, overlapped, stranded>>
           \/ \E e \in Employees, m \in Emails \cup {None} : Hire(e, m)
           \/ \E r \in Requests : SaveTerminated(r) \/ BreakOff(r)
           \/ \E r \in Requests, e \in Employees : Calculate(r, e) \/ Find(r, e)
  BY DEF Next, Consume, vars, notes, Take, Check, Insert, InsertClashes, Equip, List, Deactivate,
     HandlerFails, ConsumerStops, Expire, Terminate, DeactivateByHand, Invite, SaveDetails, Update

\* What is never taken back: accounts, dead letters, acknowledgements, notes;
\* and nobody who was hired is a stranger again.
Grows ==
    /\ Members \subseteq Members' /\ parked \subseteq parked' /\ acked \subseteq acked'
    /\ unheard \subseteq unheard'
    /\ overlapped \subseteq overlapped' /\ stranded \subseteq stranded'
    /\ \A e \in Employees : staff[e] # "none" => staff'[e] # "none"

LEMMA UsersStep ==
    ASSUME Inv, [Next]_vars
    PROVE  /\ users' \in Seq(Emails) /\ users' # <<>> /\ Members \subseteq Members'
           /\ \A i, k \in DOMAIN users' : users'[i] = users'[k] => i = k
           /\ enabled' \subseteq Members'
<1>1. /\ users \in Seq(Emails) /\ users # <<>> /\ enabled \subseteq Members
      /\ \A i, k \in DOMAIN users : users[i] = users[k] => i = k
      /\ Members = Elems(users) /\ Members' = Elems(users')
  BY DEF Inv, TypeOK, Memories, Members, Elems
<1>2. ASSUME NEW a \in Actors, Insert(a)
      PROVE  /\ users' \in Seq(Emails) /\ users' # <<>> /\ Members' = Members \cup {job[a].user}
             /\ \A i, k \in DOMAIN users' : users'[i] = users'[k] => i = k
  <2>1. job[a].user \in Emails /\ job[a].user \notin Members /\ users' = Append(users, job[a].user)
    BY <1>2 DEF Insert, Inv, Memories, Memory
  <2>2. /\ users' \in Seq(Emails) /\ users' # <<>>
        /\ Elems(users') = Elems(users) \cup {job[a].user}
        /\ \A i \in DOMAIN users' : users'[i] = IF i \in DOMAIN users THEN users[i] ELSE job[a].user
        /\ \A i \in DOMAIN users' : i \notin DOMAIN users => i = Len(users) + 1
    BY <1>1, <2>1, AppendElems
  <2>3. ASSUME NEW i \in DOMAIN users', NEW k \in DOMAIN users', users'[i] = users'[k] PROVE i = k
    BY <1>1, <2>1, <2>2, <2>3 DEF Members
  <2> QED
    BY <1>1, <2>2, <2>3
<1>3. ASSUME NEW a \in Actors, Insert(a) PROVE enabled' = enabled \cup {job[a].user}
  BY <1>3 DEF Insert
<1>4. CASE UNCHANGED <<users, enabled>>
  BY <1>1, <1>4
<1>5. CASE Deactivate \/ \E m \in Emails : DeactivateByHand(m)
  BY <1>1, <1>5 DEF Deactivate, DeactivateByHand, hr
<1> QED
  BY <1>1, <1>2, <1>3, <1>4, <1>5, AccountFrame

LEMMA StaffStep ==
    ASSUME Inv, [Next]_vars
    PROVE  /\ staff' \in [Employees -> {"none", "active", "terminated"}]
           /\ mail' \in [Employees -> Emails \cup {None}]
           /\ hiredAs' \in [Employees -> Emails \cup {None}]
           /\ details' \subseteq Employees
           /\ \A e \in Employees : staff[e] # "none" => staff'[e] # "none"
<1>1. /\ staff \in [Employees -> {"none", "active", "terminated"}]
      /\ mail \in [Employees -> Emails \cup {None}] /\ details \subseteq Employees
      /\ hiredAs \in [Employees -> Emails \cup {None}]
      /\ \A r \in Requests : Handles(r) /\ job[r] \in Job
  BY DEF Inv, TypeOK, Memories, Actors
<1>2. CASE UNCHANGED hr
  BY <1>1, <1>2 DEF hr
<1>3. ASSUME NEW e \in Employees, NEW m \in Emails \cup {None}, Hire(e, m)
      PROVE  /\ staff[e] = "none" /\ staff' = [staff EXCEPT ![e] = "active"]
             /\ mail' = [mail EXCEPT ![e] = m] /\ hiredAs' = [hiredAs EXCEPT ![e] = m]
             /\ details' = details
  BY <1>3 DEF Hire
<1>4. ASSUME NEW r \in Requests, SaveDetails(r)
      PROVE  /\ job[r].who \in Employees /\ details' = details \cup {job[r].who}
             /\ UNCHANGED <<staff, mail, hiredAs>>
  BY <1>1, <1>4 DEF SaveDetails, Handles
<1>5. ASSUME NEW r \in Requests, Saves(r)
      PROVE  \E e \in Employees, status \in {"active", "terminated"}, m \in Emails \cup {None} :
               /\ staff' = [staff EXCEPT ![e] = status]
               /\ mail' = [mail EXCEPT ![e] = m]
               /\ UNCHANGED <<hiredAs, details>>
  <2>1. job[r].who \in Employees
    BY <1>5, SaveIs
  <2>2. PICK status \in {"terminated", job[r].was}, m \in Emails \cup {None} :
          Save(job[r].who, status, m) /\ (status = "terminated" \/ job[r].pc = "found")
    BY <1>5, SaveIs
  <2>3. status \in {"active", "terminated"}
    BY <1>1, <2>2 DEF Handles, Job
  <2> QED
    BY <2>1, <2>2, <2>3 DEF Save
<1> QED
  BY <1>1, <1>2, <1>3, <1>4, <1>5, StaffFrame

\* The work of the consumer ends with its message among the dead letters, or
\* acknowledged.
LEMMA EndsStep ==
    ASSUME Inv, [Next]_vars, Ends
    PROVE  /\ queue' = queue
           /\ \/ UNCHANGED <<parked, acked>> /\ job'[Worker].event = job[Worker].event
              \/ job[Worker].event \in Event /\ acked' = acked
                 /\ parked' = parked \cup {job[Worker].event}
              \/ /\ job[Worker].event \in Event /\ parked' = parked
                 /\ acked' = acked \cup {job[Worker].event}
                 /\ job[Worker].event.kind = "hired" =>
                      job[Worker].event.to \in Members \cup Elsewhere
<1>1. Worker \in Actors /\ job \in [Actors -> Job] /\ Serves /\ Memory(Worker)
  BY DEF Inv, TypeOK, Memories, Actors
<1>2. CASE Check(Worker)
  <2>1. /\ job[Worker].pc = "invite" /\ job[Worker].event \in Event
        /\ queue' = queue /\ parked' = parked
        /\ job[Worker].event.kind = "hired" /\ job[Worker].user = job[Worker].event.to
    BY <1>1, <1>2 DEF Check, Serves
  <2>2. CASE job[Worker].user \in Members \cup Elsewhere
    BY <1>2, <2>1, <2>2 DEF Check, Known, Done
  <2>3. CASE job[Worker].user \notin Members \cup Elsewhere
    BY <1>1, <1>2, <2>1, <2>3 DEF Check, Go, Do, Job
  <2> QED
    BY <2>2, <2>3
<1>3. CASE Equip(Worker)
  BY <1>1, <1>3 DEF Equip, Done, Do, Serves, Memory
<1>4. CASE Deactivate
  BY <1>1, <1>4 DEF Deactivate, Done, Do, Serves
<1>5. CASE InsertClashes(Worker)
  BY <1>1, <1>5 DEF InsertClashes, Clash, Serves
<1> QED
  BY <1>2, <1>3, <1>4, <1>5 DEF Ends

LEMMA QueueStep ==
    ASSUME Inv, [Next]_vars
    PROVE  /\ queue' \in Seq(Event)
           /\ parked \subseteq parked' /\ parked' \subseteq Event
           /\ acked \subseteq acked' /\ acked' \subseteq Event
<1>1. /\ queue \in Seq(Event) /\ parked \subseteq Event /\ acked \subseteq Event
      /\ Serves /\ Memory(Worker)
  BY DEF Inv, TypeOK, Memories, Actors
<1>2. CASE UNCHANGED <<queue, parked, acked>>
  BY <1>1, <1>2
<1>3. CASE Take \/ Expire
  BY <1>1, <1>3, HeadElems DEF Take, Expire
<1>4. CASE HandlerFails \/ ConsumerStops
  <2>1. job[Worker].event \in Event
    BY <1>1, <1>4 DEF HandlerFails, ConsumerStops, Serves, Memory
  <2>2. <<job[Worker].event>> \o queue \in Seq(Event)
    BY <1>1, <2>1, BackElems
  <2> QED
    BY <1>1, <1>4, <2>1, <2>2 DEF HandlerFails, ConsumerStops
<1>5. CASE Ends
  BY <1>1, <1>5, EndsStep
<1>6. ASSUME NEW e \in Employees, NEW m \in Emails \cup {None}, Hire(e, m)
      PROVE  queue' \in Seq(Event) /\ UNCHANGED <<parked, acked>>
  <2>1. m # None => Hired(e, m) \in Event
    BY Events
  <2> QED
    BY <1>1, <1>6, <2>1, AppendElems DEF Hire, Publish
<1>7. ASSUME NEW r \in Requests, SaveTerminated(r)
      PROVE  queue' \in Seq(Event) /\ UNCHANGED <<parked, acked>>
  <2>1. job[r].who \in Employees
    BY <1>7 DEF SaveTerminated, Inv, Memories, Handles
  <2> QED
    BY <1>1, <1>7, <2>1, Events, AppendElems DEF SaveTerminated, Publish
<1> QED
  BY <1>1, <1>2, <1>3, <1>4, <1>5, <1>6, <1>7, QueueFrame

LEMMA NotesStep ==
    ASSUME Inv, [Next]_vars
    PROVE  /\ unheard \subseteq unheard' /\ unheard' \subseteq Event
           /\ overlapped \subseteq overlapped' /\ overlapped' \subseteq Employees
           /\ stranded \subseteq stranded' /\ stranded' \subseteq Employees
<1>1. /\ unheard \subseteq Event /\ overlapped \subseteq Employees /\ stranded \subseteq Employees
      /\ \A r \in Requests : Handles(r)
  BY DEF Inv, TypeOK, Memories
<1>2. CASE UNCHANGED <<unheard, overlapped, stranded>>
  BY <1>1, <1>2
<1>3. ASSUME NEW e \in Employees, NEW m \in Emails \cup {None}, Hire(e, m)
      PROVE  /\ unheard' = unheard \/ (m # None /\ unheard' = unheard \cup {Hired(e, m)})
             /\ UNCHANGED <<overlapped, stranded>>
  BY <1>3 DEF Hire, Publish
<1>4. ASSUME NEW r \in Requests, SaveTerminated(r)
      PROVE  /\ unheard' \subseteq unheard \cup {Terminated(job[r].who)}
             /\ unheard \subseteq unheard'
             /\ job[r].who \in Employees /\ UNCHANGED <<overlapped, stranded>>
  BY <1>1, <1>4 DEF SaveTerminated, Publish, Handles
<1>5. ASSUME NEW r \in Requests, BreakOff(r)
      PROVE  /\ UNCHANGED <<unheard, overlapped>> /\ stranded \subseteq stranded'
             /\ stranded' \subseteq Employees
  BY <1>1, <1>5 DEF BreakOff, Handles
<1>6. ASSUME NEW r \in Requests, NEW e \in Employees, Calculate(r, e) \/ Find(r, e)
      PROVE  /\ overlapped \subseteq overlapped' /\ overlapped' \subseteq overlapped \cup {e}
             /\ UNCHANGED <<unheard, stranded>>
  BY <1>6 DEF Calculate, Find, Begin
<1> QED
  BY <1>1, <1>2, <1>3, <1>4, <1>5, <1>6, Events, NotesFrame

LEMMA GrowStep == ASSUME Inv, [Next]_vars PROVE Grows
  BY UsersStep, StaffStep, QueueStep, NotesStep DEF Grows

LEMMA JobStep == ASSUME Inv, [Next]_vars PROVE job' \in [Actors -> Job]
<1>1. /\ job \in [Actors -> Job] /\ Worker \in Actors /\ Requests \subseteq Actors
      /\ mail \in [Employees -> Emails \cup {None}]
      /\ staff \in [Employees -> {"none", "active", "terminated"}]
      /\ users \in Seq(Emails) /\ queue \in Seq(Event) /\ Serves /\ users # <<>>
  BY DEF Inv, TypeOK, Memories, Actors
<1>2. Idle \in Job
  BY DEF Idle, Serving, Job, Steps
<1>3. ASSUME NEW a \in Actors PROVE job'[a] \in Job
  <2>1. CASE job'[a] = job[a] \/ job'[a] = Idle
    BY <1>1, <1>2, <2>1
  <2>2. ASSUME NEW pc \in {"insert", "roles", "status"}, job'[a] = [job[a] EXCEPT !.pc = pc]
        PROVE  job'[a] \in Job
    BY <1>1, <2>2 DEF Job, Steps
  <2>3. CASE a = Worker /\ Take
    <3>1. Head(queue) \in Event
      BY <1>1, <2>3, HeadElems DEF Take
    <3>2. Head(queue).kind = "hired" => Serving("invite", Head(queue).to, Head(queue)) \in Job
      BY <3>1, EventIs DEF Serving, Job, Steps
    <3>3. Serving("list", None, Head(queue)) \in Job
      BY <3>1 DEF Serving, Job, Steps
    <3> QED
      BY <1>1, <2>3, <3>2, <3>3 DEF Take, Do
  <2>4. CASE a = Worker /\ List
    <3>1. users[1] \in Emails
      BY <1>1
    <3>2. job[Worker].event \in Event
      BY <1>1, <2>4 DEF List, Serves
    <3> QED
      BY <1>1, <2>4, <3>1, <3>2 DEF List, Found, Do, Serving, Job, Steps
  <2>5. ASSUME a \in Requests, NEW e \in Employees, Calculate(a, e) \/ Find(a, e)
        PROVE  job'[a] \in Job
    <3>1. Handling("details", e) \in Job /\ Handling("found", e) \in Job
      BY <1>1 DEF Handling, Job, Steps
    <3> QED
      BY <1>1, <2>5, <3>1 DEF Calculate, Find, Do
  <2>6. ASSUME a \in Requests, NEW m \in Emails, Invite(a, m) PROVE job'[a] \in Job
    <3>1. Serving("invite", m, None) \in Job
      BY DEF Serving, Job, Steps
    <3> QED
      BY <1>1, <2>6, <3>1 DEF Invite, Do
  <2> QED
    BY <2>1, <2>2, <2>3, <2>4, <2>5, <2>6, JobFrame
<1>4. ASSUME NEW b \in Actors, NEW j, Do(b, j) PROVE job' = [a \in Actors |-> job'[a]]
  BY <1>1, <1>4 DEF Do
<1>5. ASSUME job' = job PROVE job' = [a \in Actors |-> job'[a]]
  BY <1>1, <1>5
<1>6. ASSUME NEW b \in Actors, Check(b) \/ Insert(b) \/ InsertClashes(b) \/ Equip(b)
      PROVE  job' = [a \in Actors |-> job'[a]]
  BY <1>4, <1>6 DEF Check, Known, Insert, InsertClashes, Equip, Done, Go
<1>7. ASSUME Take \/ List \/ Deactivate \/ HandlerFails \/ ConsumerStops
      PROVE  job' = [a \in Actors |-> job'[a]]
  <2>1. \E j : Do(Worker, j)
    BY <1>7 DEF Take, List, Deactivate, HandlerFails, ConsumerStops, Done
  <2>2. PICK j : Do(Worker, j)
    BY <2>1
  <2> QED
    BY <1>1, <2>2 DEF Do
<1>8. ASSUME NEW r \in Requests, SaveDetails(r) \/ Saves(r) \/ BreakOff(r)
      PROVE  job' = [a \in Actors |-> job'[a]]
  BY <1>1, <1>4, <1>8 DEF SaveDetails, Saves, SaveTerminated, Terminate, Update, BreakOff, Go
<1>9. ASSUME NEW r \in Requests, NEW x, Calculate(r, x) \/ Find(r, x) \/ Invite(r, x)
      PROVE  job' = [a \in Actors |-> job'[a]]
  BY <1>1, <1>4, <1>9 DEF Calculate, Find, Invite
<1>10. job' = [a \in Actors |-> job'[a]]
  BY <1>1, <1>5, <1>6, <1>7, <1>8, <1>9 DEF Next, Consume, Saves, vars, Expire, Hire,
     DeactivateByHand
<1> QED
  BY <1>3, <1>10

LEMMA TypeStep == ASSUME Inv, [Next]_vars PROVE TypeOK'
<1>1. faults' \in 0 .. MaxFaults
  BY StaffAssumption DEF Inv, TypeOK, Next, Consume, vars, Fail, Publish, notes, Take, Check,
     Insert, InsertClashes, Equip, List, Deactivate, HandlerFails, ConsumerStops, Expire, Terminate,
     Hire, DeactivateByHand, Calculate, Find, Invite, SaveDetails, SaveTerminated, Update,
     BreakOff
<1> QED
  BY <1>1, UsersStep, StaffStep, QueueStep, NotesStep, JobStep DEF TypeOK

\* The consumer keeps its message until it ends its work on it, or fails.
LEMMA EventFrame ==
    ASSUME Inv, [Next]_vars
    PROVE  \/ job'[Worker].event = job[Worker].event
           \/ Take \/ Ends \/ HandlerFails \/ ConsumerStops
<1>1. /\ Serves /\ Worker \in Actors /\ job \in [Actors -> Job] /\ Requests \subseteq Actors
      /\ Worker \notin Requests
  BY StaffAssumption DEF Inv, TypeOK, Memories, Actors
<1>2. ASSUME NEW r \in Requests, NEW j, Do(r, j) PROVE job'[Worker] = job[Worker]
  BY <1>1, <1>2 DEF Do
<1>3. CASE Insert(Worker) \/ List
  BY <1>1, <1>3 DEF Insert, List, Go, Do, Serving, Job
<1>4. ASSUME NEW r \in Requests, Check(r) \/ Insert(r) \/ InsertClashes(r) \/ Equip(r)
      PROVE  job'[Worker] = job[Worker]
  BY <1>2, <1>4 DEF Check, Known, Insert, InsertClashes, Equip, Done, Go
<1>5. ASSUME NEW r \in Requests,
             SaveDetails(r) \/ Saves(r) \/ BreakOff(r)
      PROVE  job'[Worker] = job[Worker]
  BY <1>2, <1>5 DEF SaveDetails, Saves, SaveTerminated, Terminate, Update, BreakOff, Go
<1>6. ASSUME NEW r \in Requests, NEW x, Calculate(r, x) \/ Find(r, x) \/ Invite(r, x)
      PROVE  job'[Worker] = job[Worker]
  BY <1>2, <1>6 DEF Calculate, Find, Invite
<1> QED
  BY <1>3, <1>4, <1>5, <1>6 DEF Next, Consume, Ends, Saves, vars, Expire, Hire, DeactivateByHand

\* A hiring that waits goes on waiting, or is answered.
LEMMA AnsweredOrWaits ==
    ASSUME Inv, [Next]_vars, NEW ev \in Event, ev.kind = "hired", Waiting(ev)
    PROVE  \/ Waiting(ev)' \/ ev \in parked'
           \/ ev \in acked' /\ ev.to \in Members \cup Elsewhere
<1> DEFINE Goal == \/ Waiting(ev)' \/ ev \in parked'
                   \/ ev \in acked' /\ ev.to \in Members \cup Elsewhere
<1>1. /\ queue \in Seq(Event) /\ Serves /\ Worker \in Actors /\ job \in [Actors -> Job]
      /\ Queued = Elems(queue) /\ Queued' = Elems(queue')
  BY DEF Inv, TypeOK, Memories, Actors, Queued, Elems
<1>2. ev # None
  BY StaffAssumption
<1>3. ASSUME queue' = queue, job'[Worker].event = job[Worker].event PROVE Goal
  BY <1>1, <1>3 DEF Waiting
<1>4. CASE Take
  <2>1. Queued = Queued' \cup {Head(queue)}
    BY <1>1, <1>4, HeadElems DEF Take
  <2>2. job'[Worker].event = Head(queue) /\ job[Worker].event = None
    BY <1>1, <1>4 DEF Take, Do, Serving, Idle
  <2> QED
    BY <1>2, <2>1, <2>2 DEF Waiting
<1>5. CASE Expire
  <2>1. Queued = Queued' \cup {Head(queue)} /\ parked' = parked \cup {Head(queue)} /\ job' = job
    BY <1>1, <1>5, HeadElems DEF Expire
  <2> QED
    BY <2>1 DEF Waiting
<1>6. CASE HandlerFails
  BY <1>1, <1>6 DEF HandlerFails, Waiting
<1>7. CASE ConsumerStops
  <2>1. job[Worker].event \in Event
    BY <1>1, <1>7 DEF ConsumerStops, Serves, Inv, Memories, Memory
  <2>2. Queued' = Queued \cup {job[Worker].event}
    BY <1>1, <1>7, <2>1, BackElems DEF ConsumerStops
  <2> QED
    BY <2>2 DEF Waiting
<1>8. CASE Ends
  BY <1>1, <1>2, <1>8, EndsStep DEF Waiting
<1>9. ASSUME Queued \subseteq Queued', job'[Worker].event = job[Worker].event PROVE Goal
  BY <1>9 DEF Waiting
<1>10. ASSUME NEW d \in Employees, NEW m \in Emails \cup {None}, Hire(d, m) PROVE Goal
  <2>1. queue' = queue \/ (m # None /\ queue' = Append(queue, Hired(d, m)))
    BY <1>10 DEF Hire, Publish
  <2>2. m # None => Hired(d, m) \in Event
    BY Events
  <2>3. m # None => Elems(Append(queue, Hired(d, m))) = Elems(queue) \cup {Hired(d, m)}
    BY <1>1, <2>2, AppendElems
  <2>4. Queued \subseteq Queued'
    BY <1>1, <2>1, <2>3
  <2> QED
    BY <1>9, <1>10, <2>4 DEF Hire
<1>11. ASSUME NEW r \in Requests, SaveTerminated(r) PROVE Goal
  <2>1. job[r].who \in Employees
    BY <1>11 DEF SaveTerminated, Inv, Memories, Handles
  <2>2. queue' = queue \/ queue' = Append(queue, Terminated(job[r].who))
    BY <1>11 DEF SaveTerminated, Publish
  <2>3. Terminated(job[r].who) \in Event
    BY <2>1, Events
  <2>4. Elems(Append(queue, Terminated(job[r].who))) = Elems(queue) \cup {Terminated(job[r].who)}
    BY <1>1, <2>3, AppendElems
  <2>5. Queued \subseteq Queued'
    BY <1>1, <2>2, <2>4
  <2>6. job'[Worker] = job[Worker]
    BY <1>1, <1>11, StaffAssumption DEF SaveTerminated, Do
  <2> QED
    BY <1>9, <2>5, <2>6
<1>12. CASE UNCHANGED <<queue, parked, acked>>
  <2>1. CASE Take \/ HandlerFails \/ ConsumerStops \/ Ends
    BY <1>4, <1>6, <1>7, <1>8, <2>1
  <2>2. CASE ~(Take \/ HandlerFails \/ ConsumerStops \/ Ends)
    <3>1. job'[Worker].event = job[Worker].event
      BY <1>1, <1>12, <2>2, EventFrame
    <3> QED
      BY <1>3, <1>12, <3>1
  <2> QED
    BY <2>1, <2>2
<1> QED
  BY <1>4, <1>5, <1>6, <1>7, <1>8, <1>10, <1>11, <1>12, QueueFrame

\* Somebody who is hired with an address is announced, or nobody hears of it.
LEMMA HiredStep == ASSUME Inv, [Next]_vars PROVE HiredIsAnswered'
<1>1. /\ Grows /\ hiredAs \in [Employees -> Emails \cup {None}]
      /\ hiredAs' \in [Employees -> Emails \cup {None}]
  BY GrowStep, StaffStep DEF Inv, TypeOK
<1>2. SUFFICES ASSUME NEW e \in Employees, NEW m \in Emails, hiredAs'[e] = m
               PROVE  \/ Hired(e, m) \in unheard' \cup parked'
                      \/ Waiting(Hired(e, m))'
                      \/ Hired(e, m) \in acked' /\ m \in Members' \cup Elsewhere
  BY <1>1 DEF HiredIsAnswered, Waiting, Hired, Members, Queued
<1>3. Hired(e, m) \in Event /\ Hired(e, m).kind = "hired" /\ Hired(e, m).to = m /\ m # None
  BY Events, StaffAssumption
<1>4. CASE hiredAs[e] = m
  <2>1. \/ Hired(e, m) \in unheard \cup parked
        \/ Waiting(Hired(e, m))
        \/ Hired(e, m) \in acked /\ m \in Members \cup Elsewhere
    BY <1>3, <1>4 DEF Inv, HiredIsAnswered
  <2>2. CASE Waiting(Hired(e, m))
    BY <1>1, <1>3, <2>2, AnsweredOrWaits DEF Grows
  <2> QED
    BY <1>1, <2>1, <2>2 DEF Grows
<1>5. CASE hiredAs[e] # m
  <2>1. queue \in Seq(Event) /\ Queued' = Elems(queue')
    BY DEF Inv, TypeOK, Queued, Elems
  <2>2. Hire(e, m)
    <3>1. ASSUME NEW r \in Requests, SaveDetails(r) \/ Saves(r) PROVE hiredAs' = hiredAs
      BY <3>1, SaveIs DEF SaveDetails, Save
    <3>2. ASSUME NEW d \in Employees, NEW x \in Emails \cup {None}, Hire(d, x)
          PROVE  d = e /\ x = m
      BY <1>1, <1>2, <1>5, <3>2 DEF Hire
    <3> QED
      BY <1>2, <1>5, <3>1, <3>2, StaffFrame DEF hr
  <2>3. Hired(e, m) \in unheard' \/ queue' = Append(queue, Hired(e, m))
    BY <1>3, <2>2 DEF Hire, Publish
  <2>4. Hired(e, m) \in Elems(Append(queue, Hired(e, m)))
    BY <1>3, <2>1, AppendElems
  <2> QED
    BY <2>1, <2>3, <2>4 DEF Waiting
<1> QED
  BY <1>4, <1>5

-----------------------------------------------------------------------------
(* What the actors have in memory.                                          *)

LEMMA MemoryStep == ASSUME Inv, [Next]_vars, NEW a \in Actors PROVE Memory(a)'
<1>1. /\ job \in [Actors -> Job] /\ job' \in [Actors -> Job] /\ Memory(a)
      /\ Members \subseteq Members'
      /\ users \in Seq(Emails) /\ Members = Elems(users) /\ Members' = Elems(users')
      /\ Worker \in Actors /\ queue \in Seq(Event) /\ Queued = Elems(queue)
  BY JobStep, UsersStep DEF Inv, TypeOK, Memories, Members, Elems, Queued, Actors
<1>2. CASE job'[a] = job[a]
  BY <1>1, <1>2 DEF Memory
<1>3. CASE job'[a] = Idle
  BY <1>3 DEF Memory, Idle, Serving
<1>4. CASE Check(a) /\ job'[a] = [job[a] EXCEPT !.pc = "insert"]
  BY <1>1, <1>4 DEF Memory, Check, Job
<1>5. CASE Insert(a) /\ job'[a] = [job[a] EXCEPT !.pc = "roles"]
  <2>1. job[a].user \in Emails /\ users' = Append(users, job[a].user)
    BY <1>1, <1>5 DEF Insert, Memory
  <2>2. job[a].user \in Elems(Append(users, job[a].user))
    BY <1>1, <2>1, AppendElems
  <2> QED
    BY <1>1, <1>5, <2>1, <2>2 DEF Memory, Job
<1>6. ASSUME NEW r \in Requests, a = r, job'[r] = [job[r] EXCEPT !.pc = "status"] PROVE Memory(a)'
  BY <1>1, <1>6 DEF Memory, Job
<1>7. CASE a = Worker /\ Take
  <2>1. Head(queue) \in Event /\ Head(queue) \in Queued
    BY <1>1, <1>7, HeadElems DEF Take
  <2>2. Head(queue).kind = "hired" => Head(queue).to \in Emails
    BY <2>1, EventIs
  <2>3. job'[a] = IF Head(queue).kind = "hired"
                    THEN Serving("invite", Head(queue).to, Head(queue))
                    ELSE Serving("list", None, Head(queue))
    BY <1>1, <1>7 DEF Take, Do
  <2> QED
    BY <2>2, <2>3 DEF Memory, Serving
<1>8. CASE a = Worker /\ List
  BY <1>1, <1>8 DEF List, Do, Memory, Serving
<1>9. ASSUME NEW e \in Employees, Calculate(a, e) \/ Find(a, e) PROVE Memory(a)'
  BY <1>1, <1>9 DEF Calculate, Find, Do, Handling, Memory
<1>10. ASSUME NEW m \in Emails, Invite(a, m) PROVE Memory(a)'
  BY <1>1, <1>10 DEF Invite, Do, Serving, Memory
<1> QED
  BY <1>2, <1>3, <1>4, <1>5, <1>6, <1>7, <1>8, <1>9, <1>10, JobFrame

LEMMA ServesStep == ASSUME Inv, [Next]_vars PROVE Serves'
<1>1. /\ job \in [Actors -> Job] /\ Serves /\ Memory(Worker)
      /\ queue \in Seq(Event) /\ Worker \in Actors
      /\ Worker \notin Requests
  BY StaffAssumption DEF Inv, TypeOK, Memories, Actors
<1>4. CASE job'[Worker] = job[Worker]
  BY <1>1, <1>4 DEF Serves
<1>5. CASE job'[Worker] = Idle
  BY <1>5 DEF Serves, Idle, Serving
<1>6. CASE Check(Worker) /\ job'[Worker] = [job[Worker] EXCEPT !.pc = "insert"]
  BY <1>1, <1>6 DEF Serves, Check, Job
<1>7. CASE Insert(Worker) /\ job'[Worker] = [job[Worker] EXCEPT !.pc = "roles"]
  BY <1>1, <1>7 DEF Serves, Insert, Job
<1>8. CASE Take
  <2>1. Head(queue) \in Event
    BY <1>1, <1>8, HeadElems DEF Take
  <2>2. job'[Worker] = IF Head(queue).kind = "hired"
                         THEN Serving("invite", Head(queue).to, Head(queue))
                         ELSE Serving("list", None, Head(queue))
    BY <1>1, <1>8 DEF Take, Do
  <2> QED
    BY <2>1, <2>2, EventIs DEF Serves, Serving
<1>9. CASE List
  BY <1>1, <1>9 DEF List, Do, Serves, Serving
<1> QED
  BY <1>1, <1>4, <1>5, <1>6, <1>7, <1>8, <1>9, JobFrame

LEMMA HandlesStep == ASSUME Inv, [Next]_vars, NEW r \in Requests PROVE Handles(r)'
<1>1. /\ job \in [Actors -> Job] /\ r \in Actors /\ r # Worker /\ Handles(r) /\ Grows
      /\ staff \in [Employees -> {"none", "active", "terminated"}]
  BY StaffAssumption, GrowStep DEF Inv, TypeOK, Memories, Actors
<1>2. CASE job'[r] = job[r]
  BY <1>1, <1>2 DEF Handles, Grows
<1>3. CASE job'[r] = Idle
  BY <1>3 DEF Handles, Idle, Serving
<1>4. ASSUME NEW pc \in {"insert", "roles"}, job'[r] = [job[r] EXCEPT !.pc = pc] PROVE Handles(r)'
  BY <1>1, <1>4 DEF Handles, Job
<1>5. CASE SaveDetails(r) /\ job'[r] = [job[r] EXCEPT !.pc = "status"]
  BY <1>1, <1>5 DEF SaveDetails, Handles, Grows, Job
<1>6. ASSUME NEW e \in Employees, Calculate(r, e) \/ Find(r, e) PROVE Handles(r)'
  BY <1>1, <1>6 DEF Calculate, Find, hr, Do, Handling, Handles
<1>7. ASSUME NEW m \in Emails, Invite(r, m) PROVE Handles(r)'
  BY <1>1, <1>7 DEF Invite, Do, Serving, Handles
<1> QED
  BY <1>1, <1>2, <1>3, <1>4, <1>5, <1>6, <1>7, JobFrame

LEMMA MemoriesStep == ASSUME Inv, [Next]_vars PROVE Memories'
<1>1. Actors' = Actors
  BY DEF Actors
<1> QED
  BY <1>1, UsersStep, MemoryStep, ServesStep, HandlesStep DEF Memories

-----------------------------------------------------------------------------
(* Terminations.                                                            *)

\* What a step does to a request that handles an employee.
LEMMA TurnFrame ==
    ASSUME Inv, [Next]_vars, NEW r \in Requests
    PROVE  \/ job'[r] = job[r]
           \/ job'[r].who = None /\ job'[r].pc \notin {"details", "status", "found"}
              /\ (job[r].pc = "status" => SaveTerminated(r) \/ BreakOff(r))
           \/ SaveDetails(r) /\ job'[r].who = job[r].who /\ job'[r].pc = "status"
           \/ Check(r) /\ job'[r].who = job[r].who /\ job'[r].pc = "insert"
           \/ Insert(r) /\ job'[r].who = job[r].who /\ job'[r].pc = "roles"
           \/ \E e \in Employees :
                \/ Calculate(r, e) /\ job'[r] = Handling("details", e)
                \/ Find(r, e) /\ job'[r] = Handling("found", e)
<1>1. job \in [Actors -> Job] /\ r \in Actors /\ r # Worker
  BY StaffAssumption DEF Inv, TypeOK, Actors
<1>2. ASSUME NEW b \in Actors, NEW j, Do(b, j), r # b PROVE job'[r] = job[r]
  BY <1>1, <1>2 DEF Do
<1>3. CASE job'[r] = Idle /\ job[r].pc # "status"
  BY <1>3 DEF Idle, Serving
<1>4. CASE job'[r] = Idle /\ job[r].pc = "status"
  <2>1. Idle.who = None /\ Idle.pc = "idle"
    BY DEF Idle, Serving
  <2>2. job'[r] # job[r]
    BY <1>4, <2>1
  <2>3. ASSUME NEW q \in Requests, SaveDetails(q) \/ Saves(q) \/ BreakOff(q)
        PROVE  q = r /\ (SaveTerminated(r) \/ BreakOff(r))
    <3>1. \E j : Do(q, j)
      BY <2>3 DEF SaveDetails, Saves, SaveTerminated, Terminate, Update, BreakOff, Go
    <3>2. q = r
      BY <1>2, <2>2, <3>1 DEF Actors
    <3>3. ~SaveDetails(r) \/ job'[r].pc = "status" \/ job[r].pc # "status"
      BY <1>4 DEF SaveDetails
    <3> QED
      BY <1>4, <2>1, <2>3, <3>2, <3>3 DEF SaveDetails, Saves, Terminate, Update
  <2>4. ASSUME NEW b \in Actors, Check(b) \/ Insert(b) \/ InsertClashes(b) \/ Equip(b) PROVE FALSE
    <3>1. \E j : Do(b, j)
      BY <2>4 DEF Check, Known, Insert, InsertClashes, Equip, Done, Go
    <3>2. b = r
      BY <1>2, <2>2, <3>1
    <3> QED
      BY <1>4, <2>4, <3>2 DEF Check, Insert, InsertClashes, Equip
  <2>5. ASSUME Take \/ List \/ Deactivate \/ HandlerFails \/ ConsumerStops PROVE FALSE
    <3>1. \E j : Do(Worker, j)
      BY <2>5 DEF Take, List, Deactivate, HandlerFails, ConsumerStops, Done
    <3> QED
      BY <1>1, <1>2, <2>2, <3>1 DEF Actors
  <2>6. ASSUME NEW q \in Requests, NEW x, Calculate(q, x) \/ Find(q, x) \/ Invite(q, x)
        PROVE  FALSE
    <3>1. \E j : Do(q, j)
      BY <2>6 DEF Calculate, Find, Invite
    <3>2. q = r
      BY <1>2, <2>2, <3>1 DEF Actors
    <3> QED
      BY <1>4, <2>1, <2>6, <3>2 DEF Calculate, Find, Invite
  <2>7. SaveTerminated(r) \/ BreakOff(r)
    BY <2>2, <2>3, <2>4, <2>5, <2>6 DEF Next, Consume, Saves, vars, Expire, Hire,
       DeactivateByHand, Actors
  <2> QED
    BY <1>4, <2>1, <2>7
<1>5. ASSUME NEW pc, job'[r] = [job[r] EXCEPT !.pc = pc]
      PROVE  job'[r].who = job[r].who /\ job'[r].pc = pc
  BY <1>1, <1>5 DEF Job
<1>6. ASSUME NEW e \in Employees, Calculate(r, e) PROVE job'[r] = Handling("details", e)
  BY <1>1, <1>6 DEF Calculate, Do
<1>7. ASSUME NEW e \in Employees, Find(r, e) PROVE job'[r] = Handling("found", e)
  BY <1>1, <1>7 DEF Find, Do
<1>8. ASSUME NEW m \in Emails, Invite(r, m)
      PROVE  job'[r].who = None /\ job'[r].pc = "invite" /\ job[r].pc = "idle"
  BY <1>1, <1>8 DEF Invite, Do, Serving, Idle
<1>9. CASE Check(r) /\ job'[r] = [job[r] EXCEPT !.pc = "insert"]
  BY <1>5, <1>9
<1>10. CASE Insert(r) /\ job'[r] = [job[r] EXCEPT !.pc = "roles"]
  BY <1>5, <1>10
<1>11. CASE SaveDetails(r) /\ job'[r] = [job[r] EXCEPT !.pc = "status"]
  BY <1>5, <1>11
<1>12. ASSUME NEW e \in Employees, Calculate(r, e) \/ Find(r, e)
       PROVE  \/ Calculate(r, e) /\ job'[r] = Handling("details", e)
              \/ Find(r, e) /\ job'[r] = Handling("found", e)
  BY <1>6, <1>7, <1>12
<1>13. CASE \E e \in Employees : Calculate(r, e) \/ Find(r, e)
  BY <1>12, <1>13
<1>14. CASE \E m \in Emails : Invite(r, m)
  BY <1>8, <1>14
<1> QED
  BY <1>1, <1>3, <1>4, <1>9, <1>10, <1>11, <1>13, <1>14, JobFrame

\* Who starts on an employee notes that somebody else is at work on him.
LEMMA StartNotes ==
    ASSUME Inv, NEW r \in Requests, NEW e \in Employees, Calculate(r, e) \/ Find(r, e)
    PROVE  /\ Busy(e) => e \in overlapped'
           /\ \A q \in Requests \ {r} : job'[q] = job[q]
           /\ UNCHANGED <<staff, mail, details, stranded>>
<1>1. job \in [Actors -> Job] /\ Requests \subseteq Actors
  BY DEF Inv, TypeOK, Actors
<1> QED
  BY <1>1 DEF Calculate, Find, Begin, Do, hr

LEMMA AloneStep == ASSUME Inv, [Next]_vars PROVE Alone'
<1>1. overlapped \subseteq overlapped' /\ Alone
  BY GrowStep DEF Grows, Inv
<1>2. ASSUME NEW r \in Requests, NEW q \in Requests, NEW e \in Employees,
             Calculate(r, e) \/ Find(r, e), q # r, job'[q].who = e
      PROVE  e \in overlapped'
  BY <1>2, StartNotes DEF Busy
<1>3. ASSUME NEW r \in Requests
      PROVE  \/ job'[r].who \in {job[r].who, None}
             \/ \E e \in Employees : (Calculate(r, e) \/ Find(r, e)) /\ job'[r].who = e
  <2>1. ASSUME NEW e PROVE Handling("details", e).who = e /\ Handling("found", e).who = e
    BY DEF Handling
  <2> QED
    BY <2>1, TurnFrame
<1>4. ASSUME NEW r \in Requests, NEW q \in Requests,
             r # q, job'[r].who = job'[q].who, job'[r].who # None
      PROVE  job'[r].who \in overlapped'
  <2>1. CASE job'[r].who = job[r].who /\ job'[q].who = job[q].who
    BY <1>1, <1>4, <2>1 DEF Alone
  <2> QED
    BY <1>2, <1>3, <1>4, <2>1
<1> QED
  BY <1>4 DEF Alone

\* An employee somebody has begun to handle, or whose termination was stopped
\* half way, stays noted.
LEMMA UndisturbedBefore ==
    ASSUME Inv, [Next]_vars, NEW e, e \notin overlapped' \cup stranded'
    PROVE  Undisturbed(e)
  BY GrowStep DEF Grows, Undisturbed

\* The details of an employee are saved by the one request at work on him.
LEMMA DetailsStep ==
    ASSUME Inv, [Next]_vars, NEW r \in Requests, job'[r] = job[r],
           job[r].pc # "status", job[r].who # None,
           job[r].who \notin overlapped' \cup stranded', job[r].who \in details'
    PROVE  job[r].who \in details
<1>1. job \in [Actors -> Job] /\ Requests \subseteq Actors /\ Alone
  BY DEF Inv, TypeOK, Actors
<1>2. job[r].who \notin overlapped
  BY UndisturbedBefore DEF Undisturbed
<1>3. ASSUME NEW q \in Requests, SaveDetails(q), job[r].who \notin details PROVE FALSE
  <2>1. job[q].who = job[r].who /\ job[q].who \notin details
    BY <1>3 DEF SaveDetails
  <2>2. q = r
    BY <1>1, <1>2, <2>1 DEF Alone
  <2>3. job'[q].pc = "status"
    BY <1>1, <1>3, <2>1 DEF SaveDetails, Go, Do, Job
  <2> QED
    BY <2>2, <2>3
<1>4. ASSUME \/ \E e \in Employees, m \in Emails \cup {None} : Hire(e, m)
             \/ \E q \in Requests : Saves(q)
      PROVE  details' = details
  BY <1>4, SaveIs DEF Hire, Save
<1> QED
  BY <1>3, <1>4, StaffFrame DEF hr

\* A request that starts on an employee whose termination has been calculated
\* finds him out, or finds the other request.
LEMMA StartFinds ==
    ASSUME Inv, [Next]_vars, NEW r \in Requests, NEW e \in Employees,
           Calculate(r, e) \/ Find(r, e),
           e \notin overlapped' \cup stranded', e \in details'
    PROVE  e \in details /\ staff[e] = "terminated"
<1>1. e \in details /\ ~Busy(e)
  BY StartNotes DEF Undisturbed
<1>2. Undisturbed(e)
  BY UndisturbedBefore
<1> QED
  BY <1>1, <1>2 DEF Inv, TerminationHolds, Undisturbed, Busy

LEMMA OrderlyStep == ASSUME Inv, [Next]_vars PROVE Orderly'
<1>1. /\ Orderly /\ job \in [Actors -> Job] /\ Requests \subseteq Actors /\ Grows
      /\ details \subseteq Employees
      /\ \A r \in Requests : Handles(r)
  BY GrowStep DEF Inv, TypeOK, Actors, Memories
<1>2. ASSUME NEW e \in details' PROVE staff'[e] # "none"
  <2>1. CASE e \in details
    BY <1>1, <2>1 DEF Orderly, Grows
  <2>2. ASSUME NEW r \in Requests, SaveDetails(r), e \notin details PROVE staff'[e] # "none"
    BY <1>1, <1>2, <2>2 DEF SaveDetails, Handles
  <2>3. ASSUME \/ \E d \in Employees, m \in Emails \cup {None} : Hire(d, m)
               \/ \E q \in Requests : Saves(q)
        PROVE  details' = details
    BY <2>3, SaveIs DEF Hire, Save
  <2> QED
    BY <1>2, <2>1, <2>2, <2>3, StaffFrame DEF hr
<1>3. ASSUME NEW r \in Requests, job'[r] = job[r], job[r].pc \in {"details", "found"},
             job[r].who \notin overlapped' \cup stranded'
      PROVE  job[r].who \in details' => job[r].who \in details
  <2>1. job[r].who # None
    BY <1>1, <1>3, StaffAssumption DEF Handles
  <2> QED
    BY <1>3, <2>1, DetailsStep
<1>4. ASSUME NEW r \in Requests, job'[r].pc = "details",
             job'[r].who \notin overlapped' \cup stranded'
      PROVE  job'[r].who \notin details'
  <2>1. CASE job'[r] = job[r]
    BY <1>1, <1>3, <1>4, <2>1, UndisturbedBefore DEF Orderly
  <2>2. ASSUME NEW e \in Employees, Calculate(r, e), job'[r] = Handling("details", e)
        PROVE  job'[r].who \notin details'
    <3>1. job'[r].who = e
      BY <2>2 DEF Handling
    <3>2. staff[e] = "active"
      BY <2>2 DEF Calculate
    <3> QED
      BY <1>4, <2>2, <3>1, <3>2, StartFinds
  <2>3. ASSUME NEW e PROVE Handling("found", e).pc # "details"
    BY DEF Handling
  <2> QED
    BY <1>4, <2>1, <2>2, <2>3, TurnFrame
<1>5. ASSUME NEW r \in Requests, job'[r].pc = "found", job'[r].who \in details',
             job'[r].who \notin overlapped' \cup stranded'
      PROVE  job'[r].was = "terminated"
  <2>1. CASE job'[r] = job[r]
    BY <1>1, <1>3, <1>5, <2>1, UndisturbedBefore DEF Orderly
  <2>2. ASSUME NEW e \in Employees, Find(r, e), job'[r] = Handling("found", e)
        PROVE  job'[r].was = "terminated"
    <3>1. job'[r].who = e /\ job'[r].was = staff[e]
      BY <2>2 DEF Handling
    <3> QED
      BY <1>5, <2>2, <3>1, StartFinds
  <2>3. ASSUME NEW e PROVE Handling("details", e).pc # "found"
    BY DEF Handling
  <2> QED
    BY <1>5, <2>1, <2>2, <2>3, TurnFrame
<1> QED
  BY <1>2, <1>4, <1>5 DEF Orderly, Undisturbed

LEMMA TerminationStep == ASSUME Inv, [Next]_vars PROVE TerminationHolds'
<1> SUFFICES ASSUME NEW e \in details', e \notin overlapped' \cup stranded'
             PROVE  \/ staff'[e] = "terminated"
                    \/ \E r \in Requests : job'[r].pc = "status" /\ job'[r].who = e
  BY DEF TerminationHolds, Undisturbed
<1>1. /\ staff \in [Employees -> {"none", "active", "terminated"}] /\ job \in [Actors -> Job]
      /\ details \subseteq Employees /\ Requests \subseteq Actors
      /\ Orderly /\ \A r \in Requests : Handles(r)
  BY DEF Inv, TypeOK, Actors, Memories
<1>2. Undisturbed(e)
  BY UndisturbedBefore
<1>3. CASE e \in details /\ staff[e] = "terminated"
  <2>2. ASSUME NEW d \in Employees, NEW m \in Emails \cup {None}, Hire(d, m)
        PROVE  staff'[e] = "terminated"
    BY <1>1, <1>3, <2>2 DEF Hire
  <2>3. ASSUME NEW r \in Requests, SaveDetails(r) PROVE staff'[e] = "terminated"
    BY <1>3, <2>3 DEF SaveDetails
  <2>4. ASSUME NEW r \in Requests, Saves(r) PROVE staff'[e] = "terminated"
    <3>1. PICK status \in {"terminated", job[r].was}, m \in Emails \cup {None} :
            Save(job[r].who, status, m) /\ (status = "terminated" \/ job[r].pc = "found")
      BY <2>4, SaveIs
    <3>2. job[r].who = e => status = "terminated"
      BY <1>1, <1>2, <1>3, <3>1 DEF Orderly
    <3> QED
      BY <1>1, <1>3, <3>1, <3>2 DEF Save
  <2> QED
    BY <1>3, <2>2, <2>3, <2>4, StaffFrame DEF hr
<1>4. ASSUME NEW r \in Requests, job[r].pc = "status", job[r].who = e
      PROVE  \/ staff'[e] = "terminated"
             \/ \E q \in Requests : job'[q].pc = "status" /\ job'[q].who = e
  <2>1. CASE SaveTerminated(r)
    BY <1>1, <1>4, <2>1 DEF SaveTerminated, Save, Handles
  <2>2. CASE BreakOff(r)
    BY <1>4, <2>2 DEF BreakOff, Undisturbed
  <2>3. CASE job'[r] = job[r]
    BY <1>4, <2>3
  <2>4. ~SaveDetails(r) /\ ~Check(r) /\ ~Insert(r)
    BY <1>4 DEF SaveDetails, Check, Insert
  <2>5. \A x : ~Calculate(r, x) /\ ~Find(r, x)
    BY <1>4 DEF Calculate, Find, Idle, Serving
  <2> QED
    BY <1>4, <2>1, <2>2, <2>3, <2>4, <2>5, TurnFrame
<1>5. CASE e \notin details
  <2>1. PICK r \in Requests : SaveDetails(r)
    BY <1>5, SaveIs, StaffFrame DEF hr, Hire, Save
  <2>2. e = job[r].who
    BY <1>5, <2>1 DEF SaveDetails
  <2>3. job'[r] = [job[r] EXCEPT !.pc = "status"]
    BY <1>1, <1>5, <2>1, <2>2 DEF SaveDetails, Go, Do
  <2> QED
    BY <1>1, <2>2, <2>3 DEF Job
<1> QED
  BY <1>2, <1>3, <1>4, <1>5 DEF Inv, TerminationHolds, Undisturbed

-----------------------------------------------------------------------------
(* The theorems.                                                            *)

LEMMA InitInv == Init => Inv
<1> SUFFICES ASSUME Init PROVE Inv
  OBVIOUS
<1>1. Idle \in Job /\ Idle.pc = "idle" /\ Idle.who = None /\ Idle.event = None
  BY DEF Idle, Serving, Job, Steps
<1>2. \A a \in Actors : job[a] = Idle
  BY DEF Init
<1>3. Worker \in Actors /\ Requests \subseteq Actors
  BY DEF Actors
<1>4. users = <<Founder>> /\ queue = <<>> /\ Members = {Founder} /\ Queued = {}
  BY DEF Init, Members, Queued
<1>5. TypeOK
  BY <1>1, <1>4, StaffAssumption DEF Init, TypeOK
<1>6. Memories
  BY <1>1, <1>2, <1>3, <1>4 DEF Memories, Memory, Serves, Handles
<1>8. HiredIsAnswered
  BY DEF Init, HiredIsAnswered
<1>9. Alone
  BY <1>1, <1>2, <1>3 DEF Alone
<1>10. Orderly /\ TerminationHolds
  BY <1>1, <1>2, <1>3 DEF Init, Orderly, TerminationHolds
<1> QED
  BY <1>5, <1>6, <1>8, <1>9, <1>10 DEF Inv

LEMMA Invariance == Spec => []Inv
<1>1. Inv /\ [Next]_vars => Inv'
  BY TypeStep, MemoriesStep, HiredStep, AloneStep, OrderlyStep, TerminationStep DEF Inv
<1> QED
  BY InitInv, <1>1, PTL DEF Spec

\* Every variable of the hr service, of the queue and of the auth service has
\* its type, and no address ever gets two accounts.
THEOREM TypeCorrect == Spec => []TypeOK
<1>1. Inv => TypeOK
  BY DEF Inv
<1> QED
  BY Invariance, <1>1, PTL

\* However the queue delivers and whatever stops when, and whatever is edited later:
\* the hiring of an employee with an address waits, is a dead letter or never went
\* out, or the address he was hired with has an account.
THEOREM HiredAnswered == Spec => []HiredIsAnswered
<1>1. Inv => HiredIsAnswered
  BY DEF Inv
<1> QED
  BY Invariance, <1>1, PTL

\* A termination nothing disturbed is final: no request that saves an employee
\* as it read him brings back one whose termination was calculated.
THEOREM TerminationFinal == Spec => []TerminationHolds
<1>1. Inv => TerminationHolds
  BY DEF Inv
<1> QED
  BY Invariance, <1>1, PTL

-----------------------------------------------------------------------------
(* Payroll: the inductive invariant.  What only an orderly use keeps is     *)
(* under Order; a step that keeps the use orderly was taken in order, so    *)
(* each part is shown for the steps after which it still is.                *)

\* Which requests are at an advance, and which at a payroll.
AtAdvance(r) == job[r].pc \in {"approve", "reject", "pay"}
AtPayroll(r) == job[r].pc \in {"calc", "draft", "period", "mark"}

\* What a request has in memory fits the point it has reached.
Shape ==
    \A r \in Requests :
      /\ job[r].pc = "idle" => job[r] = Free
      /\ AtAdvance(r) => job[r].a \in Advances /\ adv[job[r].a] # "none"
      /\ AtPayroll(r) => job[r].a = None /\ job[r].month \in Months
      /\ job[r].pc = "draft" => job[r].e \in job[r].todo
      /\ job[r].pc = "mark" => job[r].todo \subseteq job[r].list

\* What a payroll counts, or is about to, was asked for by its employee.
Owned ==
    /\ \A p \in Periods, a \in Advances :
         a \in pay[p].counted => pay[p].status # "none" /\ owner[a] = p[1] /\ adv[a] # "none"
    /\ \A r \in Requests, a \in Advances :
         job[r].pc = "draft" /\ a \in job[r].counted => owner[a] = job[r].e /\ adv[a] # "none"

\* The advance a request is at is still as it read it, or was marked since, and
\* what a payroll counts stays good for a deduction: both hold for an advance
\* that is not contested, because nobody else handles it.
Used == {"APPROVED", "PAID", "DEDUCTED"}
Uncontested ==
    \A a \in Advances \ contested :
      /\ \A r, q \in Requests : job[r].a = a /\ job[q].a = a => r = q
      /\ \A r \in Requests : job[r].a = a =>
            /\ job[r].pc \in {"approve", "reject"} => adv[a] = "PENDING"
            /\ job[r].pc = "pay" => adv[a] \in {"APPROVED", "DEDUCTED"}
      /\ \A p \in Periods : a \in pay[p].counted => adv[a] \in Used
      /\ \A r \in Requests : job[r].pc = "draft" /\ a \in job[r].counted => adv[a] \in Used

\* While the use is orderly: one request at a time is at the payroll.
Solo == \A r, q \in Requests : AtPayroll(r) /\ AtPayroll(q) => r = q

\* The drafts are of one month, that of the request which calculates it, and
\* of employees it is done with.
OneMonth ==
    /\ \A p, q \in Periods : pay[p].status = "DRAFT" /\ pay[q].status = "DRAFT" => p[2] = q[2]
    /\ \A r \in Requests, p \in Periods :
         job[r].pc \in {"calc", "draft"} /\ pay[p].status = "DRAFT" =>
           p[2] = job[r].month /\ p[1] \notin job[r].todo

\* What is about to be approved is a draft, and of what is about to be told
\* the ledger has not heard.
Listed ==
    \A r \in Requests : \A e \in job[r].list :
      /\ job[r].pc = "period" => pay[<<e, job[r].month>>].status = "DRAFT"
      /\ job[r].pc = "mark" => pay[<<e, job[r].month>>].status = "APPROVED"
                               /\ told[<<e, job[r].month>>] = 0

\* The ledger has heard of approved payrolls, and of each at most once.
Told == \A p \in Periods : (told[p] > 0 => pay[p].status = "APPROVED") /\ told[p] < 2

\* An advance is counted in one payroll, or is about to be.
CountedOnce ==
    \A a \in Advances \ contested :
      /\ \A p, q \in Periods : a \in pay[p].counted /\ a \in pay[q].counted => p = q
      /\ \A r \in Requests, p \in Periods :
           job[r].pc = "draft" /\ a \in job[r].counted => a \notin pay[p].counted

\* An approval has the advances of e still to mark.
ToMark(e) == \E r \in Requests : job[r].pc = "mark" /\ e \in job[r].todo

\* An advance that an approved payroll counts is no candidate for the next:
\* it is marked, was paid out before, or is about to be marked.
Spent ==
    \A a \in Advances \ contested, p \in Periods :
      pay[p].status = "APPROVED" /\ a \in pay[p].counted =>
         adv[a] \in {"PAID", "DEDUCTED"} \/ ToMark(p[1])

\* Whoever has looked at the advances of an employee, and not marked them yet,
\* has counted each that is approved and was so in time.
InTimeFor(a) ==
    /\ \A p \in Periods : p[1] = owner[a] /\ pay[p].status = "DRAFT" => a \in pay[p].counted
    /\ \A r \in Requests : job[r].pc = "draft" /\ job[r].e = owner[a] => a \in job[r].counted
    /\ \A r \in Requests, p \in Periods :
         job[r].pc = "mark" /\ p[1] = owner[a] /\ p[1] \in job[r].todo /\ p[2] = job[r].month =>
           a \in pay[p].counted
InTime == \A a \in Advances \ (contested \cup late) : adv[a] = "APPROVED" => InTimeFor(a)

\* What is marked was taken from a salary, unless it was late.
Accounted ==
    \A a \in Advances \ contested : adv[a] = "DEDUCTED" => a \in late \/ Taken(a) # {}

\* All that only an orderly use keeps.
Order == Solo /\ OneMonth /\ Listed /\ Told /\ CountedOnce /\ Spent /\ InTime /\ Accounted

\* The inductive invariant of Payroll.
PayrollInv ==
    /\ PayrollAssumption /\ PayrollTypeOK /\ Shape /\ Owned /\ Uncontested
    /\ orderly => Order

\* The parts of a period.
LEMMA Pairs ==
    /\ \A p \in Periods : p[1] \in Employees /\ p[2] \in Months /\ p = <<p[1], p[2]>>
    /\ \A e \in Employees, m \in Months : <<e, m>> \in Periods /\ <<e, m>>[1] = e /\ <<e, m>>[2] = m
  BY DEF Periods

\* The jobs that the actions make are jobs.
LEMMA PayrollJobs ==
    ASSUME PayrollAssumption
    PROVE  /\ Free \in PayrollJob
           /\ \A pc \in {"approve", "reject", "pay"}, a \in Advances :
                Advancing(pc, a) \in PayrollJob
           /\ \A pc \in {"calc", "draft"}, m \in Months, todo \in SUBSET Employees,
                 e \in Employees \cup {None}, counted \in SUBSET Advances :
                Calculating(pc, m, todo, e, counted) \in PayrollJob
           /\ \A pc \in {"period", "mark"}, m \in Months, todo, list \in SUBSET Employees :
                Approving(pc, m, todo, list) \in PayrollJob
<1>1. Months \subseteq 0 .. MaxMonth /\ 0 \in 0 .. MaxMonth
  BY DEF PayrollAssumption, Months
<1>2. Free \in PayrollJob
  BY <1>1 DEF Free, Advancing, PayrollJob, PayrollSteps
<1>3. \A pc \in {"approve", "reject", "pay"}, a \in Advances : Advancing(pc, a) \in PayrollJob
  BY <1>1 DEF Advancing, PayrollJob, PayrollSteps
<1>4. \A pc \in {"calc", "draft"}, m \in Months, todo \in SUBSET Employees,
         e \in Employees \cup {None}, counted \in SUBSET Advances :
        Calculating(pc, m, todo, e, counted) \in PayrollJob
  BY <1>1 DEF Calculating, PayrollJob, PayrollSteps
<1>5. \A pc \in {"period", "mark"}, m \in Months, todo, list \in SUBSET Employees :
        Approving(pc, m, todo, list) \in PayrollJob
  BY <1>1 DEF Approving, PayrollJob, PayrollSteps
<1> QED
  BY <1>2, <1>3, <1>4, <1>5

\* An idle job is nobody's payroll, and at no advance.
LEMMA FreeIs ==
    /\ Free.pc = "idle" /\ Free.a = None /\ Free.todo = {} /\ Free.counted = {} /\ Free.list = {}
  BY DEF Free, Advancing

\* What Do changes.
LEMMA DoneBy ==
    ASSUME PayrollTypeOK, NEW r \in Requests, NEW j \in PayrollJob, Do(r, j)
    PROVE  /\ job' \in [Requests -> PayrollJob] /\ job'[r] = j
           /\ \A q \in Requests \ {r} : job'[q] = job[q]
  BY DEF PayrollTypeOK, Do

\* The typed parts of a job.
LEMMA Parts ==
    ASSUME PayrollTypeOK, NEW r \in Requests
    PROVE  /\ job[r] \in PayrollJob
           /\ job[r].pc \in PayrollSteps /\ job[r].a \in Advances \cup {None}
           /\ job[r].month \in 0 .. MaxMonth
           /\ job[r].todo \subseteq Employees /\ job[r].e \in Employees \cup {None}
           /\ job[r].counted \subseteq Advances /\ job[r].list \subseteq Employees
  BY DEF PayrollTypeOK, PayrollJob

\* The whole of pay after an approval.
LEMMA PayApproved ==
    ASSUME PayrollTypeOK, NEW r \in Requests, ApprovePeriod(r)
    PROVE  /\ pay' \in [Periods -> Entry]
           /\ \A p \in Periods :
                /\ pay'[p].counted = pay[p].counted
                /\ pay'[p].status = IF p[1] \in job[r].list /\ p[2] = job[r].month
                                      THEN "APPROVED" ELSE pay[p].status
<1>1. \A p \in Periods :
        pay[p] \in Entry /\ [status |-> "APPROVED", counted |-> pay[p].counted] \in Entry
  BY DEF PayrollTypeOK, Entry
<1>2. pay' = [p \in Periods |->
                IF p[1] \in job[r].list /\ p[2] = job[r].month
                  THEN [status |-> "APPROVED", counted |-> pay[p].counted] ELSE pay[p]]
  BY DEF ApprovePeriod
<1> QED
  BY <1>1, <1>2

\* Each step keeps the types.
LEMMA PayrollTypeStep == ASSUME PayrollInv, [PayrollNext]_payrollVars PROVE PayrollTypeOK'
<1>i. PayrollAssumption /\ PayrollTypeOK /\ Shape
  BY DEF PayrollInv
<1>1. ASSUME NEW a \in Advances, NEW e \in Employees, Ask(a, e) PROVE PayrollTypeOK'
  BY <1>1, <1>i DEF Ask, PayrollTypeOK, AdvanceStatus, ghosts
<1>2. ASSUME NEW r \in Requests, NEW a \in Advances, NEW pc \in {"approve", "reject", "pay"},
             ReadAdvance(r, a, pc) PROVE PayrollTypeOK'
  <2>1. job' \in [Requests -> PayrollJob]
    BY <1>2, <1>i, PayrollJobs, DoneBy DEF ReadAdvance
  <2> QED
    BY <1>2, <1>i, <2>1 DEF ReadAdvance, PayrollTypeOK
<1>3. ASSUME NEW r \in Requests, SaveAdvance(r) PROVE PayrollTypeOK'
  <2>1. job' \in [Requests -> PayrollJob]
    BY <1>3, <1>i, PayrollJobs, DoneBy DEF SaveAdvance
  <2>2. job[r].a \in Advances /\ Outcome(job[r].pc) \in AdvanceStatus
    BY <1>3, <1>i DEF SaveAdvance, Shape, AtAdvance, Outcome, AdvanceStatus
  <2> QED
    BY <1>3, <1>i, <2>1, <2>2 DEF SaveAdvance, PayrollTypeOK
<1>4. ASSUME NEW r \in Requests, NEW m \in Months, CalculatePeriod(r, m) PROVE PayrollTypeOK'
  <2>1. PICK active \in SUBSET Employees : Do(r, Calculating("calc", m, active, None, {}))
    BY <1>4 DEF CalculatePeriod
  <2>2. job' \in [Requests -> PayrollJob]
    BY <1>i, <2>1, PayrollJobs, DoneBy
  <2>3. orderly' \in BOOLEAN
    BY <1>4 DEF CalculatePeriod
  <2> QED
    BY <1>4, <1>i, <2>2, <2>3 DEF CalculatePeriod, PayrollTypeOK
<1>5. ASSUME NEW r \in Requests, NEW e \in Employees, Look(r, e) PROVE PayrollTypeOK'
  <2>1. /\ Deductible(e) \in SUBSET Advances /\ job[r].todo \in SUBSET Employees
        /\ job[r].month \in Months
    BY <1>5, <1>i, Parts DEF Look, Shape, AtPayroll, Deductible
  <2>2. job' \in [Requests -> PayrollJob]
    BY <1>5, <1>i, <2>1, PayrollJobs, DoneBy DEF Look
  <2> QED
    BY <1>5, <1>i, <2>2 DEF Look, PayrollTypeOK, ghosts
<1>6. ASSUME NEW r \in Requests, SaveDraft(r) PROVE PayrollTypeOK'
  <2>1. /\ job[r].todo \ {job[r].e} \in SUBSET Employees /\ job[r].month \in Months
        /\ [status |-> "DRAFT", counted |-> job[r].counted] \in Entry
    BY <1>6, <1>i, Parts DEF SaveDraft, Shape, AtPayroll, Entry
  <2>2. job' \in [Requests -> PayrollJob]
    BY <1>6, <1>i, <2>1, PayrollJobs, DoneBy DEF SaveDraft
  <2> QED
    BY <1>6, <1>i, <2>1, <2>2 DEF SaveDraft, PayrollTypeOK, ghosts
<1>7. ASSUME NEW r \in Requests, NEW m \in Months, ReadPeriod(r, m) PROVE PayrollTypeOK'
  <2>1. Drafts(m) \in SUBSET Employees
    BY DEF Drafts
  <2>2. job' \in [Requests -> PayrollJob]
    BY <1>7, <1>i, <2>1, PayrollJobs, DoneBy DEF ReadPeriod
  <2>3. orderly' \in BOOLEAN
    BY <1>7 DEF ReadPeriod
  <2> QED
    BY <1>7, <1>i, <2>2, <2>3 DEF ReadPeriod, PayrollTypeOK
<1>8. ASSUME NEW r \in Requests, ApprovePeriod(r) PROVE PayrollTypeOK'
  <2> DEFINE todo == {e \in job[r].list : pay[<<e, job[r].month>>].counted # {}}
  <2>1. /\ todo \in SUBSET Employees /\ job[r].list \in SUBSET Employees /\ job[r].month \in Months
        /\ Do(r, Approving("mark", job[r].month, todo, job[r].list))
    BY <1>8, <1>i, Parts DEF ApprovePeriod, Shape, AtPayroll
  <2> HIDE DEF todo
  <2>2. job' \in [Requests -> PayrollJob]
    BY <1>i, <2>1, PayrollJobs, DoneBy
  <2> QED
    BY <1>8, <1>i, <2>2, PayApproved DEF ApprovePeriod, PayrollTypeOK, ghosts
<1>9. ASSUME NEW r \in Requests, NEW e \in Employees, MarkDeducted(r, e) PROVE PayrollTypeOK'
  <2>1. /\ job[r].todo \ {e} \in SUBSET Employees /\ job[r].list \in SUBSET Employees
        /\ job[r].month \in Months
    BY <1>9, <1>i, Parts DEF MarkDeducted, Shape, AtPayroll
  <2>2. job' \in [Requests -> PayrollJob]
    BY <1>9, <1>i, <2>1, PayrollJobs, DoneBy DEF MarkDeducted
  <2>3. Marked(e) \in [Advances -> AdvanceStatus]
    BY <1>i DEF PayrollTypeOK, Marked, AdvanceStatus
  <2> QED
    BY <1>9, <1>i, <2>2, <2>3 DEF MarkDeducted, PayrollTypeOK, ghosts
<1>10. ASSUME NEW r \in Requests, Finalize(r) PROVE PayrollTypeOK'
  <2>1. job' \in [Requests -> PayrollJob]
    BY <1>10, <1>i, PayrollJobs, DoneBy DEF Finalize
  <2>2. told' \in [Periods -> Nat]
    BY <1>10, <1>i DEF Finalize, PayrollTypeOK
  <2> QED
    BY <1>10, <1>i, <2>1, <2>2 DEF Finalize, PayrollTypeOK, ghosts
<1>11. ASSUME NEW r \in Requests, StopShort(r) PROVE PayrollTypeOK'
  <2>1. job' \in [Requests -> PayrollJob]
    BY <1>11, <1>i, PayrollJobs, DoneBy DEF StopShort
  <2>2. faults' \in 0 .. MaxFaults /\ orderly' \in BOOLEAN
    BY <1>11, <1>i DEF StopShort, Fail, PayrollTypeOK, PayrollAssumption
  <2> QED
    BY <1>11, <1>i, <2>1, <2>2 DEF StopShort, PayrollTypeOK
<1>12. CASE UNCHANGED payrollVars
  BY <1>12, <1>i DEF payrollVars, PayrollTypeOK
<1> QED
  BY <1>1, <1>2, <1>3, <1>4, <1>5, <1>6, <1>7, <1>8, <1>9, <1>10, <1>11, <1>12 DEF PayrollNext

\* An advance that was asked for stays so, and stays its owner's.
AskedStay == \A x \in Advances : adv[x] # "none" => adv'[x] # "none" /\ owner'[x] = owner[x]

\* Each step keeps what was asked for.
LEMMA Asked == ASSUME PayrollInv, [PayrollNext]_payrollVars PROVE AskedStay
<1>i. PayrollTypeOK
  BY DEF PayrollInv
<1>1. ASSUME NEW a \in Advances, NEW e \in Employees, Ask(a, e) PROVE AskedStay
  BY <1>1, <1>i DEF Ask, PayrollTypeOK, AskedStay
<1>2. ASSUME NEW r \in Requests, NEW a \in Advances, NEW pc \in {"approve", "reject", "pay"},
             ReadAdvance(r, a, pc) PROVE AskedStay
  BY <1>2, <1>i DEF ReadAdvance, PayrollTypeOK, AskedStay
<1>3. ASSUME NEW r \in Requests, SaveAdvance(r) PROVE AskedStay
  <2>1. Outcome(job[r].pc) # "none"
    BY <1>3 DEF SaveAdvance, Outcome
  <2> QED
    BY <1>3, <1>i, <2>1 DEF SaveAdvance, PayrollTypeOK, AskedStay
<1>4. ASSUME NEW r \in Requests, NEW m \in Months, CalculatePeriod(r, m) PROVE AskedStay
  BY <1>4, <1>i DEF CalculatePeriod, PayrollTypeOK, AskedStay
<1>5. ASSUME NEW r \in Requests, NEW e \in Employees, Look(r, e) PROVE AskedStay
  BY <1>5, <1>i DEF Look, PayrollTypeOK, AskedStay
<1>6. ASSUME NEW r \in Requests, SaveDraft(r) PROVE AskedStay
  BY <1>6, <1>i DEF SaveDraft, PayrollTypeOK, AskedStay
<1>7. ASSUME NEW r \in Requests, NEW m \in Months, ReadPeriod(r, m) PROVE AskedStay
  BY <1>7, <1>i DEF ReadPeriod, PayrollTypeOK, AskedStay
<1>8. ASSUME NEW r \in Requests, ApprovePeriod(r) PROVE AskedStay
  BY <1>8, <1>i DEF ApprovePeriod, PayrollTypeOK, AskedStay
<1>9. ASSUME NEW r \in Requests, NEW e \in Employees, MarkDeducted(r, e) PROVE AskedStay
  BY <1>9, <1>i DEF MarkDeducted, Marked, PayrollTypeOK, AskedStay
<1>10. ASSUME NEW r \in Requests, Finalize(r) PROVE AskedStay
  BY <1>10, <1>i DEF Finalize, PayrollTypeOK, AskedStay
<1>11. ASSUME NEW r \in Requests, StopShort(r) PROVE AskedStay
  BY <1>11, <1>i DEF StopShort, PayrollTypeOK, AskedStay
<1>12. CASE UNCHANGED payrollVars
  BY <1>12, <1>i DEF payrollVars, PayrollTypeOK, AskedStay
<1> QED
  BY <1>1, <1>2, <1>3, <1>4, <1>5, <1>6, <1>7, <1>8, <1>9, <1>10, <1>11, <1>12
     DEF PayrollNext, AskedStay

\* The shape of the jobs is kept.
LEMMA ShapeStep == ASSUME PayrollInv, [PayrollNext]_payrollVars PROVE Shape'
<1>i. PayrollTypeOK /\ Shape
  BY DEF PayrollInv
<1>a. \A x \in Advances : adv[x] # "none" => adv'[x] # "none"
  BY Asked DEF AskedStay
<1>1. ASSUME NEW a \in Advances, NEW e \in Employees, Ask(a, e) PROVE Shape'
  BY <1>1, <1>i, <1>a DEF Ask, Shape, AtAdvance, AtPayroll, PayrollTypeOK, Free, Advancing
<1>2. ASSUME NEW r \in Requests, NEW a \in Advances, NEW pc \in {"approve", "reject", "pay"},
             ReadAdvance(r, a, pc) PROVE Shape'
  BY <1>2, <1>i, <1>a
     DEF ReadAdvance, Needed, Do, Shape, AtAdvance, AtPayroll, PayrollTypeOK, Free, Advancing
<1>3. ASSUME NEW r \in Requests, SaveAdvance(r) PROVE Shape'
  BY <1>3, <1>i, <1>a
     DEF SaveAdvance, Do, Free, Advancing, Shape, AtAdvance, AtPayroll, PayrollTypeOK
<1>4. ASSUME NEW r \in Requests, NEW m \in Months, CalculatePeriod(r, m) PROVE Shape'
  BY <1>4, <1>i, <1>a
     DEF CalculatePeriod, Do, Calculating, Shape, AtAdvance, AtPayroll, PayrollTypeOK, Free,
         Advancing
<1>5. ASSUME NEW r \in Requests, NEW e \in Employees, Look(r, e) PROVE Shape'
  BY <1>5, <1>i, <1>a DEF Look, Do, Calculating, Shape, AtAdvance, AtPayroll, PayrollTypeOK
<1>6. ASSUME NEW r \in Requests, SaveDraft(r) PROVE Shape'
  <2>1. /\ adv' = adv /\ \A q \in Requests \ {r} : job'[q] = job[q]
        /\ \/ job'[r] = Free
           \/ job'[r] = Calculating("calc", job[r].month, job[r].todo \ {job[r].e}, None, {})
    BY <1>6, <1>i DEF SaveDraft, Do, PayrollTypeOK
  <2>2. job[r].month \in Months
    BY <1>6, <1>i DEF SaveDraft, Shape, AtPayroll
  <2>3. CASE job'[r] = Free
    BY <2>1, <2>3, <1>i, FreeIs DEF Shape, AtAdvance, AtPayroll
  <2>4. CASE job'[r] = Calculating("calc", job[r].month, job[r].todo \ {job[r].e}, None, {})
    <3>1. job'[r].pc = "calc" /\ job'[r].a = None /\ job'[r].month = job[r].month
      BY <2>4 DEF Calculating
    <3> QED
      BY <2>1, <2>2, <3>1, <1>i DEF Shape, AtAdvance, AtPayroll
  <2> QED
    BY <2>1, <2>3, <2>4
<1>7. ASSUME NEW r \in Requests, NEW m \in Months, ReadPeriod(r, m) PROVE Shape'
  BY <1>7, <1>i, <1>a
     DEF ReadPeriod, Do, Approving, Shape, AtAdvance, AtPayroll, PayrollTypeOK, Free, Advancing
<1>8. ASSUME NEW r \in Requests, ApprovePeriod(r) PROVE Shape'
  BY <1>8, <1>i, <1>a
     DEF ApprovePeriod, Do, Approving, Shape, AtAdvance, AtPayroll, PayrollTypeOK, Free,
         Advancing
<1>9. ASSUME NEW r \in Requests, NEW e \in Employees, MarkDeducted(r, e) PROVE Shape'
  BY <1>9, <1>i, <1>a
     DEF MarkDeducted, Do, Approving, Shape, AtAdvance, AtPayroll, PayrollTypeOK, Free,
         Advancing
<1>10. ASSUME NEW r \in Requests, Finalize(r) PROVE Shape'
  BY <1>10, <1>i, <1>a
     DEF Finalize, Do, Free, Advancing, Shape, AtAdvance, AtPayroll, PayrollTypeOK
<1>11. ASSUME NEW r \in Requests, StopShort(r) PROVE Shape'
  BY <1>11, <1>i, <1>a
     DEF StopShort, Do, Free, Advancing, Shape, AtAdvance, AtPayroll, PayrollTypeOK
<1>12. CASE UNCHANGED payrollVars
  BY <1>12, <1>i, <1>a
     DEF payrollVars, Shape, AtAdvance, AtPayroll, PayrollTypeOK, Free, Advancing
<1> QED
  BY <1>1, <1>2, <1>3, <1>4, <1>5, <1>6, <1>7, <1>8, <1>9, <1>10, <1>11, <1>12 DEF PayrollNext

\* What the steps of a payroll do to it.
LEMMA DraftSaved ==
    ASSUME PayrollInv, NEW r \in Requests, SaveDraft(r)
    PROVE  /\ job[r].pc = "draft" /\ job[r].e \in Employees /\ job[r].e \in job[r].todo
           /\ job[r].month \in Months /\ job[r].counted \subseteq Advances
           /\ adv' = adv /\ owner' = owner /\ told' = told
           /\ orderly' = orderly /\ contested' = contested /\ late' = late
           /\ \A q \in Requests \ {r} : job'[q] = job[q]
           /\ job'[r].pc \in {"idle", "calc"} /\ job'[r].a = None /\ job'[r].list = {}
           /\ job'[r].pc = "calc" => /\ job'[r].month = job[r].month
                                     /\ job'[r].todo = job[r].todo \ {job[r].e}
<1>i. PayrollTypeOK /\ Shape
  BY DEF PayrollInv
<1>1. job[r].pc = "draft" /\ job[r].e \in job[r].todo /\ job[r].month \in Months
  BY <1>i DEF SaveDraft, Shape, AtPayroll
<1>2. job[r].e \in Employees /\ job[r].counted \subseteq Advances
  BY <1>1, <1>i, Parts
<1>3. \A q \in Requests \ {r} : job'[q] = job[q]
  BY <1>i DEF SaveDraft, Do, PayrollTypeOK
<1>4. \/ job'[r] = Free
      \/ job'[r] = Calculating("calc", job[r].month, job[r].todo \ {job[r].e}, None, {})
  BY <1>i DEF SaveDraft, Do, PayrollTypeOK
<1>5. /\ job'[r].pc \in {"idle", "calc"} /\ job'[r].a = None /\ job'[r].list = {}
      /\ job'[r].pc = "calc" => /\ job'[r].month = job[r].month
                                /\ job'[r].todo = job[r].todo \ {job[r].e}
  BY <1>4 DEF Free, Advancing, Calculating
<1>6. /\ adv' = adv /\ owner' = owner /\ told' = told
      /\ orderly' = orderly /\ contested' = contested /\ late' = late
  BY DEF SaveDraft, ghosts
<1> QED
  BY <1>1, <1>2, <1>3, <1>5, <1>6

\* An insert changes one period, and only when there was none.
LEMMA DraftPlaced ==
    ASSUME PayrollInv, NEW r \in Requests, SaveDraft(r), NEW p \in Periods
    PROVE  /\ pay'[p] # pay[p] => p[1] = job[r].e /\ p[2] = job[r].month
           /\ pay'[p] = pay[p] \/ /\ pay[p].status = "none" /\ pay'[p].status = "DRAFT"
                                  /\ pay'[p].counted = job[r].counted
<1> DEFINE key == <<job[r].e, job[r].month>>
<1>1. pay \in [Periods -> Entry]
  BY DEF PayrollInv, PayrollTypeOK
<1>2. key \in Periods /\ key[1] = job[r].e /\ key[2] = job[r].month
  BY PayrollInv, DraftSaved, Pairs
<1>3. \/ pay' = pay
      \/ /\ pay[key].status = "none"
         /\ pay' = [pay EXCEPT ![key] = [status |-> "DRAFT", counted |-> job[r].counted]]
  BY DEF SaveDraft
<1> HIDE DEF key
<1> QED
  BY <1>1, <1>2, <1>3

\* What the approval of a period does.
LEMMA PeriodApproved ==
    ASSUME PayrollInv, NEW r \in Requests, ApprovePeriod(r)
    PROVE  /\ job[r].pc = "period" /\ job[r].month \in Months /\ job[r].list \subseteq Employees
           /\ adv' = adv /\ owner' = owner /\ told' = told
           /\ orderly' = orderly /\ contested' = contested /\ late' = late
           /\ \A q \in Requests \ {r} : job'[q] = job[q]
           /\ job'[r].pc = "mark" /\ job'[r].month = job[r].month /\ job'[r].list = job[r].list
           /\ job'[r].a = None /\ job'[r].counted = {}
           /\ job'[r].todo = {e \in job[r].list : pay[<<e, job[r].month>>].counted # {}}
           /\ \A p \in Periods :
                /\ pay'[p].counted = pay[p].counted
                /\ pay'[p].status = IF p[1] \in job[r].list /\ p[2] = job[r].month
                                      THEN "APPROVED" ELSE pay[p].status
<1>i. PayrollTypeOK /\ Shape
  BY DEF PayrollInv
<1> DEFINE todo == {e \in job[r].list : pay[<<e, job[r].month>>].counted # {}}
<1>1. /\ job[r].pc = "period" /\ Do(r, Approving("mark", job[r].month, todo, job[r].list))
      /\ adv' = adv /\ owner' = owner /\ told' = told
      /\ orderly' = orderly /\ contested' = contested /\ late' = late
  BY DEF ApprovePeriod, ghosts
<1>2. job[r].month \in Months /\ job[r].list \subseteq Employees
  BY <1>1, <1>i, Parts DEF Shape, AtPayroll
<1>3. job'[r] = Approving("mark", job[r].month, todo, job[r].list)
      /\ \A q \in Requests \ {r} : job'[q] = job[q]
  BY <1>1, <1>i DEF Do, PayrollTypeOK
<1>4. /\ job'[r].pc = "mark" /\ job'[r].month = job[r].month /\ job'[r].list = job[r].list
      /\ job'[r].a = None /\ job'[r].counted = {} /\ job'[r].todo = todo
  BY <1>3 DEF Approving
<1> QED
  BY <1>1, <1>2, <1>3, <1>4, <1>i, PayApproved

\* What marking the advances of an employee does.
LEMMA Deducted ==
    ASSUME PayrollInv, NEW r \in Requests, NEW e \in Employees, MarkDeducted(r, e)
    PROVE  /\ job[r].pc = "mark" /\ e \in job[r].todo /\ job[r].month \in Months
           /\ pay' = pay /\ owner' = owner /\ told' = told
           /\ orderly' = orderly /\ contested' = contested /\ late' = late
           /\ \A q \in Requests \ {r} : job'[q] = job[q]
           /\ job'[r].pc = "mark" /\ job'[r].month = job[r].month /\ job'[r].list = job[r].list
           /\ job'[r].a = None /\ job'[r].todo = job[r].todo \ {e}
           /\ \A a \in Advances :
                adv'[a] = IF owner[a] = e /\ adv[a] = "APPROVED" THEN "DEDUCTED" ELSE adv[a]
<1>i. PayrollTypeOK /\ Shape
  BY DEF PayrollInv
<1>1. /\ job[r].pc = "mark" /\ e \in job[r].todo /\ adv' = Marked(e)
      /\ Do(r, Approving("mark", job[r].month, job[r].todo \ {e}, job[r].list))
      /\ pay' = pay /\ owner' = owner /\ told' = told
      /\ orderly' = orderly /\ contested' = contested /\ late' = late
  BY DEF MarkDeducted, ghosts
<1>2. job[r].month \in Months
  BY <1>1, <1>i DEF Shape, AtPayroll
<1>3. job'[r] = Approving("mark", job[r].month, job[r].todo \ {e}, job[r].list)
      /\ \A q \in Requests \ {r} : job'[q] = job[q]
  BY <1>1, <1>i DEF Do, PayrollTypeOK
<1>4. /\ job'[r].pc = "mark" /\ job'[r].month = job[r].month /\ job'[r].list = job[r].list
      /\ job'[r].a = None /\ job'[r].todo = job[r].todo \ {e}
  BY <1>3 DEF Approving
<1>5. \A a \in Advances :
        adv'[a] = IF owner[a] = e /\ adv[a] = "APPROVED" THEN "DEDUCTED" ELSE adv[a]
  BY <1>1 DEF Marked
<1> QED
  BY <1>1, <1>2, <1>3, <1>4, <1>5

\* What the save of an advance does.
LEMMA AdvanceSaved ==
    ASSUME PayrollInv, NEW r \in Requests, SaveAdvance(r)
    PROVE  /\ AtAdvance(r) /\ job[r].a \in Advances
           /\ pay' = pay /\ owner' = owner /\ told' = told
           /\ orderly' = orderly /\ contested' = contested
           /\ late' = IF job[r].pc = "approve" /\ Looked(owner[job[r].a])
                        THEN late \cup {job[r].a} ELSE late
           /\ job'[r] = Free /\ \A q \in Requests \ {r} : job'[q] = job[q]
           /\ adv'[job[r].a] = Outcome(job[r].pc)
           /\ job[r].pc = "approve" => adv'[job[r].a] = "APPROVED"
           /\ job[r].pc = "reject" => adv'[job[r].a] = "REJECTED"
           /\ job[r].pc = "pay" => adv'[job[r].a] = "PAID"
           /\ \A a \in Advances : a # job[r].a => adv'[a] = adv[a]
<1>i. PayrollTypeOK /\ Shape
  BY DEF PayrollInv
<1>1. AtAdvance(r) /\ job[r].a \in Advances
  BY <1>i DEF SaveAdvance, Shape, AtAdvance
<1>2. /\ pay' = pay /\ owner' = owner /\ told' = told
      /\ orderly' = orderly /\ contested' = contested
      /\ late' = IF job[r].pc = "approve" /\ Looked(owner[job[r].a])
                   THEN late \cup {job[r].a} ELSE late
      /\ adv' = [adv EXCEPT ![job[r].a] = Outcome(job[r].pc)] /\ Do(r, Free)
  BY DEF SaveAdvance
<1>3. job'[r] = Free /\ \A q \in Requests \ {r} : job'[q] = job[q]
  BY <1>2, <1>i DEF Do, PayrollTypeOK
<1>4. adv'[job[r].a] = Outcome(job[r].pc) /\ \A a \in Advances : a # job[r].a => adv'[a] = adv[a]
  BY <1>1, <1>2, <1>i DEF PayrollTypeOK
<1>5. /\ job[r].pc = "approve" => Outcome(job[r].pc) = "APPROVED"
      /\ job[r].pc = "reject" => Outcome(job[r].pc) = "REJECTED"
      /\ job[r].pc = "pay" => Outcome(job[r].pc) = "PAID"
  BY DEF Outcome
<1> QED
  BY <1>1, <1>2, <1>3, <1>4, <1>5

\* What the read of an advance does.
LEMMA AdvanceRead ==
    ASSUME PayrollInv, NEW r \in Requests, NEW a \in Advances,
           NEW pc \in {"approve", "reject", "pay"}, ReadAdvance(r, a, pc)
    PROVE  /\ pay' = pay /\ owner' = owner /\ told' = told /\ adv' = adv
           /\ orderly' = orderly /\ contested \subseteq contested' /\ late' = late
           /\ a \in contested' \/ \A q \in Requests : job[q].a # a
           /\ adv[a] \in Needed(pc)
           /\ job[r] = Free /\ job'[r].pc = pc /\ job'[r].a = a /\ job'[r].list = {}
           /\ \A q \in Requests \ {r} : job'[q] = job[q]
  BY DEF PayrollInv, PayrollTypeOK, ReadAdvance, Do, Advancing

\* What the start of a calculation does.
LEMMA PeriodBegun ==
    ASSUME PayrollInv, NEW r \in Requests, NEW m \in Months, CalculatePeriod(r, m)
    PROVE  /\ pay' = pay /\ owner' = owner /\ told' = told /\ adv' = adv
           /\ contested' = contested /\ late' = late
           /\ orderly' => orderly /\ ~PayrollRuns /\ \A p \in Periods : pay[p].status # "DRAFT"
           /\ job[r] = Free /\ job'[r].pc = "calc" /\ job'[r].a = None /\ job'[r].month = m
           /\ job'[r].list = {}
           /\ \A q \in Requests \ {r} : job'[q] = job[q]
<1>1. PICK active \in SUBSET Employees : Do(r, Calculating("calc", m, active, None, {}))
  BY DEF CalculatePeriod
<1>2. /\ job'[r] = Calculating("calc", m, active, None, {})
      /\ \A q \in Requests \ {r} : job'[q] = job[q]
  BY <1>1 DEF Do, PayrollInv, PayrollTypeOK
<1>3. /\ job'[r].pc = "calc" /\ job'[r].a = None /\ job'[r].month = m /\ job'[r].list = {}
      /\ \A q \in Requests \ {r} : job'[q] = job[q]
  BY <1>2 DEF Calculating
<1>4. /\ pay' = pay /\ owner' = owner /\ told' = told /\ adv' = adv
      /\ contested' = contested /\ late' = late
      /\ orderly' => orderly /\ ~PayrollRuns /\ \A p \in Periods : pay[p].status # "DRAFT"
      /\ job[r] = Free
  BY DEF CalculatePeriod
<1> QED
  BY <1>3, <1>4

\* What the look at the advances of an employee does.
LEMMA AdvancesSeen ==
    ASSUME PayrollInv, NEW r \in Requests, NEW e \in Employees, Look(r, e)
    PROVE  /\ pay' = pay /\ owner' = owner /\ told' = told /\ adv' = adv
           /\ orderly' = orderly /\ contested' = contested /\ late' = late
           /\ job[r].pc = "calc" /\ e \in job[r].todo
           /\ job'[r].pc = "draft" /\ job'[r].a = None /\ job'[r].month = job[r].month
           /\ job'[r].todo = job[r].todo /\ job'[r].e = e /\ job'[r].list = {}
           /\ job'[r].counted = {a \in Advances : owner[a] = e /\ adv[a] = "APPROVED"}
           /\ \A q \in Requests \ {r} : job'[q] = job[q]
<1>1. job'[r] = Calculating("draft", job[r].month, job[r].todo, e, Deductible(e))
      /\ \A q \in Requests \ {r} : job'[q] = job[q]
  BY DEF Look, Do, PayrollInv, PayrollTypeOK
<1> QED
  BY <1>1 DEF Look, Calculating, Deductible, ghosts

\* What the read of the drafts of a period does.
LEMMA PeriodRead ==
    ASSUME PayrollInv, NEW r \in Requests, NEW m \in Months, ReadPeriod(r, m)
    PROVE  /\ pay' = pay /\ owner' = owner /\ told' = told /\ adv' = adv
           /\ contested' = contested /\ late' = late
           /\ orderly' => orderly /\ ~PayrollRuns
           /\ job[r] = Free /\ job'[r].pc = "period" /\ job'[r].a = None /\ job'[r].month = m
           /\ job'[r].list = Drafts(m)
           /\ \A q \in Requests \ {r} : job'[q] = job[q]
<1>1. job'[r] = Approving("period", m, {}, Drafts(m)) /\ \A q \in Requests \ {r} : job'[q] = job[q]
  BY DEF ReadPeriod, Do, PayrollInv, PayrollTypeOK
<1>2. job'[r].pc = "period" /\ job'[r].a = None /\ job'[r].month = m /\ job'[r].list = Drafts(m)
  BY <1>1 DEF Approving
<1>3. /\ pay' = pay /\ owner' = owner /\ told' = told /\ adv' = adv
      /\ contested' = contested /\ late' = late
      /\ orderly' => orderly /\ ~PayrollRuns
      /\ job[r] = Free
  BY DEF ReadPeriod
<1> QED
  BY <1>1, <1>2, <1>3

\* What telling the ledger does.
LEMMA LedgerTold ==
    ASSUME PayrollInv, NEW r \in Requests, Finalize(r)
    PROVE  /\ pay' = pay /\ owner' = owner /\ adv' = adv
           /\ orderly' = orderly /\ contested' = contested /\ late' = late
           /\ job[r].pc = "mark" /\ job[r].todo = {} /\ job[r].month \in Months
           /\ \A p \in Periods :
                told'[p] = IF p[1] \in job[r].list /\ p[2] = job[r].month
                             THEN told[p] + 1 ELSE told[p]
           /\ job'[r] = Free /\ \A q \in Requests \ {r} : job'[q] = job[q]
<1>1. told' = [p \in Periods |->
                 told[p] + (IF p[1] \in job[r].list /\ p[2] = job[r].month THEN 1 ELSE 0)]
  BY DEF Finalize
<1>2. \A p \in Periods : told[p] \in Nat
  BY DEF PayrollInv, PayrollTypeOK
<1>3. \A p \in Periods :
        told'[p] = IF p[1] \in job[r].list /\ p[2] = job[r].month THEN told[p] + 1 ELSE told[p]
  BY <1>1, <1>2
<1>4. job'[r] = Free /\ \A q \in Requests \ {r} : job'[q] = job[q]
  BY DEF Finalize, Do, PayrollInv, PayrollTypeOK
<1> QED
  BY <1>3, <1>4 DEF Finalize, ghosts, PayrollInv, Shape, AtPayroll

\* What a request that stops short leaves behind.
LEMMA Broken ==
    ASSUME PayrollInv, NEW r \in Requests, StopShort(r)
    PROVE  /\ pay' = pay /\ owner' = owner /\ told' = told /\ adv' = adv
           /\ contested' = contested /\ late' = late
           /\ orderly' => orderly /\ ~(job[r].pc = "mark" /\ job[r].todo # {})
           /\ job'[r] = Free /\ \A q \in Requests \ {r} : job'[q] = job[q]
  BY DEF PayrollInv, PayrollTypeOK, StopShort, Do

\* What asking for an advance does.
LEMMA AskedFor ==
    ASSUME PayrollInv, NEW x \in Advances, NEW e \in Employees, Ask(x, e)
    PROVE  /\ pay' = pay /\ job' = job /\ told' = told
           /\ orderly' = orderly /\ contested' = contested /\ late' = late
           /\ adv[x] = "none" /\ adv'[x] = "PENDING" /\ owner'[x] = e
           /\ \A a \in Advances : a # x => adv'[a] = adv[a] /\ owner'[a] = owner[a]
  BY DEF PayrollInv, PayrollTypeOK, Ask, ghosts

\* What a payroll deducts belongs to its employee.
LEMMA OwnedStep == ASSUME PayrollInv, [PayrollNext]_payrollVars PROVE Owned'
<1>i. PayrollTypeOK /\ Shape /\ Owned
  BY DEF PayrollInv
<1>1. ASSUME NEW a \in Advances, NEW e \in Employees, Ask(a, e) PROVE Owned'
  BY <1>1, PayrollInv, AskedFor, FreeIs, <1>i, Asked, Pairs DEF Owned, AskedStay
<1>2. ASSUME NEW r \in Requests, NEW a \in Advances, NEW pc \in {"approve", "reject", "pay"},
             ReadAdvance(r, a, pc) PROVE Owned'
  BY <1>2, PayrollInv, AdvanceRead, FreeIs, <1>i, Asked, Pairs DEF Owned, AskedStay
<1>3. ASSUME NEW r \in Requests, SaveAdvance(r) PROVE Owned'
  BY <1>3, PayrollInv, AdvanceSaved, FreeIs, <1>i, Asked, Pairs DEF Owned, AskedStay
<1>4. ASSUME NEW r \in Requests, NEW m \in Months, CalculatePeriod(r, m) PROVE Owned'
  BY <1>4, PayrollInv, PeriodBegun, FreeIs, <1>i, Asked, Pairs DEF Owned, AskedStay
<1>5. ASSUME NEW r \in Requests, NEW e \in Employees, Look(r, e) PROVE Owned'
  BY <1>5, PayrollInv, AdvancesSeen, FreeIs, <1>i, Asked, Pairs DEF Owned, AskedStay
<1>6. ASSUME NEW r \in Requests, SaveDraft(r) PROVE Owned'
  <2>1. /\ job[r].pc = "draft" /\ job'[r].pc # "draft" /\ adv' = adv /\ owner' = owner
        /\ \A q \in Requests \ {r} : job'[q] = job[q]
    BY <1>6, PayrollInv, DraftSaved
  <2>2. \A p \in Periods :
          \/ p[1] = job[r].e /\ pay'[p].status = "DRAFT" /\ pay'[p].counted = job[r].counted
          \/ pay'[p] = pay[p]
    BY <1>6, PayrollInv, DraftPlaced
  <2>3. \A p \in Periods, a \in Advances :
          a \in pay'[p].counted => pay'[p].status # "none" /\ owner'[a] = p[1] /\ adv'[a] # "none"
    BY <2>1, <2>2, <1>i DEF Owned
  <2>4. \A q \in Requests, a \in Advances :
          job'[q].pc = "draft" /\ a \in job'[q].counted => owner'[a] = job'[q].e /\ adv'[a] # "none"
    BY <2>1, <1>i DEF Owned
  <2> QED
    BY <2>3, <2>4 DEF Owned
<1>7. ASSUME NEW r \in Requests, NEW m \in Months, ReadPeriod(r, m) PROVE Owned'
  BY <1>7, PayrollInv, PeriodRead, FreeIs, <1>i, Asked, Pairs DEF Owned, AskedStay
<1>8. ASSUME NEW r \in Requests, ApprovePeriod(r) PROVE Owned'
  BY <1>8, PayrollInv, PeriodApproved, FreeIs, <1>i, Asked, Pairs DEF Owned, AskedStay
<1>9. ASSUME NEW r \in Requests, NEW e \in Employees, MarkDeducted(r, e) PROVE Owned'
  BY <1>9, PayrollInv, Deducted, FreeIs, <1>i, Asked, Pairs DEF Owned, AskedStay
<1>10. ASSUME NEW r \in Requests, Finalize(r) PROVE Owned'
  BY <1>10, PayrollInv, LedgerTold, FreeIs, <1>i, Asked, Pairs DEF Owned, AskedStay
<1>11. ASSUME NEW r \in Requests, StopShort(r) PROVE Owned'
  BY <1>11, PayrollInv, Broken, FreeIs, <1>i, Asked, Pairs DEF Owned, AskedStay
<1>12. CASE UNCHANGED payrollVars
  BY <1>12, <1>i, Asked, Pairs DEF payrollVars, Owned, AskedStay
<1> QED
  BY <1>1, <1>2, <1>3, <1>4, <1>5, <1>6, <1>7, <1>8, <1>9, <1>10, <1>11, <1>12 DEF PayrollNext

\* Nobody else handles an advance that is not contested.
LEMMA UncontestedStep == ASSUME PayrollInv, [PayrollNext]_payrollVars PROVE Uncontested'
<1>i. PayrollAssumption /\ PayrollTypeOK /\ Shape /\ Owned /\ Uncontested
  BY DEF PayrollInv
<1>1. ASSUME NEW a \in Advances, NEW e \in Employees, Ask(a, e) PROVE Uncontested'
  BY <1>1, PayrollInv, AskedFor, FreeIs, <1>i
     DEF Uncontested, Used, AtAdvance, Owned, PayrollAssumption
<1>2. ASSUME NEW r \in Requests, NEW a \in Advances, NEW pc \in {"approve", "reject", "pay"},
             ReadAdvance(r, a, pc) PROVE Uncontested'
  BY <1>2, PayrollInv, AdvanceRead, FreeIs, <1>i
     DEF Uncontested, Used, AtAdvance, Owned, PayrollAssumption, Needed
<1>3. ASSUME NEW r \in Requests, SaveAdvance(r) PROVE Uncontested'
  BY <1>3, PayrollInv, AdvanceSaved, FreeIs, <1>i
     DEF Uncontested, Used, AtAdvance, Owned, PayrollAssumption
<1>4. ASSUME NEW r \in Requests, NEW m \in Months, CalculatePeriod(r, m) PROVE Uncontested'
  BY <1>4, PayrollInv, PeriodBegun, FreeIs, <1>i
     DEF Uncontested, Used, AtAdvance, Owned, PayrollAssumption
<1>5. ASSUME NEW r \in Requests, NEW e \in Employees, Look(r, e) PROVE Uncontested'
  BY <1>5, PayrollInv, AdvancesSeen, FreeIs, <1>i
     DEF Uncontested, Used, AtAdvance, Owned, PayrollAssumption
<1>6. ASSUME NEW r \in Requests, SaveDraft(r) PROVE Uncontested'
  <2>1. job[r].pc = "draft" /\ adv' = adv /\ contested' = contested /\ job'[r].a = None
        /\ (\A q \in Requests \ {r} : job'[q] = job[q]) /\ job'[r].pc # "draft"
    BY <1>6, PayrollInv, DraftSaved
  <2>2. \A p \in Periods : pay'[p].counted = job[r].counted \/ pay'[p] = pay[p]
    BY <1>6, PayrollInv, DraftPlaced
  <2>3. \A a \in Advances \ contested, p \in Periods : a \in pay'[p].counted => adv[a] \in Used
    BY <2>1, <2>2, <1>i DEF Uncontested
  <2>4. None \notin Advances
    BY <1>i DEF PayrollAssumption
  <2> QED
    BY <2>1, <2>3, <2>4, <1>i DEF Uncontested
<1>7. ASSUME NEW r \in Requests, NEW m \in Months, ReadPeriod(r, m) PROVE Uncontested'
  BY <1>7, PayrollInv, PeriodRead, FreeIs, <1>i
     DEF Uncontested, Used, AtAdvance, Owned, PayrollAssumption
<1>8. ASSUME NEW r \in Requests, ApprovePeriod(r) PROVE Uncontested'
  BY <1>8, PayrollInv, PeriodApproved, FreeIs, <1>i
     DEF Uncontested, Used, AtAdvance, Owned, PayrollAssumption
<1>9. ASSUME NEW r \in Requests, NEW e \in Employees, MarkDeducted(r, e) PROVE Uncontested'
  BY <1>9, PayrollInv, Deducted, FreeIs, <1>i
     DEF Uncontested, Used, AtAdvance, Owned, PayrollAssumption
<1>10. ASSUME NEW r \in Requests, Finalize(r) PROVE Uncontested'
  BY <1>10, PayrollInv, LedgerTold, FreeIs, <1>i
     DEF Uncontested, Used, AtAdvance, Owned, PayrollAssumption
<1>11. ASSUME NEW r \in Requests, StopShort(r) PROVE Uncontested'
  BY <1>11, PayrollInv, Broken, FreeIs, <1>i
     DEF Uncontested, Used, AtAdvance, Owned, PayrollAssumption
<1>12. CASE UNCHANGED payrollVars
  BY <1>12, <1>i DEF payrollVars, Uncontested, Used, AtAdvance, Owned, PayrollAssumption
<1> QED
  BY <1>1, <1>2, <1>3, <1>4, <1>5, <1>6, <1>7, <1>8, <1>9, <1>10, <1>11, <1>12 DEF PayrollNext

\* Order is never restored.
LEMMA OrderKept == ASSUME PayrollInv, [PayrollNext]_payrollVars, orderly' PROVE orderly /\ Order
<1>1. ASSUME NEW r \in Requests, NEW m \in Months, CalculatePeriod(r, m) PROVE orderly
  BY <1>1, PayrollInv, PeriodBegun
<1>2. ASSUME NEW r \in Requests, NEW m \in Months, ReadPeriod(r, m) PROVE orderly
  BY <1>2, PayrollInv, PeriodRead
<1>3. ASSUME NEW r \in Requests, StopShort(r) PROVE orderly
  BY <1>3, PayrollInv, Broken
<1>4. orderly
  BY <1>1, <1>2, <1>3
     DEF PayrollNext, payrollVars, Ask, ReadAdvance, SaveAdvance, Look, SaveDraft,
         ApprovePeriod,
     MarkDeducted, Finalize, ghosts
<1> QED
  BY <1>4 DEF PayrollInv

\* One request at a time is at the payroll.
LEMMA SoloStep == ASSUME PayrollInv, [PayrollNext]_payrollVars, orderly' PROVE Solo'
<1>i. PayrollTypeOK /\ Shape /\ Owned /\ orderly /\ Order
  BY OrderKept DEF PayrollInv
<1>1. ASSUME NEW a \in Advances, NEW e \in Employees, Ask(a, e) PROVE Solo'
  BY <1>1, PayrollInv, AskedFor, FreeIs, <1>i DEF Order, Solo, AtPayroll, PayrollRuns
<1>2. ASSUME NEW r \in Requests, NEW a \in Advances, NEW pc \in {"approve", "reject", "pay"},
             ReadAdvance(r, a, pc) PROVE Solo'
  BY <1>2, PayrollInv, AdvanceRead, FreeIs, <1>i DEF Order, Solo, AtPayroll, PayrollRuns
<1>3. ASSUME NEW r \in Requests, SaveAdvance(r) PROVE Solo'
  BY <1>3, PayrollInv, AdvanceSaved, FreeIs, <1>i
     DEF Order, Solo, AtPayroll, PayrollRuns, AtAdvance
<1>4. ASSUME NEW r \in Requests, NEW m \in Months, CalculatePeriod(r, m) PROVE Solo'
  BY <1>4, PayrollInv, PeriodBegun, FreeIs, <1>i DEF Order, Solo, AtPayroll, PayrollRuns
<1>5. ASSUME NEW r \in Requests, NEW e \in Employees, Look(r, e) PROVE Solo'
  BY <1>5, PayrollInv, AdvancesSeen, FreeIs, <1>i DEF Order, Solo, AtPayroll, PayrollRuns
<1>6. ASSUME NEW r \in Requests, SaveDraft(r) PROVE Solo'
  BY <1>6, PayrollInv, DraftSaved, <1>i DEF Order, Solo, AtPayroll
<1>7. ASSUME NEW r \in Requests, NEW m \in Months, ReadPeriod(r, m) PROVE Solo'
  BY <1>7, PayrollInv, PeriodRead, FreeIs, <1>i DEF Order, Solo, AtPayroll, PayrollRuns
<1>8. ASSUME NEW r \in Requests, ApprovePeriod(r) PROVE Solo'
  BY <1>8, PayrollInv, PeriodApproved, FreeIs, <1>i DEF Order, Solo, AtPayroll, PayrollRuns
<1>9. ASSUME NEW r \in Requests, NEW e \in Employees, MarkDeducted(r, e) PROVE Solo'
  BY <1>9, PayrollInv, Deducted, FreeIs, <1>i DEF Order, Solo, AtPayroll, PayrollRuns
<1>10. ASSUME NEW r \in Requests, Finalize(r) PROVE Solo'
  BY <1>10, PayrollInv, LedgerTold, FreeIs, <1>i DEF Order, Solo, AtPayroll, PayrollRuns
<1>11. ASSUME NEW r \in Requests, StopShort(r) PROVE Solo'
  BY <1>11, PayrollInv, Broken, FreeIs, <1>i DEF Order, Solo, AtPayroll, PayrollRuns
<1>12. CASE UNCHANGED payrollVars
  BY <1>12, <1>i DEF payrollVars, Order, Solo, AtPayroll, PayrollRuns
<1> QED
  BY <1>1, <1>2, <1>3, <1>4, <1>5, <1>6, <1>7, <1>8, <1>9, <1>10, <1>11, <1>12 DEF PayrollNext

\* Drafts are of one month, and of employees the request is done with.
LEMMA OneMonthStep == ASSUME PayrollInv, [PayrollNext]_payrollVars, orderly' PROVE OneMonth'
<1>i. PayrollTypeOK /\ Shape /\ Owned /\ orderly /\ Order
  BY OrderKept DEF PayrollInv
<1>1. ASSUME NEW a \in Advances, NEW e \in Employees, Ask(a, e) PROVE OneMonth'
  BY <1>1, PayrollInv, AskedFor, FreeIs, <1>i DEF Order, OneMonth, Solo, AtPayroll, PayrollRuns
<1>2. ASSUME NEW r \in Requests, NEW a \in Advances, NEW pc \in {"approve", "reject", "pay"},
             ReadAdvance(r, a, pc) PROVE OneMonth'
  BY <1>2, PayrollInv, AdvanceRead, FreeIs, <1>i
     DEF Order, OneMonth, Solo, AtPayroll, PayrollRuns
<1>3. ASSUME NEW r \in Requests, SaveAdvance(r) PROVE OneMonth'
  BY <1>3, PayrollInv, AdvanceSaved, FreeIs, <1>i
     DEF Order, OneMonth, Solo, AtPayroll, PayrollRuns
<1>4. ASSUME NEW r \in Requests, NEW m \in Months, CalculatePeriod(r, m) PROVE OneMonth'
  BY <1>4, PayrollInv, PeriodBegun, FreeIs, <1>i
     DEF Order, OneMonth, Solo, AtPayroll, PayrollRuns
<1>5. ASSUME NEW r \in Requests, NEW e \in Employees, Look(r, e) PROVE OneMonth'
  BY <1>5, PayrollInv, AdvancesSeen, FreeIs, <1>i
     DEF Order, OneMonth, Solo, AtPayroll, PayrollRuns
<1>6. ASSUME NEW r \in Requests, SaveDraft(r) PROVE OneMonth'
  <2>1. /\ job[r].pc = "draft" /\ job[r].e \in job[r].todo
        /\ (\A q \in Requests \ {r} : job'[q] = job[q])
        /\ job'[r].pc \in {"idle", "calc"}
        /\ job'[r].pc = "calc" => /\ job'[r].month = job[r].month
                                  /\ job'[r].todo = job[r].todo \ {job[r].e}
    BY <1>6, PayrollInv, DraftSaved
  <2>2. \A p \in Periods : pay'[p] # pay[p] => p[1] = job[r].e /\ p[2] = job[r].month
    BY <1>6, PayrollInv, DraftPlaced
  <2>3. \A q \in Requests : AtPayroll(q) => q = r
    BY <2>1, <1>i DEF Order, Solo, AtPayroll
  <2>4. \A p \in Periods : pay[p].status = "DRAFT" => p[2] = job[r].month /\ p[1] \notin job[r].todo
    BY <2>1, <1>i DEF Order, OneMonth
  <2>5. \A p \in Periods : pay'[p].status = "DRAFT" =>
          p[2] = job[r].month /\ (p[1] \notin job[r].todo \/ p[1] = job[r].e)
    BY <2>2, <2>4
  <2> QED
    BY <2>1, <2>3, <2>5 DEF OneMonth, AtPayroll
<1>7. ASSUME NEW r \in Requests, NEW m \in Months, ReadPeriod(r, m) PROVE OneMonth'
  BY <1>7, PayrollInv, PeriodRead, FreeIs, <1>i
     DEF Order, OneMonth, Solo, AtPayroll, PayrollRuns
<1>8. ASSUME NEW r \in Requests, ApprovePeriod(r) PROVE OneMonth'
  BY <1>8, PayrollInv, PeriodApproved, FreeIs, <1>i
     DEF Order, OneMonth, Solo, AtPayroll, PayrollRuns
<1>9. ASSUME NEW r \in Requests, NEW e \in Employees, MarkDeducted(r, e) PROVE OneMonth'
  BY <1>9, PayrollInv, Deducted, FreeIs, <1>i DEF Order, OneMonth, Solo, AtPayroll, PayrollRuns
<1>10. ASSUME NEW r \in Requests, Finalize(r) PROVE OneMonth'
  BY <1>10, PayrollInv, LedgerTold, FreeIs, <1>i
     DEF Order, OneMonth, Solo, AtPayroll, PayrollRuns
<1>11. ASSUME NEW r \in Requests, StopShort(r) PROVE OneMonth'
  BY <1>11, PayrollInv, Broken, FreeIs, <1>i DEF Order, OneMonth, Solo, AtPayroll, PayrollRuns
<1>12. CASE UNCHANGED payrollVars
  BY <1>12, <1>i DEF payrollVars, Order, OneMonth, Solo, AtPayroll, PayrollRuns
<1> QED
  BY <1>1, <1>2, <1>3, <1>4, <1>5, <1>6, <1>7, <1>8, <1>9, <1>10, <1>11, <1>12 DEF PayrollNext

\* What is about to be approved is a draft, and what is about to be told was not.
LEMMA ListedStep == ASSUME PayrollInv, [PayrollNext]_payrollVars, orderly' PROVE Listed' /\ Told'
<1>i. PayrollTypeOK /\ Shape /\ Owned /\ orderly /\ Order
  BY OrderKept DEF PayrollInv
<1>1. ASSUME NEW a \in Advances, NEW e \in Employees, Ask(a, e) PROVE Listed' /\ Told'
  BY <1>1, PayrollInv, AskedFor, FreeIs, <1>i, Pairs
     DEF Order, Listed, Told, Solo, AtPayroll, PayrollRuns
<1>2. ASSUME NEW r \in Requests, NEW a \in Advances, NEW pc \in {"approve", "reject", "pay"},
             ReadAdvance(r, a, pc) PROVE Listed' /\ Told'
  BY <1>2, PayrollInv, AdvanceRead, FreeIs, <1>i, Pairs
     DEF Order, Listed, Told, Solo, AtPayroll, PayrollRuns
<1>3. ASSUME NEW r \in Requests, SaveAdvance(r) PROVE Listed' /\ Told'
  BY <1>3, PayrollInv, AdvanceSaved, FreeIs, <1>i, Pairs
     DEF Order, Listed, Told, Solo, AtPayroll, PayrollRuns
<1>4. ASSUME NEW r \in Requests, NEW m \in Months, CalculatePeriod(r, m) PROVE Listed' /\ Told'
  BY <1>4, PayrollInv, PeriodBegun, FreeIs, <1>i, Pairs
     DEF Order, Listed, Told, Solo, AtPayroll, PayrollRuns
<1>5. ASSUME NEW r \in Requests, NEW e \in Employees, Look(r, e) PROVE Listed' /\ Told'
  BY <1>5, PayrollInv, AdvancesSeen, FreeIs, <1>i, Pairs
     DEF Order, Listed, Told, Solo, AtPayroll, PayrollRuns
<1>6. ASSUME NEW r \in Requests, SaveDraft(r) PROVE Listed' /\ Told'
  <2>1. told' = told /\ (\A q \in Requests \ {r} : job'[q] = job[q]) /\ job'[r].list = {}
    BY <1>6, PayrollInv, DraftSaved
  <2>2. \A p \in Periods : pay'[p] = pay[p] \/ pay[p].status = "none"
    BY <1>6, PayrollInv, DraftPlaced
  <2>3. Told'
    BY <2>1, <2>2, <1>i DEF Order, Told
  <2>4. ASSUME NEW q \in Requests, NEW e \in job'[q].list, job'[q].pc \in {"period", "mark"}
        PROVE  /\ job[q] = job'[q] /\ e \in job[q].list /\ <<e, job[q].month>> \in Periods
    <3>1. q # r /\ job'[q] = job[q]
      BY <2>1, <2>4
    <3>2. e \in Employees /\ job[q].month \in Months
      BY <2>4, <3>1, <1>i, Parts DEF Shape, AtPayroll
    <3> QED
      BY <3>1, <3>2, <2>4, Pairs
  <2>5. Listed'
    BY <2>1, <2>2, <2>4, <1>i DEF Order, Listed
  <2> QED
    BY <2>3, <2>5
<1>7. ASSUME NEW r \in Requests, NEW m \in Months, ReadPeriod(r, m) PROVE Listed' /\ Told'
  BY <1>7, PayrollInv, PeriodRead, FreeIs, <1>i, Pairs DEF Order, Listed, Told, Drafts
<1>8. ASSUME NEW r \in Requests, ApprovePeriod(r) PROVE Listed' /\ Told'
  <2>1. /\ told' = told /\ job[r].pc = "period" /\ job'[r].pc = "mark"
        /\ job[r].month \in Months /\ job[r].list \subseteq Employees
        /\ job'[r].month = job[r].month /\ job'[r].list = job[r].list
        /\ \A q \in Requests \ {r} : job'[q] = job[q]
        /\ \A p \in Periods : pay'[p].status = IF p[1] \in job[r].list /\ p[2] = job[r].month
                                                 THEN "APPROVED" ELSE pay[p].status
    BY <1>8, PayrollInv, PeriodApproved
  <2>2. \A e \in job[r].list : /\ pay'[<<e, job[r].month>>].status = "APPROVED"
                               /\ pay[<<e, job[r].month>>].status = "DRAFT"
                               /\ <<e, job[r].month>> \in Periods
    BY <2>1, <1>i, Pairs DEF Order, Listed
  <2>3. \A e \in job[r].list : told[<<e, job[r].month>>] = 0
    <3>1. \A p \in Periods : told[p] \in Nat /\ (told[p] > 0 => pay[p].status = "APPROVED")
      BY <1>i DEF Order, Told, PayrollTypeOK
    <3> QED
      BY <2>2, <3>1
  <2>4. \A q \in Requests : q # r => ~AtPayroll(q)
    BY <2>1, <1>i DEF Order, Solo, AtPayroll
  <2>5. Listed'
    BY <2>1, <2>2, <2>3, <2>4 DEF Listed, AtPayroll
  <2>6. Told'
    BY <2>1, <1>i DEF Order, Told
  <2> QED
    BY <2>5, <2>6
<1>9. ASSUME NEW r \in Requests, NEW e \in Employees, MarkDeducted(r, e) PROVE Listed' /\ Told'
  BY <1>9, PayrollInv, Deducted, FreeIs, <1>i, Pairs
     DEF Order, Listed, Told, Solo, AtPayroll, PayrollRuns
<1>10. ASSUME NEW r \in Requests, Finalize(r) PROVE Listed' /\ Told'
  BY <1>10, PayrollInv, LedgerTold, FreeIs, <1>i, Pairs
     DEF Order, Listed, Told, Solo, AtPayroll, PayrollRuns
<1>11. ASSUME NEW r \in Requests, StopShort(r) PROVE Listed' /\ Told'
  BY <1>11, PayrollInv, Broken, FreeIs, <1>i, Pairs
     DEF Order, Listed, Told, Solo, AtPayroll, PayrollRuns
<1>12. CASE UNCHANGED payrollVars
  BY <1>12, <1>i, Pairs DEF payrollVars, Order, Listed, Told, Solo, AtPayroll, PayrollRuns
<1> QED
  BY <1>1, <1>2, <1>3, <1>4, <1>5, <1>6, <1>7, <1>8, <1>9, <1>10, <1>11, <1>12 DEF PayrollNext

\* An advance is counted in one payroll: whoever looks at it as an approved one
\* is the first, as it is marked in an approved payroll and nobody has a draft.
LEMMA CountedStep == ASSUME PayrollInv, [PayrollNext]_payrollVars, orderly' PROVE CountedOnce'
<1>i. PayrollTypeOK /\ Shape /\ Owned /\ Uncontested /\ orderly /\ Order
  BY OrderKept DEF PayrollInv
<1>1. ASSUME NEW a \in Advances, NEW e \in Employees, Ask(a, e) PROVE CountedOnce'
  BY <1>1, PayrollInv, AskedFor, FreeIs, <1>i DEF Order, CountedOnce
<1>2. ASSUME NEW r \in Requests, NEW a \in Advances, NEW pc \in {"approve", "reject", "pay"},
             ReadAdvance(r, a, pc) PROVE CountedOnce'
  BY <1>2, PayrollInv, AdvanceRead, FreeIs, <1>i DEF Order, CountedOnce
<1>3. ASSUME NEW r \in Requests, SaveAdvance(r) PROVE CountedOnce'
  BY <1>3, PayrollInv, AdvanceSaved, FreeIs, <1>i DEF Order, CountedOnce
<1>4. ASSUME NEW r \in Requests, NEW m \in Months, CalculatePeriod(r, m) PROVE CountedOnce'
  BY <1>4, PayrollInv, PeriodBegun, FreeIs, <1>i DEF Order, CountedOnce
<1>5. ASSUME NEW r \in Requests, NEW e \in Employees, Look(r, e) PROVE CountedOnce'
  <2>1. /\ job[r].pc = "calc" /\ e \in job[r].todo /\ pay' = pay /\ contested' = contested
        /\ \A q \in Requests \ {r} : job'[q] = job[q]
    BY <1>5, PayrollInv, AdvancesSeen
  <2>c. job'[r].counted = {a \in Advances : owner[a] = e /\ adv[a] = "APPROVED"}
    BY <1>5, PayrollInv, AdvancesSeen
  <2>2. ASSUME NEW a \in Advances \ contested, NEW p \in Periods, a \in pay[p].counted,
               owner[a] = e, adv[a] = "APPROVED"
        PROVE  FALSE
    <3>1. p[1] = e /\ pay[p].status \in {"DRAFT", "APPROVED"}
      BY <2>2, <1>i DEF Owned, PayrollTypeOK, Entry
    <3>2. pay[p].status # "DRAFT"
      BY <2>1, <3>1, <1>i DEF Order, OneMonth
    <3>3. PICK q \in Requests : job[q].pc = "mark"
      BY <2>2, <3>1, <3>2, <1>i DEF Order, Spent, ToMark
    <3> QED
      BY <2>1, <3>3, <1>i DEF Order, Solo, AtPayroll
  <2> QED
    BY <2>1, <2>c, <2>2, <1>i DEF Order, CountedOnce
<1>6. ASSUME NEW r \in Requests, SaveDraft(r) PROVE CountedOnce'
  <2>1. /\ job[r].pc = "draft" /\ job'[r].pc # "draft" /\ contested' = contested
        /\ \A q \in Requests \ {r} : job'[q] = job[q]
    BY <1>6, PayrollInv, DraftSaved
  <2>2. /\ \A p \in Periods : pay'[p].counted = pay[p].counted \/ pay'[p].counted = job[r].counted
        /\ \A p, q \in Periods : pay'[p] # pay[p] /\ pay'[q] # pay[q] => p = q
    BY <1>6, PayrollInv, DraftPlaced, Pairs
  <2>3. \A q \in Requests : q # r => job'[q].pc # "draft"
    BY <2>1, <1>i DEF Order, Solo, AtPayroll
  <2>4. ASSUME NEW a \in Advances \ contested, NEW p \in Periods, NEW q \in Periods,
               a \in pay'[p].counted, a \in pay'[q].counted
        PROVE  p = q
    BY <2>1, <2>2, <2>4, <1>i DEF Order, CountedOnce
  <2> QED
    BY <2>1, <2>3, <2>4 DEF CountedOnce
<1>7. ASSUME NEW r \in Requests, NEW m \in Months, ReadPeriod(r, m) PROVE CountedOnce'
  BY <1>7, PayrollInv, PeriodRead, FreeIs, <1>i DEF Order, CountedOnce
<1>8. ASSUME NEW r \in Requests, ApprovePeriod(r) PROVE CountedOnce'
  BY <1>8, PayrollInv, PeriodApproved, FreeIs, <1>i DEF Order, CountedOnce
<1>9. ASSUME NEW r \in Requests, NEW e \in Employees, MarkDeducted(r, e) PROVE CountedOnce'
  BY <1>9, PayrollInv, Deducted, FreeIs, <1>i DEF Order, CountedOnce
<1>10. ASSUME NEW r \in Requests, Finalize(r) PROVE CountedOnce'
  BY <1>10, PayrollInv, LedgerTold, FreeIs, <1>i DEF Order, CountedOnce
<1>11. ASSUME NEW r \in Requests, StopShort(r) PROVE CountedOnce'
  BY <1>11, PayrollInv, Broken, FreeIs, <1>i DEF Order, CountedOnce
<1>12. CASE UNCHANGED payrollVars
  BY <1>12, <1>i DEF payrollVars, Order, CountedOnce
<1> QED
  BY <1>1, <1>2, <1>3, <1>4, <1>5, <1>6, <1>7, <1>8, <1>9, <1>10, <1>11, <1>12 DEF PayrollNext

\* What an approved payroll counts is paid out or marked, or about to be.
LEMMA SpentStep == ASSUME PayrollInv, [PayrollNext]_payrollVars, orderly' PROVE Spent'
<1>i. PayrollTypeOK /\ Shape /\ Owned /\ Uncontested /\ orderly /\ Order
  BY OrderKept DEF PayrollInv
<1>1. ASSUME NEW a \in Advances, NEW e \in Employees, Ask(a, e) PROVE Spent'
  BY <1>1, PayrollInv, AskedFor, FreeIs, <1>i DEF Order, Spent, ToMark
<1>2. ASSUME NEW r \in Requests, NEW a \in Advances, NEW pc \in {"approve", "reject", "pay"},
             ReadAdvance(r, a, pc) PROVE Spent'
  BY <1>2, PayrollInv, AdvanceRead, FreeIs, <1>i DEF Order, Spent, ToMark
<1>3. ASSUME NEW r \in Requests, SaveAdvance(r) PROVE Spent'
  <2> DEFINE x == job[r].a
  <2>1. /\ pay' = pay /\ contested' = contested /\ x \in Advances
        /\ job[r].pc \in {"approve", "reject", "pay"}
        /\ job[r].pc = "pay" => adv'[x] = "PAID"
        /\ \A a \in Advances : a # x => adv'[a] = adv[a]
        /\ job'[r].pc # "mark" /\ \A q \in Requests \ {r} : job'[q] = job[q]
    BY <1>3, PayrollInv, AdvanceSaved, FreeIs DEF AtAdvance
  <2>2. \A e : ToMark(e) => ToMark(e)'
    BY <2>1 DEF ToMark
  <2>3. \A p \in Periods : x \notin contested /\ x \in pay[p].counted => adv'[x] = "PAID"
    BY <2>1, <1>i DEF Uncontested, Used
  <2> QED
    BY <2>1, <2>2, <2>3, <1>i DEF Order, Spent
<1>4. ASSUME NEW r \in Requests, NEW m \in Months, CalculatePeriod(r, m) PROVE Spent'
  BY <1>4, PayrollInv, PeriodBegun, FreeIs, <1>i DEF Order, Spent, ToMark
<1>5. ASSUME NEW r \in Requests, NEW e \in Employees, Look(r, e) PROVE Spent'
  BY <1>5, PayrollInv, AdvancesSeen, FreeIs, <1>i DEF Order, Spent, ToMark
<1>6. ASSUME NEW r \in Requests, SaveDraft(r) PROVE Spent'
  <2>1. /\ job[r].pc = "draft" /\ contested' = contested /\ adv' = adv
        /\ \A q \in Requests \ {r} : job'[q] = job[q]
    BY <1>6, PayrollInv, DraftSaved
  <2>2. \A p \in Periods : pay'[p].status = "APPROVED" => pay'[p] = pay[p]
    BY <1>6, PayrollInv, DraftPlaced
  <2>3. \A e : ToMark(e) => ToMark(e)'
    BY <2>1 DEF ToMark
  <2> QED
    BY <2>1, <2>2, <2>3, <1>i DEF Order, Spent
<1>7. ASSUME NEW r \in Requests, NEW m \in Months, ReadPeriod(r, m) PROVE Spent'
  BY <1>7, PayrollInv, PeriodRead, FreeIs, <1>i DEF Order, Spent, ToMark
<1>8. ASSUME NEW r \in Requests, ApprovePeriod(r) PROVE Spent'
  <2>1. /\ job[r].pc = "period" /\ job[r].month \in Months /\ contested' = contested /\ adv' = adv
        /\ job'[r].pc = "mark"
        /\ job'[r].todo = {e \in job[r].list : pay[<<e, job[r].month>>].counted # {}}
    BY <1>8, PayrollInv, PeriodApproved
  <2>2. \A p \in Periods :
          /\ pay'[p].counted = pay[p].counted
          /\ pay'[p].status = IF p[1] \in job[r].list /\ p[2] = job[r].month
                                THEN "APPROVED" ELSE pay[p].status
    BY <1>8, PayrollInv, PeriodApproved
  <2>3. \A e : ~ToMark(e)
    BY <2>1, <1>i DEF ToMark, Order, Solo, AtPayroll
  <2>4. ASSUME NEW a \in Advances \ contested, NEW p \in Periods,
               pay'[p].status = "APPROVED", a \in pay'[p].counted
        PROVE  adv[a] \in {"PAID", "DEDUCTED"} \/ p[1] \in job'[r].todo
    <3>1. CASE p[1] \in job[r].list /\ p[2] = job[r].month
      <4>1. p = <<p[1], job[r].month>>
        BY <3>1, Pairs
      <4>2. pay[<<p[1], job[r].month>>].counted # {}
        BY <4>1, <2>2, <2>4
      <4> QED
        BY <2>1, <3>1, <4>2
    <3>2. CASE ~(p[1] \in job[r].list /\ p[2] = job[r].month)
      BY <2>2, <2>3, <2>4, <3>2, <1>i DEF Order, Spent
    <3> QED
      BY <3>1, <3>2
  <2> QED
    BY <2>1, <2>4 DEF Spent, ToMark
<1>9. ASSUME NEW r \in Requests, NEW e \in Employees, MarkDeducted(r, e) PROVE Spent'
  <2>1. /\ pay' = pay /\ owner' = owner /\ contested' = contested
        /\ job'[r].pc = "mark" /\ job'[r].todo = job[r].todo \ {e}
        /\ \A q \in Requests \ {r} : job'[q] = job[q]
    BY <1>9, PayrollInv, Deducted
  <2>2. \A a \in Advances :
          adv'[a] = IF owner[a] = e /\ adv[a] = "APPROVED" THEN "DEDUCTED" ELSE adv[a]
    BY <1>9, PayrollInv, Deducted
  <2>3. \A d : d # e /\ ToMark(d) => ToMark(d)'
    BY <2>1 DEF ToMark
  <2>4. \A a \in Advances \ contested, p \in Periods : a \in pay[p].counted =>
          owner[a] = p[1] /\ adv[a] \in {"APPROVED", "PAID", "DEDUCTED"}
    BY <1>i DEF Owned, Uncontested, Used
  <2>5. ASSUME NEW a \in Advances \ contested, NEW p \in Periods,
               pay[p].status = "APPROVED", a \in pay[p].counted
        PROVE  adv'[a] \in {"PAID", "DEDUCTED"} \/ ToMark(p[1])'
    <3>1. CASE p[1] = e
      BY <2>2, <2>4, <2>5, <3>1
    <3>2. CASE p[1] # e
      BY <2>2, <2>3, <2>5, <3>2, <1>i DEF Order, Spent
    <3> QED
      BY <3>1, <3>2
  <2> QED
    BY <2>1, <2>5 DEF Spent
<1>10. ASSUME NEW r \in Requests, Finalize(r) PROVE Spent'
  BY <1>10, PayrollInv, LedgerTold, FreeIs, <1>i DEF Order, Spent, ToMark
<1>11. ASSUME NEW r \in Requests, StopShort(r) PROVE Spent'
  BY <1>11, PayrollInv, Broken, FreeIs, <1>i DEF Order, Spent, ToMark
<1>12. CASE UNCHANGED payrollVars
  BY <1>12, <1>i DEF payrollVars, Order, Spent, ToMark
<1> QED
  BY <1>1, <1>2, <1>3, <1>4, <1>5, <1>6, <1>7, <1>8, <1>9, <1>10, <1>11, <1>12 DEF PayrollNext

\* An advance that is approved, and was in time, is counted by whoever looked.
LEMMA InTimeStep == ASSUME PayrollInv, [PayrollNext]_payrollVars, orderly' PROVE InTime'
<1>i. PayrollTypeOK /\ Shape /\ Owned /\ Uncontested /\ orderly /\ Order
  BY OrderKept DEF PayrollInv
<1>1. ASSUME NEW a \in Advances, NEW e \in Employees, Ask(a, e) PROVE InTime'
  BY <1>1, PayrollInv, AskedFor, FreeIs, <1>i DEF Order, InTime, InTimeFor
<1>2. ASSUME NEW r \in Requests, NEW a \in Advances, NEW pc \in {"approve", "reject", "pay"},
             ReadAdvance(r, a, pc) PROVE InTime'
  BY <1>2, PayrollInv, AdvanceRead, FreeIs, <1>i DEF Order, InTime, InTimeFor
<1>3. ASSUME NEW r \in Requests, SaveAdvance(r) PROVE InTime'
  <2> DEFINE x == job[r].a
  <2>1. /\ pay' = pay /\ owner' = owner /\ contested' = contested
        /\ late \subseteq late' /\ x \in Advances
        /\ job[r].pc \in {"approve", "reject", "pay"}
        /\ job[r].pc = "reject" => adv'[x] = "REJECTED"
        /\ job[r].pc = "pay" => adv'[x] = "PAID"
        /\ \A a \in Advances : a # x => adv'[a] = adv[a]
        /\ job'[r].pc \notin {"draft", "mark"} /\ \A q \in Requests \ {r} : job'[q] = job[q]
    BY <1>3, PayrollInv, AdvanceSaved, FreeIs DEF AtAdvance
  <2>2. job[r].pc = "approve" /\ x \notin late' => ~Looked(owner[x])
    BY <2>1, <1>3, PayrollInv, AdvanceSaved
  <2>3. ASSUME NEW a \in Advances \ (contested' \cup late'), adv'[a] = "APPROVED" PROVE InTimeFor(a)
    <3>1. CASE a = x
      <4>1. ~Looked(owner[a])
        BY <2>1, <2>2, <2>3, <3>1
      <4> QED
        BY <4>1, Pairs DEF Looked, InTimeFor
    <3>2. CASE a # x
      BY <2>1, <2>3, <3>2, <1>i DEF Order, InTime
    <3> QED
      BY <3>1, <3>2
  <2> QED
    BY <2>1, <2>3 DEF InTime, InTimeFor
<1>4. ASSUME NEW r \in Requests, NEW m \in Months, CalculatePeriod(r, m) PROVE InTime'
  BY <1>4, PayrollInv, PeriodBegun, FreeIs, <1>i DEF Order, InTime, InTimeFor
<1>5. ASSUME NEW r \in Requests, NEW e \in Employees, Look(r, e) PROVE InTime'
  BY <1>5, PayrollInv, AdvancesSeen, FreeIs, <1>i DEF Order, InTime, InTimeFor
<1>6. ASSUME NEW r \in Requests, SaveDraft(r) PROVE InTime'
  <2>1. /\ job[r].pc = "draft" /\ contested' = contested /\ adv' = adv
        /\ owner' = owner /\ late' = late
        /\ job'[r].pc \notin {"draft", "mark"} /\ \A q \in Requests \ {r} : job'[q] = job[q]
    BY <1>6, PayrollInv, DraftSaved
  <2>2. \A p \in Periods : /\ pay'[p] # pay[p] => p[1] = job[r].e
                           /\ pay'[p] = pay[p] \/ pay'[p].counted = job[r].counted
    BY <1>6, PayrollInv, DraftPlaced
  <2>3. \A q \in Requests : job'[q].pc # "mark"
    BY <2>1, <1>i DEF Order, Solo, AtPayroll
  <2>4. ASSUME NEW a \in Advances \ (contested \cup late), adv[a] = "APPROVED" PROVE InTimeFor(a)'
    <3>1. InTimeFor(a)
      BY <2>4, <1>i DEF Order, InTime
    <3>2. \A p \in Periods : p[1] = owner[a] /\ pay'[p].status = "DRAFT" => a \in pay'[p].counted
      BY <2>1, <2>2, <3>1 DEF InTimeFor
    <3> QED
      BY <2>1, <2>3, <3>1, <3>2 DEF InTimeFor
  <2> QED
    BY <2>1, <2>4 DEF InTime
<1>7. ASSUME NEW r \in Requests, NEW m \in Months, ReadPeriod(r, m) PROVE InTime'
  BY <1>7, PayrollInv, PeriodRead, FreeIs, <1>i DEF Order, InTime, InTimeFor
<1>8. ASSUME NEW r \in Requests, ApprovePeriod(r) PROVE InTime'
  <2>1. /\ job[r].pc = "period" /\ contested' = contested /\ adv' = adv
        /\ owner' = owner /\ late' = late
        /\ job'[r].pc = "mark" /\ job'[r].month = job[r].month
        /\ job'[r].todo \subseteq job[r].list
    BY <1>8, PayrollInv, PeriodApproved
  <2>2. \A p \in Periods :
          /\ pay'[p].counted = pay[p].counted
          /\ pay'[p].status = "DRAFT" => pay[p].status = "DRAFT"
    BY <1>8, PayrollInv, PeriodApproved
  <2>3. \A q \in Requests \ {r} : job'[q].pc \notin {"draft", "mark"}
    BY <1>8, PayrollInv, PeriodApproved, <2>1, <1>i DEF Order, Solo, AtPayroll
  <2>4. \A p \in Periods : p[1] \in job[r].list /\ p[2] = job[r].month => pay[p].status = "DRAFT"
    BY <2>1, <1>i, Pairs DEF Order, Listed
  <2>5. ASSUME NEW a \in Advances \ (contested \cup late), adv[a] = "APPROVED" PROVE InTimeFor(a)'
    <3>1. \A p \in Periods : p[1] = owner[a] /\ pay[p].status = "DRAFT" => a \in pay[p].counted
      BY <2>5, <1>i DEF Order, InTime, InTimeFor
    <3> QED
      BY <2>1, <2>2, <2>3, <2>4, <3>1 DEF InTimeFor
  <2> QED
    BY <2>1, <2>5 DEF InTime
<1>9. ASSUME NEW r \in Requests, NEW e \in Employees, MarkDeducted(r, e) PROVE InTime'
  BY <1>9, PayrollInv, Deducted, FreeIs, <1>i DEF Order, InTime, InTimeFor
<1>10. ASSUME NEW r \in Requests, Finalize(r) PROVE InTime'
  BY <1>10, PayrollInv, LedgerTold, FreeIs, <1>i DEF Order, InTime, InTimeFor
<1>11. ASSUME NEW r \in Requests, StopShort(r) PROVE InTime'
  BY <1>11, PayrollInv, Broken, FreeIs, <1>i DEF Order, InTime, InTimeFor
<1>12. CASE UNCHANGED payrollVars
  BY <1>12, <1>i DEF payrollVars, Order, InTime, InTimeFor
<1> QED
  BY <1>1, <1>2, <1>3, <1>4, <1>5, <1>6, <1>7, <1>8, <1>9, <1>10, <1>11, <1>12 DEF PayrollNext

\* Approved payrolls stay so.
LEMMA TakenKept ==
    ASSUME PayrollInv, [PayrollNext]_payrollVars, NEW a \in Advances, Taken(a) # {}
    PROVE  Taken(a)' # {}
<1>1. PICK p \in Periods : pay[p].status = "APPROVED" /\ a \in pay[p].counted
  BY DEF Taken
<1>2. ASSUME NEW r \in Requests, SaveDraft(r) PROVE pay'[p] = pay[p]
  BY <1>1, <1>2, PayrollInv, DraftPlaced
<1>3. ASSUME NEW r \in Requests, ApprovePeriod(r)
      PROVE  pay'[p].status = "APPROVED" /\ pay'[p].counted = pay[p].counted
  BY <1>1, <1>3, PayrollInv, PeriodApproved
<1>4. pay'[p].status = "APPROVED" /\ pay'[p].counted = pay[p].counted
  BY <1>1, <1>2, <1>3
     DEF PayrollNext, payrollVars, Ask, ReadAdvance, SaveAdvance, CalculatePeriod, Look,
         ReadPeriod,
     MarkDeducted, Finalize, StopShort, ghosts
<1> QED
  BY <1>1, <1>4 DEF Taken

\* What is marked was taken from a salary.
LEMMA AccountedStep == ASSUME PayrollInv, [PayrollNext]_payrollVars, orderly' PROVE Accounted'
<1>i. PayrollTypeOK /\ Shape /\ Owned /\ Uncontested /\ orderly /\ Order
  BY OrderKept DEF PayrollInv
<1>1. ASSUME NEW a \in Advances, NEW e \in Employees, Ask(a, e) PROVE Accounted'
  BY <1>1, PayrollInv, AskedFor, <1>i, TakenKept DEF Order, Accounted
<1>2. ASSUME NEW r \in Requests, NEW a \in Advances, NEW pc \in {"approve", "reject", "pay"},
             ReadAdvance(r, a, pc) PROVE Accounted'
  BY <1>2, PayrollInv, AdvanceRead, <1>i, TakenKept DEF Order, Accounted
<1>3. ASSUME NEW r \in Requests, SaveAdvance(r) PROVE Accounted'
  <2>1. /\ contested' = contested /\ late \subseteq late'
        /\ adv'[job[r].a] # "DEDUCTED" /\ \A a \in Advances : a # job[r].a => adv'[a] = adv[a]
    BY <1>3, PayrollInv, AdvanceSaved DEF AtAdvance
  <2> QED
    BY <2>1, <1>i, TakenKept DEF Order, Accounted
<1>4. ASSUME NEW r \in Requests, NEW m \in Months, CalculatePeriod(r, m) PROVE Accounted'
  BY <1>4, PayrollInv, PeriodBegun, <1>i, TakenKept DEF Order, Accounted
<1>5. ASSUME NEW r \in Requests, NEW e \in Employees, Look(r, e) PROVE Accounted'
  BY <1>5, PayrollInv, AdvancesSeen, <1>i, TakenKept DEF Order, Accounted
<1>6. ASSUME NEW r \in Requests, SaveDraft(r) PROVE Accounted'
  BY <1>6, PayrollInv, DraftSaved, <1>i, TakenKept DEF Order, Accounted
<1>7. ASSUME NEW r \in Requests, NEW m \in Months, ReadPeriod(r, m) PROVE Accounted'
  BY <1>7, PayrollInv, PeriodRead, <1>i, TakenKept DEF Order, Accounted
<1>8. ASSUME NEW r \in Requests, ApprovePeriod(r) PROVE Accounted'
  BY <1>8, PayrollInv, PeriodApproved, <1>i, TakenKept DEF Order, Accounted
<1>9. ASSUME NEW r \in Requests, NEW e \in Employees, MarkDeducted(r, e) PROVE Accounted'
  <2>1. /\ job[r].pc = "mark" /\ e \in job[r].todo /\ job[r].month \in Months
        /\ pay' = pay /\ contested' = contested /\ late' = late
        /\ \A a \in Advances :
             adv'[a] = IF owner[a] = e /\ adv[a] = "APPROVED" THEN "DEDUCTED" ELSE adv[a]
    BY <1>9, PayrollInv, Deducted
  <2>2. ASSUME NEW a \in Advances \ (contested \cup late), owner[a] = e, adv[a] = "APPROVED"
        PROVE  Taken(a) # {}
    <3> DEFINE p == <<e, job[r].month>>
    <3>1. p \in Periods /\ p[1] = e /\ p[2] = job[r].month
      BY <2>1, Pairs
    <3>2. pay[p].status = "APPROVED"
      BY <2>1, <1>i DEF Order, Listed, Shape
    <3> HIDE DEF p
    <3>3. a \in pay[p].counted
      BY <2>1, <2>2, <3>1, <1>i DEF Order, InTime, InTimeFor
    <3> QED
      BY <3>1, <3>2, <3>3 DEF Taken
  <2> QED
    BY <2>1, <2>2, <1>i, TakenKept DEF Order, Accounted
<1>10. ASSUME NEW r \in Requests, Finalize(r) PROVE Accounted'
  BY <1>10, PayrollInv, LedgerTold, <1>i, TakenKept DEF Order, Accounted
<1>11. ASSUME NEW r \in Requests, StopShort(r) PROVE Accounted'
  BY <1>11, PayrollInv, Broken, <1>i, TakenKept DEF Order, Accounted
<1>12. CASE UNCHANGED payrollVars
  BY <1>12, <1>i, TakenKept DEF payrollVars, Order, Accounted
<1> QED
  BY <1>1, <1>2, <1>3, <1>4, <1>5, <1>6, <1>7, <1>8, <1>9, <1>10, <1>11, <1>12 DEF PayrollNext

\* The invariant holds at first ...
LEMMA PayrollInvInit == ASSUME PayrollAssumption, PayrollInit PROVE PayrollInv
<1>1. PayrollTypeOK
  BY PayrollJobs
     DEF PayrollAssumption, PayrollInit, PayrollTypeOK, AdvanceStatus, Entry, Absent, Periods
<1>2. Shape /\ Owned /\ Uncontested
  BY FreeIs
     DEF PayrollAssumption, PayrollInit, Absent, Shape, Owned, Uncontested, AtAdvance, AtPayroll
<1>3. Solo /\ OneMonth /\ Listed
  BY FreeIs DEF PayrollInit, Absent, Solo, OneMonth, Listed, AtPayroll
<1>4. Told /\ CountedOnce /\ Spent
  BY FreeIs DEF PayrollInit, Absent, Told, CountedOnce, Spent
<1>5. InTime /\ Accounted
  BY DEF PayrollInit, InTime, Accounted
<1> QED
  BY <1>1, <1>2, <1>3, <1>4, <1>5 DEF PayrollInv, Order

\* ... each step keeps it ...
LEMMA PayrollInvStep == ASSUME PayrollInv, [PayrollNext]_payrollVars PROVE PayrollInv'
<1>1. PayrollAssumption'
  BY DEF PayrollInv, PayrollAssumption
<1>2. PayrollTypeOK' /\ Shape' /\ Owned' /\ Uncontested'
  BY PayrollTypeStep, ShapeStep, OwnedStep, UncontestedStep
<1>3. orderly' => Order'
  BY SoloStep, OneMonthStep, ListedStep, CountedStep, SpentStep, InTimeStep, AccountedStep
     DEF Order
<1> QED
  BY <1>1, <1>2, <1>3 DEF PayrollInv

\* ... so it always holds.
LEMMA PayrollInvariance == PayrollSpec => []PayrollInv
<1>1. PayrollInit => PayrollInv
  BY PayrollAssumption, PayrollInvInit
<1>2. PayrollInv /\ [PayrollNext]_payrollVars => PayrollInv'
  BY PayrollInvStep
<1> QED
  BY <1>1, <1>2, PTL DEF PayrollSpec

\* Every variable of Payroll has its type, whatever the requests do: an advance
\* never gets a status that its table does not know.
THEOREM PayrollTypeCorrect == PayrollSpec => []PayrollTypeOK
<1>1. PayrollInv => PayrollTypeOK
  BY DEF PayrollInv
<1> QED
  BY <1>1, PayrollInvariance, PTL

\* An advance that no two requests handled at a time is deducted from one
\* salary, of its own employee, and one that counts as deducted was, or was
\* approved when the payroll had looked: for any number of employees, advances,
\* months, requests and failures, as long as each period is approved in full
\* before the next is begun (calculatePeriod and approvePeriod).
THEOREM AdvanceTakenOnce == PayrollSpec => []TakenOnce
<1>1. PayrollInv => TakenOnce
  <2> SUFFICES ASSUME PayrollInv, orderly, NEW a \in Advances \ contested
               PROVE  /\ \A p, q \in Taken(a) : p = q /\ p[1] = owner[a]
                      /\ adv[a] = "DEDUCTED" => a \in late \/ Taken(a) # {}
    BY DEF TakenOnce
  <2>1. \A p, q \in Taken(a) : p = q /\ p[1] = owner[a]
    BY DEF PayrollInv, Order, CountedOnce, Owned, Taken
  <2>2. adv[a] = "DEDUCTED" => a \in late \/ Taken(a) # {}
    BY DEF PayrollInv, Order, Accounted
  <2> QED
    BY <2>1, <2>2
<1> QED
  BY <1>1, PayrollInvariance, PTL

\* The ledger is told of approved payrolls only, and once of each, also when a
\* month is calculated or approved again, under the same condition
\* (hr.payroll.finalized).
THEOREM LedgerToldOnce == PayrollSpec => []ToldOnce
<1>1. PayrollInv => ToldOnce
  BY DEF PayrollInv, Order, Told, ToldOnce
<1> QED
  BY <1>1, PayrollInvariance, PTL
=============================================================================
