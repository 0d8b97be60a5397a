------------------------ MODULE WebhookOutboxProofs ------------------------
(***************************************************************************)
(* What the outbox promises for every number of events, subscriptions and  *)
(* replicas, every retry limit and every number of faults.                 *)
(***************************************************************************)
EXTENDS WebhookOutbox, FiniteSetTheorems, TLAPS

\* The number of stored rows, the birth of the next one, is a number.
LEMMA StoredCount == ASSUME TypeOK PROVE Cardinality(Stored) \in Nat
  BY ConstantsAssumption, FS_Subset, FS_CardinalityType DEF Stored

\* The identity of a new event belongs to no stored row.
LEMMA FreshEvent ==
  ASSUME NEW e, NEW t \in Topics, Enqueue(e, t)
  PROVE  e \in Events /\ row[e].status = "none"
<1>1. \E x \in Events \ Stored : TRUE
  BY DEF Enqueue, Stored
<1>2. Fresh(Events \ Stored) \in Events \ Stored
  BY <1>1 DEF Fresh
<1> QED
  BY <1>2 DEF Enqueue, Stored

\* What a replica's move does to the copies.
LEMMA SetJobEffect ==
  ASSUME job \in [Instances -> [Events -> Job]], NEW i \in Instances, NEW e \in Events,
         NEW j, SetJob(i, e, j)
  PROVE  /\ \A x \in Instances, y \in Events :
               job'[x][y] = IF x = i /\ y = e THEN j ELSE job[x][y]
         /\ j \in Job => job' \in [Instances -> [Events -> Job]]
  BY DEF SetJob

\* A copy in any phase is well formed.
LEMMA AtIsJob ==
  ASSUME NEW p \in Phases, NEW n \in Nat, NEW todo \in SUBSET Subs, NEW ok \in BOOLEAN
  PROVE  At(p, n, todo, ok) \in Job
  BY DEF At, Job

\* So is the absence of one.
LEMMA NoJobIsJob == NoJob \in Job
  BY AtIsJob DEF NoJob, Phases

\* A row that counted an attempt is well formed.
LEMMA CountedIsRow ==
  ASSUME NEW r \in Row, NEW status \in Statuses, NEW due \in BOOLEAN
  PROVE  Counted(r, status, due) \in Row
  BY DEF Counted, Row

\* Every reachable state is well formed.
LEMMA TypeStep == ASSUME TypeOK, [Next]_vars PROVE TypeOK'
<1>1. ASSUME NEW e \in Events, NEW t \in Topics, Enqueue(e, t) PROVE TypeOK'
  <2>1. row' \in [Events -> Row]
    <3>1. [status |-> "pending", attempts |-> 0, due |-> TRUE,
           born |-> Cardinality(Stored), topic |-> t] \in Row
      BY StoredCount DEF Row, Statuses
    <3> QED BY <1>1, <3>1 DEF Enqueue, TypeOK
  <2> QED BY <1>1, <2>1 DEF Enqueue, TypeOK
<1>2. ASSUME NEW s \in Subs, NEW f \in Filters, CreateSubscription(s, f) PROVE TypeOK'
  <2>1. sub' \in [Subs -> Sub]
    <3>1. [state |-> "active", topics |-> f] \in Sub
      BY ConstantsAssumption DEF Sub
    <3>2. sub' = [sub EXCEPT ![s] = [state |-> "active", topics |-> f]]
      BY <1>2 DEF CreateSubscription
    <3> QED BY <3>1, <3>2 DEF TypeOK
  <2> QED BY <1>2, <2>1 DEF CreateSubscription, TypeOK
<1>3. ASSUME NEW s \in Subs, DeactivateSubscription(s) PROVE TypeOK'
  <2>1. sub' \in [Subs -> Sub]
    <3>1. [sub[s] EXCEPT !.state = "inactive"] \in Sub
      BY DEF TypeOK, Sub
    <3> QED BY <1>3, <3>1 DEF DeactivateSubscription, TypeOK
  <2> QED BY <1>3, <2>1 DEF DeactivateSubscription, TypeOK
<1>4. ASSUME NEW i \in Instances, ClaimPendingEvents(i) PROVE TypeOK'
  <2>1. \A e \in Events : At("lookup", row[e].attempts, {}, FALSE) \in Job
    BY AtIsJob DEF TypeOK, Row, Phases
  <2>2. PICK f \in [Events -> Job] : job' = [job EXCEPT ![i] = f]
    <3>1. PICK batch : job' = [job EXCEPT ![i] =
                         [e \in Events |->
                            IF e \in batch THEN At("lookup", row[e].attempts, {}, FALSE)
                                           ELSE NoJob]]
      BY <1>4 DEF ClaimPendingEvents
    <3>2. [e \in Events |-> IF e \in batch THEN At("lookup", row[e].attempts, {}, FALSE)
                                          ELSE NoJob] \in [Events -> Job]
      BY <2>1, NoJobIsJob
    <3> QED BY <3>1, <3>2
  <2>3. shared' \subseteq Events
    BY <1>4 DEF ClaimPendingEvents, TypeOK, HeldByOthers
  <2>4. job' \in [Instances -> [Events -> Job]]
    BY <2>2 DEF TypeOK
  <2> QED BY <1>4, <2>3, <2>4 DEF ClaimPendingEvents, TypeOK
<1>5. ASSUME NEW i \in Instances, NEW e \in Events, Lookup(i, e) PROVE TypeOK'
  <2>1. job[i][e].seen \in Nat /\ Matching(e) \in SUBSET Subs
    BY DEF TypeOK, Job, Matching
  <2>2. PICK j \in Job : SetJob(i, e, j)
    BY <1>5, <2>1, AtIsJob DEF Lookup, Phases
  <2>3. job' \in [Instances -> [Events -> Job]]
    BY <2>2, SetJobEffect DEF TypeOK
  <2>4. noAudience' \subseteq Events
    BY <1>5 DEF Lookup, TypeOK
  <2> QED BY <1>5, <2>3, <2>4 DEF Lookup, TypeOK
<1>6. ASSUME NEW i \in Instances, NEW e \in Events, NEW s \in Subs, NEW a \in BOOLEAN,
             Deliver(i, e, s, a)
      PROVE  TypeOK'
  <2>1. PICK j \in Job : SetJob(i, e, j)
    <3> DEFINE todo == job[i][e].todo \ {s}
               ok   == job[i][e].ok \/ a
    <3>1. job[i][e].seen \in Nat /\ todo \in SUBSET Subs
      BY DEF TypeOK, Job
    <3>2. PhaseAfter(todo, ok) \in Phases /\ ok \in BOOLEAN
      BY DEF PhaseAfter, Phases
    <3>3. SetJob(i, e, At(PhaseAfter(todo, ok), job[i][e].seen, todo, ok))
      BY <1>6 DEF Deliver
    <3> HIDE DEF todo, ok
    <3> QED BY <3>1, <3>2, <3>3, AtIsJob
  <2>2. accepted' \in [Events -> SUBSET Subs]
    BY <1>6 DEF Deliver, TypeOK
  <2> QED BY <1>6, <2>1, <2>2, SetJobEffect DEF Deliver, TypeOK
<1>7. ASSUME NEW i \in Instances, NEW e \in Events, MarkSent(i, e) PROVE TypeOK'
  <2>1. row' \in [Events -> Row]
    <3>1. row[e] \in Row /\ row[e].due \in BOOLEAN
      BY DEF TypeOK, Row
    <3>2. Counted(row[e], "sent", row[e].due) \in Row
      BY <3>1, CountedIsRow DEF Statuses
    <3> QED BY <1>7, <3>2 DEF MarkSent, TypeOK
  <2> QED BY <1>7, <2>1, SetJobEffect, NoJobIsJob DEF MarkSent, TypeOK
<1>8. ASSUME NEW i \in Instances, NEW e \in Events, MarkFailed(i, e) PROVE TypeOK'
  <2>1. row' \in [Events -> Row]
    <3> DEFINE status == StatusAfterFailure(job[i][e].seen + 1)
               due    == row[e].due /\ status = "dead"
    <3>1. row[e] \in Row /\ status \in Statuses /\ due \in BOOLEAN
      BY DEF TypeOK, StatusAfterFailure, Statuses
    <3>2. Counted(row[e], status, due) \in Row
      BY <3>1, CountedIsRow
    <3> QED BY <1>8, <3>2 DEF MarkFailed, TypeOK
  <2> QED BY <1>8, <2>1, SetJobEffect, NoJobIsJob DEF MarkFailed, TypeOK
<1>9. ASSUME NEW e \in Events, BecomeDue(e) PROVE TypeOK'
  <2>1. row' \in [Events -> Row]
    BY <1>9 DEF BecomeDue, TypeOK, Row
  <2> QED BY <1>9, <2>1 DEF BecomeDue, TypeOK
<1>10. ASSUME NEW i \in Instances, NEW e \in Events, QueryFails(i, e) PROVE TypeOK'
  BY <1>10, SetJobEffect, NoJobIsJob DEF QueryFails, TypeOK
<1>11. ASSUME NEW i \in Instances, Stop(i) PROVE TypeOK'
  BY <1>11, NoJobIsJob DEF Stop, TypeOK
<1>12. ASSUME NEW i \in Instances, Start(i) PROVE TypeOK'
  BY <1>12 DEF Start, TypeOK
<1>13. CASE UNCHANGED vars
  BY <1>13 DEF vars, TypeOK
<1> QED
  BY <1>1, <1>2, <1>3, <1>4, <1>5, <1>6, <1>7, <1>8, <1>9, <1>10, <1>11, <1>12, <1>13
  DEF Next

\* Type correctness of the outbox.
THEOREM TypeCorrect == Spec => []TypeOK
<1>1. Init => TypeOK
  BY NoJobIsJob DEF Init, TypeOK, Row, Sub, Statuses
<1> QED BY <1>1, TypeStep, PTL DEF Spec

-----------------------------------------------------------------------------
(* The inductive invariant.  Each conjunct speaks of one event, so a step   *)
(* that moves one copy is checked at that event and is idle at the others.  *)

Promise(e) ==
    /\ \A i \in Instances : Holds(i, e) =>
         /\ row[e].status # "none"
         /\ job[i][e].seen <= row[e].attempts
         /\ job[i][e].ok => accepted[e] # {}
         /\ job[i][e].phase = "markSent" => accepted[e] # {} \/ e \in noAudience
         /\ e \notin shared => /\ row[e].status = "pending"
                               /\ job[i][e].seen = row[e].attempts
                               /\ \A j \in Instances : Holds(j, e) => j = i
    /\ row[e].status = "sent" => accepted[e] # {} \/ e \in noAudience
    /\ row[e].status = "dead" => row[e].attempts >= MaxAttempts
    /\ e \notin shared => /\ row[e].attempts <= MaxAttempts
                          /\ row[e].status = "pending" => row[e].attempts < MaxAttempts

\* The invariant, event by event.
LEMMA PromiseOfAll == IInv <=> TypeOK /\ \A e \in Events : Promise(e)
  BY DEF IInv, Promise, CopiesAgree, SentWasAccepted, RetryBudget

\* A step that changes nothing about e keeps what was promised about it.
LEMMA Untouched ==
  ASSUME NEW e \in Events, Promise(e), row'[e] = row[e],
         \A i \in Instances : job'[i][e] = job[i][e],
         accepted'[e] = accepted[e], e \in noAudience => e \in noAudience',
         e \in shared => e \in shared'
  PROVE  Promise(e)'
  BY DEF Promise, Holds

\* A new row has no copy: those of a row that did not exist cannot exist.
LEMMA EnqueueKeeps ==
  ASSUME IInv, NEW e \in Events, NEW t \in Topics, Enqueue(e, t), NEW x \in Events
  PROVE  Promise(x)'
<1>1. Promise(x) /\ TypeOK
  BY PromiseOfAll
<1>2. CASE x # e
  BY <1>1, <1>2, Untouched DEF Enqueue, TypeOK
<1>3. CASE x = e
  <2>1. row[e].status = "none"
    BY FreshEvent
  <2>2. \A i \in Instances : ~Holds(i, e)
    BY <1>1, <1>3, <2>1 DEF Promise
  <2>3. row'[e].status = "pending" /\ row'[e].attempts = 0
    BY <1>1 DEF Enqueue, TypeOK
  <2>4. \A i \in Instances : ~Holds(i, e)'
    BY <2>2 DEF Holds, Enqueue
  <2> QED
    BY <1>3, <2>3, <2>4, ConstantsAssumption DEF Promise
<1> QED BY <1>2, <1>3

\* A claim takes a fresh copy, and marks the event shared if another one exists.
LEMMA ClaimKeeps ==
  ASSUME IInv, NEW i \in Instances, ClaimPendingEvents(i), NEW x \in Events
  PROVE  Promise(x)'
<1>1. Promise(x) /\ TypeOK
  BY PromiseOfAll
<1>2. PICK batch \in SUBSET Claimable :
         /\ job' = [job EXCEPT ![i] = [e \in Events |->
                      IF e \in batch THEN At("lookup", row[e].attempts, {}, FALSE)
                                     ELSE NoJob]]
         /\ shared' = shared \cup (batch \cap HeldByOthers(i))
  BY DEF ClaimPendingEvents
<1>3. ~Holds(i, x)
  BY DEF ClaimPendingEvents, Held
<1>4. \A j \in Instances : j # i => job'[j][x] = job[j][x]
  BY <1>1, <1>2 DEF TypeOK
<1>5. row' = row /\ accepted' = accepted /\ noAudience' = noAudience
  BY DEF ClaimPendingEvents
<1>6. CASE x \notin batch
  <2>1. job'[i][x] = NoJob
    BY <1>1, <1>2, <1>6 DEF TypeOK
  <2>2. ~Holds(i, x)'
    BY <2>1 DEF Holds, NoJob, At
  <2>3. x \in shared => x \in shared'
    BY <1>2
  <2> QED BY <1>1, <1>3, <1>4, <1>5, <2>2, <2>3 DEF Promise, Holds
<1>7. CASE x \in batch
  <2>1. job'[i][x] = At("lookup", row[x].attempts, {}, FALSE)
    BY <1>1, <1>2, <1>7 DEF TypeOK
  <2>2. row[x].status = "pending" /\ row[x].attempts \in Nat
    BY <1>1, <1>7 DEF Claimable, TypeOK, Row
  <2>3. x \notin shared' => x \notin shared /\ \A j \in Instances : j # i => ~Holds(j, x)
    BY <1>2, <1>7 DEF HeldByOthers
  <2>4. /\ job'[i][x].seen = row[x].attempts /\ ~job'[i][x].ok
        /\ job'[i][x].phase = "lookup"
    BY <2>1 DEF At
  <2> QED BY <1>1, <1>4, <1>5, <2>2, <2>3, <2>4 DEF Promise, Holds
<1> QED BY <1>6, <1>7

\* The steps that move replica i's copy of e to a later phase.
LEMMA LookupKeeps ==
  ASSUME IInv, NEW i \in Instances, NEW e \in Events, Lookup(i, e), NEW x \in Events
  PROVE  Promise(x)'
<1>1. Promise(x) /\ Promise(e) /\ TypeOK
  BY PromiseOfAll
<1>2. PICK j : /\ SetJob(i, e, j) /\ j.seen = job[i][e].seen /\ ~j.ok
               /\ j.phase # "none"
               /\ j.phase = "markSent" => e \in noAudience'
  BY DEF Lookup, At
<1>3. \A y \in Instances : job'[y][x] = IF y = i /\ x = e THEN j ELSE job[y][x]
  BY <1>1, <1>2, SetJobEffect DEF TypeOK
<1>4. /\ row' = row /\ accepted' = accepted /\ shared' = shared
      /\ noAudience \subseteq noAudience'
  BY DEF Lookup
<1>5. CASE x # e
  BY <1>1, <1>3, <1>4, <1>5, Untouched
<1>6. CASE x = e
  <2>1. Holds(i, e) /\ \A y \in Instances : Holds(y, e)' <=> Holds(y, e)
    BY <1>2, <1>3, <1>6 DEF Holds, Lookup
  <2> QED BY <1>1, <1>2, <1>3, <1>4, <1>6, <2>1 DEF Promise
<1> QED BY <1>5, <1>6

\* A delivery turns `ok' on only together with the 2xx that justifies it.
LEMMA DeliverKeeps ==
  ASSUME IInv, NEW i \in Instances, NEW e \in Events, NEW s \in Subs, NEW a \in BOOLEAN,
         Deliver(i, e, s, a), NEW x \in Events
  PROVE  Promise(x)'
<1>1. Promise(x) /\ Promise(e) /\ TypeOK
  BY PromiseOfAll
<1>2. PICK j : /\ SetJob(i, e, j) /\ j.seen = job[i][e].seen
               /\ j.ok => job[i][e].ok \/ a
               /\ j.phase # "none"
               /\ j.phase = "markSent" => j.ok
  <2> DEFINE todo == job[i][e].todo \ {s}
             ok   == job[i][e].ok \/ a
             j    == At(PhaseAfter(todo, ok), job[i][e].seen, todo, ok)
  <2>1. SetJob(i, e, j)
    BY DEF Deliver
  <2>2. /\ j.seen = job[i][e].seen /\ j.ok = ok
        /\ j.phase = PhaseAfter(todo, ok)
    BY DEF At
  <2>3. PhaseAfter(todo, ok) # "none" /\ (PhaseAfter(todo, ok) = "markSent" => ok)
    BY DEF PhaseAfter
  <2> HIDE DEF j
  <2> QED BY <2>1, <2>2, <2>3
<1>3. \A y \in Instances : job'[y][x] = IF y = i /\ x = e THEN j ELSE job[y][x]
  BY <1>1, <1>2, SetJobEffect DEF TypeOK
<1>4. row' = row /\ noAudience' = noAudience /\ shared' = shared
  BY DEF Deliver
<1>5. CASE x # e
  <2>1. accepted'[x] = accepted[x]
    BY <1>1, <1>5 DEF Deliver, TypeOK
  <2> QED BY <1>1, <1>3, <1>4, <1>5, <2>1, Untouched
<1>6. CASE x = e
  <2>1. Holds(i, e) /\ \A y \in Instances : Holds(y, e)' <=> Holds(y, e)
    BY <1>2, <1>3, <1>6 DEF Holds, Deliver
  <2>2. (a => accepted'[e] # {}) /\ (accepted[e] # {} => accepted'[e] # {})
    BY <1>1 DEF Deliver, TypeOK
  <2>3. j.ok => accepted'[e] # {}
    BY <1>1, <1>2, <2>1, <2>2 DEF Promise
  <2> QED BY <1>1, <1>2, <1>3, <1>4, <1>6, <2>1, <2>2, <2>3 DEF Promise
<1> QED BY <1>5, <1>6

\* The steps that drop the copy.
LEMMA DropKeeps ==
  ASSUME IInv, NEW i \in Instances, NEW e \in Events, SetJob(i, e, NoJob),
         UNCHANGED <<row, accepted, noAudience, shared>>, NEW x \in Events
  PROVE  Promise(x)'
<1>1. Promise(x) /\ TypeOK
  BY PromiseOfAll
<1>2. \A y \in Instances : job'[y][x] = IF y = i /\ x = e THEN NoJob ELSE job[y][x]
  BY <1>1, SetJobEffect DEF TypeOK
<1>3. \A y \in Instances : Holds(y, x)' => Holds(y, x) /\ job'[y][x] = job[y][x]
  BY <1>2 DEF Holds, NoJob, At
<1>4. row' = row /\ accepted' = accepted /\ noAudience' = noAudience /\ shared' = shared
  OBVIOUS
<1>5. /\ row[x].status = "sent" => accepted[x] # {} \/ x \in noAudience
      /\ row[x].status = "dead" => row[x].attempts >= MaxAttempts
  BY <1>1 DEF Promise
<1> QED BY <1>1, <1>3, <1>4, <1>5 DEF Promise

\* The two UPDATEs: the copy decides, and an unshared copy is still current.
LEMMA MarkKeeps ==
  ASSUME IInv, NEW i \in Instances, NEW e \in Events, MarkSent(i, e) \/ MarkFailed(i, e),
         NEW x \in Events
  PROVE  Promise(x)'
<1>1. Promise(x) /\ Promise(e) /\ TypeOK
  BY PromiseOfAll
<1>2. PICK status, due :
        /\ row' = [row EXCEPT ![e] = Counted(row[e], status, due)]
        /\ \/ status = "sent" /\ job[i][e].phase = "markSent"
           \/ /\ status = StatusAfterFailure(job[i][e].seen + 1)
              /\ job[i][e].phase = "markFailed"
  BY DEF MarkSent, MarkFailed
<1>3. /\ SetJob(i, e, NoJob)
      /\ accepted' = accepted /\ noAudience' = noAudience /\ shared' = shared
  BY DEF MarkSent, MarkFailed
<1>4. \A y \in Instances : job'[y][x] = IF y = i /\ x = e THEN NoJob ELSE job[y][x]
  BY <1>1, <1>3, SetJobEffect DEF TypeOK
<1>5. CASE x # e
  <2>1. row'[x] = row[x]
    BY <1>1, <1>2, <1>5 DEF TypeOK
  <2> QED BY <1>1, <1>3, <1>4, <1>5, <2>1, Untouched
<1>6. CASE x = e
  <2>1. Holds(i, e)
    BY <1>2 DEF Holds
  <2>2. /\ row'[e].attempts = row[e].attempts + 1 /\ row'[e].status = status
        /\ row[e].attempts \in Nat /\ job[i][e].seen \in Nat
    BY <1>1, <1>2 DEF TypeOK, Counted, Row, Job
  <2>3. \A y \in Instances : Holds(y, e)' =>
          y # i /\ Holds(y, e) /\ job'[y][e] = job[y][e] /\ e \in shared
    <3> TAKE y \in Instances
    <3> HAVE Holds(y, e)'
    <3>1. y # i /\ job'[y][e] = job[y][e] /\ Holds(y, e)
      BY <1>4, <1>6 DEF Holds, NoJob, At
    <3> QED BY <1>1, <2>1, <3>1 DEF Promise
  <2>4. \A y \in Instances : job[y][e].seen \in Nat
    BY <1>1 DEF TypeOK, Job
  <2>5. status \in {"sent", "dead", "pending"}
    BY <1>2 DEF StatusAfterFailure
  <2>6. status = "sent" => accepted[e] # {} \/ e \in noAudience
    BY <1>1, <1>2, <2>1 DEF Promise, StatusAfterFailure
  <2>7. /\ status = "dead" => job[i][e].seen + 1 >= MaxAttempts
        /\ status = "pending" => job[i][e].seen + 1 < MaxAttempts
    BY <1>2, <2>2, ConstantsAssumption DEF StatusAfterFailure
  <2>8. /\ job[i][e].seen <= row[e].attempts
        /\ e \notin shared => job[i][e].seen = row[e].attempts /\ row[e].attempts < MaxAttempts
    BY <1>1, <2>1 DEF Promise
  <2>9. \A y \in Instances : Holds(y, e)' =>
         /\ row'[e].status # "none"
         /\ job'[y][e].seen <= row'[e].attempts
         /\ job'[y][e].ok => accepted'[e] # {}
         /\ job'[y][e].phase = "markSent" => accepted'[e] # {} \/ e \in noAudience'
         /\ e \in shared'
    BY <1>1, <1>3, <2>2, <2>3, <2>4, <2>5 DEF Promise
  <2>10. /\ row'[e].status = "sent" => accepted'[e] # {} \/ e \in noAudience'
         /\ row'[e].status = "dead" => row'[e].attempts >= MaxAttempts
         /\ e \notin shared' => /\ row'[e].attempts <= MaxAttempts
                                /\ row'[e].status = "pending" => row'[e].attempts < MaxAttempts
    BY <1>3, <2>2, <2>6, <2>7, <2>8, ConstantsAssumption
  <2> QED BY <1>6, <2>9, <2>10 DEF Promise
<1> QED BY <1>5, <1>6

\* Time does not touch what is promised.
LEMMA BecomeDueKeeps ==
  ASSUME IInv, NEW e \in Events, BecomeDue(e), NEW x \in Events
  PROVE  Promise(x)'
<1>1. Promise(x) /\ TypeOK
  BY PromiseOfAll
<1>2. row'[x].status = row[x].status /\ row'[x].attempts = row[x].attempts
  BY <1>1 DEF BecomeDue, TypeOK, Row
<1> QED BY <1>1, <1>2 DEF Promise, Holds, BecomeDue

\* A stop drops the copies of one replica.
LEMMA StopKeeps ==
  ASSUME IInv, NEW i \in Instances, Stop(i), NEW x \in Events
  PROVE  Promise(x)'
<1>1. Promise(x) /\ TypeOK
  BY PromiseOfAll
<1>2. \A y \in Instances : job'[y][x] = IF y = i THEN NoJob ELSE job[y][x]
  BY <1>1 DEF Stop, TypeOK
<1>3. \A y \in Instances : Holds(y, x)' => Holds(y, x) /\ job'[y][x] = job[y][x]
  BY <1>2 DEF Holds, NoJob, At
<1> QED BY <1>1, <1>3 DEF Promise, Stop

\* Every step keeps the inductive invariant.
LEMMA IInvStep == ASSUME IInv, [Next]_vars PROVE IInv'
<1>1. TypeOK'
  BY TypeStep DEF IInv
<1>2. ASSUME NEW x \in Events PROVE Promise(x)'
  <2>1. Promise(x)
    BY PromiseOfAll
  <2>2. CASE UNCHANGED <<row, job, accepted, noAudience, shared>>
    BY <2>1, <2>2, Untouched
  <2>3. CASE \E e \in Events, t \in Topics : Enqueue(e, t)
    BY <2>3, EnqueueKeeps
  <2>4. CASE \E i \in Instances : ClaimPendingEvents(i)
    BY <2>4, ClaimKeeps
  <2>5. CASE \E i \in Instances, e \in Events : Lookup(i, e)
    BY <2>5, LookupKeeps
  <2>6. CASE \E i \in Instances, e \in Events, s \in Subs, a \in BOOLEAN : Deliver(i, e, s, a)
    BY <2>6, DeliverKeeps
  <2>7. CASE \E i \in Instances, e \in Events : MarkSent(i, e) \/ MarkFailed(i, e)
    BY <2>7, MarkKeeps
  <2>8. CASE \E e \in Events : BecomeDue(e)
    BY <2>8, BecomeDueKeeps
  <2>9. CASE \E i \in Instances, e \in Events : QueryFails(i, e)
    BY <2>9, DropKeeps DEF QueryFails
  <2>10. CASE \E i \in Instances : Stop(i)
    BY <2>10, StopKeeps
  <2> QED
    BY <2>2, <2>3, <2>4, <2>5, <2>6, <2>7, <2>8, <2>9, <2>10
    DEF Next, vars, CreateSubscription, DeactivateSubscription, Start
<1> QED
  BY <1>1, <1>2 DEF IInv, Promise, CopiesAgree, SentWasAccepted, RetryBudget

\* The inductive invariant holds in every reachable state.
THEOREM InductiveInvariant == Spec => []IInv
<1>1. Init => IInv
  <2> SUFFICES ASSUME Init PROVE IInv
    OBVIOUS
  <2>1. TypeOK
    BY NoJobIsJob DEF Init, TypeOK, Row, Sub, Statuses
  <2>2. \A e \in Events, i \in Instances : ~Holds(i, e)
    BY DEF Init, Holds, NoJob, At
  <2>3. \A e \in Events : row[e].status = "none" /\ row[e].attempts = 0
    BY DEF Init
  <2> QED BY <2>1, <2>2, <2>3, ConstantsAssumption, PromiseOfAll DEF Promise
<1> QED BY <1>1, IInvStep, PTL DEF Spec

\* 'sent' always has its reason: a 2xx answer, or a lookup without subscribers.
THEOREM SentIsAccepted == Spec => []SentWasAccepted
  BY InductiveInvariant, PTL DEF IInv

\* Dead letters used up their attempts; an event that one replica at a time
\* worked on is never tried more than MaxAttempts times.
THEOREM BudgetKept == Spec => []RetryBudget
  BY InductiveInvariant, PTL DEF IInv

-----------------------------------------------------------------------------
(* The outbox implements Delivery.                                          *)

Status == [e \in Events |-> row[e].status]
Tries  == [e \in Events |-> row[e].attempts]

\* What Delivery sees of a step that changes no row.
LEMMA RowsStay ==
  ASSUME row' = row
  PROVE  Status' = Status /\ Tries' = Tries
  BY DEF Status, Tries

\* What Delivery sees of a step that changes one row.
LEMMA RowBecomes ==
  ASSUME TypeOK, NEW e \in Events, NEW r, row' = [row EXCEPT ![e] = r]
  PROVE  /\ Status' = [Status EXCEPT ![e] = r.status]
         /\ Tries' = [Tries EXCEPT ![e] = r.attempts]
<1>1. row' = [x \in Events |-> IF x = e THEN r ELSE row[x]]
  BY DEF TypeOK
<1>2. Status' = [x \in Events |-> IF x = e THEN r.status ELSE row[x].status]
  BY <1>1 DEF Status
<1>3. Tries' = [x \in Events |-> IF x = e THEN r.attempts ELSE row[x].attempts]
  BY <1>1 DEF Tries
<1> QED BY <1>2, <1>3 DEF Status, Tries

\* Who holds a copy may still work on its event.
LEMMA HeldIsOpen ==
  ASSUME IInv, NEW i \in Instances, NEW e \in Events, Holds(i, e)
  PROVE  Promised!Open(e)
<1>1. row[e].status # "none" /\ (e \notin shared => row[e].status = "pending")
  BY PromiseOfAll DEF Promise
<1> QED BY <1>1 DEF Promised!Open

\* A claim muddles the events that others have.
LEMMA ClaimIsMuddle ==
  ASSUME IInv, NEW i \in Instances, ClaimPendingEvents(i)
  PROVE  \E S \in SUBSET Events : Promised!Muddle(S)
<1>1. PICK batch \in SUBSET Claimable : shared' = shared \cup (batch \cap HeldByOthers(i))
  BY DEF ClaimPendingEvents
<1> DEFINE S == batch \cap HeldByOthers(i)
<1>2. S \in SUBSET Events /\ \A e \in S : Status[e] = "pending"
  BY DEF Claimable, HeldByOthers, Status
<1>3. Status' = Status /\ Tries' = Tries /\ accepted' = accepted /\ noAudience' = noAudience
  BY RowsStay DEF ClaimPendingEvents
<1>4. Promised!Muddle(S)
  BY <1>1, <1>2, <1>3 DEF Promised!Muddle, Status, Tries
<1> QED BY <1>2, <1>4

\* The two UPDATEs end an attempt, for the reason the copy has.
LEMMA MarkIsAttempt ==
  ASSUME IInv, NEW i \in Instances, NEW e \in Events, MarkSent(i, e) \/ MarkFailed(i, e)
  PROVE  Promised!Send(e) \/ Promised!Retry(e) \/ Promised!GiveUp(e)
<1>1. PICK status, due :
        /\ row' = [row EXCEPT ![e] = Counted(row[e], status, due)]
        /\ \/ status = "sent" /\ job[i][e].phase = "markSent"
           \/ /\ status = StatusAfterFailure(job[i][e].seen + 1)
              /\ job[i][e].phase = "markFailed"
  BY DEF MarkSent, MarkFailed
<1>2. TypeOK /\ Promise(e) /\ Holds(i, e)
  BY <1>1, PromiseOfAll DEF Holds
<1>3. accepted' = accepted /\ noAudience' = noAudience /\ shared' = shared
  BY DEF MarkSent, MarkFailed
<1>4. Counted(row[e], status, due).status = status /\ Counted(row[e], status, due).attempts = Tries[e] + 1
  BY DEF Counted, Tries
<1>5. Status' = [Status EXCEPT ![e] = status] /\ Tries' = [Tries EXCEPT ![e] = Tries[e] + 1]
  <2> DEFINE r == Counted(row[e], status, due)
  <2>1. row' = [row EXCEPT ![e] = r] /\ r.status = status /\ r.attempts = Tries[e] + 1
    BY <1>1, <1>4
  <2> HIDE DEF r
  <2> QED BY <1>2, <2>1, RowBecomes
<1>6. Promised!Attempt(e, status)
  BY <1>2, <1>3, <1>5, HeldIsOpen DEF Promised!Attempt, Status, Tries
<1>7. job[i][e].seen \in Nat /\ row[e].attempts \in Nat /\ Tries[e] = row[e].attempts
  BY <1>2 DEF TypeOK, Job, Row, Tries
<1>8. CASE status = "sent" /\ job[i][e].phase = "markSent"
  <2>1. Promised!Reason(e)
    BY <1>2, <1>8 DEF Promise, Promised!Reason
  <2> QED BY <1>6, <1>8, <2>1 DEF Promised!Send
<1>9. CASE status = StatusAfterFailure(job[i][e].seen + 1)
  <2>1. CASE job[i][e].seen + 1 >= MaxAttempts
    <3>1. status = "dead"
      BY <1>9, <2>1 DEF StatusAfterFailure
    <3>2. Tries[e] + 1 >= MaxAttempts
      BY <1>2, <1>7, <2>1, ConstantsAssumption DEF Promise
    <3> QED BY <1>6, <3>1, <3>2 DEF Promised!GiveUp, Tries
  <2>2. CASE ~(job[i][e].seen + 1 >= MaxAttempts)
    <3>1. status = "pending"
      BY <1>9, <2>2 DEF StatusAfterFailure
    <3>2. e \in shared \/ Tries[e] + 1 < MaxAttempts
      BY <1>2, <1>7, <2>2, ConstantsAssumption DEF Promise
    <3> QED BY <1>6, <3>1, <3>2 DEF Promised!Retry, Tries
  <2> QED BY <2>1, <2>2
<1> QED BY <1>1, <1>8, <1>9

\* Every step of the outbox is a step of Delivery, or none that it sees.
LEMMA DeliveryStep == ASSUME IInv, [Next]_vars PROVE [Promised!Next]_(Promised!offers)
<1>i. TypeOK
  BY DEF IInv
<1> DEFINE Unseen == /\ Status' = Status /\ Tries' = Tries /\ accepted' = accepted
                     /\ noAudience' = noAudience /\ shared' = shared
<1>u. ASSUME Unseen PROVE UNCHANGED Promised!offers
  BY <1>u DEF Promised!offers, Status, Tries
<1>1. ASSUME NEW e \in Events, NEW t \in Topics, Enqueue(e, t) PROVE Promised!Queue(e)
  <2> DEFINE new == [status |-> "pending", attempts |-> 0, due |-> TRUE,
                     born |-> Cardinality(Stored), topic |-> t]
  <2>1. row' = [row EXCEPT ![e] = new] /\ new.status = "pending" /\ new.attempts = 0
    BY <1>1 DEF Enqueue
  <2> HIDE DEF new
  <2>2. Status' = [Status EXCEPT ![e] = "pending"] /\ Tries' = [Tries EXCEPT ![e] = 0]
    BY <1>i, <2>1, RowBecomes
  <2>3. Status[e] = "none"
    BY <1>1, FreshEvent DEF Status
  <2> QED BY <1>1, <2>2, <2>3 DEF Enqueue, Promised!Queue, Status, Tries
<1>2. ASSUME NEW i \in Instances, ClaimPendingEvents(i)
      PROVE  \E S \in SUBSET Events : Promised!Muddle(S)
  BY <1>2, ClaimIsMuddle
<1>3. ASSUME NEW i \in Instances, NEW e \in Events, Lookup(i, e)
      PROVE  Unseen \/ Promised!FindNobody(e)
  <2>1. Holds(i, e) /\ row' = row /\ accepted' = accepted /\ shared' = shared
    BY <1>3 DEF Lookup, Holds
  <2>2. noAudience' = noAudience \/ noAudience' = noAudience \cup {e}
    BY <1>3 DEF Lookup
  <2>3. Status' = Status /\ Tries' = Tries
    BY <2>1, RowsStay
  <2>4. Promised!Open(e)
    BY <2>1, HeldIsOpen
  <2> QED BY <2>1, <2>2, <2>3, <2>4 DEF Promised!FindNobody, Status, Tries
<1>4. ASSUME NEW i \in Instances, NEW e \in Events, NEW s \in Subs, NEW a \in BOOLEAN,
             Deliver(i, e, s, a)
      PROVE  Unseen \/ Promised!Take(e, s)
  <2>1. Holds(i, e) /\ row' = row /\ noAudience' = noAudience /\ shared' = shared
    BY <1>4 DEF Deliver, Holds
  <2>2. accepted' = accepted \/ accepted' = [accepted EXCEPT ![e] = @ \cup {s}]
    BY <1>4 DEF Deliver
  <2>3. Status' = Status /\ Tries' = Tries
    BY <2>1, RowsStay
  <2>4. Promised!Open(e)
    BY <2>1, HeldIsOpen
  <2> QED BY <2>1, <2>2, <2>3, <2>4 DEF Promised!Take, Status, Tries
<1>5. ASSUME NEW i \in Instances, NEW e \in Events, MarkSent(i, e) \/ MarkFailed(i, e)
      PROVE  Promised!Send(e) \/ Promised!Retry(e) \/ Promised!GiveUp(e)
  BY <1>5, MarkIsAttempt
<1>6. ASSUME NEW e \in Events, BecomeDue(e) PROVE Unseen
  <2>1. \A x \in Events : row'[x].status = row[x].status /\ row'[x].attempts = row[x].attempts
    BY <1>6, <1>i DEF BecomeDue, TypeOK, Row
  <2> QED BY <1>6, <2>1 DEF BecomeDue, Status, Tries
<1>7. CASE UNCHANGED <<row, accepted, noAudience, shared>>
  BY <1>7, RowsStay, <1>u
<1>8. \/ \E e \in Events, t \in Topics : Enqueue(e, t)
      \/ \E i \in Instances : ClaimPendingEvents(i)
      \/ \E i \in Instances, e \in Events : Lookup(i, e)
      \/ \E i \in Instances, e \in Events, s \in Subs, a \in BOOLEAN : Deliver(i, e, s, a)
      \/ \E i \in Instances, e \in Events : MarkSent(i, e) \/ MarkFailed(i, e)
      \/ \E e \in Events : BecomeDue(e)
      \/ UNCHANGED <<row, accepted, noAudience, shared>>
  BY DEF Next, vars, CreateSubscription, DeactivateSubscription, QueryFails, Stop, Start
<1> HIDE DEF Unseen
<1> QED BY <1>1, <1>2, <1>3, <1>4, <1>5, <1>6, <1>7, <1>8, <1>u DEF Promised!Next

\* The outbox, with any number of replicas that race, stop and lose queries,
\* does what Delivery promises: claims, deliveries and UPDATEs are its steps.
THEOREM ImplementsDelivery == Spec => IsDelivery
<1>1. Init => Promised!Init
  BY DEF Init, Promised!Init
<1>2. IInv /\ [Next]_vars => [Promised!Next]_(Promised!offers)
  BY DeliveryStep
<1> QED BY <1>1, <1>2, InductiveInvariant, PTL DEF Spec, IsDelivery, Promised!Spec

\* So an outcome is never overwritten while no two replicas share the event,
\* and nobody receives it again.
THEOREM OutcomesStay == Spec => Promised!OutcomeIsFinal
<1> DEFINE Final == \A e \in Events : Status[e] \in {"sent", "dead"} /\ e \notin shared' =>
                      Status'[e] = Status[e] /\ Tries'[e] = Tries[e] /\ accepted'[e] = accepted[e]
<1>1. ASSUME IInv, [Next]_vars PROVE Final
  <2> SUFFICES ASSUME NEW e \in Events, Status[e] \in {"sent", "dead"}, e \notin shared'
               PROVE  Status'[e] = Status[e] /\ Tries'[e] = Tries[e] /\ accepted'[e] = accepted[e]
    OBVIOUS
  <2>1. [Promised!Next]_(Promised!offers)
    BY <1>1, DeliveryStep
  <2>2. accepted \in [Events -> SUBSET Subs]
    BY <1>1 DEF IInv, TypeOK
  <2>3. ASSUME NEW x \in Events, Promised!Queue(x) PROVE Status[x] = "none"
    BY <2>3 DEF Promised!Queue, Status
  <2>4. ASSUME NEW x \in Events, shared' = shared, Promised!Open(x) PROVE x # e
    BY <2>4 DEF Promised!Open, Status
  <2>5. CASE \E S \in SUBSET Events : Promised!Muddle(S)
    BY <2>5 DEF Promised!Muddle, Status, Tries
  <2>6. CASE \E x \in Events : Promised!Queue(x)
    <3>1. PICK x \in Events : Promised!Queue(x)
      BY <2>6
    <3>2. x # e
      BY <2>3, <3>1
    <3>3. /\ Status' = [Status EXCEPT ![x] = "pending"]
          /\ Tries' = [Tries EXCEPT ![x] = 0]
          /\ accepted' = accepted
      BY <3>1 DEF Promised!Queue, Status, Tries
    <3> QED BY <3>2, <3>3 DEF Status, Tries
  <2>7. CASE \E x \in Events : Promised!FindNobody(x)
    BY <2>7 DEF Promised!FindNobody, Status, Tries
  <2>8. CASE \E x \in Events, outcome \in Statuses : Promised!Attempt(x, outcome)
    <3>1. PICK x \in Events, outcome \in Statuses : Promised!Attempt(x, outcome)
      BY <2>8
    <3>2. x # e
      BY <2>4, <3>1 DEF Promised!Attempt
    <3>3. /\ Status' = [Status EXCEPT ![x] = outcome]
          /\ Tries' = [Tries EXCEPT ![x] = Tries[x] + 1]
          /\ accepted' = accepted
      BY <3>1 DEF Promised!Attempt, Status, Tries
    <3> QED BY <3>2, <3>3 DEF Status, Tries
  <2>9. CASE \E x \in Events, r \in Subs : Promised!Take(x, r)
    <3>1. PICK x \in Events, r \in Subs : Promised!Take(x, r)
      BY <2>9
    <3>2. x # e
      BY <2>4, <3>1 DEF Promised!Take
    <3>3. Status' = Status /\ Tries' = Tries /\ accepted' = [accepted EXCEPT ![x] = @ \cup {r}]
      BY <3>1 DEF Promised!Take, Status, Tries
    <3> QED BY <2>2, <3>2, <3>3 DEF Status, Tries
  <2>10. CASE UNCHANGED Promised!offers
    BY <2>10 DEF Promised!offers, Status, Tries
  <2>11. ASSUME NEW x \in Events, Promised!Send(x) \/ Promised!Retry(x) \/ Promised!GiveUp(x)
         PROVE  \E outcome \in Statuses : Promised!Attempt(x, outcome)
    BY <2>11 DEF Promised!Send, Promised!Retry, Promised!GiveUp, Statuses
  <2> QED BY <2>1, <2>5, <2>6, <2>7, <2>8, <2>9, <2>10, <2>11 DEF Promised!Next
<1> QED
  BY <1>1, InductiveInvariant, PTL DEF Spec, Promised!OutcomeIsFinal, Promised!offers, Status, Tries

\* With a single replica no event is ever shared, so the promises above hold
\* of every event: the retry limit of retry.strategy.ts is kept.
THEOREM OneReplicaSharesNothing ==
  Spec => []((\A i, j \in Instances : i = j) => shared = {})
<1> DEFINE Inv == (\A i, j \in Instances : i = j) => shared = {}
<1>1. Init => Inv
  BY DEF Init
<1>2. ASSUME Inv, [Next]_vars PROVE Inv'
  <2> SUFFICES ASSUME \A i, j \in Instances : i = j, shared = {}
               PROVE  shared' = {}
    BY <1>2
  <2>1. ASSUME NEW i \in Instances, ClaimPendingEvents(i) PROVE shared' = {}
    <3>1. HeldByOthers(i) = {}
      BY DEF HeldByOthers
    <3> QED BY <2>1, <3>1 DEF ClaimPendingEvents
  <2>2. \/ shared' = shared
        \/ \E i \in Instances : ClaimPendingEvents(i)
    BY <1>2 DEF Next, vars, Enqueue, CreateSubscription, DeactivateSubscription, Lookup,
                Deliver, MarkSent, MarkFailed, BecomeDue, QueryFails, Stop, Start
  <2> QED BY <2>1, <2>2
<1> QED BY <1>1, <1>2, PTL DEF Spec
=============================================================================
