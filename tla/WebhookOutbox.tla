--------------------------- MODULE WebhookOutbox ---------------------------
(***************************************************************************)
(* The webhook hub (apps/webhook-hub): an outbox table in the control      *)
(* plane, the polling processor that every replica of the service runs     *)
(* over it, the tenants' subscriptions, and the receivers' answers.        *)
(*                                                                         *)
(* The claim is one autocommitted SELECT ... FOR UPDATE SKIP LOCKED: the   *)
(* row locks are gone when it returns and the status is still 'pending',   *)
(* so a replica works on a private copy of the rows (job) that another     *)
(* replica may claim as well.  `shared' remembers the events that happened *)
(* to: what the outbox promises about the others is stated below.          *)
(***************************************************************************)
EXTENDS Naturals, FiniteSets

CONSTANTS
    Events,       \* identities of outbox_events rows
    Subs,         \* identities of webhook_subscriptions rows
    Instances,    \* replicas of the service
    Topics,       \* (tenant, event type) pairs
    Filters,      \* the sets of topics a subscription may ask for
    MaxAttempts,  \* MAX_ATTEMPTS of retry.strategy.ts (5 in the code)
    BatchSize,    \* BATCH_SIZE of outbox-processor.ts (50 in the code)
    MaxFaults     \* bound: stops of a replica and failed queries, together

ASSUME ConstantsAssumption ==
    /\ IsFiniteSet(Events)
    /\ MaxAttempts \in Nat \ {0}
    /\ BatchSize \in Nat \ {0}
    /\ MaxFaults \in Nat
    /\ Filters \subseteq SUBSET Topics

VARIABLES
    row,         \* outbox_events: status, attempts, due (next_attempt_at <= NOW()), birth
    sub,         \* webhook_subscriptions: state and topics
    up,          \* the replicas that run
    job,         \* job[i][e]: the copy of row e that replica i works on
    accepted,    \* accepted[e]: the subscribers that answered 2xx for e
    noAudience,  \* events some replica found no subscription for
    shared,      \* events two replicas held at the same time
    faults       \* stops and failed queries so far

vars == <<row, sub, up, job, accepted, noAudience, shared, faults>>

Statuses == {"none", "pending", "sent", "dead"}
Settled  == {"sent", "dead"}
Phases   == {"none", "lookup", "deliver", "markSent", "markFailed"}

Row == [status : Statuses, attempts : Nat, due : BOOLEAN, born : Nat, topic : Topics]
Sub == [state : {"none", "active", "inactive"}, topics : SUBSET Topics]
Job == [phase : Phases, seen : Nat, todo : SUBSET Subs, ok : BOOLEAN]

\* A copy: where it is, the attempts read with the claim, the deliveries still
\* to answer and whether one succeeded.
At(phase, seen, todo, ok) == [phase |-> phase, seen |-> seen, todo |-> todo, ok |-> ok]
NoJob == At("none", 0, {}, FALSE)

\* Replica i's copy of e becomes j.
SetJob(i, e, j) == job' = [job EXCEPT ![i][e] = j]

Stored      == {e \in Events : row[e].status # "none"}
Holds(i, e) == job[i][e].phase # "none"
Held(i)     == {e \in Events : Holds(i, e)}
HeldByOthers(i) == {e \in Events : \E j \in Instances \ {i} : Holds(j, e)}

Init ==
    /\ \E t \in Topics :
         row = [e \in Events |-> [status |-> "none", attempts |-> 0, due |-> FALSE,
                                  born |-> 0, topic |-> t]]
    /\ sub = [s \in Subs |-> [state |-> "none", topics |-> {}]]
    /\ up = Instances
    /\ job = [i \in Instances |-> [e \in Events |-> NoJob]]
    /\ accepted = [e \in Events |-> {}]
    /\ noAudience = {}
    /\ shared = {}
    /\ faults = 0

-----------------------------------------------------------------------------
(* The two HTTP interfaces.  The database picks the identity of a new row. *)

Fresh(unused) == CHOOSE x \in unused : TRUE

\* POST /internal/events: INSERT with the column defaults (pending, due now).
Enqueue(e, t) ==
    /\ Stored # Events
    /\ e = Fresh(Events \ Stored)
    /\ row' = [row EXCEPT ![e] = [status |-> "pending", attempts |-> 0, due |-> TRUE,
                                  born |-> Cardinality(Stored), topic |-> t]]
    /\ UNCHANGED <<sub, up, job, accepted, noAudience, shared, faults>>

\* POST /webhooks.
CreateSubscription(s, f) ==
    /\ \E x \in Subs : sub[x].state = "none"
    /\ s = Fresh({x \in Subs : sub[x].state = "none"})
    /\ sub' = [sub EXCEPT ![s] = [state |-> "active", topics |-> f]]
    /\ UNCHANGED <<row, up, job, accepted, noAudience, shared, faults>>

\* DELETE /webhooks/:id, a soft delete.
DeactivateSubscription(s) ==
    /\ sub[s].state = "active"
    /\ sub' = [sub EXCEPT ![s].state = "inactive"]
    /\ UNCHANGED <<row, up, job, accepted, noAudience, shared, faults>>

-----------------------------------------------------------------------------
(* The processor.                                                          *)

Claimable_AnyStatus == {e \in Stored : row[e].due}

Claimable == {e \in Events : row[e].status = "pending" /\ row[e].due}

\* ORDER BY created_at LIMIT batchSize, over the rows no lock hides.
OldestOf(S, B) ==
    /\ B \subseteq S
    /\ \A e \in B, d \in S \ B : row[e].born < row[d].born
    /\ \/ B = S /\ Cardinality(S) <= BatchSize
       \/ Cardinality(B) = BatchSize

\* A tick of replica i while its `processing' flag is down.  A row can be
\* locked, hence skipped, only by a statement another replica runs on it.
ClaimPendingEvents(i) ==
    /\ i \in up
    /\ Held(i) = {}
    /\ \E skipped \in SUBSET HeldByOthers(i) :
       \E batch \in SUBSET (Claimable \ skipped) :
         /\ batch # {}
         /\ OldestOf(Claimable \ skipped, batch)
         /\ job' = [job EXCEPT ![i] =
              [e \in Events |->
                 IF e \in batch
                   THEN At("lookup", row[e].attempts, {}, FALSE)
                   ELSE NoJob]]
         /\ shared' = shared \cup (batch \cap HeldByOthers(i))
    /\ UNCHANGED <<row, sub, up, accepted, noAudience, faults>>

Matching(e) == {s \in Subs : sub[s].state = "active" /\ row[e].topic \in sub[s].topics}

\* getMatchingSubscriptions: the set is read once, before the deliveries.
Lookup(i, e) ==
    /\ job[i][e].phase = "lookup"
    /\ IF Matching(e) = {}
         THEN /\ SetJob(i, e, At("markSent", job[i][e].seen, {}, FALSE))
              /\ noAudience' = noAudience \cup {e}
         ELSE /\ SetJob(i, e, At("deliver", job[i][e].seen, Matching(e), FALSE))
              /\ UNCHANGED noAudience
    /\ UNCHANGED <<row, sub, up, accepted, shared, faults>>

PhaseAfter_AnyAnswer(todo, ok) == IF todo # {} THEN "deliver" ELSE "markSent"

\* anySuccess, once every delivery has answered or timed out.
PhaseAfter(todo, ok) ==
    IF todo # {} THEN "deliver" ELSE IF ok THEN "markSent" ELSE "markFailed"

\* One of the parallel deliveries ends: 2xx (answer TRUE), or another status,
\* a connection error or the 10 s timeout, which the code does not tell apart.
Deliver(i, e, s, answer) ==
    LET todo == job[i][e].todo \ {s}
        ok   == job[i][e].ok \/ answer
    IN  /\ job[i][e].phase = "deliver"
        /\ s \in job[i][e].todo
        /\ SetJob(i, e, At(PhaseAfter(todo, ok), job[i][e].seen, todo, ok))
        /\ accepted' = IF answer THEN [accepted EXCEPT ![e] = @ \cup {s}] ELSE accepted
        /\ UNCHANGED <<row, sub, up, noAudience, shared, faults>>

\* Both UPDATEs count an attempt.
Counted(r, status, due) ==
    [status |-> status, attempts |-> r.attempts + 1, due |-> due,
     born |-> r.born, topic |-> r.topic]

\* UPDATE ... WHERE id = $1: whatever the row has become meanwhile.
MarkSent(i, e) ==
    /\ job[i][e].phase = "markSent"
    /\ row' = [row EXCEPT ![e] = Counted(row[e], "sent", row[e].due)]
    /\ SetJob(i, e, NoJob)
    /\ UNCHANGED <<sub, up, accepted, noAudience, shared, faults>>

StatusAfterFailure_OneMore(attempt) ==
    IF attempt > MaxAttempts THEN "dead" ELSE "pending"
StatusAfterFailure_Failed(attempt) ==
    IF attempt >= MaxAttempts THEN "failed" ELSE "pending"

\* nextAttemptAt: no next attempt once `attempt' reaches the maximum.
StatusAfterFailure(attempt) == IF attempt >= MaxAttempts THEN "dead" ELSE "pending"

\* The attempt counted is the copy's, the UPDATE increments the row's, and a
\* dead row keeps its next_attempt_at (COALESCE).
MarkFailed(i, e) ==
    LET status == StatusAfterFailure(job[i][e].seen + 1)
    IN  /\ job[i][e].phase = "markFailed"
        /\ row' = [row EXCEPT ![e] =
                     Counted(row[e], status, row[e].due /\ status = "dead")]
        /\ SetJob(i, e, NoJob)
        /\ UNCHANGED <<sub, up, accepted, noAudience, shared, faults>>

BecomeDue_NoDefaultDelay(e) ==
    /\ row[e].status = "pending" /\ ~row[e].due /\ row[e].attempts < 1
    /\ row' = [row EXCEPT ![e].due = TRUE]
    /\ UNCHANGED <<sub, up, job, accepted, noAudience, shared, faults>>

\* The backoff of row e elapses.
BecomeDue(e) ==
    /\ row[e].status = "pending" /\ ~row[e].due
    /\ row' = [row EXCEPT ![e].due = TRUE]
    /\ UNCHANGED <<sub, up, job, accepted, noAudience, shared, faults>>

\* A query of processEvent rejects: the catch logs it and the row stays as it is.
QueryFails(i, e) ==
    /\ job[i][e].phase \in {"lookup", "markSent", "markFailed"}
    /\ faults < MaxFaults
    /\ faults' = faults + 1
    /\ SetJob(i, e, NoJob)
    /\ UNCHANGED <<row, sub, up, accepted, noAudience, shared>>

\* SIGTERM closes the pool under the batch in flight; a crash does no less.
Stop(i) ==
    /\ i \in up
    /\ faults < MaxFaults
    /\ faults' = faults + 1
    /\ up' = up \ {i}
    /\ job' = [job EXCEPT ![i] = [e \in Events |-> NoJob]]
    /\ UNCHANGED <<row, sub, accepted, noAudience, shared>>

Start(i) ==
    /\ i \notin up
    /\ up' = up \cup {i}
    /\ UNCHANGED <<row, sub, job, accepted, noAudience, shared, faults>>

-----------------------------------------------------------------------------
Next ==
    \/ \E e \in Events, t \in Topics : Enqueue(e, t)
    \/ \E s \in Subs, f \in Filters : CreateSubscription(s, f)
    \/ \E s \in Subs : DeactivateSubscription(s)
    \/ \E i \in Instances : ClaimPendingEvents(i)
    \/ \E i \in Instances, e \in Events : Lookup(i, e)
    \/ \E i \in Instances, e \in Events, s \in Subs, a \in BOOLEAN : Deliver(i, e, s, a)
    \/ \E i \in Instances, e \in Events : MarkSent(i, e)
    \/ \E i \in Instances, e \in Events : MarkFailed(i, e)
    \/ \E e \in Events : BecomeDue(e)
    \/ \E i \in Instances, e \in Events : QueryFails(i, e)
    \/ \E i \in Instances : Stop(i)
    \/ \E i \in Instances : Start(i)

Spec == Init /\ [][Next]_vars

\* The timer of a running replica fires, a delivery answers or times out, a
\* query returns, time passes, and the orchestrator restarts a stopped replica.
Fairness ==
    /\ \A i \in Instances :
         /\ WF_vars(ClaimPendingEvents(i))
         /\ WF_vars(Start(i))
         /\ \A e \in Events :
              /\ WF_vars(Lookup(i, e))
              /\ WF_vars(\E s \in Subs, a \in BOOLEAN : Deliver(i, e, s, a))
              /\ WF_vars(MarkSent(i, e))
              /\ WF_vars(MarkFailed(i, e))
    /\ \A e \in Events : WF_vars(BecomeDue(e))

FairSpec == Spec /\ Fairness

-----------------------------------------------------------------------------
(* Properties.                                                             *)

\* The shape of the state.
TypeOK ==
    /\ row \in [Events -> Row]
    /\ sub \in [Subs -> Sub]
    /\ up \subseteq Instances
    /\ job \in [Instances -> [Events -> Job]]
    /\ accepted \in [Events -> SUBSET Subs]
    /\ noAudience \subseteq Events
    /\ shared \subseteq Events
    /\ faults \in Nat

\* An event is 'sent' only if a subscriber took it or nobody asked for it,
\* whatever replicas raced on it, stopped or lost a query.
SentWasAccepted ==
    \A e \in Events : row[e].status = "sent" => accepted[e] # {} \/ e \in noAudience

\* The retry budget: a dead letter used all its attempts, and an event that
\* one replica at a time worked on is never tried more often than that, nor
\* left waiting for an attempt that would exceed it.
RetryBudget ==
    \A e \in Events :
      /\ row[e].status = "dead" => row[e].attempts >= MaxAttempts
      /\ e \notin shared => /\ row[e].attempts <= MaxAttempts
                            /\ row[e].status = "pending" => row[e].attempts < MaxAttempts

\* What the budget rests on: a copy belongs to a stored row and never counts
\* more attempts than it, a copy that will mark 'sent' has its reason, and an
\* event nobody shared has one copy, of a pending row as it still stands.
CopiesAgree ==
    \A e \in Events, i \in Instances : Holds(i, e) =>
      /\ row[e].status # "none"
      /\ job[i][e].seen <= row[e].attempts
      /\ job[i][e].ok => accepted[e] # {}
      /\ job[i][e].phase = "markSent" => accepted[e] # {} \/ e \in noAudience
      /\ e \notin shared => /\ row[e].status = "pending"
                            /\ job[i][e].seen = row[e].attempts
                            /\ \A j \in Instances : Holds(j, e) => j = i

IInv == TypeOK /\ CopiesAgree /\ SentWasAccepted /\ RetryBudget

\* The replicas, however they interleave, stop and lose queries, deliver as
\* Delivery says: an event is sent with a reason, dead after its attempts, and
\* then over, as long as one replica at a time worked on it.
Promised == INSTANCE Delivery WITH
    Receivers <- Subs, Limit <- MaxAttempts,
    state <- [e \in Events |-> row[e].status], tries <- [e \in Events |-> row[e].attempts],
    took <- accepted, unwanted <- noAudience, muddled <- shared

IsDelivery == Promised!Spec

\* Every queued event ends as sent or dead, through stops, failed queries,
\* unreachable receivers and replicas that race.
EventuallySettled ==
    \A e \in Events : row[e].status = "pending" ~> row[e].status \in Settled
=============================================================================
