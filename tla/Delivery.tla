------------------------------ MODULE Delivery ------------------------------
(***************************************************************************)
(* What the webhook hub promises: an event is offered to receivers until   *)
(* one takes it or its attempts are used up.  It is sent only with a       *)
(* reason, given up only after the limit, and then it is over: the outcome *)
(* stays and no receiver hears of the event again.  Events that two        *)
(* replicas worked on at a time, the muddled ones, are promised less: they *)
(* may be settled twice, and tried too often.                              *)
(*                                                                         *)
(* WebhookOutbox implements it with rows, and copies of them.              *)
(***************************************************************************)
EXTENDS Naturals

CONSTANTS Events, Receivers, Limit

VARIABLES
    state,     \* "none", "pending", "sent" or "dead"
    tries,     \* the attempts that were counted
    took,      \* the receivers that answered 2xx
    unwanted,  \* events that nobody was found for
    muddled    \* events two replicas worked on at a time

offers == <<state, tries, took, unwanted, muddled>>

Init ==
    /\ state = [e \in Events |-> "none"]
    /\ tries = [e \in Events |-> 0]
    /\ took = [e \in Events |-> {}]
    /\ unwanted = {}
    /\ muddled = {}

\* An event that may still be worked on, and why it may count as sent.
Open(e)   == state[e] = "pending" \/ (e \in muddled /\ state[e] # "none")
Reason(e) == took[e] # {} \/ e \in unwanted

Queue(e) ==
    /\ state[e] = "none"
    /\ state' = [state EXCEPT ![e] = "pending"]
    /\ tries' = [tries EXCEPT ![e] = 0]
    /\ UNCHANGED <<took, unwanted, muddled>>

\* Some replica takes an event while another one has it.
Muddle(S) ==
    /\ \A e \in S : state[e] = "pending"
    /\ muddled' = muddled \cup S
    /\ UNCHANGED <<state, tries, took, unwanted>>

Take(e, r) ==
    /\ Open(e)
    /\ took' = [took EXCEPT ![e] = @ \cup {r}]
    /\ UNCHANGED <<state, tries, unwanted, muddled>>

FindNobody(e) ==
    /\ Open(e)
    /\ unwanted' = unwanted \cup {e}
    /\ UNCHANGED <<state, tries, took, muddled>>

\* An attempt ends, and is counted.
Attempt(e, outcome) ==
    /\ Open(e)
    /\ state' = [state EXCEPT ![e] = outcome]
    /\ tries' = [tries EXCEPT ![e] = @ + 1]
    /\ UNCHANGED <<took, unwanted, muddled>>

Send(e)   == Reason(e) /\ Attempt(e, "sent")
Retry(e)  == (e \in muddled \/ tries[e] + 1 < Limit) /\ Attempt(e, "pending")
GiveUp(e) == tries[e] + 1 >= Limit /\ Attempt(e, "dead")

Next ==
    \/ \E S \in SUBSET Events : Muddle(S)
    \/ \E e \in Events : \/ Queue(e) \/ FindNobody(e) \/ Send(e) \/ Retry(e) \/ GiveUp(e)
                         \/ \E r \in Receivers : Take(e, r)

Spec == Init /\ [][Next]_offers

\* The outcome of an event that one replica at a time worked on is final: no
\* late UPDATE takes it back to the queue or from one outcome to the other,
\* and nobody takes it any more.
OutcomeIsFinal ==
    [][\A e \in Events : state[e] \in {"sent", "dead"} /\ e \notin muddled' =>
         state'[e] = state[e] /\ tries'[e] = tries[e] /\ took'[e] = took[e]]_offers
=============================================================================
