------------------------------ MODULE Session ------------------------------
(***************************************************************************)
(* What the refresh tokens of the auth service promise: a session is a     *)
(* chain of tokens of which at most one is alive.  A token is spent once;  *)
(* while its successor is being made the session has none; and a session   *)
(* that has ended, by logout, expiry or a failed refresh, stays ended.     *)
(* RefreshToken implements it with separate commands to Redis.             *)
(***************************************************************************)
CONSTANTS Sessions, Tokens

VARIABLES
    unopened,  \* sessions that have never had a token
    live,      \* the tokens of each session that a refresh would accept
    turning,   \* sessions whose token is spent and whose next is on its way
    issued     \* every token ever made

chain == <<unopened, live, turning, issued>>

Init ==
    /\ unopened = Sessions
    /\ live = [s \in Sessions |-> {}]
    /\ turning = {}
    /\ issued = {}

\* A login: the first token of a session.
Open(s, t) ==
    /\ s \in unopened /\ t \notin issued
    /\ unopened' = unopened \ {s}
    /\ live' = [live EXCEPT ![s] = {t}]
    /\ issued' = issued \cup {t}
    /\ UNCHANGED turning

\* A refresh takes the one token there is ...
Spend(s, t) ==
    /\ live[s] = {t} /\ s \notin turning
    /\ live' = [live EXCEPT ![s] = {}]
    /\ turning' = turning \cup {s}
    /\ UNCHANGED <<unopened, issued>>

\* ... and puts a new one in its place.
Renew(s, t) ==
    /\ s \in turning /\ t \notin issued
    /\ live' = [live EXCEPT ![s] = {t}]
    /\ turning' = turning \ {s}
    /\ issued' = issued \cup {t}
    /\ UNCHANGED unopened

\* A logout, an expiry, or a login or refresh that is broken off.
End(s) ==
    /\ live' = [live EXCEPT ![s] = {}]
    /\ turning' = turning \ {s}
    /\ unopened' = unopened \ {s}
    /\ UNCHANGED issued

Next == \E s \in Sessions : End(s) \/ \E t \in Tokens : Open(s, t) \/ Spend(s, t) \/ Renew(s, t)

Spec == Init /\ [][Next]_chain

\* At most one token of a session is alive, and none while it is renewed:
\* the single use that the comment on RefreshTokenStore promises.
OneLiveToken ==
    \A s \in Sessions :
        /\ \A t, u \in live[s] : t = u
        /\ s \in turning \cup unopened => live[s] = {}
=============================================================================
