---------------------------- MODULE RefreshToken ----------------------------
(***************************************************************************)
(* The refresh tokens of the auth service: login, refresh and logout, each *)
(* a sequence of single commands to Redis, interleaved with each other.    *)
(* Redis holds a key for each token, and for each session a set of its     *)
(* tokens that logout works through.                                       *)
(*                                                                         *)
(* A client may present a token twice, from two tabs or again after a      *)
(* timeout; any command may fail and any request break off; an account may *)
(* be deactivated at any time.  The ghosts quiet, torn and ended tell the  *)
(* logouts that no refresh of the session overlapped from the others, and  *)
(* late holds the sessions that got a token after their account was        *)
(* deactivated.                                                            *)
(***************************************************************************)
EXTENDS Naturals

CONSTANTS
    Users, Sessions, Tokens, Requests,
    None,       \* no user, no session, no token
    MaxFaults   \* bound: failed commands and requests broken off

ASSUME RefreshAssumption ==
    /\ None \notin Users \cup Sessions \cup Tokens
    /\ MaxFaults \in Nat

VARIABLES
    active,    \* users whose account is active
    owner,     \* the user who opened each session
    claim,     \* the session named in each token; None: not made yet
    keys,      \* rt:{tenant}:{hash}: tokens that Redis knows
    index,     \* session:{tenant}:{session}:refresh_tokens
    revoked,   \* revoked:{tenant}:{jti}: pairs whose access token is refused
    held,      \* pairs that were sent to a client
    req,       \* what each running request has in memory
    faults,    \* failures so far
    quiet,     \* ghost: logouts that no refresh has overlapped so far
    torn,      \* ghost: sessions of which a logout and a refresh overlapped
    ended,     \* ghost: sessions that a quiet logout has ended
    late       \* ghost: tokens made for an inactive user, <<session, token>>

vars == <<active, owner, claim, keys, index, revoked, held, req, faults,
          quiet, torn, ended, late>>
ghosts == <<quiet, torn, ended, late>>

Steps == {"idle", "login", "srem", "reload", "set", "add", "reply",
          "revoke", "members", "del"}
Request == [pc : Steps, session : Sessions \cup {None}, token : Tokens \cup {None},
            list : SUBSET Tokens]

Idle == [pc |-> "idle", session |-> None, token |-> None, list |-> {}]
At(pc, s, t, list) == [pc |-> pc, session |-> s, token |-> t, list |-> list]

Issued == {t \in Tokens : claim[t] # None}

Init ==
    /\ active = Users
    /\ owner = [s \in Sessions |-> None]
    /\ claim = [t \in Tokens |-> None]
    /\ keys = {}
    /\ index = [s \in Sessions |-> {}]
    /\ revoked = {}
    /\ held = {}
    /\ req = [r \in Requests |-> Idle]
    /\ faults = 0
    /\ quiet = {}
    /\ torn = {}
    /\ ended = {}
    /\ late = {}

Do(r, x) == req' = [req EXCEPT ![r] = x]

\* Requests that have a token of s spent, or its first under way.
Renewing(s) == {r \in Requests : req[r].pc \in {"srem", "reload", "set"} /\ req[r].session = s}
Opening(s)  == {r \in Requests : req[r].pc = "login" /\ req[r].session = s}
Adding(s)   == {r \in Requests : req[r].pc = "add" /\ req[r].session = s}
Leaving(s)  == {r \in Requests : req[r].pc = "del" /\ req[r].session = s}

-----------------------------------------------------------------------------
(* login, and save, which login and refresh share.                          *)

\* The password was right and the account active when LocalStrategy looked.
Login(r, u, s) ==
    /\ req[r].pc = "idle" /\ u \in active /\ owner[s] = None
    /\ owner' = [owner EXCEPT ![s] = u]
    /\ Do(r, At("login", s, None, {}))
    /\ UNCHANGED <<active, claim, keys, index, revoked, held, faults, ghosts>>

\* SET rt:... EX 7 days, of a pair made just before.
SaveKey(r, t) ==
    /\ req[r].pc \in {"login", "set"} /\ claim[t] = None
    /\ claim' = [claim EXCEPT ![t] = req[r].session]
    /\ keys' = keys \cup {t}
    /\ Do(r, At("add", req[r].session, t, {}))
    /\ late' = IF owner[req[r].session] \in active THEN late ELSE late \cup {<<req[r].session, t>>}
    /\ UNCHANGED <<active, owner, index, revoked, held, faults, quiet, torn, ended>>

\* SADD; the EXPIRE that follows it is part of the reply.
Added_WrongMember(s, t) == [index EXCEPT ![s] = @ \cup {s}]
Added(s, t) == [index EXCEPT ![s] = @ \cup {t}]

SaveIndex(r) ==
    /\ req[r].pc = "add"
    /\ index' = Added(req[r].session, req[r].token)
    /\ Do(r, At("reply", req[r].session, req[r].token, {}))
    /\ UNCHANGED <<active, owner, claim, keys, revoked, held, faults, ghosts>>

Reply(r) ==
    /\ req[r].pc = "reply"
    /\ held' = held \cup {req[r].token}
    /\ Do(r, Idle)
    /\ UNCHANGED <<active, owner, claim, keys, index, revoked, faults, ghosts>>

-----------------------------------------------------------------------------
(* refresh.                                                                 *)

\* The script that reads and deletes the key in one go.
Unkeyed_Kept(t) == keys
Unkeyed(t) == keys \ {t}

\* consumeAndValidate; without the key the answer is 401 and nothing changes.
Consume(r, t) ==
    /\ req[r].pc = "idle" /\ t \in held /\ t \in keys
    /\ keys' = Unkeyed(t)
    /\ Do(r, At("srem", claim[t], t, {}))
    /\ quiet' = quiet \ Leaving(claim[t])
    /\ UNCHANGED <<active, owner, claim, index, revoked, held, faults, torn, ended, late>>

Unlist(r) ==
    /\ req[r].pc = "srem"
    /\ index' = [index EXCEPT ![req[r].session] = @ \ {req[r].token}]
    /\ Do(r, At("reload", req[r].session, None, {}))
    /\ UNCHANGED <<active, owner, claim, keys, revoked, held, faults, ghosts>>

\* reloadUser; a deactivated account gets 401, its token is spent already.
MayRenew_Anyone(s) == TRUE
MayRenew(s) == owner[s] \in active

Reload(r) ==
    /\ req[r].pc = "reload"
    /\ Do(r, IF MayRenew(req[r].session) THEN At("set", req[r].session, None, {}) ELSE Idle)
    /\ UNCHANGED <<active, owner, claim, keys, index, revoked, held, faults, ghosts>>

-----------------------------------------------------------------------------
(* logout, with the access token of the pair t.                             *)

Logout(r, t) ==
    /\ req[r].pc = "idle" /\ t \in held \ revoked
    /\ Do(r, At("revoke", claim[t], t, {}))
    /\ UNCHANGED <<active, owner, claim, keys, index, revoked, held, faults, ghosts>>

\* Promise.all: when this SET fails the other half goes on all the same.
Revoke(r) ==
    /\ req[r].pc = "revoke"
    /\ \/ revoked' = revoked \cup {req[r].token} /\ UNCHANGED faults
       \/ faults < MaxFaults /\ faults' = faults + 1 /\ UNCHANGED revoked
    /\ Do(r, At("members", req[r].session, None, {}))
    /\ UNCHANGED <<active, owner, claim, keys, index, held, ghosts>>

\* SMEMBERS.
ListTokens(r) ==
    LET s == req[r].session IN
    /\ req[r].pc = "members"
    /\ Do(r, At("del", s, None, index[s]))
    /\ quiet' = IF Renewing(s) \cup Adding(s) = {} THEN quiet \cup {r} ELSE quiet
    /\ UNCHANGED <<active, owner, claim, keys, index, revoked, held, faults, torn, ended, late>>

\* DEL of the listed keys and of the set, if anything was listed.
Deleted_SetOnly(list) == keys
Deleted(list) == keys \ list

DeleteTokens(r) ==
    LET s == req[r].session IN
    /\ req[r].pc = "del"
    /\ keys' = Deleted(req[r].list)
    /\ index' = IF req[r].list = {} THEN index ELSE [index EXCEPT ![s] = {}]
    /\ Do(r, Idle)
    /\ quiet' = quiet \ {r}
    /\ ended' = IF r \in quiet THEN ended \cup {s} ELSE ended
    /\ torn' = IF r \in quiet THEN torn ELSE torn \cup {s}
    /\ UNCHANGED <<active, owner, claim, revoked, held, faults, late>>

-----------------------------------------------------------------------------
(* What happens around them.                                                *)

\* MembersService.deactivate; nothing activates an account again.
Deactivate(u) ==
    /\ u \in active
    /\ active' = active \ {u}
    /\ UNCHANGED <<owner, claim, keys, index, revoked, held, req, faults, ghosts>>

\* The seven days are over; the set keeps the hash until it expires itself.
Expire(t) ==
    /\ t \in keys
    /\ keys' = keys \ {t}
    /\ UNCHANGED <<active, owner, claim, index, revoked, held, req, faults, ghosts>>

\* A command fails, the database does not answer, or the process stops.
BreakOff(r) ==
    /\ req[r].pc # "idle" /\ faults < MaxFaults
    /\ faults' = faults + 1
    /\ Do(r, Idle)
    /\ quiet' = quiet \ {r}
    /\ UNCHANGED <<active, owner, claim, keys, index, revoked, held, torn, ended, late>>

Next ==
    \/ \E u \in Users : Deactivate(u)
    \/ \E t \in Tokens : Expire(t)
    \/ \E r \in Requests :
         \/ \E u \in Users, s \in Sessions : Login(r, u, s)
         \/ \E t \in Tokens : SaveKey(r, t) \/ Consume(r, t) \/ Logout(r, t)
         \/ SaveIndex(r) \/ Reply(r) \/ Unlist(r) \/ Reload(r)
         \/ Revoke(r) \/ ListTokens(r) \/ DeleteTokens(r) \/ BreakOff(r)

Spec == Init /\ [][Next]_vars

-----------------------------------------------------------------------------
(* Properties.                                                              *)

\* Every variable has its type.
TypeOK ==
    /\ active \subseteq Users
    /\ owner \in [Sessions -> Users \cup {None}]
    /\ claim \in [Tokens -> Sessions \cup {None}]
    /\ keys \subseteq Tokens
    /\ index \in [Sessions -> SUBSET Tokens]
    /\ revoked \subseteq Tokens
    /\ held \subseteq Tokens
    /\ req \in [Requests -> Request]
    /\ faults \in 0 .. MaxFaults
    /\ quiet \subseteq Requests
    /\ torn \subseteq Sessions
    /\ ended \subseteq Sessions
    /\ late \subseteq Sessions \X Tokens

\* The commands to Redis, however they interleave, make up a Session: a token
\* is accepted once, a session has at most one that would be, and one that has
\* none, with no refresh under way, never gets one again.
Live(s)  == {t \in keys : claim[t] = s}
Unopened == {s \in Sessions : owner[s] = None \/ Opening(s) # {}}
Turning  == {s \in Sessions : Renewing(s) # {}}

Chain == INSTANCE Session WITH
    unopened <- Unopened, live <- [s \in Sessions |-> Live(s)],
    turning <- Turning, issued <- Issued

IsSession == Chain!Spec

\* A logout that no refresh of its session overlapped is final: no token that
\* a client holds is accepted afterwards, and none is on its way.  Sessions of
\* which some logout was overlapped are left out: their set may have lost the
\* new token, so that the next logout does not find it either.
LogoutIsFinal ==
    \A s \in ended \ torn :
        Renewing(s) = {} /\ \A t \in Live(s) : t \notin held

\* Deactivating an account ends its sessions: each gets at most the one token
\* whose refresh or login had looked at the account before.
InactiveRunsOut ==
    \A x, y \in late : x[1] = y[1] => x[2] = y[2]
=============================================================================
