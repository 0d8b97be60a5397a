------------------------- MODULE RefreshTokenProofs -------------------------
(***************************************************************************)
(* Proofs about RefreshToken, for any number of users, sessions, tokens    *)
(* and requests: its type invariant, that it implements Session, that a    *)
(* logout no refresh overlapped is final, and that the sessions of a       *)
(* deactivated account run out.                                            *)
(***************************************************************************)
EXTENDS RefreshToken, TLAPS

\* Requests between a password or a spent token and the key of the next one.
Making == {r \in Requests : req[r].pc \in {"login", "srem", "reload", "set"}}

\* Tokens that a client has, or is about to be sent.
Sent(t) == t \in held \/ \E r \in Requests : req[r].pc = "reply" /\ req[r].token = t

Untouched(s) == Renewing(s) = {} /\ Adding(s) = {}

\* What the memory of a request at each step is worth.
Memory ==
    \A r \in Requests :
        /\ req[r].pc # "idle" => req[r].session \in Sessions /\ owner[req[r].session] # None
        /\ req[r].pc \in {"srem", "add", "reply", "revoke"} =>
             req[r].token \in Tokens /\ claim[req[r].token] = req[r].session
        /\ req[r].pc = "login" => \A t \in Tokens : claim[t] # req[r].session
        /\ req[r].pc \in {"revoke", "members", "del"} => \E t \in Tokens : claim[t] = req[r].session

Known ==
    /\ keys \cup held \subseteq Issued
    /\ \A t \in Issued : owner[claim[t]] # None

\* A session has one token in Redis, or one request that makes one, or neither.
Single ==
    /\ \A t, u \in keys : claim[t] = claim[u] => t = u
    /\ \A r \in Making : \A t \in keys : claim[t] # req[r].session
    /\ \A r, q \in Making : req[r].session = req[q].session => r = q

\* A session's set, and what a logout read from it, holds tokens of the session.
Listed ==
    /\ \A s \in Sessions : \A t \in index[s] : claim[t] = s
    /\ \A r \in Requests : req[r].pc = "del" => \A t \in req[r].list : claim[t] = req[r].session

\* A token in use is in its session's set, unless a logout was overlapped.
Found == \A t \in keys : Sent(t) => claim[t] \in torn \/ t \in index[claim[t]]

\* A quiet logout has read every token of its session that is in use.
Calm ==
    \A r \in quiet :
        /\ req[r].pc = "del" /\ Untouched(req[r].session)
        /\ \A t \in Live(req[r].session) : Sent(t) => t \in req[r].list \/ req[r].session \in torn

Over ==
    \A s \in ended \ torn :
        /\ Untouched(s) /\ \E t \in Tokens : claim[t] = s
        /\ \A t \in Live(s) : ~Sent(t)

\* Whoever made a token too late was the last to make one.
Last ==
    \A x \in late :
        /\ owner[x[1]] # None /\ owner[x[1]] \notin active
        /\ \A r \in Requests : req[r].pc \in {"set", "login"} => req[r].session # x[1]

Inv == TypeOK /\ Memory /\ Known /\ Single /\ Listed /\ Found /\ Calm /\ Over /\ Last /\ InactiveRunsOut

\* Every variable keeps its type.
LEMMA TypeStep == ASSUME Inv, [Next]_vars PROVE TypeOK'
<1> USE RefreshAssumption DEF Do, At, Idle, ghosts
<1>1. ASSUME NEW u \in Users, Deactivate(u) PROVE TypeOK'
  BY <1>1 DEF Deactivate, Inv, TypeOK
<1>2. ASSUME NEW t \in Tokens, Expire(t) PROVE TypeOK'
  BY <1>2 DEF Expire, Inv, TypeOK
<1>3. ASSUME NEW r \in Requests, NEW u \in Users, NEW s \in Sessions, Login(r, u, s) PROVE TypeOK'
  BY <1>3 DEF Login, Inv, TypeOK, Request, Steps
<1>4. ASSUME NEW r \in Requests, NEW t \in Tokens, SaveKey(r, t) PROVE TypeOK'
  BY <1>4 DEF SaveKey, Inv, TypeOK, Memory, Request, Steps
<1>5. ASSUME NEW r \in Requests, NEW t \in Tokens, Consume(r, t) PROVE TypeOK'
  BY <1>5 DEF Consume, Unkeyed, Inv, TypeOK, Request, Steps
<1>6. ASSUME NEW r \in Requests, NEW t \in Tokens, Logout(r, t) PROVE TypeOK'
  BY <1>6 DEF Logout, Inv, TypeOK, Request, Steps
<1>7. ASSUME NEW r \in Requests, SaveIndex(r) PROVE TypeOK'
  BY <1>7 DEF SaveIndex, Added, Inv, TypeOK, Memory, Request, Steps
<1>8. ASSUME NEW r \in Requests, Reply(r) PROVE TypeOK'
  BY <1>8 DEF Reply, Inv, TypeOK, Memory, Request, Steps
<1>9. ASSUME NEW r \in Requests, Unlist(r) PROVE TypeOK'
  BY <1>9 DEF Unlist, Inv, TypeOK, Request, Steps
<1>10. ASSUME NEW r \in Requests, Reload(r) PROVE TypeOK'
  BY <1>10 DEF Reload, Inv, TypeOK, Request, Steps
<1>11. ASSUME NEW r \in Requests, Revoke(r) PROVE TypeOK'
  BY <1>11 DEF Revoke, Inv, TypeOK, Memory, Request, Steps
<1>12. ASSUME NEW r \in Requests, ListTokens(r) PROVE TypeOK'
  BY <1>12 DEF ListTokens, Inv, TypeOK, Memory, Request, Steps
<1>13. ASSUME NEW r \in Requests, DeleteTokens(r) PROVE TypeOK'
  BY <1>13 DEF DeleteTokens, Deleted, Inv, TypeOK, Memory, Request, Steps
<1>14. ASSUME NEW r \in Requests, BreakOff(r) PROVE TypeOK'
  BY <1>14 DEF BreakOff, Inv, TypeOK, Request, Steps
<1>15. CASE UNCHANGED vars
  BY <1>15 DEF vars, Inv, TypeOK
<1> QED
  BY <1>1, <1>2, <1>3, <1>4, <1>5, <1>6, <1>7, <1>8, <1>9, <1>10, <1>11, <1>12, <1>13, <1>14, <1>15 DEF Next

\* The memory of the requests stays sound.
LEMMA MemoryStep == ASSUME Inv, [Next]_vars PROVE Memory'
<1> USE RefreshAssumption DEF Do, At, Idle, ghosts
<1>1. ASSUME NEW u \in Users, Deactivate(u) PROVE Memory'
  BY <1>1 DEF Deactivate, Inv, Memory
<1>2. ASSUME NEW t \in Tokens, Expire(t) PROVE Memory'
  BY <1>2 DEF Expire, Inv, Memory
<1>3. ASSUME NEW r \in Requests, NEW u \in Users, NEW s \in Sessions, Login(r, u, s) PROVE Memory'
  BY <1>3 DEF Login, Inv, TypeOK, Memory, Known, Issued
<1>4. ASSUME NEW r \in Requests, NEW t \in Tokens, SaveKey(r, t) PROVE Memory'
  BY <1>4 DEF SaveKey, Inv, TypeOK, Memory, Single, Making
<1>5. ASSUME NEW r \in Requests, NEW t \in Tokens, Consume(r, t) PROVE Memory'
  BY <1>5 DEF Consume, Inv, TypeOK, Memory, Known, Issued
<1>6. ASSUME NEW r \in Requests, NEW t \in Tokens, Logout(r, t) PROVE Memory'
  BY <1>6 DEF Logout, Inv, TypeOK, Memory, Known, Issued
<1>7. ASSUME NEW r \in Requests, SaveIndex(r) PROVE Memory'
  BY <1>7 DEF SaveIndex, Inv, Memory
<1>8. ASSUME NEW r \in Requests, Reply(r) PROVE Memory'
  BY <1>8 DEF Reply, Inv, Memory
<1>9. ASSUME NEW r \in Requests, Unlist(r) PROVE Memory'
  BY <1>9 DEF Unlist, Inv, Memory
<1>10. ASSUME NEW r \in Requests, Reload(r) PROVE Memory'
  BY <1>10 DEF Reload, Inv, Memory
<1>11. ASSUME NEW r \in Requests, Revoke(r) PROVE Memory'
  BY <1>11 DEF Revoke, Inv, Memory
<1>12. ASSUME NEW r \in Requests, ListTokens(r) PROVE Memory'
  BY <1>12 DEF ListTokens, Inv, Memory
<1>13. ASSUME NEW r \in Requests, DeleteTokens(r) PROVE Memory'
  BY <1>13 DEF DeleteTokens, Inv, Memory
<1>14. ASSUME NEW r \in Requests, BreakOff(r) PROVE Memory'
  BY <1>14 DEF BreakOff, Inv, Memory
<1>15. CASE UNCHANGED vars
  BY <1>15 DEF vars, Inv, Memory
<1> QED
  BY <1>1, <1>2, <1>3, <1>4, <1>5, <1>6, <1>7, <1>8, <1>9, <1>10, <1>11, <1>12, <1>13, <1>14, <1>15 DEF Next

\* Every token and every session in use has an owner.
LEMMA KnownStep == ASSUME Inv, [Next]_vars PROVE Known'
<1> USE RefreshAssumption DEF Do, At, Idle, ghosts
<1>1. ASSUME NEW u \in Users, Deactivate(u) PROVE Known'
  BY <1>1 DEF Deactivate, Inv, Known, Issued
<1>2. ASSUME NEW t \in Tokens, Expire(t) PROVE Known'
  BY <1>2 DEF Expire, Inv, Known, Issued
<1>3. ASSUME NEW r \in Requests, NEW u \in Users, NEW s \in Sessions, Login(r, u, s) PROVE Known'
  BY <1>3 DEF Login, Inv, Known, Issued
<1>4. ASSUME NEW r \in Requests, NEW t \in Tokens, SaveKey(r, t) PROVE Known'
  BY <1>4 DEF SaveKey, Inv, TypeOK, Memory, Known, Issued
<1>5. ASSUME NEW r \in Requests, NEW t \in Tokens, Consume(r, t) PROVE Known'
  BY <1>5 DEF Consume, Unkeyed, Inv, Known, Issued
<1>6. ASSUME NEW r \in Requests, NEW t \in Tokens, Logout(r, t) PROVE Known'
  BY <1>6 DEF Logout, Inv, Known, Issued
<1>7. ASSUME NEW r \in Requests, SaveIndex(r) PROVE Known'
  BY <1>7 DEF SaveIndex, Inv, Known, Issued
<1>8. ASSUME NEW r \in Requests, Reply(r) PROVE Known'
  BY <1>8 DEF Reply, Inv, Memory, Known, Issued
<1>9. ASSUME NEW r \in Requests, Unlist(r) PROVE Known'
  BY <1>9 DEF Unlist, Inv, Known, Issued
<1>10. ASSUME NEW r \in Requests, Reload(r) PROVE Known'
  BY <1>10 DEF Reload, Inv, Known, Issued
<1>11. ASSUME NEW r \in Requests, Revoke(r) PROVE Known'
  BY <1>11 DEF Revoke, Inv, Known, Issued
<1>12. ASSUME NEW r \in Requests, ListTokens(r) PROVE Known'
  BY <1>12 DEF ListTokens, Inv, Known, Issued
<1>13. ASSUME NEW r \in Requests, DeleteTokens(r) PROVE Known'
  BY <1>13 DEF DeleteTokens, Deleted, Inv, Known, Issued
<1>14. ASSUME NEW r \in Requests, BreakOff(r) PROVE Known'
  BY <1>14 DEF BreakOff, Inv, Known, Issued
<1>15. CASE UNCHANGED vars
  BY <1>15 DEF vars, Inv, Known, Issued
<1> QED
  BY <1>1, <1>2, <1>3, <1>4, <1>5, <1>6, <1>7, <1>8, <1>9, <1>10, <1>11, <1>12, <1>13, <1>14, <1>15 DEF Next

\* A session has one token, one request that makes one, or neither.
LEMMA SingleStep == ASSUME Inv, [Next]_vars PROVE Single'
<1> USE RefreshAssumption DEF Do, At, Idle, ghosts
<1>1. ASSUME NEW u \in Users, Deactivate(u) PROVE Single'
  BY <1>1 DEF Deactivate, Inv, Single, Making
<1>2. ASSUME NEW t \in Tokens, Expire(t) PROVE Single'
  BY <1>2 DEF Expire, Inv, Single, Making
<1>3. ASSUME NEW r \in Requests, NEW u \in Users, NEW s \in Sessions, Login(r, u, s) PROVE Single'
  BY <1>3 DEF Login, Inv, Memory, Known, Single, Making
<1>4. ASSUME NEW r \in Requests, NEW t \in Tokens, SaveKey(r, t) PROVE Single'
  BY <1>4 DEF SaveKey, Inv, TypeOK, Single, Making
<1>5. ASSUME NEW r \in Requests, NEW t \in Tokens, Consume(r, t) PROVE Single'
  BY <1>5 DEF Consume, Unkeyed, Inv, Single, Making
<1>6. ASSUME NEW r \in Requests, NEW t \in Tokens, Logout(r, t) PROVE Single'
  BY <1>6 DEF Logout, Inv, Single, Making
<1>7. ASSUME NEW r \in Requests, SaveIndex(r) PROVE Single'
  BY <1>7 DEF SaveIndex, Inv, Single, Making
<1>8. ASSUME NEW r \in Requests, Reply(r) PROVE Single'
  BY <1>8 DEF Reply, Inv, Single, Making
<1>9. ASSUME NEW r \in Requests, Unlist(r) PROVE Single'
  BY <1>9 DEF Unlist, Inv, Single, Making
<1>10. ASSUME NEW r \in Requests, Reload(r) PROVE Single'
  BY <1>10 DEF Reload, Inv, Single, Making
<1>11. ASSUME NEW r \in Requests, Revoke(r) PROVE Single'
  BY <1>11 DEF Revoke, Inv, Single, Making
<1>12. ASSUME NEW r \in Requests, ListTokens(r) PROVE Single'
  BY <1>12 DEF ListTokens, Inv, Single, Making
<1>13. ASSUME NEW r \in Requests, DeleteTokens(r) PROVE Single'
  BY <1>13 DEF DeleteTokens, Deleted, Inv, Single, Making
<1>14. ASSUME NEW r \in Requests, BreakOff(r) PROVE Single'
  BY <1>14 DEF BreakOff, Inv, Single, Making
<1>15. CASE UNCHANGED vars
  BY <1>15 DEF vars, Inv, Single, Making
<1> QED
  BY <1>1, <1>2, <1>3, <1>4, <1>5, <1>6, <1>7, <1>8, <1>9, <1>10, <1>11, <1>12, <1>13, <1>14, <1>15 DEF Next

\* The sets of the sessions, and the lists logouts read from them, stay apart.
LEMMA ListedStep == ASSUME Inv, [Next]_vars PROVE Listed'
<1> USE RefreshAssumption DEF Do, At, Idle, ghosts
<1>1. ASSUME NEW u \in Users, Deactivate(u) PROVE Listed'
  BY <1>1 DEF Deactivate, Inv, Listed
<1>2. ASSUME NEW t \in Tokens, Expire(t) PROVE Listed'
  BY <1>2 DEF Expire, Inv, Listed
<1>3. ASSUME NEW r \in Requests, NEW u \in Users, NEW s \in Sessions, Login(r, u, s) PROVE Listed'
  BY <1>3 DEF Login, Inv, Listed
<1>4. ASSUME NEW r \in Requests, NEW t \in Tokens, SaveKey(r, t) PROVE Listed'
  BY <1>4 DEF SaveKey, Inv, Memory, Listed
<1>5. ASSUME NEW r \in Requests, NEW t \in Tokens, Consume(r, t) PROVE Listed'
  BY <1>5 DEF Consume, Inv, Listed
<1>6. ASSUME NEW r \in Requests, NEW t \in Tokens, Logout(r, t) PROVE Listed'
  BY <1>6 DEF Logout, Inv, Listed
<1>7. ASSUME NEW r \in Requests, SaveIndex(r) PROVE Listed'
  BY <1>7 DEF SaveIndex, Added, Inv, Memory, Listed
<1>8. ASSUME NEW r \in Requests, Reply(r) PROVE Listed'
  BY <1>8 DEF Reply, Inv, Listed
<1>9. ASSUME NEW r \in Requests, Unlist(r) PROVE Listed'
  BY <1>9 DEF Unlist, Inv, Listed
<1>10. ASSUME NEW r \in Requests, Reload(r) PROVE Listed'
  BY <1>10 DEF Reload, Inv, Listed
<1>11. ASSUME NEW r \in Requests, Revoke(r) PROVE Listed'
  BY <1>11 DEF Revoke, Inv, Listed
<1>12. ASSUME NEW r \in Requests, ListTokens(r) PROVE Listed'
  BY <1>12 DEF ListTokens, Inv, Memory, Listed
<1>13. ASSUME NEW r \in Requests, DeleteTokens(r) PROVE Listed'
  BY <1>13 DEF DeleteTokens, Inv, Listed
<1>14. ASSUME NEW r \in Requests, BreakOff(r) PROVE Listed'
  BY <1>14 DEF BreakOff, Inv, Listed
<1>15. CASE UNCHANGED vars
  BY <1>15 DEF vars, Inv, Listed
<1> QED
  BY <1>1, <1>2, <1>3, <1>4, <1>5, <1>6, <1>7, <1>8, <1>9, <1>10, <1>11, <1>12, <1>13, <1>14, <1>15 DEF Next

\* A token in use stays listed, or its session is torn.
LEMMA FoundStep == ASSUME Inv, [Next]_vars PROVE Found'
<1> USE RefreshAssumption DEF Do, At, Idle, ghosts
<1>1. ASSUME NEW u \in Users, Deactivate(u) PROVE Found'
  BY <1>1 DEF Deactivate, Inv, Found, Sent
<1>2. ASSUME NEW t \in Tokens, Expire(t) PROVE Found'
  BY <1>2 DEF Expire, Inv, Found, Sent
<1>3. ASSUME NEW r \in Requests, NEW u \in Users, NEW s \in Sessions, Login(r, u, s) PROVE Found'
  BY <1>3 DEF Login, Inv, Found, Sent
<1>4. ASSUME NEW r \in Requests, NEW t \in Tokens, SaveKey(r, t) PROVE Found'
  BY <1>4 DEF SaveKey, Inv, Memory, Known, Issued, Found, Sent
<1>5. ASSUME NEW r \in Requests, NEW t \in Tokens, Consume(r, t) PROVE Found'
  BY <1>5 DEF Consume, Unkeyed, Inv, Found, Sent
<1>6. ASSUME NEW r \in Requests, NEW t \in Tokens, Logout(r, t) PROVE Found'
  BY <1>6 DEF Logout, Inv, Found, Sent
<1>7. ASSUME NEW r \in Requests, SaveIndex(r) PROVE Found'
  BY <1>7 DEF SaveIndex, Added, Inv, TypeOK, Memory, Found, Sent
<1>8. ASSUME NEW r \in Requests, Reply(r) PROVE Found'
  BY <1>8 DEF Reply, Inv, Found, Sent
<1>9. ASSUME NEW r \in Requests, Unlist(r) PROVE Found'
  BY <1>9 DEF Unlist, Inv, Single, Making, Found, Sent
<1>10. ASSUME NEW r \in Requests, Reload(r) PROVE Found'
  BY <1>10 DEF Reload, Inv, Found, Sent
<1>11. ASSUME NEW r \in Requests, Revoke(r) PROVE Found'
  BY <1>11 DEF Revoke, Inv, Found, Sent
<1>12. ASSUME NEW r \in Requests, ListTokens(r) PROVE Found'
  BY <1>12 DEF ListTokens, Inv, Found, Sent
<1>13. ASSUME NEW r \in Requests, DeleteTokens(r) PROVE Found'
  BY <1>13 DEF DeleteTokens, Deleted, Inv, Found, Calm, Live, Sent
<1>14. ASSUME NEW r \in Requests, BreakOff(r) PROVE Found'
  BY <1>14 DEF BreakOff, Inv, Found, Sent
<1>15. CASE UNCHANGED vars
  BY <1>15 DEF vars, Inv, Found, Sent
<1> QED
  BY <1>1, <1>2, <1>3, <1>4, <1>5, <1>6, <1>7, <1>8, <1>9, <1>10, <1>11, <1>12, <1>13, <1>14, <1>15 DEF Next

\* A quiet logout stays quiet: whoever would disturb it takes it out first.
LEMMA CalmStep == ASSUME Inv, [Next]_vars PROVE Calm'
<1> USE RefreshAssumption DEF Do, At, Idle, ghosts
<1>1. ASSUME NEW u \in Users, Deactivate(u) PROVE Calm'
  BY <1>1 DEF Deactivate, Inv, Calm, Sent, Untouched, Renewing, Adding, Live
<1>2. ASSUME NEW t \in Tokens, Expire(t) PROVE Calm'
  BY <1>2 DEF Expire, Inv, Calm, Sent, Untouched, Renewing, Adding, Live
<1>3. ASSUME NEW r \in Requests, NEW u \in Users, NEW s \in Sessions, Login(r, u, s) PROVE Calm'
  BY <1>3 DEF Login, Inv, Calm, Sent, Untouched, Renewing, Adding, Live
<1>4. ASSUME NEW r \in Requests, NEW t \in Tokens, SaveKey(r, t) PROVE Calm'
  BY <1>4 DEF SaveKey, Inv, TypeOK, Memory, Calm, Sent, Untouched, Renewing, Adding, Live
<1>5. ASSUME NEW r \in Requests, NEW t \in Tokens, Consume(r, t) PROVE Calm'
  BY <1>5 DEF Consume, Unkeyed, Inv, TypeOK, Calm, Sent, Untouched, Renewing, Adding, Leaving, Live
<1>6. ASSUME NEW r \in Requests, NEW t \in Tokens, Logout(r, t) PROVE Calm'
  BY <1>6 DEF Logout, Inv, Calm, Sent, Untouched, Renewing, Adding, Live
<1>7. ASSUME NEW r \in Requests, SaveIndex(r) PROVE Calm'
  BY <1>7 DEF SaveIndex, Inv, Memory, Calm, Sent, Untouched, Renewing, Adding, Live
<1>8. ASSUME NEW r \in Requests, Reply(r) PROVE Calm'
  BY <1>8 DEF Reply, Inv, Calm, Sent, Untouched, Renewing, Adding, Live
<1>9. ASSUME NEW r \in Requests, Unlist(r) PROVE Calm'
  BY <1>9 DEF Unlist, Inv, Calm, Sent, Untouched, Renewing, Adding, Live
<1>10. ASSUME NEW r \in Requests, Reload(r) PROVE Calm'
  BY <1>10 DEF Reload, Inv, Calm, Sent, Untouched, Renewing, Adding, Live
<1>11. ASSUME NEW r \in Requests, Revoke(r) PROVE Calm'
  BY <1>11 DEF Revoke, Inv, Calm, Sent, Untouched, Renewing, Adding, Live
<1>12. ASSUME NEW r \in Requests, ListTokens(r) PROVE Calm'
  BY <1>12 DEF ListTokens, Inv, TypeOK, Found, Calm, Sent, Untouched, Renewing, Adding, Live
<1>13. ASSUME NEW r \in Requests, DeleteTokens(r) PROVE Calm'
  BY <1>13 DEF DeleteTokens, Deleted, Inv, Calm, Sent, Untouched, Renewing, Adding, Live
<1>14. ASSUME NEW r \in Requests, BreakOff(r) PROVE Calm'
  BY <1>14 DEF BreakOff, Inv, Calm, Sent, Untouched, Renewing, Adding, Live
<1>15. CASE UNCHANGED vars
  BY <1>15 DEF vars, Inv, Calm, Sent, Untouched, Renewing, Adding, Live
<1> QED
  BY <1>1, <1>2, <1>3, <1>4, <1>5, <1>6, <1>7, <1>8, <1>9, <1>10, <1>11, <1>12, <1>13, <1>14, <1>15 DEF Next

\* A session that a quiet logout ended stays without a usable token.
LEMMA OverStep == ASSUME Inv, [Next]_vars PROVE Over'
<1> USE RefreshAssumption DEF Do, At, Idle, ghosts
<1>1. ASSUME NEW u \in Users, Deactivate(u) PROVE Over'
  BY <1>1 DEF Deactivate, Inv, Over, Sent, Untouched, Renewing, Adding, Live
<1>2. ASSUME NEW t \in Tokens, Expire(t) PROVE Over'
  BY <1>2 DEF Expire, Inv, Over, Sent, Untouched, Renewing, Adding, Live
<1>3. ASSUME NEW r \in Requests, NEW u \in Users, NEW s \in Sessions, Login(r, u, s) PROVE Over'
  BY <1>3 DEF Login, Inv, Over, Sent, Untouched, Renewing, Adding, Live
<1>4. ASSUME NEW r \in Requests, NEW t \in Tokens, SaveKey(r, t) PROVE Over'
  BY <1>4 DEF SaveKey, Inv, TypeOK, Memory, Over, Sent, Untouched, Renewing, Adding, Live
<1>5. ASSUME NEW r \in Requests, NEW t \in Tokens, Consume(r, t) PROVE Over'
  BY <1>5 DEF Consume, Unkeyed, Inv, Over, Sent, Untouched, Renewing, Adding, Live
<1>6. ASSUME NEW r \in Requests, NEW t \in Tokens, Logout(r, t) PROVE Over'
  BY <1>6 DEF Logout, Inv, Over, Sent, Untouched, Renewing, Adding, Live
<1>7. ASSUME NEW r \in Requests, SaveIndex(r) PROVE Over'
  BY <1>7 DEF SaveIndex, Inv, Memory, Over, Sent, Untouched, Renewing, Adding, Live
<1>8. ASSUME NEW r \in Requests, Reply(r) PROVE Over'
  BY <1>8 DEF Reply, Inv, Over, Sent, Untouched, Renewing, Adding, Live
<1>9. ASSUME NEW r \in Requests, Unlist(r) PROVE Over'
  BY <1>9 DEF Unlist, Inv, TypeOK, Memory, Known, Single, Making, Listed, Request, Steps, Issued, Calm, Over, Sent, Untouched, Renewing, Adding, Leaving, Live
<1>10. ASSUME NEW r \in Requests, Reload(r) PROVE Over'
  BY <1>10 DEF Reload, Inv, Over, Sent, Untouched, Renewing, Adding, Live
<1>11. ASSUME NEW r \in Requests, Revoke(r) PROVE Over'
  BY <1>11 DEF Revoke, Inv, Over, Sent, Untouched, Renewing, Adding, Live
<1>12. ASSUME NEW r \in Requests, ListTokens(r) PROVE Over'
  BY <1>12 DEF ListTokens, Inv, Over, Sent, Untouched, Renewing, Adding, Live
<1>13. ASSUME NEW r \in Requests, DeleteTokens(r) PROVE Over'
  BY <1>13 DEF DeleteTokens, Deleted, Inv, Memory, Calm, Over, Sent, Untouched, Renewing, Adding, Live
<1>14. ASSUME NEW r \in Requests, BreakOff(r) PROVE Over'
  BY <1>14 DEF BreakOff, Inv, Over, Sent, Untouched, Renewing, Adding, Live
<1>15. CASE UNCHANGED vars
  BY <1>15 DEF vars, Inv, TypeOK, Memory, Known, Single, Making, Listed, Request, Steps, Issued, Calm, Over, Sent, Untouched, Renewing, Adding, Leaving, Live
<1> QED
  BY <1>1, <1>2, <1>3, <1>4, <1>5, <1>6, <1>7, <1>8, <1>9, <1>10, <1>11, <1>12, <1>13, <1>14, <1>15 DEF Next

\* Whoever made a token too late was the last of its session to make one.
LEMMA LastStep == ASSUME Inv, [Next]_vars PROVE Last'
<1> USE RefreshAssumption DEF Do, At, Idle, ghosts
<1>1. ASSUME NEW u \in Users, Deactivate(u) PROVE Last'
  BY <1>1 DEF Deactivate, Inv, Last
<1>2. ASSUME NEW t \in Tokens, Expire(t) PROVE Last'
  BY <1>2 DEF Expire, Inv, Last
<1>3. ASSUME NEW r \in Requests, NEW u \in Users, NEW s \in Sessions, Login(r, u, s) PROVE Last'
  BY <1>3 DEF Login, Inv, Last
<1>4. ASSUME NEW r \in Requests, NEW t \in Tokens, SaveKey(r, t) PROVE Last'
  BY <1>4 DEF SaveKey, Inv, TypeOK, Memory, Single, Making, Last
<1>5. ASSUME NEW r \in Requests, NEW t \in Tokens, Consume(r, t) PROVE Last'
  BY <1>5 DEF Consume, Inv, Last
<1>6. ASSUME NEW r \in Requests, NEW t \in Tokens, Logout(r, t) PROVE Last'
  BY <1>6 DEF Logout, Inv, Last
<1>7. ASSUME NEW r \in Requests, SaveIndex(r) PROVE Last'
  BY <1>7 DEF SaveIndex, Inv, Last
<1>8. ASSUME NEW r \in Requests, Reply(r) PROVE Last'
  BY <1>8 DEF Reply, Inv, Last
<1>9. ASSUME NEW r \in Requests, Unlist(r) PROVE Last'
  BY <1>9 DEF Unlist, Inv, Last
<1>10. ASSUME NEW r \in Requests, Reload(r) PROVE Last'
  BY <1>10 DEF Reload, MayRenew, Inv, Last
<1>11. ASSUME NEW r \in Requests, Revoke(r) PROVE Last'
  BY <1>11 DEF Revoke, Inv, Last
<1>12. ASSUME NEW r \in Requests, ListTokens(r) PROVE Last'
  BY <1>12 DEF ListTokens, Inv, Last
<1>13. ASSUME NEW r \in Requests, DeleteTokens(r) PROVE Last'
  BY <1>13 DEF DeleteTokens, Inv, Last
<1>14. ASSUME NEW r \in Requests, BreakOff(r) PROVE Last'
  BY <1>14 DEF BreakOff, Inv, Last
<1>15. CASE UNCHANGED vars
  BY <1>15 DEF vars, Inv, Last
<1> QED
  BY <1>1, <1>2, <1>3, <1>4, <1>5, <1>6, <1>7, <1>8, <1>9, <1>10, <1>11, <1>12, <1>13, <1>14, <1>15 DEF Next

\* So no session gets two tokens too late.
LEMMA RunsOutStep == ASSUME Inv, [Next]_vars PROVE InactiveRunsOut'
<1> USE RefreshAssumption DEF Do, At, Idle, ghosts
<1>1. ASSUME NEW u \in Users, Deactivate(u) PROVE InactiveRunsOut'
  BY <1>1 DEF Deactivate, Inv, InactiveRunsOut
<1>2. ASSUME NEW t \in Tokens, Expire(t) PROVE InactiveRunsOut'
  BY <1>2 DEF Expire, Inv, InactiveRunsOut
<1>3. ASSUME NEW r \in Requests, NEW u \in Users, NEW s \in Sessions, Login(r, u, s) PROVE InactiveRunsOut'
  BY <1>3 DEF Login, Inv, InactiveRunsOut
<1>4. ASSUME NEW r \in Requests, NEW t \in Tokens, SaveKey(r, t) PROVE InactiveRunsOut'
  BY <1>4 DEF SaveKey, Inv, Last, InactiveRunsOut
<1>5. ASSUME NEW r \in Requests, NEW t \in Tokens, Consume(r, t) PROVE InactiveRunsOut'
  BY <1>5 DEF Consume, Inv, InactiveRunsOut
<1>6. ASSUME NEW r \in Requests, NEW t \in Tokens, Logout(r, t) PROVE InactiveRunsOut'
  BY <1>6 DEF Logout, Inv, InactiveRunsOut
<1>7. ASSUME NEW r \in Requests, SaveIndex(r) PROVE InactiveRunsOut'
  BY <1>7 DEF SaveIndex, Inv, InactiveRunsOut
<1>8. ASSUME NEW r \in Requests, Reply(r) PROVE InactiveRunsOut'
  BY <1>8 DEF Reply, Inv, InactiveRunsOut
<1>9. ASSUME NEW r \in Requests, Unlist(r) PROVE InactiveRunsOut'
  BY <1>9 DEF Unlist, Inv, InactiveRunsOut
<1>10. ASSUME NEW r \in Requests, Reload(r) PROVE InactiveRunsOut'
  BY <1>10 DEF Reload, Inv, InactiveRunsOut
<1>11. ASSUME NEW r \in Requests, Revoke(r) PROVE InactiveRunsOut'
  BY <1>11 DEF Revoke, Inv, InactiveRunsOut
<1>12. ASSUME NEW r \in Requests, ListTokens(r) PROVE InactiveRunsOut'
  BY <1>12 DEF ListTokens, Inv, InactiveRunsOut
<1>13. ASSUME NEW r \in Requests, DeleteTokens(r) PROVE InactiveRunsOut'
  BY <1>13 DEF DeleteTokens, Inv, InactiveRunsOut
<1>14. ASSUME NEW r \in Requests, BreakOff(r) PROVE InactiveRunsOut'
  BY <1>14 DEF BreakOff, Inv, InactiveRunsOut
<1>15. CASE UNCHANGED vars
  BY <1>15 DEF vars, Inv, InactiveRunsOut
<1> QED
  BY <1>1, <1>2, <1>3, <1>4, <1>5, <1>6, <1>7, <1>8, <1>9, <1>10, <1>11, <1>12, <1>13, <1>14, <1>15 DEF Next

\* The inductive invariant holds before the first login.
LEMMA InitInv == ASSUME Init PROVE Inv
<1> USE RefreshAssumption DEF Init, Idle
<1>1. TypeOK
  BY DEF TypeOK, Request, Steps
<1>2. Memory /\ Known /\ Single /\ Listed
  BY DEF Memory, Known, Issued, Single, Making, Listed
<1>3. Found /\ Calm /\ Over /\ Last /\ InactiveRunsOut
  BY DEF Found, Calm, Over, Last, InactiveRunsOut
<1> QED
  BY <1>1, <1>2, <1>3 DEF Inv

\* Before the first login no session has been opened.
LEMMA InitChain == ASSUME Init PROVE Chain!Init
<1>1. Unopened = Sessions /\ Turning = {} /\ Issued = {} /\ \A s \in Sessions : Live(s) = {}
  BY RefreshAssumption DEF Init, Idle, Unopened, Turning, Renewing, Issued, Live
<1> QED
  BY <1>1 DEF Chain!Init

\* The invariant is inductive.
LEMMA InvStep == ASSUME Inv, [Next]_vars PROVE Inv'
  BY TypeStep, MemoryStep, KnownStep, SingleStep, ListedStep, FoundStep, CalmStep, OverStep,
     LastStep, RunsOutStep DEF Inv

\* It holds of every behaviour.
LEMMA Invariance == Spec => []Inv
<1>1. Init => Inv
  BY InitInv
<1>2. Inv /\ [Next]_vars => Inv'
  BY InvStep
<1> QED
  BY <1>1, <1>2, PTL DEF Spec

\* Every variable of the refresh tokens always has its type.
THEOREM TypeCorrect == Spec => []TypeOK
<1>1. Inv => TypeOK
  BY DEF Inv
<1> QED
  BY <1>1, Invariance, PTL

\* A logout that no refresh overlapped (AuthService.logout) leaves no token of
\* its session that a client could refresh with, then or ever after.
THEOREM LogoutFinal == Spec => []LogoutIsFinal
<1>1. Inv => LogoutIsFinal
  BY DEF Inv, Over, Untouched, Sent, LogoutIsFinal
<1> QED
  BY <1>1, Invariance, PTL

\* After MembersService.deactivate a session gets at most one more token: what
\* reloadUser refuses from then on cannot be had by racing it.
THEOREM InactiveOut == Spec => []InactiveRunsOut
<1>1. Inv => InactiveRunsOut
  BY DEF Inv
<1> QED
  BY <1>1, Invariance, PTL

\* A step that leaves every session's chain as it is, as its abstract stutter.
Same == /\ Unopened' = Unopened /\ Turning' = Turning /\ Issued' = Issued
        /\ \A s \in Sessions : Live(s)' = Live(s)

\* Such a step is a stutter of Session.
LEMMA SameIsStutter == ASSUME Same PROVE UNCHANGED Chain!chain
  BY DEF Same, Chain!chain

\* Every command is a step of Session or leaves the chains alone: the SET of a
\* key opens or renews, the script that takes a key spends, and what deletes,
\* expires, refuses or breaks off ends a session or changes nothing of it.
LEMMA ChainStep == ASSUME Inv, [Next]_vars PROVE [Chain!Next]_(Chain!chain)
<1> USE RefreshAssumption DEF Do, At, Idle, ghosts
<1>1. ASSUME NEW u \in Users, Deactivate(u) PROVE Same
  BY <1>1 DEF Deactivate, Unopened, Turning, Opening, Renewing, Issued, Live, Same
<1>2. ASSUME NEW r \in Requests, NEW u \in Users, NEW s \in Sessions, Login(r, u, s) PROVE Same
  BY <1>2 DEF Login, TypeOK, Inv, Unopened, Turning, Opening, Renewing, Issued, Live, Same
<1>3. ASSUME NEW r \in Requests, SaveIndex(r) PROVE Same
  BY <1>3 DEF SaveIndex, Unopened, Turning, Opening, Renewing, Issued, Live, Same
<1>4. ASSUME NEW r \in Requests, Reply(r) PROVE Same
  BY <1>4 DEF Reply, Unopened, Turning, Opening, Renewing, Issued, Live, Same
<1>5. ASSUME NEW r \in Requests, Unlist(r) PROVE Same
  BY <1>5 DEF Unlist, Unopened, Turning, Opening, Renewing, Issued, Live, Same
<1>6. ASSUME NEW r \in Requests, NEW t \in Tokens, Logout(r, t) PROVE Same
  BY <1>6 DEF Logout, Unopened, Turning, Opening, Renewing, Issued, Live, Same
<1>7. ASSUME NEW r \in Requests, Revoke(r) PROVE Same
  BY <1>7 DEF Revoke, Unopened, Turning, Opening, Renewing, Issued, Live, Same
<1>8. ASSUME NEW r \in Requests, ListTokens(r) PROVE Same
  BY <1>8 DEF ListTokens, Unopened, Turning, Opening, Renewing, Issued, Live, Same
<1>9. ASSUME NEW t \in Tokens, Expire(t) PROVE Same \/ \E s \in Sessions : Chain!End(s)
  <2> DEFINE z == claim[t]
  <2>1. z \in Sessions
    BY <1>9 DEF Expire, TypeOK, Known, Inv, Issued
  <2>2. Same \/ (/\ Unopened' = Unopened \ {z} /\ Turning' = Turning \ {z} /\ Issued' = Issued
                 /\ \A s \in Sessions : Live(s)' = IF s = z THEN {} ELSE Live(s))
    BY <1>9 DEF Expire, Known, Single, Making, Inv, Unopened, Turning, Opening, Renewing, Issued, Live
  <2> QED
    BY <2>1, <2>2 DEF Chain!End
<1>10. ASSUME NEW r \in Requests, Reload(r) PROVE Same \/ \E s \in Sessions : Chain!End(s)
  <2> DEFINE z == req[r].session
  <2>1. z \in Sessions
    BY <1>10 DEF Reload, Memory, Inv
  <2>2. Same \/ (/\ Unopened' = Unopened \ {z} /\ Turning' = Turning \ {z} /\ Issued' = Issued
                 /\ \A s \in Sessions : Live(s)' = IF s = z THEN {} ELSE Live(s))
    BY <1>10 DEF Reload, Memory, Single, Making, Inv, Unopened, Turning, Opening, Renewing, Issued, Live, Same
  <2> QED
    BY <2>1, <2>2 DEF Chain!End
<1>11. ASSUME NEW r \in Requests, DeleteTokens(r) PROVE Same \/ \E s \in Sessions : Chain!End(s)
  <2> DEFINE z == req[r].session
  <2>1. z \in Sessions
    BY <1>11 DEF DeleteTokens, Memory, Inv
  <2>2. Same \/ (/\ Unopened' = Unopened \ {z} /\ Turning' = Turning \ {z} /\ Issued' = Issued
                 /\ \A s \in Sessions : Live(s)' = IF s = z THEN {} ELSE Live(s))
    BY <1>11 DEF DeleteTokens, Deleted, Known, Single, Making, Listed, Inv, Unopened, Turning, Opening, Renewing, Issued, Live, Same
  <2> QED
    BY <2>1, <2>2 DEF Chain!End
<1>12. ASSUME NEW r \in Requests, BreakOff(r) PROVE Same \/ \E s \in Sessions : Chain!End(s)
  <2> DEFINE z == req[r].session
  <2>1. z \in Sessions
    BY <1>12 DEF BreakOff, Memory, Inv
  <2>2. Same \/ (/\ Unopened' = Unopened \ {z} /\ Turning' = Turning \ {z} /\ Issued' = Issued
                 /\ \A s \in Sessions : Live(s)' = IF s = z THEN {} ELSE Live(s))
    BY <1>12 DEF BreakOff, Memory, Single, Making, Inv, Unopened, Turning, Opening, Renewing, Issued, Live, Same
  <2> QED
    BY <2>1, <2>2 DEF Chain!End
<1>13. ASSUME NEW r \in Requests, NEW t \in Tokens, Consume(r, t) PROVE \E s \in Sessions : Chain!Spend(s, t)
  <2>1. claim[t] \in Sessions /\ Live(claim[t]) = {t} /\ claim[t] \notin Turning
    BY <1>13 DEF Consume, TypeOK, Known, Single, Making, Inv, Turning, Renewing, Issued, Live
  <2>2. /\ Unopened' = Unopened /\ Turning' = Turning \cup {claim[t]} /\ Issued' = Issued
        /\ \A s \in Sessions : Live(s)' = IF s = claim[t] THEN {} ELSE Live(s)
    BY <1>13 DEF Consume, Unkeyed, TypeOK, Known, Single, Inv, Unopened, Turning, Opening, Renewing, Issued, Live
  <2> QED
    BY <2>1, <2>2 DEF Chain!Spend
<1>14. ASSUME NEW r \in Requests, NEW t \in Tokens, SaveKey(r, t)
      PROVE \E s \in Sessions : Chain!Open(s, t) \/ Chain!Renew(s, t)
  <2> DEFINE z == req[r].session
  <2>1. z \in Sessions /\ t \notin Issued
    BY <1>14 DEF SaveKey, Memory, Inv, Issued
  <2>2. /\ Issued' = Issued \cup {t}
        /\ \A s \in Sessions : Live(s)' = IF s = z THEN {t} ELSE Live(s)
    BY <1>14 DEF SaveKey, TypeOK, Memory, Single, Making, Inv, Issued, Live
  <2>3. CASE req[r].pc = "login"
    <3>1. z \in Unopened /\ Unopened' = Unopened \ {z} /\ Turning' = Turning
      BY <1>14, <2>3 DEF SaveKey, TypeOK, Memory, Single, Making, Inv, Unopened, Turning, Opening, Renewing
    <3> QED
      BY <2>1, <2>2, <3>1 DEF Chain!Open
  <2>4. CASE req[r].pc = "set"
    <3>1. z \in Turning /\ Turning' = Turning \ {z} /\ Unopened' = Unopened
      BY <1>14, <2>4 DEF SaveKey, TypeOK, Memory, Single, Making, Inv, Unopened, Turning, Opening, Renewing
    <3> QED
      BY <2>1, <2>2, <3>1 DEF Chain!Renew
  <2> QED
    BY <1>14, <2>3, <2>4 DEF SaveKey
<1>15. CASE UNCHANGED vars
  <2>1. Same
    BY <1>15 DEF vars, Unopened, Turning, Opening, Renewing, Issued, Live, Same
  <2> QED
    BY <2>1, SameIsStutter
<1> QED
  BY <1>1, <1>2, <1>3, <1>4, <1>5, <1>6, <1>7, <1>8, <1>9, <1>10, <1>11, <1>12, <1>13, <1>14, <1>15, SameIsStutter DEF Next, Chain!Next

\* RefreshTokenStore and AuthService implement Session, however many requests,
\* failures and stops there are: a token is consumed once, and a session has
\* at most one that refresh would accept.
THEOREM ImplementsSession == Spec => IsSession
<1>1. Init => Chain!Init
  BY InitChain
<1>2. Inv /\ [Next]_vars => [Chain!Next]_(Chain!chain)
  BY ChainStep
<1> QED
  BY <1>1, <1>2, Invariance, PTL DEF Spec, IsSession, Chain!Spec

\* The single use that RefreshTokenStore promises: no session ever has two
\* tokens that consumeAndValidate would take, or one while it is renewed.
THEOREM SingleUse == Spec => []Chain!OneLiveToken
<1>1. Inv => Chain!OneLiveToken
  BY DEF Inv, Single, Known, Making, Live, Unopened, Turning, Opening, Renewing, Chain!OneLiveToken
<1> QED
  BY <1>1, Invariance, PTL

=============================================================================
