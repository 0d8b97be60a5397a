------------------------ MODULE ProvisioningProofs ------------------------
(***************************************************************************)
(* Proofs about Provisioning, for any number of tenants, sagas, members'   *)
(* requests, slugs and faults.                                             *)
(*                                                                         *)
(* The inductive invariant says of each saga what it has to undo at every  *)
(* step, what its tenant's schema holds by then and, the first time a      *)
(* tenant is provisioned, that it holds no more than that; of each tenant  *)
(* it says that it is complete while it is active and no saga touches it.  *)
(* A step of a saga is Local: it changes the saga and its tenant, which no *)
(* other saga works for unless the tenant is broken (Alone), so that the   *)
(* rest of the invariant is kept once and for all (LocalKeeps) and each    *)
(* action has only its Own part to show.  The members service writes only  *)
(* users and roles of tenants that have tables (MembersKeep).              *)
(***************************************************************************)
EXTENDS Provisioning, TLAPS

Made == {"migrate", "rls", "seed", "list", "check", "user", "admin", "activate", "finish"}
Entry == <<"entry">>
Both  == <<"schema", "entry">>

\* What the schema holds at least when a saga comes to a step past its creation.
Built(pc) == IF pc = "migrate" THEN {"schema", "role"}
             ELSE IF pc = "rls" THEN {"schema", "role", "tables"}
             ELSE IF pc = "seed" THEN {"schema", "role", "tables", "rls"}
             ELSE Content

\* What a saga has to undo, step by step.
UndoOK(s) ==
    LET pc   == saga[s].pc
        undo == saga[s].undo
    IN  /\ pc = "idle" => saga[s] = Idle
        /\ pc # "idle" => saga[s].tenant \in Tenants /\ saga[s].email \in Emails
        /\ pc \in {"slug", "entry", "mark"} => undo = <<>>
        /\ pc = "schema" => undo = Entry
        /\ pc \in Made \cup {"undoRole"} => undo = Both
        /\ pc = "undo" => undo \in {<<>>, Entry, Both}

\* What it made so far, unless the tenant is broken.
BuiltOK(s) ==
    LET t == saga[s].tenant
        pc == saga[s].pc
    IN  t \notin broken =>
          /\ pc \in Made => Built(pc) \subseteq schema[t].has
          /\ pc \in {"activate", "finish"} => Manned(t)
          /\ pc \in Made \cup {"schema"} => routing[t].status # "none"
          /\ pc \in (Made \ {"finish"}) \cup {"schema"} => routing[t].status # "active"
          /\ pc = "finish" => routing[t].status = "active"

\* What a tenant provisioned for the first time has: no more than is to be undone.
FirstOK(s) ==
    LET t    == saga[s].tenant
        undo == saga[s].undo
    IN  saga[s].pc # "idle" /\ t \notin broken \cup again =>
          /\ undo = <<>> => routing[t] = NoRow /\ schema[t] = NoSchema
          /\ undo = Entry => schema[t] = NoSchema
          /\ saga[s].pc = "undoRole" =>
               schema[t].has \subseteq {"role"} /\ schema[t].users = {} /\ schema[t].admins = {}

SagasOK == \A s \in Sagas : UndoOK(s) /\ BuiltOK(s) /\ FirstOK(s)

Alone ==
    \A r, s \in Sagas :
      r # s /\ saga[r].tenant = saga[s].tenant => saga[r].tenant \in {Nobody} \cup broken

\* An active tenant is complete unless its saga is at work on it, or undoing it.
Untouched(t) == \A s \in Sagas : saga[s].tenant = t => saga[s].undo = <<>> \/ saga[s].pc = "finish"
Whole(t) ==
    routing[t].status = "active" /\ t \notin broken /\ Untouched(t) =>
      schema[t].has = Content /\ Manned(t)
AllWhole == \A t \in Tenants : Whole(t)

\* A request at work knows its tenant and its address.
Asks(q) == q.pc # "idle" => q.tenant \in Tenants /\ q.email \in Emails
RequestsOK == \A r \in Requests : Asks(request[r])

Inv == TypeOK /\ SagasOK /\ Alone /\ AllWhole /\ AllOrNothing /\ RequestsOK

-----------------------------------------------------------------------------
(* What the operators of the model do.                                      *)

LEMMA Numbers == MaxSlugs \in Nat /\ MaxCalls \in Nat /\ MaxFaults \in Nat
BY ProvisioningAssumption

\* The elements of a concatenation, from the first sequence and from the second.
LEMMA ConcatFirst ==
    ASSUME NEW S, NEW a \in Seq(S), NEW b \in Seq(S)
    PROVE  /\ a \o b \in Seq(S) /\ Len(a \o b) = Len(a) + Len(b)
           /\ \A i \in 1 .. Len(a) : (a \o b)[i] = a[i]
OBVIOUS

LEMMA ConcatLast ==
    ASSUME NEW S, NEW a \in Seq(S), NEW b \in Seq(S), NEW i \in Nat, i > Len(a), i <= Len(a) + Len(b)
    PROVE  (a \o b)[i] = b[i - Len(a)]
OBVIOUS

\* The compensations to run, and in which order.
LEMMA Undos ==
    /\ <<UndoEntry>> = Entry /\ UndoSchema(Entry) = Both
    /\ Tail(Both) = Entry /\ Tail(Entry) = <<>>
    /\ Head(Both) = "schema" /\ Head(Entry) = "entry"
    /\ Both # <<>> /\ Entry # <<>> /\ Entry # Both
    /\ {<<>>, Entry, Both} \subseteq Seq({"schema", "entry"})
<1>1. <<UndoEntry>> = Entry
  BY DEF UndoEntry, Entry
<1>2. UndoSchema(Entry) = Both
  <2> DEFINE a == <<"schema">>
             c == a \o Entry
  <2>1. a \in Seq({"schema", "entry"}) /\ Entry \in Seq({"schema", "entry"})
    BY DEF Entry
  <2>2. Len(a) = 1 /\ a[1] = "schema" /\ Len(Entry) = 1 /\ Entry[1] = "entry"
    BY DEF Entry
  <2> HIDE DEF a
  <2>3. c \in Seq({"schema", "entry"}) /\ Len(c) = 2 /\ c[1] = "schema" /\ c[2] = "entry"
    <3>1. /\ c \in Seq({"schema", "entry"}) /\ Len(c) = Len(a) + Len(Entry)
          /\ \A i \in 1 .. Len(a) : c[i] = a[i]
      BY <2>1, ConcatFirst
    <3>2. 2 > Len(a) /\ 2 <= Len(a) + Len(Entry) /\ 2 - Len(a) = 1
      BY <2>2
    <3>3. c[2] = Entry[2 - Len(a)]
      BY <2>1, <3>2, ConcatLast
    <3> HIDE DEF c
    <3> QED BY <2>2, <3>1, <3>2, <3>3
  <2>4. Both \in Seq({"schema", "entry"}) /\ Len(Both) = 2
        /\ Both[1] = "schema" /\ Both[2] = "entry"
    BY DEF Both
  <2>5. UndoSchema(Entry) = c
    BY DEF UndoSchema, a
  <2> HIDE DEF c
  <2>6. c = Both
    BY <2>3, <2>4
  <2> QED BY <2>5, <2>6
<1>3. Tail(Both) = Entry /\ Tail(Entry) = <<>> /\ Head(Both) = "schema" /\ Head(Entry) = "entry"
  BY DEF Entry, Both
<1>4. Both # <<>> /\ Entry # <<>> /\ Entry # Both
  BY DEF Entry, Both
<1>5. {<<>>, Entry, Both} \subseteq Seq({"schema", "entry"})
  BY DEF Entry, Both
<1> QED BY <1>1, <1>2, <1>3, <1>4, <1>5

\* The order of the steps.
LEMMA Follows ==
    /\ Following("schema") = "migrate" /\ Following("migrate") = "rls"
    /\ Following("rls") = "seed" /\ Following("seed") = "list"
    /\ Following("user") = "admin" /\ Following("admin") = "activate"
BY DEF Following

Steps == {"idle"} \cup Forward \cup Back

LEMMA SagaTyped ==
    ASSUME TypeOK, NEW s \in Sagas
    PROVE  /\ saga[s].pc \in Steps /\ saga[s].tenant \in Tenants \cup {Nobody}
           /\ saga[s].email \in Emails \cup {Nobody} /\ saga[s].others \subseteq Tenants
           /\ saga[s].slug \in 0 .. MaxSlugs /\ saga[s].undo \in Seq({"schema", "entry"})
BY DEF TypeOK, Saga, Steps

\* A saga that goes to another step and changes nothing else.
LEMMA Goes ==
    ASSUME saga \in [Sagas -> Saga], NEW s \in Sagas, NEW pc \in Steps
    PROVE  /\ At(s, pc) \in [Sagas -> Saga]
           /\ At(s, pc)[s].pc = pc /\ At(s, pc)[s].tenant = saga[s].tenant
           /\ At(s, pc)[s].email = saga[s].email /\ At(s, pc)[s].slug = saga[s].slug
           /\ At(s, pc)[s].undo = saga[s].undo /\ At(s, pc)[s].others = saga[s].others
           /\ At(s, pc)[s].id = saga[s].id
           /\ \A r \in Sagas : r # s => At(s, pc)[r] = saga[r]
BY DEF At, Saga, Steps

\* One that changes what it has to undo as well.
Undone(f, g, s, undo) ==
    /\ g \in [Sagas -> Saga] /\ g[s].undo = undo
    /\ g[s].pc = f[s].pc /\ g[s].tenant = f[s].tenant /\ g[s].email = f[s].email
    /\ \A r \in Sagas : r # s => g[r] = f[r]

LEMMA SetsUndo ==
    ASSUME NEW f \in [Sagas -> Saga], NEW s \in Sagas, NEW undo \in Seq({"schema", "entry"})
    PROVE  Undone(f, [f EXCEPT ![s].undo = undo], s, undo)
BY DEF Saga, Undone

LEMMA GoesUndo ==
    ASSUME saga \in [Sagas -> Saga], NEW s \in Sagas, NEW pc \in Steps,
           NEW undo \in {<<>>, Entry, Both}, saga' = [At(s, pc) EXCEPT ![s].undo = undo]
    PROVE  /\ saga' \in [Sagas -> Saga]
           /\ saga'[s].pc = pc /\ saga'[s].tenant = saga[s].tenant
           /\ saga'[s].email = saga[s].email /\ saga'[s].undo = undo
           /\ \A r \in Sagas : r # s => saga'[r] = saga[r]
<1> DEFINE f == At(s, pc)
<1>1. /\ f \in [Sagas -> Saga] /\ f[s].pc = pc /\ f[s].tenant = saga[s].tenant
      /\ f[s].email = saga[s].email /\ \A r \in Sagas : r # s => f[r] = saga[r]
  BY Goes
<1>2. saga' = [f EXCEPT ![s].undo = undo] /\ undo \in Seq({"schema", "entry"})
  BY Undos
<1> HIDE DEF f
<1>3. Undone(f, [f EXCEPT ![s].undo = undo], s, undo)
  BY <1>1, <1>2, SetsUndo, Zenon
<1>4. Undone(f, saga', s, undo)
  BY <1>2, <1>3, Zenon
<1> QED BY <1>1, <1>4 DEF Undone

\* One that notes something that is none of the invariant's business.
Same(f, g, s) ==
    /\ g \in [Sagas -> Saga] /\ g[s].undo = f[s].undo
    /\ g[s].pc = f[s].pc /\ g[s].tenant = f[s].tenant /\ g[s].email = f[s].email
    /\ \A r \in Sagas : r # s => g[r] = f[r]

LEMMA Notes ==
    ASSUME NEW f \in [Sagas -> Saga], NEW s \in Sagas
    PROVE  /\ \A n \in Slugs : Same(f, [f EXCEPT ![s].slug = n], s)
           /\ \A us \in SUBSET Tenants : Same(f, [f EXCEPT ![s].others = us], s)
<1>1. ASSUME NEW n \in Slugs PROVE Same(f, [f EXCEPT ![s].slug = n], s)
  <2>1. n \in 0 .. MaxSlugs
    BY Numbers DEF Slugs
  <2> QED BY <2>1 DEF Saga, Same
<1>2. ASSUME NEW us \in SUBSET Tenants PROVE Same(f, [f EXCEPT ![s].others = us], s)
  BY DEF Saga, Same
<1> QED BY <1>1, <1>2

LEMMA GoesNoting ==
    ASSUME saga \in [Sagas -> Saga], NEW s \in Sagas, NEW pc \in Steps,
           Same(At(s, pc), saga', s)
    PROVE  /\ saga' \in [Sagas -> Saga]
           /\ saga'[s].pc = pc /\ saga'[s].tenant = saga[s].tenant
           /\ saga'[s].email = saga[s].email /\ saga'[s].undo = saga[s].undo
           /\ \A r \in Sagas : r # s => saga'[r] = saga[r]
<1> DEFINE f == At(s, pc)
<1>1. /\ f[s].pc = pc /\ f[s].tenant = saga[s].tenant
      /\ f[s].email = saga[s].email /\ f[s].undo = saga[s].undo
      /\ \A r \in Sagas : r # s => f[r] = saga[r]
  BY Goes
<1>2. Same(f, saga', s)
  OBVIOUS
<1> HIDE DEF f
<1> QED BY <1>1, <1>2 DEF Same

\* Content that is put into the schema of one tenant.
LEMMA Fills ==
    ASSUME schema \in [Tenants -> Schema], NEW t \in Tenants, NEW content \in SUBSET Content,
           Fill(t, content)
    PROVE  /\ schema' \in [Tenants -> Schema]
           /\ schema'[t].has = schema[t].has \cup content
           /\ schema'[t].users = schema[t].users /\ schema'[t].admins = schema[t].admins
           /\ \A u \in Tenants : u # t => schema'[u] = schema[u]
BY DEF Fill, Schema

LEMMA SetsStatus ==
    ASSUME routing \in [Tenants -> Routing], NEW t \in Tenants, NEW status \in Statuses,
           SetStatus(t, status)
    PROVE  /\ routing' \in [Tenants -> Routing]
           /\ routing'[t].status = IF routing[t].status = "none" THEN "none" ELSE status
           /\ routing[t].status = "none" => routing' = routing
           /\ \A u \in Tenants : u # t => routing'[u] = routing[u]
BY DEF SetStatus, Routing

-----------------------------------------------------------------------------
(* Types.                                                                   *)

LEMMA InitTypes == Init => TypeOK
<1> SUFFICES ASSUME Init PROVE TypeOK
  OBVIOUS
<1>1. Idle \in Saga
  BY Numbers, Undos DEF Idle, Saga
<1>2. NoRow \in Routing /\ NoSchema \in Schema
  BY Numbers DEF NoRow, Routing, Statuses, NoSchema, Schema
<1>3. Done \in Request
  BY Numbers DEF Done, Request
<1> QED BY <1>1, <1>2, <1>3, Numbers DEF Init, TypeOK

\* A saga goes on, or is over; the others stay where they are.
GoesOn(s, pc, undo) ==
    /\ saga'[s].pc = pc /\ saga'[s].tenant = saga[s].tenant
    /\ saga'[s].email = saga[s].email /\ saga'[s].undo = undo
    /\ \A r \in Sagas : r # s => saga'[r] = saga[r]
Rests(s) == saga'[s] = Idle /\ \A r \in Sagas : r # s => saga'[r] = saga[r]

LEMMA GotoIs ==
    ASSUME TypeOK, NEW s \in Sagas, NEW pc \in Steps, Goto(s, pc)
    PROVE  saga' \in [Sagas -> Saga] /\ GoesOn(s, pc, saga[s].undo)
<1>1. saga \in [Sagas -> Saga] /\ saga' = At(s, pc)
  BY DEF TypeOK, Goto
<1> QED BY <1>1, Goes DEF GoesOn

LEMMA UndoIs ==
    ASSUME TypeOK, NEW s \in Sagas, NEW pc \in Steps, NEW undo \in {<<>>, Entry, Both},
           saga' = [At(s, pc) EXCEPT ![s].undo = undo]
    PROVE  saga' \in [Sagas -> Saga] /\ GoesOn(s, pc, undo)
<1>1. saga \in [Sagas -> Saga]
  BY DEF TypeOK
<1> QED BY <1>1, GoesUndo DEF GoesOn

LEMMA NoteIs ==
    ASSUME TypeOK, NEW s \in Sagas, NEW pc \in Steps, Same(At(s, pc), saga', s)
    PROVE  saga' \in [Sagas -> Saga] /\ GoesOn(s, pc, saga[s].undo)
<1>1. saga \in [Sagas -> Saga]
  BY DEF TypeOK
<1> QED BY <1>1, GoesNoting DEF GoesOn

LEMMA RestIs ==
    ASSUME TypeOK, NEW s \in Sagas, saga' = [saga EXCEPT ![s] = Idle]
    PROVE  saga' \in [Sagas -> Saga] /\ Rests(s)
<1>1. Idle \in Saga
  BY Numbers, Undos DEF Idle, Saga
<1> QED BY <1>1 DEF TypeOK, Rests

\* AfterUndo takes the first of the compensations that are left.
LEMMA AfterUndoIs ==
    ASSUME TypeOK, NEW s \in Sagas, saga[s].undo \in {Entry, Both}, AfterUndo(s)
    PROVE  /\ saga' \in [Sagas -> Saga]
           /\ GoesOn(s, "undo", IF saga[s].undo = Both THEN Entry ELSE <<>>)
<1> DEFINE undo == IF saga[s].undo = Both THEN Entry ELSE <<>>
<1>1. Tail(saga[s].undo) = undo
  BY Undos
<1>2. At(s, "undo")[s].undo = saga[s].undo /\ "undo" \in Steps
  BY Goes DEF TypeOK, Steps, Back
<1>3. saga' = [At(s, "undo") EXCEPT ![s].undo = Tail(At(s, "undo")[s].undo)]
  <2>1. s \in DOMAIN At(s, "undo")
    BY Goes, <1>2 DEF TypeOK
  <2> QED BY <2>1 DEF AfterUndo
<1>4. undo \in {<<>>, Entry, Both}
  OBVIOUS
<1> HIDE DEF undo
<1>5. saga' = [At(s, "undo") EXCEPT ![s].undo = undo]
  BY <1>1, <1>2, <1>3, Zenon
<1> QED BY <1>2, <1>4, <1>5, UndoIs DEF undo

-----------------------------------------------------------------------------
(* Steps of one saga.                                                       *)

Settled(t) ==
    ~Running(t) /\ t \notin broken \cup again /\ routing[t].status # "active" =>
      routing[t] = NoRow /\ schema[t] = NoSchema

\* A step of s for t touches no other saga and no other tenant.
Local(s, t) ==
    /\ saga[s].tenant \in {t, Nobody} /\ saga'[s].tenant \in {t, Nobody}
    /\ \A r \in Sagas : r # s => saga'[r] = saga[r]
    /\ \A u \in Tenants : u # t => routing'[u] = routing[u] /\ schema'[u] = schema[u]
    /\ broken \subseteq broken' /\ again \subseteq again' /\ demoted \subseteq demoted'
    /\ request' = request

\* What is left to show of it.
Own(s, t) == UndoOK(s)' /\ BuiltOK(s)' /\ FirstOK(s)' /\ Whole(t)' /\ Settled(t)'

LEMMA NobodyIsNone == Nobody \notin Tenants
BY ProvisioningAssumption

\* A saga of another tenant knows what it knew.
LEMMA SagaKept ==
    ASSUME NEW r \in Sagas, UndoOK(r), BuiltOK(r), FirstOK(r), saga'[r] = saga[r],
           saga[r].tenant \in Tenants => /\ routing'[saga[r].tenant] = routing[saga[r].tenant]
                                         /\ schema'[saga[r].tenant] = schema[saga[r].tenant],
           broken \subseteq broken', again \subseteq again', demoted \subseteq demoted'
    PROVE  UndoOK(r)' /\ BuiltOK(r)' /\ FirstOK(r)'
<1>1. UndoOK(r)'
  BY DEF UndoOK
<1>2. CASE saga[r].pc = "idle"
  BY <1>1, <1>2 DEF BuiltOK, FirstOK, Made
<1>3. CASE saga[r].pc # "idle"
  <2>1. saga[r].tenant \in Tenants
    BY <1>3 DEF UndoOK
  <2>2. BuiltOK(r)'
    BY <2>1 DEF BuiltOK, Manned
  <2>3. FirstOK(r)'
    BY <2>1 DEF FirstOK
  <2> QED BY <1>1, <2>2, <2>3
<1> QED BY <1>2, <1>3

\* A tenant that no step touches is as whole and as settled as it was.
LEMMA TenantKept ==
    ASSUME NEW u \in Tenants, Whole(u), Settled(u),
           routing'[u] = routing[u], schema'[u] = schema[u],
           broken \subseteq broken', again \subseteq again', demoted \subseteq demoted',
           \A r \in Sagas : saga'[r].tenant = u <=> saga[r].tenant = u,
           \A r \in Sagas : saga[r].tenant = u => saga'[r] = saga[r]
    PROVE  Whole(u)' /\ Settled(u)'
<1>1. Untouched(u)' => Untouched(u)
  BY DEF Untouched
<1>2. Running(u)' <=> Running(u)
  BY DEF Running
<1> QED BY <1>1, <1>2 DEF Whole, Manned, Settled

\* One of the same tenant knows what it has to undo: the tenant is broken.
LEMMA SagaShared ==
    ASSUME NEW r \in Sagas, UndoOK(r), saga'[r] = saga[r], saga[r].tenant \in broken'
    PROVE  UndoOK(r)' /\ BuiltOK(r)' /\ FirstOK(r)'
BY DEF UndoOK, BuiltOK, FirstOK

LEMMA LocalKeeps ==
    ASSUME TypeOK, SagasOK, Alone, AllWhole, AllOrNothing, RequestsOK,
           NEW s \in Sagas, NEW t \in Tenants, Local(s, t), Own(s, t),
           saga[s].tenant = t \/ ~Running(t) \/ t \in broken'
    PROVE  SagasOK' /\ Alone' /\ AllWhole' /\ AllOrNothing' /\ RequestsOK'
<1>a. \A u \in Tenants : Whole(u) /\ Settled(u)
  BY DEF AllWhole, AllOrNothing, Settled
<1>b. \A r \in Sagas : r # s => saga[r].tenant # t \/ t \in broken'
  BY NobodyIsNone DEF Alone, Running, Local
<1>1. \A r \in Sagas : r # s => UndoOK(r)' /\ BuiltOK(r)' /\ FirstOK(r)'
  <2> SUFFICES ASSUME NEW r \in Sagas, r # s PROVE UndoOK(r)' /\ BuiltOK(r)' /\ FirstOK(r)'
    OBVIOUS
  <2>1. CASE saga[r].tenant # t
    BY <2>1, SagaKept DEF SagasOK, Local
  <2>2. CASE saga[r].tenant = t
    BY <1>b, <2>2, SagaShared DEF SagasOK, Local
  <2> QED BY <2>1, <2>2
<1>2. SagasOK'
  BY <1>1 DEF SagasOK, Own
<1>3. Alone'
  BY <1>b, NobodyIsNone DEF Alone, Local
<1>4. \A u \in Tenants : u # t => Whole(u)' /\ Settled(u)'
  <2> SUFFICES ASSUME NEW u \in Tenants, u # t PROVE Whole(u)' /\ Settled(u)'
    OBVIOUS
  <2>1. \A r \in Sagas : saga'[r].tenant = u <=> saga[r].tenant = u
    BY NobodyIsNone DEF Local
  <2>2. \A r \in Sagas : saga[r].tenant = u => saga'[r] = saga[r]
    BY NobodyIsNone DEF Local
  <2> QED BY <1>a, <2>1, <2>2, TenantKept DEF Local
<1>5. \A u \in Tenants : Whole(u)' /\ Settled(u)'
  BY <1>4 DEF Own
<1>6. AllWhole' /\ AllOrNothing'
  BY <1>5 DEF AllWhole, AllOrNothing, Settled
<1>7. RequestsOK'
  BY DEF RequestsOK, Local
<1> QED BY <1>2, <1>3, <1>6, <1>7

\* While s works for t, it alone says whether t is touched, or t is broken.
LEMMA OnlyOne ==
    ASSUME Alone, NEW s \in Sagas, NEW t \in Tenants, saga[s].tenant = t
    PROVE  /\ Running(t)
           /\ t \notin broken =>
                /\ \A r \in Sagas : saga[r].tenant = t <=> r = s
                /\ Untouched(t) <=> saga[s].undo = <<>> \/ saga[s].pc = "finish"
<1>1. t \notin broken => \A r \in Sagas : saga[r].tenant = t <=> r = s
  BY NobodyIsNone DEF Alone
<1> QED BY <1>1 DEF Running, Untouched

\* After a step of s for t: t is still in its hands, or in nobody's.
LEMMA StillOne ==
    ASSUME Alone, NEW s \in Sagas, NEW t \in Tenants, saga[s].tenant = t, NEW pc, NEW undo,
           GoesOn(s, pc, undo)
    PROVE  /\ saga'[s].tenant = t
           /\ Running(t)'
           /\ t \notin broken => (Untouched(t)' <=> undo = <<>> \/ pc = "finish")
<1>1. t \notin broken => \A r \in Sagas : saga'[r].tenant = t <=> r = s
  BY OnlyOne DEF GoesOn
<1> QED BY <1>1 DEF Running, Untouched, GoesOn

LEMMA NoneLeft ==
    ASSUME Alone, NEW s \in Sagas, NEW t \in Tenants, saga[s].tenant = t, Rests(s), t \notin broken
    PROVE  ~Running(t)' /\ Untouched(t)'
<1>1. Idle.tenant = Nobody
  BY DEF Idle
<1>2. \A r \in Sagas : saga'[r].tenant # t
  BY <1>1, NobodyIsNone, OnlyOne DEF Rests
<1> QED BY <1>2 DEF Running, Untouched

LEMMA IdleIsOK ==
    ASSUME NEW s \in Sagas, saga'[s] = Idle
    PROVE  UndoOK(s)' /\ BuiltOK(s)' /\ FirstOK(s)'
<1>1. Idle.pc = "idle"
  BY DEF Idle
<1> QED BY <1>1 DEF UndoOK, BuiltOK, FirstOK, Made

\* A saga at work knows its tenant.
LEMMA AtWork ==
    ASSUME TypeOK, SagasOK, AllWhole, NEW s \in Sagas, saga[s].pc # "idle"
    PROVE  /\ saga[s].tenant \in Tenants /\ saga[s].email \in Emails
           /\ UndoOK(s) /\ BuiltOK(s) /\ FirstOK(s) /\ Whole(saga[s].tenant)
           /\ schema[saga[s].tenant].has \subseteq Content
<1>1. UndoOK(s) /\ BuiltOK(s) /\ FirstOK(s)
  BY DEF SagasOK
<1>2. saga[s].tenant \in Tenants /\ saga[s].email \in Emails
  BY <1>1 DEF UndoOK
<1> QED BY <1>1, <1>2 DEF TypeOK, Schema, AllWhole

StaysManned(t) == schema'[t].admins # {} \/ t \in demoted'

\* A step of a saga at work on t: what is left to show of it.
LEMMA WorkKeeps ==
    ASSUME Inv, NEW s \in Sagas, NEW t \in Tenants, saga[s].tenant = t,
           NEW pc, NEW undo, GoesOn(s, pc, undo),
           TypeOK', UndoOK(s)', BuiltOK(s)', FirstOK(s)', Local(s, t),
           (undo = <<>> \/ pc = "finish") /\ routing'[t].status = "active" /\ t \notin broken'
              => schema'[t].has = Content /\ StaysManned(t)
    PROVE  Inv'
<1>1. Running(t)' /\ (t \notin broken' => (Untouched(t)' <=> undo = <<>> \/ pc = "finish"))
  BY StillOne DEF Inv, Local
<1>2. Whole(t)' /\ Settled(t)'
  BY <1>1 DEF Whole, Settled, Manned, StaysManned
<1>3. Own(s, t)
  BY <1>2 DEF Own
<1> QED BY <1>3, LocalKeeps DEF Inv

\* The last step of a saga for t.
LEMMA RestKeeps ==
    ASSUME Inv, NEW s \in Sagas, NEW t \in Tenants, saga[s].tenant = t, Rests(s),
           TypeOK', Local(s, t),
           routing'[t].status = "active" /\ t \notin broken'
              => schema'[t].has = Content /\ StaysManned(t),
           t \notin broken' \cup again' /\ routing'[t].status # "active"
              => routing'[t] = NoRow /\ schema'[t] = NoSchema
    PROVE  Inv'
<1>1. UndoOK(s)' /\ BuiltOK(s)' /\ FirstOK(s)'
  BY IdleIsOK DEF Rests
<1>2. Whole(t)' /\ Settled(t)'
  BY DEF Whole, Settled, Manned, StaysManned
<1>3. Own(s, t)
  BY <1>1, <1>2 DEF Own
<1> QED BY <1>3, LocalKeeps DEF Inv

-----------------------------------------------------------------------------
(* The steps of provision.                                                  *)

LEMMA StartStep ==
    ASSUME Inv, NEW s \in Sagas, NEW t \in Tenants, NEW e \in Emails, NEW tier \in Tiers,
           Start(s, t, e, tier)
    PROVE  Inv'
<1> DEFINE new == [pc |-> "slug", tenant |-> t, email |-> e, id |-> calls + 1, tier |-> tier,
                   slug |-> 0, undo |-> <<>>, others |-> {}]
<1>a. calls + 1 \in 0 .. MaxCalls
  BY Numbers DEF Inv, TypeOK, Start
<1>1. new \in Saga
  BY <1>a, Numbers, Undos, ProvisioningAssumption DEF Saga, Forward
<1>2. saga' \in [Sagas -> Saga] /\ saga'[s] = new /\ \A r \in Sagas : r # s => saga'[r] = saga[r]
  BY <1>1 DEF Inv, TypeOK, Start
<1>3. /\ new.pc = "slug" /\ new.tenant = t /\ new.email = e /\ new.undo = <<>>
  OBVIOUS
<1> HIDE DEF new
<1>4. TypeOK'
  BY <1>a, <1>2, Numbers DEF Inv, TypeOK, Start
<1>5. saga[s].tenant = Nobody
  BY DEF Inv, SagasOK, UndoOK, Start, Idle
<1>6. Local(s, t)
  BY <1>2, <1>3, <1>5 DEF Local, Start
<1>7. /\ saga'[s].pc = "slug" /\ saga'[s].tenant = t /\ saga'[s].email = e /\ saga'[s].undo = <<>>
  BY <1>2, <1>3
<1>8. UndoOK(s)'
  BY <1>7 DEF UndoOK, Made
<1>9. BuiltOK(s)'
  BY <1>7 DEF BuiltOK, Made
<1>10. Whole(t) /\ Settled(t) /\ (~Running(t) => Untouched(t)) /\ (~Running(t) \/ t \in broken')
  BY DEF Inv, AllWhole, AllOrNothing, Settled, Start, Untouched, Running
<1>11. ASSUME t \notin broken' \cup again'
       PROVE  routing'[t] = NoRow /\ schema'[t] = NoSchema
  <2>1. schema[t] = NoSchema /\ t \notin broken \cup again /\ ~Running(t)
    BY <1>10, <1>11 DEF Start
  <2>2. schema[t].has # Content
    BY <2>1 DEF NoSchema, Content
  <2>3. routing[t].status # "active"
    BY <1>10, <2>1, <2>2 DEF Whole
  <2> QED BY <1>10, <2>1, <2>3 DEF Settled, Start
<1>12. FirstOK(s)'
  BY <1>7, <1>11 DEF FirstOK, Entry
<1>13. Whole(t)'
  BY <1>10 DEF Whole, Manned, Start
<1>14. Settled(t)'
  BY <1>11 DEF Settled
<1>15. Own(s, t)
  BY <1>8, <1>9, <1>12, <1>13, <1>14 DEF Own
<1> QED BY <1>4, <1>6, <1>10, <1>15, LocalKeeps DEF Inv

\* A step that touches neither the table nor a schema, and goes on where the
\* saga stands no worse.
LEMMA GoingOn ==
    ASSUME Inv, NEW s \in Sagas, saga[s].pc # "idle", NEW pc \in Steps, GoesOn(s, pc, saga[s].undo),
           TypeOK', UNCHANGED <<routing, schema, request, again, demoted>>, broken \subseteq broken',
           UndoOK(s)', BuiltOK(s)', pc # "undoRole", pc # "finish"
    PROVE  Inv'
<1> DEFINE t == saga[s].tenant
<1>1. t \in Tenants /\ Whole(t) /\ FirstOK(s)
  BY AtWork DEF Inv
<1>2. Local(s, t)
  BY DEF Local, GoesOn
<1>3. FirstOK(s)'
  BY <1>1 DEF FirstOK, GoesOn
<1>4. t \notin broken => (Untouched(t) <=> saga[s].undo = <<>> \/ saga[s].pc = "finish")
  BY <1>1, OnlyOne DEF Inv
<1>5. (saga[s].undo = <<>> \/ pc = "finish") /\ routing'[t].status = "active" /\ t \notin broken'
         => schema'[t].has = Content /\ StaysManned(t)
  BY <1>1, <1>4 DEF Whole, Manned, StaysManned
<1> QED BY <1>1, <1>2, <1>3, <1>5, WorkKeeps

\* A call rejects, for whatever reason: what is to be undone stays the same.
LEMMA GivesIn ==
    ASSUME Inv, NEW s \in Sagas, saga[s].pc \in Forward, Goto(s, "undo"),
           calls' \in 0 .. MaxCalls, faults' \in 0 .. MaxFaults,
           UNCHANGED <<routing, schema, request, broken, again, demoted>>
    PROVE  Inv'
<1>1. "undo" \in Steps /\ saga[s].pc # "idle"
  BY DEF Steps, Forward, Back
<1>2. saga' \in [Sagas -> Saga] /\ GoesOn(s, "undo", saga[s].undo)
  BY <1>1, GotoIs DEF Inv
<1>3. TypeOK'
  BY <1>2 DEF Inv, TypeOK
<1>4. UndoOK(s) /\ saga[s].tenant \in Tenants /\ saga[s].email \in Emails
  BY <1>1, AtWork DEF Inv
<1>5. saga[s].undo \in {<<>>, Entry, Both}
  BY <1>4 DEF UndoOK, Made, Forward
<1>6. UndoOK(s)' /\ BuiltOK(s)'
  BY <1>2, <1>4, <1>5 DEF UndoOK, BuiltOK, Made, GoesOn
<1> QED BY <1>1, <1>2, <1>3, <1>6, GoingOn

LEMMA PickSlugStep == ASSUME Inv, NEW s \in Sagas, PickSlug(s) PROVE Inv'
<1>1. PICK n \in Slugs : saga' = [At(s, "entry") EXCEPT ![s].slug = n]
  BY DEF PickSlug
<1>2. "entry" \in Steps /\ saga[s].pc = "slug"
  BY DEF Steps, Forward, PickSlug
<1>3. At(s, "entry") \in [Sagas -> Saga]
  BY <1>2, Goes DEF Inv, TypeOK
<1>4. Same(At(s, "entry"), saga', s)
  BY <1>1, <1>3, Notes, Zenon
<1>5. saga' \in [Sagas -> Saga] /\ GoesOn(s, "entry", saga[s].undo)
  BY <1>2, <1>4, NoteIs DEF Inv
<1>6. TypeOK' /\ UNCHANGED <<routing, schema, broken, again, demoted, request>>
  BY <1>5 DEF Inv, TypeOK, PickSlug
<1>8. UndoOK(s)' /\ BuiltOK(s)'
  BY <1>2, <1>5, AtWork DEF Inv, UndoOK, BuiltOK, Made, GoesOn
<1> QED BY <1>2, <1>5, <1>6, <1>8, GoingOn

LEMMA ListActiveStep == ASSUME Inv, NEW s \in Sagas, ListActive(s) PROVE Inv'
<1> DEFINE us == {u \in Tenants : routing[u].status = "active"}
<1>1. us \in SUBSET Tenants /\ saga' = [At(s, "check") EXCEPT ![s].others = us]
  BY DEF ListActive
<1> HIDE DEF us
<1>2. "check" \in Steps /\ saga[s].pc = "list"
  BY DEF Steps, Forward, ListActive
<1>3. At(s, "check") \in [Sagas -> Saga]
  BY <1>2, Goes DEF Inv, TypeOK
<1>4. Same(At(s, "check"), saga', s)
  BY <1>1, <1>3, Notes, Zenon
<1>5. saga' \in [Sagas -> Saga] /\ GoesOn(s, "check", saga[s].undo)
  BY <1>2, <1>4, NoteIs DEF Inv
<1>6. TypeOK' /\ UNCHANGED <<routing, schema, broken, again, demoted, request>>
  BY <1>5 DEF Inv, TypeOK, ListActive
<1>8. UndoOK(s)' /\ BuiltOK(s)'
  BY <1>2, <1>5, <1>6, AtWork DEF Inv, UndoOK, BuiltOK, Built, Made, GoesOn
<1> QED BY <1>2, <1>5, <1>6, <1>8, GoingOn

LEMMA CheckDoneStep == ASSUME Inv, NEW s \in Sagas, CheckDone(s) PROVE Inv'
<1>2. "user" \in Steps /\ saga[s].pc = "check"
  BY DEF Steps, Forward, CheckDone
<1>5. saga' \in [Sagas -> Saga] /\ GoesOn(s, "user", saga[s].undo)
  BY <1>2, GotoIs DEF Inv, CheckDone
<1>6. TypeOK' /\ UNCHANGED <<routing, schema, broken, again, demoted, request>>
  BY <1>5 DEF Inv, TypeOK, CheckDone
<1>8. UndoOK(s)' /\ BuiltOK(s)'
  BY <1>2, <1>5, <1>6, AtWork DEF Inv, UndoOK, BuiltOK, Built, Made, GoesOn
<1> QED BY <1>2, <1>5, <1>6, <1>8, GoingOn

\* A tenant is crossed off the list.
LEMMA CrossesOff ==
    ASSUME Inv, NEW s \in Sagas, NEW u, saga' = [saga EXCEPT ![s].others = @ \ {u}]
    PROVE  saga' \in [Sagas -> Saga] /\ GoesOn(s, saga[s].pc, saga[s].undo)
<1> DEFINE us == saga[s].others \ {u}
<1>1. saga \in [Sagas -> Saga] /\ us \in SUBSET Tenants
  BY SagaTyped DEF Inv, TypeOK
<1>2. saga' = [saga EXCEPT ![s].others = us]
  BY <1>1
<1> HIDE DEF us
<1>3. Same(saga, [saga EXCEPT ![s].others = us], s)
  BY <1>1, Notes, Zenon
<1>4. Same(saga, saga', s)
  BY <1>2, <1>3, Zenon
<1> QED BY <1>4 DEF Same, GoesOn

LEMMA SkipOneStep == ASSUME Inv, NEW s \in Sagas, NEW u \in Tenants, SkipOne(s, u) PROVE Inv'
<1>2. "check" \in Steps /\ saga[s].pc = "check"
  BY DEF Steps, Forward, SkipOne
<1>5. saga' \in [Sagas -> Saga] /\ GoesOn(s, "check", saga[s].undo)
  BY <1>2, CrossesOff DEF SkipOne
<1>6. TypeOK' /\ UNCHANGED <<routing, schema, broken, again, demoted, request>>
  BY <1>5, Numbers DEF Inv, TypeOK, SkipOne
<1>8. UndoOK(s)' /\ BuiltOK(s)'
  BY <1>2, <1>5, <1>6, AtWork DEF Inv, UndoOK, BuiltOK, Built, Made, GoesOn
<1> QED BY <1>2, <1>5, <1>6, <1>8, GoingOn

LEMMA CheckOneStep == ASSUME Inv, NEW s \in Sagas, NEW u \in Tenants, CheckOne(s, u) PROVE Inv'
<1>1. /\ "check" \in Steps /\ saga[s].pc = "check" /\ saga[s].pc \in Forward
      /\ UNCHANGED <<routing, schema, broken, again, calls, faults, demoted, request>>
  BY DEF Steps, Forward, CheckOne
<1>2. CASE Known(u, saga[s].email)
  <2>1. Goto(s, "undo")
    BY <1>2 DEF CheckOne
  <2>2. calls' \in 0 .. MaxCalls /\ faults' \in 0 .. MaxFaults
    BY <1>1 DEF Inv, TypeOK
  <2> QED BY <1>1, <2>1, <2>2, GivesIn
<1>3. CASE ~Known(u, saga[s].email)
  <2>1. saga' \in [Sagas -> Saga] /\ GoesOn(s, "check", saga[s].undo)
    BY <1>1, <1>3, CrossesOff DEF CheckOne
  <2>2. TypeOK'
    BY <1>1, <2>1 DEF Inv, TypeOK
  <2>3. UndoOK(s)' /\ BuiltOK(s)'
    BY <1>1, <2>1, AtWork DEF Inv, UndoOK, BuiltOK, Built, Made, GoesOn
  <2> QED BY <1>1, <2>1, <2>2, <2>3, GoingOn
<1> QED BY <1>2, <1>3

\* The calls that reject: by a fault, by the log's reference to the row that another
\* saga deleted, by a schema that it dropped.
LEMMA CallFailsStep == ASSUME Inv, NEW s \in Sagas, CallFails(s) PROVE Inv'
<1>1. calls' \in 0 .. MaxCalls /\ faults' \in 0 .. MaxFaults
  BY Numbers DEF Inv, TypeOK, CallFails
<1> QED BY <1>1, GivesIn DEF CallFails

LEMMA LogRefusedStep == ASSUME Inv, NEW s \in Sagas, LogRefused(s) PROVE Inv'
<1>1. saga[s].pc \in Forward
  BY DEF LogRefused, Logged, Forward
<1>2. calls' \in 0 .. MaxCalls /\ faults' \in 0 .. MaxFaults
  BY DEF Inv, TypeOK, LogRefused
<1> QED BY <1>1, <1>2, GivesIn DEF LogRefused

LEMMA FillRefusedStep == ASSUME Inv, NEW s \in Sagas, FillRefused(s) PROVE Inv'
<1>1. saga[s].pc \in Forward
  BY DEF FillRefused, Forward
<1>2. calls' \in 0 .. MaxCalls /\ faults' \in 0 .. MaxFaults
  BY DEF Inv, TypeOK, FillRefused
<1> QED BY <1>1, <1>2, GivesIn DEF FillRefused

\* The row of the tenant: a refusal leaves it as it is.
LEMMA InsertEntryStep == ASSUME Inv, NEW s \in Sagas, InsertEntry(s) PROVE Inv'
<1> DEFINE t == saga[s].tenant
<1>1. {"mark", "schema"} \subseteq Steps /\ saga[s].pc = "entry"
      /\ UNCHANGED <<schema, broken, again, calls, faults, demoted, request>>
  BY DEF Steps, Forward, Back, InsertEntry
<1>2. /\ t \in Tenants /\ saga[s].email \in Emails /\ UndoOK(s) /\ FirstOK(s)
      /\ saga[s].undo = <<>>
  BY <1>1, AtWork DEF Inv, UndoOK
<1>3. CASE Accepted(s)
  <2> DEFINE row == [status |-> "provisioning", slug |-> saga[s].slug]
  <2>1. saga' \in [Sagas -> Saga] /\ GoesOn(s, "schema", Entry)
    BY <1>1, <1>3, Undos, UndoIs DEF Inv, InsertEntry
  <2>2. row \in Routing /\ row.status = "provisioning"
    BY SagaTyped DEF Inv, Routing, Statuses
  <2>3. routing' = [routing EXCEPT ![t] = row]
    BY <1>3 DEF InsertEntry
  <2> HIDE DEF row
  <2>4. /\ routing' \in [Tenants -> Routing] /\ routing'[t] = row
        /\ \A u \in Tenants : u # t => routing'[u] = routing[u]
    BY <1>2, <2>2, <2>3 DEF Inv, TypeOK
  <2>5. TypeOK'
    BY <1>1, <2>1, <2>4 DEF Inv, TypeOK
  <2>6. Local(s, t)
    BY <1>1, <2>1, <2>4 DEF Local, GoesOn
  <2>7. UndoOK(s)'
    BY <1>2, <2>1 DEF UndoOK, Made, GoesOn
  <2>8. BuiltOK(s)'
    BY <2>1, <2>2, <2>4 DEF BuiltOK, Made, GoesOn
  <2>9. t \notin broken \cup again => schema[t] = NoSchema
    BY <1>1, <1>2 DEF FirstOK
  <2>10. FirstOK(s)'
    BY <1>1, <2>1, <2>9, Undos DEF FirstOK, GoesOn
  <2> QED BY <1>2, <2>1, <2>2, <2>4, <2>5, <2>6, <2>7, <2>8, <2>10, Undos, WorkKeeps
<1>4. CASE ~Accepted(s)
  <2>1. saga' \in [Sagas -> Saga] /\ GoesOn(s, "mark", saga[s].undo)
    BY <1>1, <1>4, GotoIs DEF Inv, InsertEntry
  <2>2. routing' = routing
    BY <1>4 DEF InsertEntry
  <2>3. TypeOK'
    BY <1>1, <2>1, <2>2 DEF Inv, TypeOK
  <2>4. UndoOK(s)' /\ BuiltOK(s)'
    BY <1>1, <1>2, <2>1 DEF UndoOK, BuiltOK, Made, GoesOn
  <2> QED BY <1>1, <2>1, <2>2, <2>3, <2>4, GoingOn
<1> QED BY <1>3, <1>4

LEMMA CreateSchemaStep == ASSUME Inv, NEW s \in Sagas, CreateSchema(s) PROVE Inv'
<1> DEFINE t == saga[s].tenant
<1>1. "migrate" \in Steps /\ saga[s].pc = "schema"
      /\ UNCHANGED <<routing, broken, again, calls, faults, demoted, request>>
  BY DEF Steps, Forward, CreateSchema
<1>2. /\ t \in Tenants /\ saga[s].email \in Emails /\ saga[s].undo = Entry /\ BuiltOK(s)
  BY <1>1, AtWork DEF Inv, UndoOK
<1>3. saga' \in [Sagas -> Saga] /\ GoesOn(s, "migrate", Both)
  <2>1. saga \in [Sagas -> Saga] /\ s \in DOMAIN At(s, "migrate") /\ At(s, "migrate")[s].undo = Entry
    BY <1>1, <1>2, Goes DEF Inv, TypeOK
  <2>2. saga' = [At(s, "migrate") EXCEPT ![s].undo = UndoSchema(@)]
    BY Follows DEF CreateSchema
  <2>3. saga' = [At(s, "migrate") EXCEPT ![s].undo = UndoSchema(At(s, "migrate")[s].undo)]
    BY <2>1, <2>2
  <2>4. saga' = [At(s, "migrate") EXCEPT ![s].undo = Both]
    BY <2>1, <2>3, Undos, Zenon
  <2> QED BY <1>1, <2>4, UndoIs DEF Inv
<1>4. {"schema", "role"} \in SUBSET Content
  BY DEF Content
<1>5. /\ schema' \in [Tenants -> Schema] /\ schema'[t].has = schema[t].has \cup {"schema", "role"}
      /\ schema'[t].users = schema[t].users /\ schema'[t].admins = schema[t].admins
      /\ \A u \in Tenants : u # t => schema'[u] = schema[u]
  BY <1>2, <1>4, Fills DEF Inv, TypeOK, CreateSchema
<1>6. TypeOK' /\ Local(s, t)
  BY <1>1, <1>3, <1>5 DEF Inv, TypeOK, Local, GoesOn
<1>7. UndoOK(s)' /\ FirstOK(s)'
  BY <1>2, <1>3, Undos DEF UndoOK, FirstOK, Made, GoesOn
<1>8. BuiltOK(s)'
  BY <1>1, <1>2, <1>3, <1>5 DEF BuiltOK, Built, Made, GoesOn
<1> QED BY <1>1, <1>2, <1>3, <1>5, <1>6, <1>7, <1>8, Undos, WorkKeeps

\* The policies find the tables that the migrations made.
LEMMA FillSchemaStep == ASSUME Inv, NEW s \in Sagas, FillSchema(s) PROVE Inv'
<1> DEFINE t == saga[s].tenant
           pc == saga[s].pc
           new == Following(pc)
           content == IF pc = "migrate" THEN {"tables"}
                      ELSE IF pc = "seed" THEN {"seed"}
                      ELSE IF "tables" \in schema[t].has THEN {"rls"} ELSE {}
<1>1. pc \in {"migrate", "rls", "seed"} /\ pc \in Made /\ new \in Steps \cap {"rls", "seed", "list"}
      /\ UNCHANGED <<routing, broken, again, calls, faults, demoted, request>>
  BY Follows DEF Steps, Forward, Made, FillSchema
<1>2. /\ t \in Tenants /\ saga[s].email \in Emails /\ saga[s].undo = Both /\ BuiltOK(s)
      /\ schema[t].has \subseteq Content
  BY <1>1, AtWork DEF Inv, UndoOK
<1>3. saga' \in [Sagas -> Saga] /\ GoesOn(s, new, Both)
  BY <1>1, <1>2, GotoIs DEF Inv, FillSchema
<1>4. t \notin broken => Built(pc) \subseteq schema[t].has
  BY <1>1, <1>2 DEF BuiltOK
<1>5. Fill(t, content) /\ content \in SUBSET Content
  BY <1>1 DEF FillSchema, Content
<1>6. t \notin broken => Built(new) \subseteq schema[t].has \cup content
  BY <1>1, <1>4, Follows DEF Built, Content
<1> HIDE DEF content
<1>7. /\ schema' \in [Tenants -> Schema] /\ schema'[t].has = schema[t].has \cup content
      /\ schema'[t].users = schema[t].users /\ schema'[t].admins = schema[t].admins
      /\ \A u \in Tenants : u # t => schema'[u] = schema[u]
  BY <1>2, <1>5, Fills DEF Inv, TypeOK
<1> HIDE DEF new
<1>8. TypeOK' /\ Local(s, t)
  BY <1>1, <1>3, <1>7 DEF Inv, TypeOK, Local, GoesOn
<1>9. UndoOK(s)' /\ FirstOK(s)'
  BY <1>1, <1>2, <1>3, Undos DEF UndoOK, FirstOK, Made, GoesOn
<1>10. BuiltOK(s)'
  BY <1>1, <1>2, <1>3, <1>6, <1>7 DEF BuiltOK, Made, GoesOn
<1> QED BY <1>1, <1>2, <1>3, <1>7, <1>8, <1>9, <1>10, Undos, WorkKeeps

\* A user or a role is put into the schema of one tenant, or nothing at all.
Adds(t) ==
    /\ schema' \in [Tenants -> Schema] /\ schema'[t].has = schema[t].has
    /\ schema[t].admins \subseteq schema'[t].admins
    /\ \A u \in Tenants : u # t => schema'[u] = schema[u]

LEMMA Additions ==
    ASSUME schema \in [Tenants -> Schema], NEW t \in Tenants, NEW w \in User
    PROVE  /\ Insert(t, w) => Adds(t)
           /\ Grant(t, w) => Adds(t) /\ schema'[t].admins # {}
           /\ UNCHANGED schema => Adds(t)
<1>1. Insert(t, w) => Adds(t)
  BY DEF Insert, Adds, Schema
<1>2. Grant(t, w) => Adds(t) /\ schema'[t].admins # {}
  BY DEF Grant, Adds, Schema
<1> QED BY <1>1, <1>2 DEF Adds

\* The id that a saga draws is one a user can have.
LEMMA DrawnTyped ==
    ASSUME TypeOK, NEW s \in Sagas, saga[s].email \in Emails
    PROVE  Drawn(saga[s]) \in User
<1>1. saga[s].id \in 0 .. MaxCalls
  BY DEF TypeOK, Saga
<1> QED BY <1>1, Numbers DEF Drawn, User

\* The tenant's first administrator, in two steps.
LEMMA InsertUserStep == ASSUME Inv, NEW s \in Sagas, InsertUser(s) PROVE Inv'
<1> DEFINE t == saga[s].tenant
<1>1. "admin" \in Steps /\ saga[s].pc = "user"
      /\ UNCHANGED <<routing, broken, again, calls, faults, demoted, request>>
  BY DEF Steps, Forward, InsertUser
<1>2. /\ t \in Tenants /\ saga[s].email \in Emails /\ saga[s].undo = Both /\ BuiltOK(s)
      /\ UndoOK(s)
  BY <1>1, AtWork DEF Inv, UndoOK, Made
<1>3. saga' \in [Sagas -> Saga] /\ GoesOn(s, "admin", Both)
  BY <1>1, <1>2, Follows, GotoIs DEF Inv, InsertUser
<1>4. Drawn(saga[s]) \in User
  BY <1>2, DrawnTyped DEF Inv
<1>5. Adds(t)
  BY <1>2, <1>4, Additions DEF Inv, TypeOK, InsertUser
<1>6. TypeOK' /\ Local(s, t)
  BY <1>1, <1>3, <1>5 DEF Inv, TypeOK, Local, GoesOn, Adds
<1>7. UndoOK(s)' /\ FirstOK(s)'
  BY <1>1, <1>2, <1>3, Undos DEF UndoOK, FirstOK, Made, GoesOn
<1>8. BuiltOK(s)'
  BY <1>1, <1>2, <1>3, <1>5 DEF BuiltOK, Built, Made, GoesOn, Adds
<1> QED BY <1>1, <1>2, <1>3, <1>6, <1>7, <1>8, Undos, WorkKeeps

LEMMA AssignRoleStep == ASSUME Inv, NEW s \in Sagas, AssignRole(s) PROVE Inv'
<1> DEFINE t == saga[s].tenant
<1>1. "activate" \in Steps /\ saga[s].pc = "admin" /\ saga[s].pc \in Forward
      /\ UNCHANGED <<routing, broken, again, calls, faults, demoted, request>>
  BY DEF Steps, Forward, AssignRole
<1>2. /\ t \in Tenants /\ saga[s].email \in Emails /\ saga[s].undo = Both /\ UndoOK(s) /\ BuiltOK(s)
  BY <1>1, AtWork DEF Inv, UndoOK, Made
<1>3. t \notin broken => "seed" \in schema[t].has
  BY <1>1, <1>2 DEF BuiltOK, Built, Made, Content
<1>4. CASE Goto(s, "undo") /\ UNCHANGED schema
  <2>1. calls' \in 0 .. MaxCalls /\ faults' \in 0 .. MaxFaults
    BY <1>1 DEF Inv, TypeOK
  <2> QED BY <1>1, <1>4, <2>1, GivesIn
<1>5. CASE /\ Goto(s, "activate")
           /\ Grant(t, Drawn(saga[s])) \/ (UNCHANGED schema /\ "seed" \notin schema[t].has)
  <2>1. saga' \in [Sagas -> Saga] /\ GoesOn(s, "activate", Both)
    BY <1>1, <1>2, <1>5, GotoIs DEF Inv
  <2>2. Drawn(saga[s]) \in User
    BY <1>2, DrawnTyped DEF Inv
  <2>3. Adds(t) /\ (t \notin broken => schema'[t].admins # {})
    BY <1>2, <1>3, <1>5, <2>2, Additions DEF Inv, TypeOK
  <2>4. TypeOK' /\ Local(s, t)
    BY <1>1, <2>1, <2>3 DEF Inv, TypeOK, Local, GoesOn, Adds
  <2>5. UndoOK(s)' /\ FirstOK(s)'
    BY <1>1, <1>2, <2>1, Undos DEF UndoOK, FirstOK, Made, GoesOn
  <2>6. BuiltOK(s)'
    BY <1>1, <1>2, <2>1, <2>3 DEF BuiltOK, Built, Made, Manned, GoesOn, Adds
  <2> QED BY <1>1, <1>2, <2>1, <2>4, <2>5, <2>6, Undos, WorkKeeps
<1> QED BY <1>4, <1>5, Follows DEF AssignRole

\* Everything is there when the tenant becomes active.
LEMMA ActivateStep == ASSUME Inv, NEW s \in Sagas, Activate(s) PROVE Inv'
<1> DEFINE t == saga[s].tenant
<1>1. "finish" \in Steps /\ saga[s].pc = "activate" /\ "active" \in Statuses
      /\ UNCHANGED <<schema, broken, again, calls, faults, demoted, request>>
  BY DEF Steps, Forward, Statuses, Activate
<1>2. /\ t \in Tenants /\ saga[s].email \in Emails /\ saga[s].undo = Both /\ BuiltOK(s)
      /\ schema[t].has \subseteq Content
  BY <1>1, AtWork DEF Inv, UndoOK, Made
<1>3. /\ routing[t].status # "none"
      /\ t \notin broken => Content \subseteq schema[t].has /\ Manned(t)
  BY <1>1, <1>2 DEF BuiltOK, Built, Made, Activate, Entered
<1>4. saga' \in [Sagas -> Saga] /\ GoesOn(s, "finish", Both)
  BY <1>1, <1>2, GotoIs DEF Inv, Activate
<1>5. /\ routing' \in [Tenants -> Routing] /\ routing'[t].status = "active"
      /\ \A u \in Tenants : u # t => routing'[u] = routing[u]
  BY <1>1, <1>2, <1>3, SetsStatus DEF Inv, TypeOK, Activate
<1>6. TypeOK' /\ Local(s, t)
  BY <1>1, <1>4, <1>5 DEF Inv, TypeOK, Local, GoesOn
<1>7. UndoOK(s)' /\ FirstOK(s)'
  BY <1>2, <1>4, Undos DEF UndoOK, FirstOK, Made, GoesOn
<1>8. BuiltOK(s)'
  BY <1>1, <1>3, <1>4, <1>5 DEF BuiltOK, Built, Made, Manned, GoesOn
<1>10. t \notin broken' => schema'[t].has = Content /\ StaysManned(t)
  BY <1>1, <1>2, <1>3 DEF Manned, StaysManned
<1> QED BY <1>1, <1>2, <1>4, <1>6, <1>7, <1>8, <1>10, Undos, WorkKeeps

LEMMA FinishStep == ASSUME Inv, NEW s \in Sagas, Finish(s) PROVE Inv'
<1> DEFINE t == saga[s].tenant
<1>1. saga[s].pc = "finish"
      /\ UNCHANGED <<routing, schema, broken, again, calls, faults, demoted, request>>
  BY DEF Finish
<1>2. /\ t \in Tenants /\ BuiltOK(s) /\ Whole(t) /\ schema[t].has \subseteq Content
  BY <1>1, AtWork DEF Inv
<1>3. saga' \in [Sagas -> Saga] /\ Rests(s)
  BY RestIs DEF Inv, Finish
<1>4. TypeOK' /\ Local(s, t)
  BY <1>1, <1>3 DEF Inv, TypeOK, Local, Rests, Idle
<1>5. t \notin broken => schema[t].has = Content /\ Manned(t) /\ routing[t].status = "active"
  BY <1>1, <1>2 DEF BuiltOK, Built, Made
<1>6. t \notin broken' => schema'[t].has = Content /\ StaysManned(t) /\ routing'[t].status = "active"
  BY <1>1, <1>5 DEF Manned, StaysManned
<1> QED BY <1>2, <1>3, <1>4, <1>6, RestKeeps

-----------------------------------------------------------------------------
(* Failure and compensation.                                                *)

LEMMA DropSchemaStep == ASSUME Inv, NEW s \in Sagas, DropSchema(s) PROVE Inv'
<1> DEFINE t == saga[s].tenant
           left == [NoSchema EXCEPT !.has = schema[t].has \cap {"role"}]
<1>1. "undoRole" \in Steps /\ saga[s].pc = "undo" /\ saga[s].undo # <<>>
      /\ Head(saga[s].undo) = "schema"
      /\ UNCHANGED <<routing, broken, again, calls, faults, demoted, request>>
  BY DEF Steps, Back, DropSchema
<1>2. /\ t \in Tenants /\ saga[s].email \in Emails /\ saga[s].undo = Both
      /\ schema[t].has \subseteq Content
  BY <1>1, AtWork, Undos DEF Inv, UndoOK
<1>3. saga' \in [Sagas -> Saga] /\ GoesOn(s, "undoRole", Both)
  BY <1>1, <1>2, GotoIs DEF Inv, DropSchema
<1>4. /\ left \in Schema /\ left.has \subseteq {"role"} /\ left.users = {} /\ left.admins = {}
  BY <1>2 DEF Schema, NoSchema
<1>5. schema' = [schema EXCEPT ![t] = left]
  BY DEF DropSchema
<1> HIDE DEF left
<1>6. /\ schema' \in [Tenants -> Schema] /\ schema'[t] = left
      /\ \A u \in Tenants : u # t => schema'[u] = schema[u]
  BY <1>2, <1>4, <1>5 DEF Inv, TypeOK
<1>7. TypeOK' /\ Local(s, t)
  BY <1>1, <1>3, <1>6 DEF Inv, TypeOK, Local, GoesOn
<1>8. UndoOK(s)' /\ BuiltOK(s)'
  BY <1>2, <1>3 DEF UndoOK, BuiltOK, Made, GoesOn
<1>9. FirstOK(s)'
  BY <1>3, <1>4, <1>6, Undos DEF FirstOK, GoesOn
<1> QED BY <1>1, <1>2, <1>3, <1>4, <1>6, <1>7, <1>8, <1>9, Undos, WorkKeeps

LEMMA DropRoleStep == ASSUME Inv, NEW s \in Sagas, DropRole(s) PROVE Inv'
<1> DEFINE t == saga[s].tenant
<1>1. saga[s].pc = "undoRole"
      /\ UNCHANGED <<routing, broken, again, calls, faults, demoted, request>>
  BY DEF DropRole
<1>2. /\ t \in Tenants /\ saga[s].email \in Emails /\ saga[s].undo = Both /\ FirstOK(s)
  BY <1>1, AtWork DEF Inv, UndoOK
<1>3. saga' \in [Sagas -> Saga] /\ GoesOn(s, "undo", Entry)
  BY <1>2, AfterUndoIs DEF Inv, DropRole
<1>4. /\ schema' \in [Tenants -> Schema] /\ schema'[t].has = schema[t].has \ {"role"}
      /\ schema'[t].users = schema[t].users /\ schema'[t].admins = schema[t].admins
      /\ \A u \in Tenants : u # t => schema'[u] = schema[u]
  BY <1>2 DEF Inv, TypeOK, Schema, DropRole
<1>5. TypeOK' /\ Local(s, t)
  BY <1>1, <1>3, <1>4 DEF Inv, TypeOK, Local, GoesOn
<1>6. UndoOK(s)' /\ BuiltOK(s)'
  BY <1>2, <1>3 DEF UndoOK, BuiltOK, Made, GoesOn
<1>7. ASSUME t \notin broken \cup again PROVE schema'[t] = NoSchema
  <2>1. schema[t].has \subseteq {"role"} /\ schema[t].users = {} /\ schema[t].admins = {}
    BY <1>1, <1>2, <1>7 DEF FirstOK
  <2>2. schema'[t] \in Schema
    BY <1>2, <1>4
  <2>3. schema'[t].has = {} /\ schema'[t].users = {} /\ schema'[t].admins = {}
    BY <1>4, <2>1
  <2> QED BY <2>2, <2>3 DEF Schema, NoSchema
<1>8. FirstOK(s)'
  BY <1>1, <1>3, <1>7, Undos DEF FirstOK, GoesOn
<1> QED BY <1>1, <1>2, <1>3, <1>4, <1>5, <1>6, <1>8, Undos, WorkKeeps

LEMMA DeleteEntryStep == ASSUME Inv, NEW s \in Sagas, DeleteEntry(s) PROVE Inv'
<1> DEFINE t == saga[s].tenant
<1>1. saga[s].pc = "undo" /\ saga[s].undo # <<>> /\ Head(saga[s].undo) = "entry"
      /\ UNCHANGED <<schema, broken, again, calls, faults, demoted, request>>
  BY DEF DeleteEntry
<1>2. /\ t \in Tenants /\ saga[s].email \in Emails /\ saga[s].undo = Entry /\ FirstOK(s)
  BY <1>1, AtWork, Undos DEF Inv, UndoOK
<1>3. saga' \in [Sagas -> Saga] /\ GoesOn(s, "undo", <<>>)
  BY <1>2, AfterUndoIs, Undos DEF Inv, DeleteEntry
<1>4. NoRow \in Routing /\ NoRow.status = "none"
  BY Numbers DEF NoRow, Routing, Statuses
<1>5. /\ routing' \in [Tenants -> Routing] /\ routing'[t] = NoRow
      /\ \A u \in Tenants : u # t => routing'[u] = routing[u]
  BY <1>2, <1>4 DEF Inv, TypeOK, DeleteEntry
<1>6. TypeOK' /\ Local(s, t)
  BY <1>1, <1>3, <1>5 DEF Inv, TypeOK, Local, GoesOn
<1>7. UndoOK(s)' /\ BuiltOK(s)'
  BY <1>2, <1>3 DEF UndoOK, BuiltOK, Made, GoesOn
<1>8. FirstOK(s)'
  BY <1>1, <1>2, <1>3, <1>5, Undos DEF FirstOK, GoesOn
<1> QED BY <1>1, <1>2, <1>3, <1>4, <1>5, <1>6, <1>7, <1>8, WorkKeeps

\* A compensation that fails leaves its part behind: the tenant is broken.
LEMMA UndoFailsStep == ASSUME Inv, NEW s \in Sagas, UndoFails(s) PROVE Inv'
<1> DEFINE t == saga[s].tenant
           undo == IF saga[s].undo = Both THEN Entry ELSE <<>>
<1>1. /\ saga[s].pc = "undoRole" \/ (saga[s].pc = "undo" /\ saga[s].undo # <<>>)
      /\ faults < MaxFaults /\ faults' = faults + 1 /\ broken' = broken \cup {t}
      /\ UNCHANGED <<routing, schema, again, calls, demoted, request>>
  BY DEF UndoFails
<1>2. /\ t \in Tenants /\ saga[s].email \in Emails /\ UndoOK(s)
  BY <1>1, AtWork DEF Inv
<1>3. saga[s].undo \in {Entry, Both}
  BY <1>1, <1>2 DEF UndoOK
<1>4. saga' \in [Sagas -> Saga] /\ GoesOn(s, "undo", undo)
  BY <1>3, AfterUndoIs DEF Inv, UndoFails
<1>5. undo \in {<<>>, Entry, Both}
  OBVIOUS
<1> HIDE DEF undo
<1>6. TypeOK' /\ Local(s, t)
  BY <1>1, <1>2, <1>4, Numbers DEF Inv, TypeOK, Local, GoesOn
<1>7. UndoOK(s)' /\ BuiltOK(s)' /\ FirstOK(s)' /\ t \in broken'
  BY <1>1, <1>2, <1>4, <1>5 DEF UndoOK, BuiltOK, FirstOK, Made, GoesOn
<1> QED BY <1>2, <1>4, <1>6, <1>7, WorkKeeps

\* The end of a saga that gave up: the row it was to make is not there, or it is
\* marked, and the tenant is broken.
LEMMA GivesUp ==
    ASSUME Inv, NEW s \in Sagas, saga[s].pc = "mark" \/ (saga[s].pc = "undo" /\ saga[s].undo = <<>>)
    PROVE  /\ saga[s].tenant \in Tenants /\ Whole(saga[s].tenant)
           /\ saga[s].tenant \notin broken => Untouched(saga[s].tenant)
           /\ saga[s].tenant \notin broken \cup again =>
                routing[saga[s].tenant] = NoRow /\ schema[saga[s].tenant] = NoSchema
<1>1. /\ saga[s].tenant \in Tenants /\ UndoOK(s) /\ FirstOK(s) /\ Whole(saga[s].tenant)
  BY AtWork DEF Inv
<1>2. saga[s].undo = <<>>
  BY <1>1 DEF UndoOK
<1>3. saga[s].tenant \notin broken => Untouched(saga[s].tenant)
  BY <1>1, <1>2, OnlyOne DEF Inv
<1> QED BY <1>1, <1>2, <1>3 DEF FirstOK

LEMMA MarkRowStep == ASSUME Inv, NEW s \in Sagas, MarkRow(s) PROVE Inv'
<1> DEFINE t == saga[s].tenant
<1>1. /\ saga[s].pc = "mark" \/ (saga[s].pc = "undo" /\ saga[s].undo = <<>>)
      /\ SetStatus(t, "deprovisioning") /\ saga' = [saga EXCEPT ![s] = Idle]
      /\ broken' = IF routing[t].status = "none" THEN broken ELSE broken \cup {t}
      /\ UNCHANGED <<schema, again, calls, faults, demoted, request>>
  BY DEF MarkRow, StatusAfterRollback
<1>2. /\ t \in Tenants /\ Whole(t) /\ (t \notin broken => Untouched(t))
      /\ t \notin broken \cup again => routing[t] = NoRow /\ schema[t] = NoSchema
  BY <1>1, GivesUp
<1>3. saga' \in [Sagas -> Saga] /\ Rests(s)
  BY <1>1, RestIs DEF Inv
<1>4. "deprovisioning" \in Statuses
  BY DEF Statuses
<1>5. /\ routing' \in [Tenants -> Routing]
      /\ routing'[t].status = IF routing[t].status = "none" THEN "none" ELSE "deprovisioning"
      /\ routing[t].status = "none" => routing' = routing
      /\ \A u \in Tenants : u # t => routing'[u] = routing[u]
  BY <1>1, <1>2, <1>4, SetsStatus DEF Inv, TypeOK
<1>6. TypeOK' /\ Local(s, t)
  BY <1>1, <1>2, <1>3, <1>5 DEF Inv, TypeOK, Local, Rests, Idle
<1>7. routing'[t].status # "active"
  BY <1>5
<1>8. t \notin broken' \cup again' => routing'[t] = NoRow /\ schema'[t] = NoSchema
  BY <1>1, <1>2, <1>5
<1> QED BY <1>1, <1>2, <1>3, <1>6, <1>7, <1>8, RestKeeps

LEMMA MarkRowFailsStep == ASSUME Inv, NEW s \in Sagas, MarkRowFails(s) PROVE Inv'
<1> DEFINE t == saga[s].tenant
<1>1. /\ saga[s].pc = "mark" \/ (saga[s].pc = "undo" /\ saga[s].undo = <<>>)
      /\ saga' = [saga EXCEPT ![s] = Idle] /\ faults < MaxFaults /\ faults' = faults + 1
      /\ UNCHANGED <<routing, schema, broken, again, calls, demoted, request>>
  BY DEF MarkRowFails
<1>2. /\ t \in Tenants /\ Whole(t) /\ (t \notin broken => Untouched(t))
      /\ t \notin broken \cup again => routing[t] = NoRow /\ schema[t] = NoSchema
  BY <1>1, GivesUp
<1>3. saga' \in [Sagas -> Saga] /\ Rests(s)
  BY <1>1, RestIs DEF Inv
<1>4. TypeOK' /\ Local(s, t)
  BY <1>1, <1>3, Numbers DEF Inv, TypeOK, Local, Rests, Idle
<1>5. routing'[t].status = "active" /\ t \notin broken'
         => schema'[t].has = Content /\ StaysManned(t)
  BY <1>1, <1>2 DEF Whole, Manned, StaysManned
<1> QED BY <1>1, <1>2, <1>3, <1>4, <1>5, RestKeeps

\* All sagas are gone, and what they were at is broken.
LEMMA StopStep == ASSUME Inv, Stop PROVE Inv'
<1>1. /\ faults < MaxFaults /\ faults' = faults + 1
      /\ broken' = broken \cup {t \in Tenants : Running(t)}
      /\ saga' = [s \in Sagas |-> Idle]
      /\ UNCHANGED <<routing, schema, calls, again, demoted, request>>
  BY DEF Stop
<1>2. Idle \in Saga
  BY Numbers, Undos DEF Idle, Saga
<1>3. \A s \in Sagas : saga'[s] = Idle
  BY <1>1
<1>4. Idle.tenant = Nobody /\ Idle.undo = <<>>
  BY DEF Idle
<1>5. TypeOK'
  BY <1>1, <1>2, Numbers DEF Inv, TypeOK
<1>6. SagasOK'
  BY <1>3, IdleIsOK DEF SagasOK
<1>7. Alone'
  BY <1>3, <1>4 DEF Alone
<1>8. ASSUME NEW t \in Tenants, t \notin broken' PROVE Untouched(t) /\ ~Running(t) /\ t \notin broken
  BY <1>1, <1>8 DEF Untouched, Running
<1>9. AllWhole'
  BY <1>1, <1>8 DEF Inv, AllWhole, Whole, Manned
<1>10. AllOrNothing'
  BY <1>1, <1>8 DEF Inv, AllOrNothing
<1>11. RequestsOK'
  BY <1>1 DEF Inv, RequestsOK
<1> QED BY <1>5, <1>6, <1>7, <1>9, <1>10, <1>11 DEF Inv

-----------------------------------------------------------------------------
(* The operators of the control plane.                                      *)

\* A status is set by hand, to anything but active unless the tenant is set apart.
LEMMA ByHand ==
    ASSUME Inv, NEW t \in Tenants, NEW status \in Statuses \ {"none"}, SetStatus(t, status),
           routing[t].status # "none", TypeOK', UNCHANGED <<schema, saga, again, demoted, request>>,
           broken \subseteq broken',
           \/ t \in broken'
           \/ routing[t].status # "active" /\ status # "active"
    PROVE  Inv'
<1>1. /\ routing' \in [Tenants -> Routing] /\ routing'[t].status = status
      /\ \A u \in Tenants : u # t => routing'[u] = routing[u]
  BY SetsStatus DEF Inv, TypeOK
<1>2. \A u \in Tenants : u \in broken' \/ (routing'[u].status = "active" <=> routing[u].status = "active")
  BY <1>1
<1>3. \A u \in Tenants : routing[u].status # "none" => routing'[u].status # "none"
  BY <1>1
<1>4. ASSUME NEW s \in Sagas PROVE UndoOK(s)' /\ BuiltOK(s)' /\ FirstOK(s)'
  <2>1. UndoOK(s) /\ BuiltOK(s) /\ FirstOK(s)
    BY DEF Inv, SagasOK
  <2>2. UndoOK(s)'
    BY <2>1 DEF UndoOK
  <2>3. CASE saga[s].pc = "idle"
    BY <2>2, <2>3 DEF BuiltOK, FirstOK, Made
  <2>4. CASE saga[s].pc # "idle"
    <3>1. saga[s].tenant \in Tenants
      BY <2>1, <2>4 DEF UndoOK
    <3>2. BuiltOK(s)'
      BY <1>2, <1>3, <2>1, <3>1 DEF BuiltOK, Manned
    <3>3. saga[s].tenant \notin broken' \cup again' /\ saga[s].undo = <<>> => saga[s].tenant # t
      BY <2>1, <2>4 DEF FirstOK, NoRow
    <3>4. FirstOK(s)'
      BY <1>1, <2>1, <3>1, <3>3 DEF FirstOK
    <3> QED BY <2>2, <3>2, <3>4
  <2> QED BY <2>3, <2>4
<1>5. SagasOK'
  BY <1>4 DEF SagasOK
<1>6. Alone' /\ RequestsOK'
  BY DEF Inv, Alone, RequestsOK
<1>7. AllWhole'
  BY <1>2 DEF Inv, AllWhole, Whole, Manned, Untouched
<1>8. AllOrNothing'
  <2> SUFFICES ASSUME NEW u \in Tenants, ~Running(u)', u \notin broken' \cup again',
                      routing'[u].status # "active"
               PROVE  routing'[u] = NoRow /\ schema'[u] = NoSchema
    BY DEF AllOrNothing
  <2>1. routing[u] = NoRow /\ schema[u] = NoSchema
    BY <1>2 DEF Inv, AllOrNothing, Running
  <2>2. u # t
    BY <2>1 DEF NoRow
  <2> QED BY <1>1, <2>1, <2>2
<1> QED BY <1>5, <1>6, <1>7, <1>8 DEF Inv

LEMMA MarkAsFailedStep == ASSUME Inv, NEW t \in Tenants, MarkAsFailed(t) PROVE Inv'
<1>1. /\ routing[t].status \in {"provisioning", "deprovisioning"} /\ SetStatus(t, "failed")
      /\ faults < MaxFaults /\ faults' = faults + 1
      /\ UNCHANGED <<schema, saga, calls, broken, again, demoted, request>>
  BY DEF MarkAsFailed
<1>2. "failed" \in Statuses \ {"none"}
  BY DEF Statuses
<1>3. routing' \in [Tenants -> Routing]
  BY <1>1, <1>2, SetsStatus DEF Inv, TypeOK
<1>4. TypeOK'
  BY <1>1, <1>3, Numbers DEF Inv, TypeOK
<1> QED BY <1>1, <1>2, <1>4, ByHand

LEMMA ChangeStatusStep ==
    ASSUME Inv, NEW t \in Tenants, NEW status \in {"active", "suspended"}, ChangeStatus(t, status)
    PROVE  Inv'
<1>1. /\ status \in Statuses /\ routing[t].status \notin {"none", status}
      /\ SetStatus(t, status) /\ broken' = broken \cup {t}
      /\ faults < MaxFaults /\ faults' = faults + 1
      /\ UNCHANGED <<schema, saga, calls, again, demoted, request>>
  BY DEF ChangeStatus
<1>2. status \in Statuses \ {"none"}
  BY <1>1
<1>3. routing' \in [Tenants -> Routing]
  BY <1>1, <1>2, SetsStatus DEF Inv, TypeOK
<1>4. TypeOK'
  BY <1>1, <1>3, Numbers DEF Inv, TypeOK
<1>5. broken \subseteq broken' /\ t \in broken'
  BY <1>1
<1> QED BY <1>1, <1>2, <1>4, <1>5, ByHand

-----------------------------------------------------------------------------
(* The members service.                                                     *)

\* What it writes changes nothing that is built, and nothing where there are no tables.
LEMMA MembersKeep ==
    ASSUME Inv, TypeOK', RequestsOK', UNCHANGED <<routing, saga, broken, again>>,
           demoted \subseteq demoted',
           \A t \in Tenants :
             \/ schema'[t] = schema[t]
             \/ /\ "tables" \in schema[t].has /\ schema'[t].has = schema[t].has
                /\ Manned(t) => Manned(t)'
    PROVE  Inv'
<1>1. \A t \in Tenants : schema'[t].has = schema[t].has /\ (Manned(t) => Manned(t)')
  BY DEF Manned
<1>2. \A t \in Tenants : "tables" \notin schema[t].has => schema'[t] = schema[t]
  OBVIOUS
<1>3. "tables" \notin NoSchema.has
  BY DEF NoSchema
<1>4. ASSUME NEW s \in Sagas PROVE UndoOK(s)' /\ BuiltOK(s)' /\ FirstOK(s)'
  <2>1. UndoOK(s) /\ BuiltOK(s) /\ FirstOK(s)
    BY DEF Inv, SagasOK
  <2>2. UndoOK(s)'
    BY <2>1 DEF UndoOK
  <2>3. CASE saga[s].pc = "idle"
    BY <2>2, <2>3 DEF BuiltOK, FirstOK, Made
  <2>4. CASE saga[s].pc # "idle"
    <3>1. saga[s].tenant \in Tenants
      BY <2>1, <2>4 DEF UndoOK
    <3>2. BuiltOK(s)'
      BY <1>1, <2>1, <3>1 DEF BuiltOK
    <3>3. FirstOK(s)'
      BY <1>2, <1>3, <2>1, <3>1 DEF FirstOK
    <3> QED BY <2>2, <3>2, <3>3
  <2> QED BY <2>3, <2>4
<1>5. SagasOK' /\ Alone'
  BY <1>4 DEF Inv, SagasOK, Alone
<1>6. AllWhole'
  BY <1>1 DEF Inv, AllWhole, Whole, Untouched
<1>7. AllOrNothing'
  BY <1>2, <1>3 DEF Inv, AllOrNothing, Running
<1> QED BY <1>5, <1>6, <1>7 DEF Inv

\* A request that goes on, and one that ends.
LEMMA RequestTyped ==
    ASSUME Inv, NEW r \in Requests
    PROVE  /\ request[r] \in Request
           /\ request[r].pc # "idle" => request[r].tenant \in Tenants /\ request[r].email \in Emails
           /\ Done \in Request /\ Asks(Done)
<1>1. request[r] \in Request /\ Asks(request[r])
  BY DEF Inv, TypeOK, RequestsOK
<1>2. Done \in Request /\ Asks(Done)
  BY Numbers DEF Done, Request, Asks
<1> QED BY <1>1, <1>2 DEF Asks

\* Whatever a request becomes, if it is well formed.
LEMMA RequestIs ==
    ASSUME Inv, NEW r \in Requests, NEW q \in Request, Asks(q), request' = [request EXCEPT ![r] = q]
    PROVE  request' \in [Requests -> Request] /\ RequestsOK'
<1>1. request \in [Requests -> Request]
  BY DEF Inv, TypeOK
<1>2. \A p \in Requests : request'[p] = IF p = r THEN q ELSE request[p]
  BY <1>1
<1> QED BY <1>1, <1>2 DEF Inv, RequestsOK

LEMMA Ended ==
    ASSUME Inv, NEW r \in Requests, Ends(r)
    PROVE  request' \in [Requests -> Request] /\ RequestsOK'
<1> DEFINE q == Done
<1>1. q \in Request /\ Asks(q)
  BY RequestTyped
<1>2. request' = [request EXCEPT ![r] = q]
  BY DEF Ends
<1> HIDE DEF q
<1> QED BY <1>1, <1>2, RequestIs

LEMMA WentTo ==
    ASSUME Inv, NEW r \in Requests, request[r].pc # "idle", NEW pc \in {"check", "grant"},
           NEW others \in SUBSET Tenants, GoesTo(r, pc, others)
    PROVE  request' \in [Requests -> Request] /\ RequestsOK'
<1> DEFINE q == [pc |-> pc, tenant |-> request[r].tenant, email |-> request[r].email,
                 id |-> request[r].id, admin |-> request[r].admin, others |-> others]
<1>1. q \in Request /\ Asks(q)
  BY RequestTyped DEF Request, Asks
<1>2. request' = [request EXCEPT ![r] = q]
  BY DEF GoesTo
<1> HIDE DEF q
<1> QED BY <1>1, <1>2, RequestIs

\* One that comes in draws a number.
LEMMA CameIn ==
    ASSUME Inv, NEW r \in Requests, NEW t \in Tenants, NEW e \in Emails, NEW id \in 0 .. MaxCalls,
           NEW admin \in BOOLEAN, NEW pc \in {"list", "grant"},
           request' = [request EXCEPT ![r] = [pc |-> pc, tenant |-> t, email |-> e, id |-> id,
                        admin |-> admin, others |-> {}]]
    PROVE  request' \in [Requests -> Request] /\ RequestsOK'
<1> DEFINE q == [pc |-> pc, tenant |-> t, email |-> e, id |-> id, admin |-> admin, others |-> {}]
<1>1. q \in Request /\ Asks(q)
  BY DEF Request, Asks
<1>2. request' = [request EXCEPT ![r] = q]
  OBVIOUS
<1> HIDE DEF q
<1> QED BY <1>1, <1>2, RequestIs

LEMMA InviteStep ==
    ASSUME Inv, NEW r \in Requests, NEW t \in Tenants, NEW e \in Emails, NEW admin \in BOOLEAN,
           Invite(r, t, e, admin)
    PROVE  Inv'
<1>1. calls + 1 \in 0 .. MaxCalls /\ calls' = calls + 1
  BY Numbers DEF Inv, TypeOK, Invite
<1> DEFINE id == calls + 1
<1>2. request' = [request EXCEPT ![r] = [pc |-> "list", tenant |-> t, email |-> e, id |-> id,
                   admin |-> admin, others |-> {}]]
  BY DEF Invite
<1>3. id \in 0 .. MaxCalls
  BY <1>1
<1> HIDE DEF id
<1>4. request' \in [Requests -> Request] /\ RequestsOK'
  BY <1>2, <1>3, CameIn
<1>5. UNCHANGED <<routing, schema, saga, faults, broken, again, demoted>>
  BY DEF Invite
<1>6. TypeOK'
  BY <1>1, <1>4, <1>5 DEF Inv, TypeOK
<1> QED BY <1>4, <1>5, <1>6, MembersKeep

LEMMA ListOthersStep == ASSUME Inv, NEW r \in Requests, ListOthers(r) PROVE Inv'
<1> DEFINE us == {u \in Tenants \ {request[r].tenant} : routing[u].status = "active"}
<1>1. request[r].pc # "idle" /\ GoesTo(r, "check", us) /\ us \in SUBSET Tenants
      /\ UNCHANGED <<routing, schema, saga, calls, faults, broken, again, demoted>>
  BY DEF ListOthers
<1> HIDE DEF us
<1>2. request' \in [Requests -> Request] /\ RequestsOK'
  BY <1>1, WentTo
<1>3. TypeOK'
  BY <1>1, <1>2 DEF Inv, TypeOK
<1> QED BY <1>1, <1>2, <1>3, MembersKeep

\* The other tenant is crossed off the list, whether it answered or not.
LEMMA Crossed ==
    ASSUME Inv, NEW r \in Requests, NEW u, request[r].pc = "check",
           GoesTo(r, "check", request[r].others \ {u})
    PROVE  request' \in [Requests -> Request] /\ RequestsOK'
<1> DEFINE us == request[r].others \ {u}
<1>1. us \in SUBSET Tenants /\ GoesTo(r, "check", us)
  BY RequestTyped DEF Request
<1> HIDE DEF us
<1> QED BY <1>1, WentTo

LEMMA AskOneStep == ASSUME Inv, NEW r \in Requests, NEW u \in Tenants, AskOne(r, u) PROVE Inv'
<1>1. UNCHANGED <<routing, schema, saga, calls, faults, broken, again, demoted>>
  BY DEF AskOne
<1>2. request' \in [Requests -> Request] /\ RequestsOK'
  BY Crossed, Ended DEF AskOne
<1>3. TypeOK'
  BY <1>1, <1>2 DEF Inv, TypeOK
<1> QED BY <1>1, <1>2, <1>3, MembersKeep

LEMMA PassOverStep == ASSUME Inv, NEW r \in Requests, NEW u \in Tenants, PassOver(r, u) PROVE Inv'
<1>1. UNCHANGED <<routing, schema, saga, calls, broken, again, demoted>>
  BY DEF PassOver
<1>2. request' \in [Requests -> Request] /\ RequestsOK'
  BY Crossed DEF PassOver
<1>3. TypeOK'
  BY <1>1, <1>2, Numbers DEF Inv, TypeOK, PassOver
<1> QED BY <1>1, <1>2, <1>3, MembersKeep

LEMMA RequestFailsStep == ASSUME Inv, NEW r \in Requests, RequestFails(r) PROVE Inv'
<1>1. UNCHANGED <<routing, schema, saga, calls, broken, again, demoted>>
  BY DEF RequestFails
<1>2. request' \in [Requests -> Request] /\ RequestsOK'
  BY Ended DEF RequestFails
<1>3. TypeOK'
  BY <1>1, <1>2, Numbers DEF Inv, TypeOK, RequestFails
<1> QED BY <1>1, <1>2, <1>3, MembersKeep

\* The user that a request writes.
LEMMA RequestDrawn ==
    ASSUME Inv, NEW r \in Requests, request[r].pc # "idle"
    PROVE  request[r].tenant \in Tenants /\ Drawn(request[r]) \in User
BY RequestTyped DEF Request, Drawn, User

LEMMA InsertMemberStep == ASSUME Inv, NEW r \in Requests, InsertMember(r) PROVE Inv'
<1> DEFINE t == request[r].tenant
           w == Drawn(request[r])
<1>1. request[r].pc # "idle"
      /\ UNCHANGED <<routing, saga, calls, faults, broken, again, demoted>>
  BY DEF InsertMember
<1>2. t \in Tenants /\ w \in User
  BY <1>1, RequestDrawn
<1>3. \/ /\ "tables" \in schema[t].has
         /\ Insert(t, w)
         /\ GoesTo(r, "grant", {})
      \/ /\ Ends(r)
         /\ UNCHANGED schema
  BY DEF InsertMember
<1> HIDE DEF t, w
<1>4. request' \in [Requests -> Request] /\ RequestsOK'
  BY <1>1, <1>3, WentTo, Ended
<1>5. Adds(t) /\ ("tables" \in schema[t].has \/ UNCHANGED schema)
  BY <1>2, <1>3, Additions DEF Inv, TypeOK
<1>6. TypeOK'
  BY <1>1, <1>4, <1>5 DEF Inv, TypeOK, Adds
<1> QED BY <1>1, <1>2, <1>4, <1>5, <1>6, MembersKeep DEF Adds, Manned

LEMMA GrantRoleStep == ASSUME Inv, NEW r \in Requests, GrantRole(r) PROVE Inv'
<1> DEFINE t == request[r].tenant
           w == Drawn(request[r])
<1>1. request[r].pc # "idle" /\ Ends(r)
      /\ UNCHANGED <<routing, saga, calls, faults, broken, again, demoted>>
  BY DEF GrantRole
<1>2. t \in Tenants /\ w \in User
  BY <1>1, RequestDrawn
<1>3. ("tables" \in schema[t].has /\ Grant(t, w)) \/ UNCHANGED schema
  BY DEF GrantRole
<1> HIDE DEF t, w
<1>4. request' \in [Requests -> Request] /\ RequestsOK'
  BY <1>1, Ended
<1>5. Adds(t) /\ ("tables" \in schema[t].has \/ UNCHANGED schema)
  BY <1>2, <1>3, Additions DEF Inv, TypeOK
<1>6. TypeOK'
  BY <1>1, <1>4, <1>5 DEF Inv, TypeOK, Adds
<1> QED BY <1>1, <1>2, <1>4, <1>5, <1>6, MembersKeep DEF Adds, Manned

\* A tenant that loses an administrator this way is noted.
LEMMA ClearRolesStep ==
    ASSUME Inv, NEW r \in Requests, NEW t \in Tenants, NEW admin \in BOOLEAN,
           NEW w \in schema[t].users, ClearRoles(r, t, w, admin)
    PROVE  Inv'
<1>1. /\ "tables" \in schema[t].has /\ calls' \in 0 .. MaxCalls
      /\ UNCHANGED <<routing, saga, faults, broken, again>>
  BY Numbers DEF Inv, TypeOK, ClearRoles
<1>2. w.email \in Emails /\ w.id \in 0 .. MaxCalls
  BY DEF Inv, TypeOK, Schema, User
<1> DEFINE e == w.email
           id == w.id
<1>3. request' = [request EXCEPT ![r] = [pc |-> "grant", tenant |-> t, email |-> e, id |-> id,
                   admin |-> admin, others |-> {}]]
  BY DEF ClearRoles
<1>4. e \in Emails /\ id \in 0 .. MaxCalls
  BY <1>2
<1> HIDE DEF e, id
<1>5. request' \in [Requests -> Request] /\ RequestsOK'
  BY <1>3, <1>4, CameIn
<1>6. /\ schema' \in [Tenants -> Schema] /\ schema'[t].has = schema[t].has
      /\ schema'[t].admins = schema[t].admins \ {w}
      /\ \A u \in Tenants : u # t => schema'[u] = schema[u]
  BY DEF Inv, TypeOK, Schema, ClearRoles
<1>7. /\ demoted' = IF w \in schema[t].admins THEN demoted \cup {t} ELSE demoted
      /\ demoted \subseteq demoted' /\ demoted' \subseteq Tenants
  BY DEF Inv, TypeOK, ClearRoles
<1>8. TypeOK'
  BY <1>1, <1>5, <1>6, <1>7 DEF Inv, TypeOK
<1>9. Manned(t) => Manned(t)'
  <2>1. CASE w \in schema[t].admins
    BY <1>7, <2>1 DEF Manned
  <2>2. CASE w \notin schema[t].admins
    BY <1>6, <1>7, <2>2 DEF Manned
  <2> QED BY <2>1, <2>2
<1> QED BY <1>1, <1>5, <1>6, <1>7, <1>8, <1>9, MembersKeep

-----------------------------------------------------------------------------
(* The theorems.                                                            *)

LEMMA InitInv == Init => Inv
<1> SUFFICES ASSUME Init PROVE Inv
  OBVIOUS
<1>1. TypeOK
  BY InitTypes
<1>2. /\ \A s \in Sagas : saga[s] = Idle
      /\ \A t \in Tenants : routing[t] = NoRow /\ schema[t] = NoSchema
  BY DEF Init
<1>3. Idle.pc = "idle" /\ Idle.tenant = Nobody
  BY DEF Idle
<1>4. SagasOK
  BY <1>2, <1>3 DEF SagasOK, UndoOK, BuiltOK, FirstOK, Made
<1>5. Alone
  BY <1>2, <1>3 DEF Alone
<1>6. NoRow.status # "active"
  BY DEF NoRow
<1>7. AllWhole /\ AllOrNothing
  BY <1>2, <1>6 DEF AllWhole, Whole, AllOrNothing
<1>8. RequestsOK
  BY DEF Init, RequestsOK, Asks, Done
<1> QED BY <1>1, <1>4, <1>5, <1>7, <1>8 DEF Inv

LEMMA IdleStep == ASSUME Inv, UNCHANGED vars PROVE Inv'
<1>1. TypeOK'
  BY DEF Inv, TypeOK, vars
<1>2. SagasOK' /\ Alone'
  BY DEF Inv, SagasOK, UndoOK, BuiltOK, Manned, FirstOK, Alone, vars
<1>3. AllWhole' /\ AllOrNothing'
  BY DEF Inv, AllWhole, Whole, Manned, Untouched, AllOrNothing, Running, vars
<1>4. RequestsOK'
  BY DEF Inv, RequestsOK, vars
<1> QED BY <1>1, <1>2, <1>3, <1>4 DEF Inv

LEMMA NextInv == Inv /\ [Next]_vars => Inv'
<1> SUFFICES ASSUME Inv, [Next]_vars PROVE Inv'
  OBVIOUS
<1>1. CASE \E s \in Sagas, t \in Tenants, e \in Emails, tier \in Tiers : Start(s, t, e, tier)
  BY <1>1, StartStep
<1>2. CASE \E s \in Sagas : \/ PickSlug(s) \/ InsertEntry(s) \/ CreateSchema(s) \/ FillSchema(s)
                            \/ LogRefused(s) \/ FillRefused(s) \/ ListActive(s) \/ CheckDone(s)
  BY <1>2, PickSlugStep, InsertEntryStep, CreateSchemaStep, FillSchemaStep, LogRefusedStep,
     FillRefusedStep, ListActiveStep, CheckDoneStep
<1>3. CASE \E s \in Sagas, u \in Tenants : CheckOne(s, u) \/ SkipOne(s, u)
  BY <1>3, CheckOneStep, SkipOneStep
<1>4. CASE \E s \in Sagas : InsertUser(s) \/ AssignRole(s) \/ Activate(s) \/ Finish(s)
  BY <1>4, InsertUserStep, AssignRoleStep, ActivateStep, FinishStep
<1>5. CASE \E s \in Sagas : \/ CallFails(s) \/ DropSchema(s) \/ DropRole(s) \/ DeleteEntry(s)
                            \/ UndoFails(s) \/ MarkRow(s) \/ MarkRowFails(s)
  BY <1>5, CallFailsStep, DropSchemaStep, DropRoleStep, DeleteEntryStep, UndoFailsStep,
     MarkRowStep, MarkRowFailsStep
<1>6. CASE Stop
  BY <1>6, StopStep
<1>7. CASE \/ \E t \in Tenants : MarkAsFailed(t)
           \/ \E t \in Tenants, status \in {"active", "suspended"} : ChangeStatus(t, status)
  BY <1>7, MarkAsFailedStep, ChangeStatusStep
<1>8. CASE \/ \E r \in Requests, t \in Tenants, e \in Emails, admin \in BOOLEAN :
                Invite(r, t, e, admin)
           \/ \E r \in Requests, t \in Tenants, admin \in BOOLEAN :
                \E w \in schema[t].users : ClearRoles(r, t, w, admin)
  BY <1>8, InviteStep, ClearRolesStep
<1>9. CASE \/ \E r \in Requests : ListOthers(r) \/ InsertMember(r) \/ GrantRole(r) \/ RequestFails(r)
           \/ \E r \in Requests, u \in Tenants : AskOne(r, u) \/ PassOver(r, u)
  BY <1>9, ListOthersStep, InsertMemberStep, GrantRoleStep, RequestFailsStep, AskOneStep, PassOverStep
<1>10. CASE UNCHANGED vars
  BY <1>10, IdleStep
<1> QED BY <1>1, <1>2, <1>3, <1>4, <1>5, <1>6, <1>7, <1>8, <1>9, <1>10 DEF Next

LEMMA Invariant == Spec => []Inv
<1>1. Init => Inv
  BY InitInv
<1>2. Inv /\ [Next]_vars => Inv'
  BY NextInv
<1> QED BY <1>1, <1>2, PTL DEF Spec

\* The shape of the state, whatever the interleaving of sagas, members, failures and
\* hands.
THEOREM TypeCorrect == Spec => []TypeOK
<1>1. Inv => TypeOK
  BY DEF Inv
<1> QED BY <1>1, Invariant, PTL

\* A tenant that users can reach has tables under row level security, seed data
\* and an administrator, unless the members service took his role, whatever sagas and
\* members did at once.
THEOREM ActiveComplete == Spec => []ActiveIsComplete
<1>1. Inv => ActiveIsComplete
  <2> SUFFICES ASSUME Inv, NEW t \in Tenants, routing[t].status = "active", ~Undoing(t), t \notin broken
               PROVE  schema[t].has = Content /\ Manned(t)
    BY DEF ActiveIsComplete
  <2>1. ASSUME NEW s \in Sagas, saga[s].tenant = t
        PROVE  saga[s].undo = <<>> \/ saga[s].pc = "finish"
    <3>1. saga[s].pc # "idle" /\ saga[s].pc \notin Back
      BY <2>1, NobodyIsNone DEF Inv, SagasOK, UndoOK, Idle, Undoing
    <3>2. saga[s].pc \in Steps /\ UndoOK(s) /\ BuiltOK(s)
      BY SagaTyped DEF Inv, SagasOK
    <3>3. saga[s].pc \notin (Made \ {"finish"}) \cup {"schema"}
      BY <2>1, <3>2 DEF BuiltOK
    <3>4. saga[s].pc \in {"slug", "entry", "finish"}
      BY <3>1, <3>2, <3>3 DEF Steps, Forward, Made
    <3> QED BY <3>2, <3>4 DEF UndoOK
  <2>2. Untouched(t)
    BY <2>1 DEF Untouched
  <2> QED BY <2>2 DEF Inv, AllWhole, Whole
<1> QED BY <1>1, Invariant, PTL

\* A saga that is over has left an active tenant or nothing at all, unless it was
\* cut off or overlapped, a compensation failed, or the tenant had a schema before.
THEOREM NothingHalf == Spec => []AllOrNothing
<1>1. Inv => AllOrNothing
  BY DEF Inv
<1> QED BY <1>1, Invariant, PTL
=============================================================================
