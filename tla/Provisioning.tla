---------------------------- MODULE Provisioning ----------------------------
(***************************************************************************)
(* The provisioning saga of the tenant service: a control plane row, a     *)
(* schema with its role, migrations, row level security, seed data and an  *)
(* admin, then activation; what was done is undone in reverse when a step  *)
(* fails.                                                                  *)
(*                                                                         *)
(* Sagas run side by side, of different firms or, when a call is repeated  *)
(* while the first is still at work, of the same one; they race for slugs, *)
(* for admin addresses and for the schema.  Any call may fail, one of the  *)
(* compensations as well, and the process may stop; an operator may mark a *)
(* tenant as failed or active at any time.  Meanwhile the auth service     *)
(* writes users and roles of any tenant that has tables: members are       *)
(* invited, and their roles replaced.                                      *)
(*                                                                         *)
(* The ghost broken holds the tenants whose saga was cut off, not undone   *)
(* or overlapped by another one of theirs, again those provisioned on top  *)
(* of something, demoted those where an administrator's role was replaced. *)
(***************************************************************************)
EXTENDS Naturals, Sequences, FiniteSets

CONSTANTS
    Tenants, Sagas, Requests, Emails,
    Nobody,     \* neither a tenant nor an address
    Tiers,      \* tiers of the requests: starter, business, enterprise
    MaxSlugs,   \* bound: slugs tried for the one name all firms ask for
    MaxCalls,   \* bound: calls of provision, invite and updateRole, together
    MaxFaults   \* bound: failed calls, stops and manual marks, together

ASSUME ProvisioningAssumption ==
    /\ Nobody \notin Tenants \cup Emails
    /\ Tiers \subseteq {"starter", "business", "enterprise"}
    /\ {MaxSlugs, MaxCalls, MaxFaults} \subseteq Nat

VARIABLES
    routing,   \* tenant_routing: status and slug suffix of each tenant
    schema,    \* the tenant's schema and role, and what is in it
    saga,      \* what each running provision call has in memory
    request,   \* what each call of the members service has in memory
    calls,     \* calls so far; the last one's number is the user id it draws
    faults,    \* failures, stops and marks so far
    broken,    \* ghost: tenants whose saga stopped, overlapped or was not undone
    again,     \* ghost: tenants provisioned while they had a schema
    demoted    \* ghost: tenants where an administrator's role was replaced

vars == <<routing, schema, saga, request, calls, faults, broken, again, demoted>>

Statuses == {"none", "provisioning", "active", "deprovisioning", "failed"}
Slugs    == 1 .. MaxSlugs                  \* acme, acme-2, acme-3, ...
Routing  == [status : Statuses, slug : 0 .. MaxSlugs]
Content  == {"schema", "role", "tables", "rls", "seed"}
User     == [email : Emails, id : 0 .. MaxCalls]
Schema   == [has : SUBSET Content, users : SUBSET User, admins : SUBSET User]

NoRow    == [status |-> "none", slug |-> 0]
NoSchema == [has |-> {}, users |-> {}, admins |-> {}]

Forward == {"slug", "entry", "schema", "migrate", "rls", "seed", "list", "check",
            "user", "admin", "activate", "finish"}
Back    == {"undo", "undoRole", "mark"}
Saga    == [pc : {"idle"} \cup Forward \cup Back, tenant : Tenants \cup {Nobody},
            email : Emails \cup {Nobody}, id : 0 .. MaxCalls, tier : {"starter", "business", "enterprise"},
            slug : 0 .. MaxSlugs, undo : Seq({"schema", "entry"}), others : SUBSET Tenants]
Request == [pc : {"idle", "list", "check", "grant"}, tenant : Tenants \cup {Nobody},
            email : Emails \cup {Nobody}, id : 0 .. MaxCalls, admin : BOOLEAN, others : SUBSET Tenants]

Idle == [pc |-> "idle", tenant |-> Nobody, email |-> Nobody, id |-> 0,
         tier |-> "starter", slug |-> 0, undo |-> <<>>, others |-> {}]
Done == [pc |-> "idle", tenant |-> Nobody, email |-> Nobody, id |-> 0, admin |-> FALSE, others |-> {}]

Init ==
    /\ routing = [t \in Tenants |-> NoRow]
    /\ schema = [t \in Tenants |-> NoSchema]
    /\ saga = [s \in Sagas |-> Idle]
    /\ request = [r \in Requests |-> Done]
    /\ calls = 0
    /\ faults = 0
    /\ broken = {}
    /\ again = {}
    /\ demoted = {}

Running(t) == \E s \in Sagas : saga[s].tenant = t
At(s, pc) == [saga EXCEPT ![s].pc = pc]
Goto(s, pc) == saga' = At(s, pc)
Fill(t, content) == schema' = [schema EXCEPT ![t].has = @ \cup content]

\* The step after each forward step; the order in which provision calls them.
Following_RlsFirst(pc) ==
    CASE pc = "schema"  -> "rls"     [] pc = "migrate" -> "seed"
      [] pc = "rls"     -> "migrate" [] pc = "seed"    -> "list"
      [] pc = "user"    -> "admin"   [] pc = "admin"   -> "activate"

Following(pc) ==
    CASE pc = "schema"  -> "migrate" [] pc = "migrate" -> "rls"
      [] pc = "rls"     -> "seed"    [] pc = "seed"    -> "list"
      [] pc = "user"    -> "admin"   [] pc = "admin"   -> "activate"

-----------------------------------------------------------------------------
(* The steps of provision.                                                  *)

\* The caller names the tenant: a repeated call runs beside the first one.
Start(s, t, email, tier) ==
    /\ saga[s].pc = "idle"
    /\ calls < MaxCalls
    /\ calls' = calls + 1
    /\ saga' = [saga EXCEPT ![s] =
         [pc |-> "slug", tenant |-> t, email |-> email, id |-> calls + 1, tier |-> tier,
          slug |-> 0, undo |-> <<>>, others |-> {}]]
    /\ broken' = IF Running(t) THEN broken \cup {t} ELSE broken
    /\ again' = IF schema[t] = NoSchema THEN again ELSE again \cup {t}
    /\ UNCHANGED <<routing, schema, request, faults, demoted>>

TakenBy(t) == {routing[u].slug : u \in Tenants \ {t}}

\* The first slug that no other tenant has.
PickSlug(s) ==
    /\ saga[s].pc = "slug"
    /\ \E n \in Slugs \ TakenBy(saga[s].tenant) :
         /\ 1 .. n - 1 \subseteq TakenBy(saga[s].tenant)
         /\ saga' = [At(s, "entry") EXCEPT ![s].slug = n]
    /\ UNCHANGED <<routing, schema, request, calls, faults, broken, again, demoted>>

\* What the table accepts: tenant_slug is UNIQUE, tier has a CHECK of its own.
Accepted(s) ==
    /\ saga[s].slug \notin TakenBy(saga[s].tenant)
    /\ saga[s].tier \in {"starter", "growth", "enterprise"}

UndoEntry == "entry"
UndoSchema_Forgotten(undo) == undo
UndoSchema(undo) == <<"schema">> \o undo

\* INSERT ... ON CONFLICT (tenant_id) DO UPDATE; a refusal undoes nothing.
InsertEntry(s) ==
    LET t == saga[s].tenant
    IN  /\ saga[s].pc = "entry"
        /\ IF Accepted(s)
             THEN /\ routing' = [routing EXCEPT ![t] =
                                   [status |-> "provisioning", slug |-> saga[s].slug]]
                  /\ saga' = [At(s, "schema") EXCEPT ![s].undo = <<UndoEntry>>]
             ELSE /\ Goto(s, "mark")
                  /\ UNCHANGED routing
        /\ UNCHANGED <<schema, request, calls, faults, broken, again, demoted>>

\* A row of provisioning_log refers to the tenant's row.  The steps that are logged
\* are refused, as a whole, once another saga of the tenant has deleted it.
Logged == {"schema", "migrate", "rls", "seed", "list", "activate", "finish"}
Entered(s) == routing[saga[s].tenant].status # "none"

LogRefused(s) ==
    /\ saga[s].pc \in Logged /\ ~Entered(s)
    /\ Goto(s, "undo")
    /\ UNCHANGED <<routing, schema, request, calls, faults, broken, again, demoted>>

\* One transaction, with IF NOT EXISTS throughout.
CreateSchema(s) ==
    /\ saga[s].pc = "schema" /\ Entered(s)
    /\ Fill(saga[s].tenant, {"schema", "role"})
    /\ saga' = [At(s, Following("schema")) EXCEPT ![s].undo = UndoSchema(@)]
    /\ UNCHANGED <<routing, request, calls, faults, broken, again, demoted>>

\* Migrations and seed data are a transaction each, and need what they write into;
\* policies are put only on tables that exist.
FillSchema(s) ==
    LET t   == saga[s].tenant
        pc  == saga[s].pc
        has == schema[t].has
    IN  /\ pc \in {"migrate", "rls", "seed"} /\ Entered(s)
        /\ \/ pc = "migrate" /\ "schema" \in has /\ Fill(t, {"tables"})
           \/ pc = "rls" /\ Fill(t, IF "tables" \in has THEN {"rls"} ELSE {})
           \/ pc = "seed" /\ "tables" \in has /\ Fill(t, {"seed"})
        /\ Goto(s, Following(pc))
        /\ UNCHANGED <<routing, request, calls, faults, broken, again, demoted>>

\* What they write into is gone: another saga of the tenant dropped it.
FillRefused(s) ==
    /\ \/ saga[s].pc = "migrate" /\ "schema" \notin schema[saga[s].tenant].has
       \/ saga[s].pc \in {"seed", "user", "admin"} /\ "tables" \notin schema[saga[s].tenant].has
    /\ Goto(s, "undo")
    /\ UNCHANGED <<routing, schema, request, calls, faults, broken, again, demoted>>

\* createAdminUser: the tenants that are active now are asked one by one.
ListActive(s) ==
    /\ saga[s].pc = "list" /\ Entered(s)
    /\ saga' = [At(s, "check") EXCEPT ![s].others =
                 {u \in Tenants : routing[u].status = "active"}]
    /\ UNCHANGED <<routing, schema, request, calls, faults, broken, again, demoted>>

\* The 409 leaves the loop; any other error of a tenant's database does not.
Known(t, email) == \E w \in schema[t].users : w.email = email

CheckOne(s, u) ==
    /\ saga[s].pc = "check" /\ u \in saga[s].others
    /\ IF Known(u, saga[s].email)
         THEN Goto(s, "undo")
         ELSE saga' = [saga EXCEPT ![s].others = @ \ {u}]
    /\ UNCHANGED <<routing, schema, request, calls, faults, broken, again, demoted>>

\* A tenant whose database does not answer, or has no schema, is passed over.
SkipOne(s, u) ==
    /\ saga[s].pc = "check" /\ u \in saga[s].others
    /\ faults < MaxFaults
    /\ faults' = faults + 1
    /\ saga' = [saga EXCEPT ![s].others = @ \ {u}]
    /\ UNCHANGED <<routing, schema, request, calls, broken, again, demoted>>

CheckDone(s) ==
    /\ saga[s].pc = "check" /\ saga[s].others = {}
    /\ Goto(s, "user")
    /\ UNCHANGED <<routing, schema, request, calls, faults, broken, again, demoted>>

\* ON CONFLICT (tenant_id, email) DO NOTHING.
Drawn(c) == [email |-> c.email, id |-> c.id]
Insert(t, w) == schema' = [schema EXCEPT ![t].users = @ \cup {w}]

InsertUser(s) ==
    LET t == saga[s].tenant
    IN  /\ saga[s].pc = "user" /\ "tables" \in schema[t].has
        /\ IF Known(t, saga[s].email) THEN UNCHANGED schema ELSE Insert(t, Drawn(saga[s]))
        /\ Goto(s, Following("user"))
        /\ UNCHANGED <<routing, request, calls, faults, broken, again, demoted>>

\* INSERT ... SELECT of the role: a row for the id drawn, which must be a user's;
\* no row, and no error, if the roles are not seeded.
Grant(t, w) == schema' = [schema EXCEPT ![t].admins = @ \cup {w}]

AssignRole(s) ==
    LET t == saga[s].tenant
    IN  /\ saga[s].pc = "admin" /\ "tables" \in schema[t].has
        /\ \/ /\ "seed" \in schema[t].has /\ Drawn(saga[s]) \in schema[t].users
              /\ Grant(t, Drawn(saga[s]))
              /\ Goto(s, Following("admin"))
           \/ /\ "seed" \in schema[t].has /\ Drawn(saga[s]) \notin schema[t].users
              /\ Goto(s, "undo")
              /\ UNCHANGED schema
           \/ /\ "seed" \notin schema[t].has
              /\ Goto(s, Following("admin"))
              /\ UNCHANGED schema
        /\ UNCHANGED <<routing, request, calls, faults, broken, again, demoted>>

SetStatus(t, status) ==
    routing' = IF routing[t].status = "none" THEN routing
               ELSE [routing EXCEPT ![t].status = status]

Activate(s) ==
    /\ saga[s].pc = "activate" /\ Entered(s)
    /\ SetStatus(saga[s].tenant, "active")
    /\ Goto(s, "finish")
    /\ UNCHANGED <<schema, request, calls, faults, broken, again, demoted>>

\* The last log row, and the reply.
Finish(s) ==
    /\ saga[s].pc = "finish" /\ Entered(s)
    /\ saga' = [saga EXCEPT ![s] = Idle]
    /\ UNCHANGED <<routing, schema, request, calls, faults, broken, again, demoted>>

-----------------------------------------------------------------------------
(* Failure and compensation.                                                *)

\* A call of the forward path rejects.  The first one has nothing to undo.
CallFails(s) ==
    /\ saga[s].pc \in Forward
    /\ faults < MaxFaults
    /\ faults' = faults + 1
    /\ Goto(s, "undo")
    /\ UNCHANGED <<routing, schema, request, calls, broken, again, demoted>>

\* compensate: the next compensation, each with its two queries.
AfterUndo(s) == saga' = [At(s, "undo") EXCEPT ![s].undo = Tail(@)]

DropSchema(s) ==
    LET t == saga[s].tenant
    IN  /\ saga[s].pc = "undo" /\ saga[s].undo # <<>> /\ Head(saga[s].undo) = "schema"
        /\ schema' = [schema EXCEPT ![t] = [NoSchema EXCEPT !.has = schema[t].has \cap {"role"}]]
        /\ Goto(s, "undoRole")
        /\ UNCHANGED <<routing, request, calls, faults, broken, again, demoted>>

DropRole(s) ==
    /\ saga[s].pc = "undoRole"
    /\ schema' = [schema EXCEPT ![saga[s].tenant].has = @ \ {"role"}]
    /\ AfterUndo(s)
    /\ UNCHANGED <<routing, request, calls, faults, broken, again, demoted>>

DeleteEntry(s) ==
    /\ saga[s].pc = "undo" /\ saga[s].undo # <<>> /\ Head(saga[s].undo) = "entry"
    /\ routing' = [routing EXCEPT ![saga[s].tenant] = NoRow]
    /\ AfterUndo(s)
    /\ UNCHANGED <<schema, request, calls, faults, broken, again, demoted>>

\* A compensation rejects: it is logged, and the next one is tried.
UndoFails(s) ==
    /\ saga[s].pc = "undoRole" \/ (saga[s].pc = "undo" /\ saga[s].undo # <<>>)
    /\ faults < MaxFaults
    /\ faults' = faults + 1
    /\ broken' = broken \cup {saga[s].tenant}
    /\ AfterUndo(s)
    /\ UNCHANGED <<routing, schema, request, calls, again, demoted>>

StatusAfterRollback_RolledBack == "rolled_back"
StatusAfterRollback == "deprovisioning"

\* A row that is still there is marked, if the update goes through.
MarkRow(s) ==
    /\ saga[s].pc = "mark" \/ (saga[s].pc = "undo" /\ saga[s].undo = <<>>)
    /\ SetStatus(saga[s].tenant, StatusAfterRollback)
    /\ saga' = [saga EXCEPT ![s] = Idle]
    /\ broken' = IF routing[saga[s].tenant].status = "none" THEN broken
                 ELSE broken \cup {saga[s].tenant}
    /\ UNCHANGED <<schema, request, calls, faults, again, demoted>>

MarkRowFails(s) ==
    /\ saga[s].pc = "mark" \/ (saga[s].pc = "undo" /\ saga[s].undo = <<>>)
    /\ faults < MaxFaults
    /\ faults' = faults + 1
    /\ saga' = [saga EXCEPT ![s] = Idle]
    /\ UNCHANGED <<routing, schema, request, calls, broken, again, demoted>>

\* The process stops: no compensation runs for the sagas it had.
Stop ==
    /\ faults < MaxFaults
    /\ faults' = faults + 1
    /\ broken' = broken \cup {t \in Tenants : Running(t)}
    /\ saga' = [s \in Sagas |-> Idle]
    /\ UNCHANGED <<routing, schema, request, calls, again, demoted>>

\* POST admin/:tenantId/mark-failed, whether or not a saga is at work.
MarkAsFailed(t) ==
    /\ routing[t].status \in {"provisioning", "deprovisioning"}
    /\ faults < MaxFaults
    /\ faults' = faults + 1
    /\ SetStatus(t, "failed")
    /\ UNCHANGED <<schema, saga, request, calls, broken, again, demoted>>

\* PATCH admin/tenants/:tenantId/status lets an administrator activate a tenant in
\* any state; suspending one fails, the table's CHECK knows no such status.
ChangeStatus(t, status) ==
    /\ status \in Statuses
    /\ routing[t].status \notin {"none", status}
    /\ faults < MaxFaults
    /\ faults' = faults + 1
    /\ SetStatus(t, status)
    /\ broken' = broken \cup {t}
    /\ UNCHANGED <<schema, saga, request, calls, again, demoted>>

-----------------------------------------------------------------------------
(* The members service, whose caller names any tenant that has tables.      *)

\* invite, up to its search of the tenant's own users.
Invite(r, t, email, admin) ==
    /\ request[r].pc = "idle"
    /\ "tables" \in schema[t].has /\ ~Known(t, email)
    /\ calls < MaxCalls
    /\ calls' = calls + 1
    /\ request' = [request EXCEPT ![r] = [pc |-> "list", tenant |-> t, email |-> email,
                     id |-> calls + 1, admin |-> admin, others |-> {}]]
    /\ UNCHANGED <<routing, schema, saga, faults, broken, again, demoted>>

Ends(r) == request' = [request EXCEPT ![r] = Done]
GoesTo(r, pc, others) ==
    LET q == request[r]
    IN  request' = [request EXCEPT ![r] = [pc |-> pc, tenant |-> q.tenant, email |-> q.email,
                     id |-> q.id, admin |-> q.admin, others |-> others]]

\* isEmailRegisteredInAnyTenant: the other tenants that are active now.
ListOthers(r) ==
    /\ request[r].pc = "list"
    /\ GoesTo(r, "check", {u \in Tenants \ {request[r].tenant} : routing[u].status = "active"})
    /\ UNCHANGED <<routing, schema, saga, calls, faults, broken, again, demoted>>

AskOne(r, u) ==
    /\ request[r].pc = "check" /\ u \in request[r].others
    /\ IF Known(u, request[r].email)
         THEN Ends(r)
         ELSE GoesTo(r, "check", request[r].others \ {u})
    /\ UNCHANGED <<routing, schema, saga, calls, faults, broken, again, demoted>>

\* One that does not answer is passed over here, too.
PassOver(r, u) ==
    /\ request[r].pc = "check" /\ u \in request[r].others
    /\ faults < MaxFaults
    /\ faults' = faults + 1
    /\ GoesTo(r, "check", request[r].others \ {u})
    /\ UNCHANGED <<routing, schema, saga, calls, broken, again, demoted>>

\* (tenant_id, email) is UNIQUE, and here a conflict is an error.
InsertMember(r) ==
    LET q == request[r]
        t == q.tenant
    IN  /\ q.pc = "check" /\ q.others = {}
        /\ IF "tables" \in schema[t].has /\ ~Known(t, q.email)
             THEN /\ Insert(t, Drawn(q))
                  /\ GoesTo(r, "grant", {})
             ELSE /\ Ends(r)
                  /\ UNCHANGED schema
        /\ UNCHANGED <<routing, saga, calls, faults, broken, again, demoted>>

\* updateRole: the roles of a user go in one statement, the new ones come in others.
ClearRoles(r, t, w, admin) ==
    /\ request[r].pc = "idle"
    /\ "tables" \in schema[t].has /\ w \in schema[t].users
    /\ calls < MaxCalls
    /\ calls' = calls + 1
    /\ schema' = [schema EXCEPT ![t].admins = @ \ {w}]
    /\ demoted' = IF w \in schema[t].admins THEN demoted \cup {t} ELSE demoted
    /\ request' = [request EXCEPT ![r] = [pc |-> "grant", tenant |-> t, email |-> w.email,
                     id |-> w.id, admin |-> admin, others |-> {}]]
    /\ UNCHANGED <<routing, saga, faults, broken, again>>

\* The end of both: the row of sistem_admin, if that is the role, if the roles are
\* seeded and the user is still there; it ends as well when they are not.
GrantRole(r) ==
    LET q == request[r]
        t == q.tenant
    IN  /\ q.pc = "grant"
        /\ IF q.admin /\ {"tables", "seed"} \subseteq schema[t].has /\ Drawn(q) \in schema[t].users
             THEN Grant(t, Drawn(q)) ELSE UNCHANGED schema
        /\ Ends(r)
        /\ UNCHANGED <<routing, saga, calls, faults, broken, again, demoted>>

\* A call of either rejects, or the auth service stops: nothing is taken back.
RequestFails(r) ==
    /\ request[r].pc # "idle"
    /\ faults < MaxFaults
    /\ faults' = faults + 1
    /\ Ends(r)
    /\ UNCHANGED <<routing, schema, saga, calls, broken, again, demoted>>

-----------------------------------------------------------------------------
Next ==
    \/ \E s \in Sagas, t \in Tenants, e \in Emails, tier \in Tiers : Start(s, t, e, tier)
    \/ \E s \in Sagas : PickSlug(s)
    \/ \E s \in Sagas : InsertEntry(s)
    \/ \E s \in Sagas : LogRefused(s)
    \/ \E s \in Sagas : CreateSchema(s)
    \/ \E s \in Sagas : FillSchema(s)
    \/ \E s \in Sagas : FillRefused(s)
    \/ \E s \in Sagas : ListActive(s)
    \/ \E s \in Sagas, u \in Tenants : CheckOne(s, u)
    \/ \E s \in Sagas, u \in Tenants : SkipOne(s, u)
    \/ \E s \in Sagas : CheckDone(s)
    \/ \E s \in Sagas : InsertUser(s)
    \/ \E s \in Sagas : AssignRole(s)
    \/ \E s \in Sagas : Activate(s)
    \/ \E s \in Sagas : Finish(s)
    \/ \E s \in Sagas : CallFails(s)
    \/ \E s \in Sagas : DropSchema(s)
    \/ \E s \in Sagas : DropRole(s)
    \/ \E s \in Sagas : DeleteEntry(s)
    \/ \E s \in Sagas : UndoFails(s)
    \/ \E s \in Sagas : MarkRow(s)
    \/ \E s \in Sagas : MarkRowFails(s)
    \/ Stop
    \/ \E t \in Tenants : MarkAsFailed(t)
    \/ \E t \in Tenants, status \in {"active", "suspended"} : ChangeStatus(t, status)
    \/ \E r \in Requests, t \in Tenants, e \in Emails, admin \in BOOLEAN : Invite(r, t, e, admin)
    \/ \E r \in Requests : ListOthers(r)
    \/ \E r \in Requests, u \in Tenants : AskOne(r, u)
    \/ \E r \in Requests, u \in Tenants : PassOver(r, u)
    \/ \E r \in Requests : InsertMember(r)
    \/ \E r \in Requests, t \in Tenants, admin \in BOOLEAN :
         \E w \in schema[t].users : ClearRoles(r, t, w, admin)
    \/ \E r \in Requests : GrantRole(r)
    \/ \E r \in Requests : RequestFails(r)

Spec == Init /\ [][Next]_vars

-----------------------------------------------------------------------------
(* Properties.                                                             *)

\* The shape of the state; a status the table's CHECK would refuse never occurs.
TypeOK ==
    /\ routing \in [Tenants -> Routing]
    /\ schema \in [Tenants -> Schema]
    /\ saga \in [Sagas -> Saga]
    /\ request \in [Requests -> Request]
    /\ calls \in 0 .. MaxCalls
    /\ faults \in 0 .. MaxFaults
    /\ broken \subseteq Tenants
    /\ again \subseteq Tenants
    /\ demoted \subseteq Tenants

\* A tenant that users can reach has everything the saga builds: tables under
\* row level security, seed data and an administrator, if only the members service
\* did not take his role.  Only a rollback that began after the activation, or broke
\* off, or two sagas of the tenant at once may say otherwise.
Undoing(t) == \E s \in Sagas : saga[s].tenant = t /\ saga[s].pc \in Back
Manned(t) == schema[t].admins # {} \/ t \in demoted
ActiveIsComplete ==
    \A t \in Tenants :
      routing[t].status = "active" /\ ~Undoing(t) /\ t \notin broken =>
        schema[t].has = Content /\ Manned(t)

\* A saga leaves an active tenant or nothing at all, neither row nor schema nor role
\* nor the members invited meanwhile, unless it was cut off, overlapped by another
\* saga of the tenant, a compensation failed, or the tenant had a schema already:
\* a second call that fails before its schema step deletes only the row.
AllOrNothing ==
    \A t \in Tenants :
      ~Running(t) /\ t \notin broken \cup again /\ routing[t].status # "active" =>
        routing[t] = NoRow /\ schema[t] = NoSchema

\* What createAdminUser says of its search: an address cannot be registered at two
\* firms.  Two sagas that overlap do not find each other, nor does an invitation at
\* one firm and the saga of another, so the code does not keep it.
AddressInOneFirm ==
    \A t, u \in Tenants, email \in Emails :
      /\ t # u
      /\ routing[t].status = "active" /\ routing[u].status = "active"
      => ~(Known(t, email) /\ Known(u, email))
=============================================================================
