# Enkap ERP: TLA+ models, checks and proofs

Enkap is an ERP for Turkish companies: some fifteen NestJS services over PostgreSQL (one schema
per tenant, one control plane), RabbitMQ and Redis, with Python services for forecasts and a
web, a portal and a mobile client. This directory models the services whose behaviour depends on
who comes first, on what fails in between, and on what was read before something else was
written. Each module is checked by TLC on small instances; every safety property that holds is also
proved with TLAPS, for every number of events, waybills, movements, tenants, orders, tokens,
employees, advances, months and requests.

Contents: [inventory](#inventory) · [modules](#modules) · [runs](#runs) ·
[disagreements](#where-code-and-comments-disagree) · [bounds](#bounds) · [fairness](#fairness) ·
[proofs](#proofs) · [left out](#what-is-not-modelled) · [plan](#plan)

To check one run: `tlc -config MCGoodsFlow.cfg MCGoodsFlow.tla`. To check the proofs:
`tlapm WebhookOutboxProofs.tla`, and likewise for `WaybillGib`, `StockMovement`, `Provisioning`,
`GoodsFlow`, `RefreshToken`, `WorkOrder` and `Hr` (which is about `StaffAccounts` and `Payroll`), each
with `Proofs` after its name.

## Inventory

### Services with a protocol of their own

| component | state it keeps | operations | reached by | what is hard | what makes it correct |
|---|---|---|---|---|---|
| **webhook-hub** (`apps/webhook-hub`) | `outbox_events`, `webhook_subscriptions` (control plane) | enqueue, subscribe, unsubscribe; claim, deliver, mark sent, mark failed | services POST events; receivers are POSTed to | several replicas poll one table; the claim's lock ends with its statement; shutdown closes the pool under a batch | an event is sent only if somebody took it; the retry budget; an outcome is final; every event ends |
| **waybill-service** (`apps/waybill-service`) | `waybills`, `gib_outbox` (tenant schema) | create, update, approve, queue, cancel; the 30 s cron: send, poll, cancel at GIB | REST; RabbitMQ events of stock, purchase and order services; GIB over HTTP | overlapping cron runs, whole-row saves of stale copies, records stuck in PROCESSING | a verdict shown is GIB's; a document sent is asked about; a cancelled waybill stays cancelled; records settle |
| **stock-service**, movements (`apps/stock-service/src/movement`, `shared`, `product`) | `products` (stock, cost, FIFO layers), `stock_movements` | receipt, issue, transfer, count, returns, scrap; product edits | REST; purchase and order services over HTTP; announces transfers on RabbitMQ | movements lock the product row, edits do not; FIFO and average cost; integer kuruş rounding | stock, ledger, layers and costs agree; no warehouse goes negative; FIFO takes the oldest |
| **tenant-service**, provisioning (`apps/tenant-service/src/provisioning`) | `tenant_routing`, `provisioning_log`; one schema and role per tenant | the provisioning saga and its compensations; admin status changes; orphan detection | onboarding, admin API, internal API; auth-service writes users and roles into the same schemas | sagas in parallel, also of one tenant, failure at any step, failing compensations, stops, members invited meanwhile | an active tenant is complete; a failed saga leaves nothing; one address, one tenant (which the code does not keep) |
| **purchase-service** and **order-service** | orders, lines, goods receipts, deliveries | submit, approve, confirm, pick, cancel, receive, deliver | REST; call stock-service and financial-service; announce to waybill-service | a receipt is seven calls with no transaction around them; the order is read at the start and saved at the end | documents, movements, orders and waybills agree |
| **auth-service**, sessions (`apps/auth-service/src/auth`) | refresh tokens, their sets and the revoked pairs in Redis; `users` | login, refresh, logout, expiry, deactivation | REST | single commands to Redis, interleaved; logout lists and then deletes | a token works once; a session has one; logout and deactivation are final |
| **hr-service** and **auth-service**, accounts (`apps/hr-service/src/employee`, `termination`; `apps/auth-service/src/members`, `events`) | `employees`, `termination_details`, `users`, the queue and its dead letters | hire, edit, calculate a termination, terminate; invite, deactivate | REST; RabbitMQ from hr to auth | two saves and a message without a transaction; redelivery; a minute's time to live; check, hash, insert | nobody hired is forgotten; a termination holds; every message is dealt with; a leaver cannot log in |
| **hr-service**, payroll (`apps/hr-service/src/payroll`, `advance`) | `payrolls`, `advance_requests` | calculate and approve a period; ask for, approve, reject, pay an advance | REST; announces the payroll to financial and treasury services | a period is many reads and inserts; the advances are marked after the approval | an advance is deducted once; the ledger hears of a payroll once |
| **manufacturing-service** (`apps/manufacturing-service/src/work-order`, `bom`) | `work_orders`, `boms` and their lines; the movements are stock-service's | create, confirm, start, complete, cancel; change a recipe | REST; calls stock-service | a completion is a call per material and one for the product, with no way back | a product comes in once, and only after its materials left |
| **financial-service**, **treasury-service**, **billing-service** | invoices, journal entries, plans; balances; subscriptions | approve, submit, poll; book, transfer; charge, dun | REST, crons, RabbitMQ, GİB, iyzico | see [what is not modelled](#what-is-not-modelled): their later steps cannot be reached with the repository's schema | |

### The rest

The rest of `hr-service` (leave, expenses, overtime, SGK files) and of `manufacturing-service`
(operations, MRP), `crm-service`, `fleet-service`, `notification-service`, `analytics-service`:
approval steps over one row, arithmetic, and SQL aggregates. `stock-service` also talks to
carriers, marketplaces and web shops. `ai-assistant` and `ml-inference` are Python services
around models. `packages/database` resolves a tenant to its data source (with a five-minute cache
in Redis) and holds the guards; `packages/health`, `mailer`, `reporting`, `shared-types` keep no
state. `apps/web`, `portal` and `mobile` are clients. `PROJECT.json` lists each with its files,
its status and the reason it is not modelled.

### How the modelled parts meet

```
 purchase-service ─┐ POST /movements          ┌─ waybill-service ── outbox cron ── GİB
 order-service ────┼──────────────> stock-service        ^            (WaybillGib)
   (GoodsFlow)     │              (StockMovement)        │ RabbitMQ
                   └──── goods received, delivered ──────┘
 onboarding, admin ──> tenant-service saga ──> tenant schemas <── auth-service members (Provisioning)
 any service ──> webhook-hub outbox ──> receivers (WebhookOutbox, refines Delivery)
 manufacturing-service ── POST /movements ──> stock-service (WorkOrder)
 hr-service ── auth.hr-events ──> auth-service members (StaffAccounts)
 hr-service payroll ── hr.payroll.finalized ──> the ledger (Payroll)
 clients ── login, refresh, logout ──> auth-service ──> Redis (RefreshToken, refines Session)
```

`GoodsFlow` contains the two order services, the stock service as they see it (a movement is made
or refused, the reply may be lost), and the waybill service's event consumer. `StockMovement` and
`WaybillGib` open up those two services. `StaffAccounts` composes the hr service, the broker and the
auth service's consumer with the members managed by hand; `WorkOrder` sees the stock service as
`GoodsFlow` does; `Provisioning` contains what the members service writes into the schemas the saga
builds and drops.

## Modules

Every module declares its bounds as CONSTANTS, has one action per step that another actor can
come between, and states its properties at its end. Names are the code's where TLA+ allows it.
Definitions ending in `_Something` next to a definition are faulty variants of it: they show what
kind of mistake in the code each property would reveal. *Ghosts* are variables no action's guard
reads; they remember what a property is about.

### Delivery and WebhookOutbox

`Delivery` is what the hub promises of an event, without rows, copies or replicas: it is queued,
then receivers take it or nobody is found for it, and each attempt ends as sent (only with a
reason), as one more try (only below the limit) or as dead (never below it); then it is over. An
event that two replicas worked on at a time is `muddled`: it may be tried beyond the limit, and taken
and settled after it was over.
`WebhookOutbox` is the code: `row` is `outbox_events`, `sub` the subscriptions, `job[i][e]` the copy
of row `e` that replica `i` holds between the claim and the final UPDATE. `ClaimPendingEvents` is
one tick of the timer: the oldest due rows, at most `BatchSize`, minus rows that another replica's
statement happens to have locked (`skipped`). `Lookup`, `Deliver` (one parallel delivery ends),
`MarkSent` and `MarkFailed` are the awaits of `processEvent`; `BecomeDue` is the backoff;
`QueryFails`, `Stop` and `Start` are a rejected query, a stop of the process (SIGTERM does not wait
for the batch) and its restart. `MarkFailed` decides with the attempts of the *copy* and increments
those of the *row*, as the code does. The ghosts `accepted`, `noAudience` and `shared` say who
answered 2xx, which events had no subscriber, and which two replicas ever held at once.

What holds although the claim is no lock: `SentWasAccepted`, a sent event was taken by somebody or
asked for by nobody; `RetryBudget`, a dead letter used all its attempts, and an event that was never
shared is never tried more often; `IsDelivery`, the refinement, `Promised!Spec` under `INSTANCE
Delivery WITH`: what the rows say of status and attempts, and what the ghosts say of receivers, only
ever moves as `Delivery` allows. Its consequence `OutcomeIsFinal` says that the outcome and the
attempts of an event no replicas shared are never overwritten, and no receiver hears of the event
again. `EventuallySettled`: every event ends.

### WaybillGib

`waybill` and `outbox` are the two tables, `run[p]` a cron run in flight with the batch it read,
`client[c]` a request in flight with the row it read; `docs`, `verdicts` and `revoked` are what
GIB received, answered and cancelled. A request is `Read` (findOne
and the status check), `InsertRecord` where it queues something, and `Save`, which writes the
whole copy, `gibUuid` included. A run takes each record through `MarkProcessing`, the call to GIB,
the updates that follow it, and `EndTurn`; `StepFails` ends in the catch block, `RunFails` and
`Restart` leave the record in PROCESSING. `waybillRepo.update` of the cron writes whatever the
status is by then.

Properties: `VerdictIsGibs`, `ClosedSendIsPolled` (a SEND is done only when GIB has the document and
a POLL will ask about it), `CancelledIsFinal` (once the open work on a waybill is over, a cancelled
one stays cancelled: while a SEND or POLL is open the cron may well take it out of IPTAL), and
`RecordsSettle`.

### StockMovement

One product, because movements lock their product's row and share nothing else. `Begin` is the
transaction up to its last check (warehouse stock, total, layers), `Commit` applies `EffectOf`
the request to the row as it was read under the lock, `Rollback` gives up. A transfer is
announced inside the transaction. `ReadProduct` and `SaveProduct` are PATCH and DELETE
`/products/:id`, which read without a lock and save the entity, stock columns included; the ghost
`overwritten` says that such a save put stale stock back, or changed the cost method with stock on
hand. `Consume` is the FIFO engine, a fold over the layers that takes what it `Takes` of each at its
place and no more than is wanted; `AvgAfterReceipt` is the average. What layers and warehouses hold
are sums, `Total` of `Totals`: a function on sequences, recursive in the number of their elements,
which the proofs can reason about.

Properties: `NoNegativeWarehouse`, `LedgerAddsUp` (each running balance follows from the last),
`LayersAreStock`, `ConsumeIsFifo` (the engine against a reference definition: the layers as a
sequence of single units) and `ValueIsBooked`, which says for each of the seven types what a
movement does to the value of a FIFO product's layers and what it books for it. Receipts and issues
agree with the ledger. A transfer merges the layers it takes into one, whose cost is rounded by at
most half a kuruş a unit; if the layers it takes are free, they come back at the displayed cost and
nothing is booked (`stock-movement.service.ts:212-213`), so value is made. A count books its whole
difference at the displayed cost: for a surplus that is what the new layer is worth, but a shortage
takes the oldest units out at what they cost (`:236-242`), so ledger and layers part by the
difference.

### Provisioning

`routing` is `tenant_routing`, `schema[t]` what exists in the tenant's schema (users and
administrators included), `saga[s]` a running `provision` call: its program counter, its slug and its
compensations, which live in memory only. There is one action per call of the orchestrator:
`PickSlug`, `InsertEntry` (UNIQUE slug, CHECK on tier, ON CONFLICT by tenant), `CreateSchema`,
`FillSchema` (migrations, row level security, seed data), the search for the administrator's address
among the active tenants (`ListActive`, `CheckOne`, `SkipOne`), `InsertUser`, `AssignRole`,
`Activate`, `Finish`; then `CallFails` and the compensations in reverse, each of which may fail too,
and `Stop`. Operators change statuses with `MarkAsFailed` and `ChangeStatus`.

`Start` takes any tenant at any time: its caller names the tenant, a call takes the better part of a
minute, and a repeated one runs beside the first. What one of the two takes away the other misses:
`LogRefused` is a log row refused by its foreign key when the tenant's row is gone, `FillRefused` a
statement whose schema or tables were dropped.

`request[r]` is a call of the members service of auth-service, which writes into the same schemas:
an invitation (`Invite`, the search in `ListOthers`, `AskOne` and `PassOver`, then `InsertMember`)
or a change of role (`ClearRoles`), both ending in `GrantRole`; `RequestFails` ends it anywhere and
takes nothing back. `calls` counts the calls of both services.

The ghosts: `broken` holds the tenants whose saga was stopped, was not undone, or was overlapped by
another saga of the same tenant, and those an operator set the status of; `again` those provisioned
over an existing schema; `demoted` those where the members service took an administrator's role.

Properties: `ActiveIsComplete` (what users can reach has tables, policies, seed data and an admin,
unless he was demoted) and `AllOrNothing` (a saga that is over has left an active tenant or no trace,
not even of the members invited into it meanwhile). `AddressInOneFirm`, what a comment says the two
searches are for, is refuted [below](#where-code-and-comments-disagree).

Abstracted: the log row goes in with the step it announces, and the rows of the log and of the
tenant are deleted in one step (the foreign key cascades); addresses are written in one case; which
roles a member has matters only for `sistem_admin`; deactivated members, who keep address and roles,
and the routing cache are left out.

### GoodsFlow

`kind` says which service an order belongs to; `createGoodsReceipt` and `createDelivery` are the
same sequence and share their actions. `call[c]` is a request: it reads the order (`Begins`),
inserts the document (`InsertDoc`), posts its items one by one (`Post`, `PostRefused`,
`ReplyLost`), deletes the document when one was refused (`DeleteDoc`) or marks it (`SyncDoc`),
writes the order back as it was read plus the items (`UpdateOrder`), and announces it
(`Announce`). `Edit` and `Save` are submit, approve, confirm, pick and cancel. `CallEnds` stops a
call anywhere. `moves` counts movements per document and product; `queue`, `waybills` and `dead`
are the broker and the consumer (`CreateWaybill`, `Redelivered`, `DeadLetter`). The ghosts
`stale`, `cut` and `repeated` remember overlapping calls, calls cut off, and redeliveries. The tail
of a call is in `GoOn` and `Goto`, its document in `SetDoc`. An order has a line at least and a
positive quantity on each (`GoodsFlowAssumption`): `create` refuses one without, the DTO the other.

Properties: `SyncedIsMoved`, `ReceivedIsDocumented` (received quantities add up the synced
receipts), `ReceivedIsComplete`, `WaybillIsEarned`, `CancelIsFinal`.

### Session and RefreshToken

`Session` is what the refresh tokens promise, in four steps: a session is opened, its one token is
spent, a new one put in its place, and it ends. `RefreshToken` is the code, one action per command
to Redis: `keys` the `rt:` keys, `index` the set of each session's tokens, `revoked` the refused
pairs, `req[r]` what a request has in memory. A login is `Login`, `SaveKey` (SET), `SaveIndex`
(SADD) and `Reply`; a refresh is `Consume` (the script that reads and deletes), `Unlist` (SREM),
`Reload` (`reloadUser`) and then the same saves; a logout is `Revoke`, `ListTokens` (SMEMBERS) and
`DeleteTokens` (DEL). Clients may present a token as often as they like; `Expire`, `Deactivate` and
`BreakOff` come at any time.

`IsSession` is the refinement, `Chain!Spec` under `INSTANCE Session WITH`: the live tokens of a
session are its keys, and a session is turning while some request has spent its token and not yet
saved the next. `LogoutIsFinal` is about the two commands of a logout: the set is listed, then the
listed keys are deleted, and a refresh under way meanwhile has its old token spent and its new one
not listed yet. The ghosts `quiet`, `torn` and `ended` tell such logouts from the others. After a
logout that was overlapped the new token lives on, and its set may no longer hold it, so a later
logout misses it too: the property leaves those sessions out. `InactiveRunsOut`: after a
deactivation a session gets at most one more token.

### WorkOrder

`status`, `bom` and `store` are the order's row, `lines` the recipe, `req[r]` a request between its
read and its save, `moved` the movements booked by stock-service as pairs of a completion's number
and a line. `ReadTo...` are findOne and the status check, `Save` the update of the changed columns.
A completion reads the recipe (`ReadToComplete`), posts a movement per line (`Withdraw`,
`RefuseLine`, `LoseAnswer`), then the product (`Produce`, `RefuseProduct`) and saves. `Undo` changes
nothing: the DELETE it stands for has no route in stock-service. `ChangeBom` rewrites a recipe in
the middle. Properties: `ProducedFromBill` (a product in stock is backed by every material of the
recipe its completion read, and a finished order has one) and `ProducedOnce` (an order handled by
one request at a time is produced exactly once if done and not at all otherwise). The ghosts
`overlapped` and `unsure` hold the orders for which that cannot be said: two requests at a time, or
a product posted by a completion that never got to save.

### Hr

What `StaffAccounts` and `Payroll` have in common: the employees, the requests, each between two of
its awaits (`job`), and the bound on faults. The names of the two are disjoint, so that one module,
`HrProofs`, can extend both; they share no step, since the payroll takes any set of employees for the
active ones.

### StaffAccounts

`staff`, `mail` and `details` belong to hr-service; `queue`, `parked` and `acked` are the queue, its
dead letters and what the consumer acknowledged; `users` (oldest first) and `enabled` are
auth-service's. `Calculate`, `SaveDetails`, `SaveTerminated` are a termination with its details,
`Find` and then `Terminate` or `Update` the short termination and the edit. All of them end in a
`Save` of the whole row as it was read, but for what they change. An edit changes the address, too
(`employee.service.ts:184`): it may give one, change it or take it away, and no event tells anybody.
An event carries the address the employee had when he was hired, which the ghost `hiredAs`
remembers. `Check`, `Insert` or `InsertClashes`, and `Equip` are an invitation, by hand or by the
consumer; `List` and `Deactivate` what the consumer does about a leaver. A handler that throws parks
its message, a consumer that stops gets it again, and a minute in the queue parks it too. `Equip`
stands for the inserts of the roles, which are not part of the state: a failure between the account
and its roles leaves an account without them, and the redelivered message finds the address taken
and is acknowledged.

Properties: `HiredIsAnswered` (once a hiring is announced, its message waits, is a dead letter, or
was acknowledged and the address the employee *was hired with* has an account; an address that an
edit gave or changed later gets neither event nor account, and the property does not speak of it),
`TerminationHolds`, `EventsSettle`, and `LeaverLosesAccess`, which is refuted.

### Payroll

`pay[<<e, m>>]` is the payroll of an employee and month with the advances it deducts, `adv` the
status of each advance, `told` how often the ledger was told. `CalculatePeriod`, `Look`, `SaveDraft`
are `calculatePeriod`, employee by employee; `ReadPeriod`, `ApprovePeriod`, `MarkDeducted`, `Finalize`
are `approvePeriod`. `MarkDeducted` marks every approved advance of the employee, counted or not, as
the code does. Properties: `TakenOnce` (an advance is deducted from one salary, and counts as
deducted only if it was) and `ToldOnce`. Both are stated for an orderly use, in which a period is
approved in full before the next is begun (`orderly`), and for advances no two requests handled at
a time; an advance approved after a payroll looked is marked without having been deducted (`late`).

## Runs

| run | configuration | shows |
|---|---|---|
| `webhook_outbox` | 2 events, 1 subscription, 2 replicas, batch of 1, 2 attempts, 1 fault; 387 thousand states | `TypeOK`, `SentWasAccepted`, `RetryBudget`; `IsDelivery`: the refinement; `EventuallySettled`: a failing event does not starve the one behind it |
| `waybill_races` | 1 waybill, 2 overlapping runs, 1 request, 2 queued records, 1 fault; 3.8 million | `TypeOK`, `VerdictIsGibs`, `ClosedSendIsPolled`, `CancelledIsFinal` |
| `waybill_settles` | 1 run at a time, 2 queued records, 2 faults, 2 attempts; 702 thousand | `RecordsSettle` |
| `stock_movements` | 2 warehouses, 2 requests, 3 movements, 1 edit, both methods; 274 thousand | `TypeOK`, `NoNegativeWarehouse`, `LedgerAddsUp`, `LayersAreStock`, `ConsumeIsFifo`, `ValueIsBooked` |
| `provisioning` | 2 firms of one name, 2 addresses, 2 sagas at a time, also of one firm, 1 members' request, 3 calls in all, 1 fault; 752 thousand | `TypeOK`, `ActiveIsComplete`, `AllOrNothing` |
| `one_firm` | the same module, 2 calls, no faults | refutes `AddressInOneFirm`, below |
| `goods_flow` | 1 order, 2 lines and a product not ordered, 2 clients, 2 documents, 5 calls, 1 fault; 1.0 million | `TypeOK`, `SyncedIsMoved`, `ReceivedIsDocumented`, `ReceivedIsComplete`, `WaybillIsEarned`, `CancelIsFinal` |
| `sessions` | 1 user, 1 session, 4 tokens, 3 requests, 2 faults; 223 thousand | `TypeOK`, `LogoutIsFinal`, `InactiveRunsOut`, and `IsSession`: the refinement |
| `work_orders` | 1 order, 1 recipe of 2 materials, 2 requests, 2 completions, 1 fault; 166 thousand | `TypeOK`, `ProducedFromBill`, `ProducedOnce` |
| `staff_accounts` | 1 employee, 3 addresses (one elsewhere), edits of the address, 2 requests and the consumer, 2 faults; 639 thousand | `TypeOK`, `HiredIsAnswered`, `TerminationHolds`, `EventsSettle` |
| `payroll` | 2 employees, 2 advances, 2 months, 2 requests, 1 fault; 488 thousand | `PayrollTypeOK`, `TakenOnce`, `ToldOnce` |
| `staff_leaver` | the same module as `staff_accounts`, no faults | refutes `LeaverLosesAccess`, below |

Between them the passing runs take every action of the nine detailed modules. Deadlock is not checked:
with every bound used up nothing is left to do, and in the code an idle service is a normal state.

## Where code and comments disagree

Two are refuted by a run:

* `staff_leaver`: *"Çalışan işten çıkarıldı → hesabı devre dışı bırak"* (`hr-events.consumer.ts:151`
  of auth-service). The condition of the search is `m.name?.includes(p.sicilNo) || m.userId`, and
  every member has a `userId`, so the first of the list is taken: the oldest account, its founder's
  as a rule, is deactivated and the leaver's own stays enabled (`LeaverLosesAccess`).
* `one_firm`: *"aynı e-posta başka bir tenant'ta kayıtlı olamaz"* (`provisioning-orchestrator.ts:338`).
  The search asks the tenants that are active when it begins, and the address is inserted later. Two
  sagas that overlap do not find each other, and both firms end active with the same address
  (`AddressInOneFirm`). One saga is enough, too: an invitation at a firm lists the active tenants
  before another firm's saga makes its own active (`members.service.ts:248-251`), and inserts the
  address that saga has registered.

The others were met while reading. Where a model is concerned, its properties say what is left:

* *"her instance aynı eventi işlemez"* (`outbox-processor.ts:23`). The claim's row locks end with
  the autocommitted SELECT and the row stays `pending`, so a second replica claims it while the
  first delivers. Receivers see duplicates, and the attempts of a shared event may exceed the limit.
* *"GİB'e gönderilmişse outbox'a CANCEL kaydı eklenir"* (`waybill.service.ts:192`). A waybill
  cancelled after it was sent and before GIB accepted it gets none.
* *"tüm depolar toplamı"* (`product.entity.ts:102`). A count sets the total and no warehouse.
* *"Maliyet değişmez (internal transfer)"* (`stock-movement.service.ts:27`): a transfer of free layers
  puts the displayed cost on them (`:212-213`), and one of layers at several costs rounds.
* *"Fark negatif → CIKIS benzeri maliyet güncelleme"* (`stock-movement.service.ts:32`): an issue books
  what its units cost; the shortage of a count consumes the layers in the same way and books the
  displayed cost of each unit (`:236-242`). `ValueIsBooked` says by how much either is off.
* *"Yeni çalışan işe alındı → STAFF rolüyle kullanıcı hesabı oluştur"* (`hr-events.consumer.ts:125`).
  An employee hired without an address and given one by an edit (`employee.service.ts:184`) is
  announced to nobody and has no account.
* *"E-posta zaten kayıtlıysa idempotent"* (`hr-events.consumer.ts:139`). When the roles were not
  inserted after the account, the redelivered message meets that account, is acknowledged, and the
  account stays without roles.
* *"kısmi sync güvenli değil"* (`purchase-order.service.ts:257`). The compensation deletes the
  document and leaves the movements.
* The compensation of a work order (`work-order.service.ts:189`, `:271`) calls
  `DELETE /movements/:id`, which stock-service does not have: the answer 404 is logged and swallowed.
* *"upsert"* (`payroll.service.ts:31`): the code inserts, and the UNIQUE constraint on employee and
  period refuses a second calculation of a period.
* The life of an advance in `advance.service.ts` ends in DEDUCTED; one that was paid out is never
  deducted, because a payroll counts only those still APPROVED and `markDeducted` has no caller.
* *"atomik"* (`refresh-token.store.ts:28`): a logout is two commands, and a refresh between them
  leaves a token that works.
* The refresh of a tenant's user reads `email_verified` (`user.repository.ts:122`), a column no
  migration creates. The model is about the store behind it; the platform's administrators have a
  store class of their own (`platform-refresh-token.store.ts`) that issues the same commands.
* Approving an invoice sets its status and then inserts into `payment_plans` a column `updated_at`
  that the table lacks: the status stays and the booking is rolled back. `submitInvoice` requires a
  status `APPROVED` that the CHECK constraint excludes. The consumers of treasury and payroll events
  fail on `payment_installments.updated_at` and on a text in the UUID column `reference_id`, and
  put their message back for ever.
* `balanceKurus` is a bigint, which the driver hands over as a string: an income appends digits to
  it. `hr-events.consumer.ts` of treasury-service looks for a `label` its entity does not have.
* The entities of billing-service name columns the control plane does not have.
* `leave.service.ts` saves a balance and its request one after the other, and
  `refreshAnnualEntitlements` (233-257) zeroes the days used and pending, also in mid-year.
* Onboarding and `changeTier` use a tier `business` and the admin API a status `suspended` that the
  CHECK constraints of `tenant_routing` refuse; the orphan cron only logs although
  `docs/QA_PLAN.md` expects a cleanup; approving a purchase order leaves its status at `sent`; the
  waybill queues' dead letters are read by nobody; the publisher of returns has no caller.

## Bounds

Every CONSTANT named `Max...` except `MaxAttempts`, and `Edits`, is a bound of the checking, not of the code.

* Faults (`MaxFaults`) are one or two. The protocols have no quorum: one fault at the worst moment
  reaches every error path, the second a fault during the recovery from the first. Where a run has
  one fault (`webhook_outbox`, `provisioning`) the promises under two rest on the theorems, which
  bound no faults.
* Two replicas, runs, requests, sagas or clients: every race here is between one that read and one
  that wrote; a third repeats what the second does. For the webhook outbox the proofs remove the
  bound, and so they do for its one subscription: that one of several subscribers refuses what
  another took is covered by `SentIsAccepted`, for any set of them.
* `MaxCalls` of `provisioning` is three: two sagas of one firm and an invitation, or a saga, its
  repetition and a change of role. `one_firm` needs two.
* One waybill, product and order: the services lock, read and save them one at a time, and no
  property relates two. Firms come in two because they compete for slugs and addresses.
* `MaxAttempts` is 2 instead of 3 and 5, which leaves an attempt that is tried again and the last.
  `BatchSize` is 1 or 2 instead of 20 and 50, so that a batch limit below the number of open rows
  occurs.
* Three movements reach a receipt, a partial issue of its layer and a transfer or count after it;
  quantities 1 and 2 split a layer, costs 0 and 3 make rounding and free layers happen.
* In `GoodsFlow` the item lists are nothing, a full line, a part of one with all of the other, and
  a line together with a product that was not ordered; five calls suffice for submit, two receipts
  that overlap, a cancellation and one more.
* `MaxWaits` bounds how often GIB answers BEKLEMEDE (it must stop some time for records to settle);
  `MaxDocs` of `waybill_settles` is never reached, since two SENDs have two attempts each.
* One session: nothing in Redis or in a property relates two, and the proofs remove the bound. Four
  tokens are a login and three refreshes, three requests a refresh, the logout it races and another.
* One order and two completions, the first refused or cut off and the second begun after or during
  it; two materials, so that a failure falls between them. Proved without the bound.
* One employee: the consumer works through one message at a time and `Found` ignores whom it is
  about. Three addresses: the founder's, a new one, and one that is in use in another tenant. An edit
  gives the new one (`Edits`) or writes back the one it read; that one may also take the address
  away is left to the theorems, which hold for any `Edits`.
* Payroll: two employees, because a period works through several and may break off between them;
  two months, because an advance left over from one is deducted by the next. The constraint
  `InOrder` explores no further once a period was begun before the last was approved in full or
  once two requests handled one advance; the proofs cover what happens then, too (`PayrollTypeOK`, and
  both promises for the other advances).
* Symmetry is used for identities that no action or property tells apart, and never in the
  liveness runs.

## Fairness

Safety properties assume none. `EventuallySettled` assumes weak fairness of each replica's timer,
of its queries and deliveries (every delivery ends within its 10 s timeout), of the passing of the
backoff and of the restart of a stopped replica, which the orchestrator of containers does. It
assumes nothing about the receivers' answers and nothing about unsubscribing. `RecordsSettle`
assumes that the `setInterval` fires and that the calls of a run return: weak fairness of
`StartRun` and of `RunStep`. A run that breaks off (`aborted`) leaves a record in PROCESSING for
ever; the property says so rather than assume it away. `EventsSettle` assumes weak fairness of
`Consume`, the consumer taking a message and finishing the one it has, because RabbitMQ pushes and
each await of the handler returns or throws; it assumes nothing of requests, and no failure may
repeat for ever (`MaxFaults`). It speaks of each employee: all messages about him, who is hired once
and leaves once, are dealt with in the end.

## Proofs

`WebhookOutboxProofs` proves, for all sets of events, subscriptions, replicas, topics and filters
and every attempt and batch limit (`ConstantsAssumption`: the events are a finite set, so that the
age of a new row is a number):

| theorem | statement |
|---|---|
| `TypeCorrect` | `Spec => []TypeOK` |
| `InductiveInvariant` | `Spec => []IInv` |
| `SentIsAccepted` | `Spec => []SentWasAccepted` |
| `BudgetKept` | `Spec => []RetryBudget` |
| `ImplementsDelivery` | `Spec => IsDelivery`: every action is a step of `Delivery` or a stutter |
| `OutcomesStay` | `Spec => Promised!OutcomeIsFinal` |
| `OneReplicaSharesNothing` | with one replica `shared` stays empty, so the two promises about unshared events hold of all |

None of the promises is inductive: they speak of rows, while what a replica will write is in its
copy. `CopiesAgree` is the missing part: a copy belongs to a stored row and has seen no more
attempts than the row counts; a copy that succeeded, or is about to mark 'sent', has its reason in
`accepted` or `noAudience`; and an event that was never shared has at most one copy, of a row that
is still pending and has the attempts the copy saw. `IInv` is `TypeOK`, `CopiesAgree` and the two
promises. The proof regroups it by event (`Promise`, `PromiseOfAll`): an action on event `e`
leaves every other event's promise alone (`Untouched`), and for `e` itself there is a lemma per
action (`EnqueueKeeps` to `StopKeeps`). The decisive one is the claim: it makes a second copy only
of an event that it adds to `shared`.

The refinement needs no more than that invariant. A claim is `Muddle` of the events others hold;
`Lookup` and `Deliver` happen only while the event is open, because whoever holds a copy of an event
that was never shared finds its row pending (`HeldIsOpen`); and an UPDATE ends an attempt with the
outcome `Delivery` allows, because the copy counts no more attempts than the row, and just as many when
it was never shared (`MarkIsAttempt`). `OutcomesStay` then follows from the steps of `Delivery`.

`WaybillGibProofs` proves for any waybills, runs and requests and every limit (`WaybillAssumption`:
there is a waybill, a batch and an attempt at least):

| theorem | statement |
|---|---|
| `TypeCorrect` | `Spec => []TypeOK` |
| `VerdictsAreGibs` | `Spec => []VerdictIsGibs` |
| `ClosedSendsArePolled` | `Spec => []ClosedSendIsPolled` |
| `CancelledStaysCancelled` | `Spec => CancelledIsFinal` |

Here too the promises are about rows, and what is written comes from memories that may be old. The
invariant says of each what it is worth for good: a request's copy has a `gibUuid` of a document of
its waybill, or none (`Registered`), and a status that was true (`Truthful`), so saving it late
cannot invent a verdict; a run has a record of the table in hand (`Batched`), and each point it has
reached says what is done for that record (`ReachedBy`: sent means that GIB has the document, done
that a later POLL is in the table). All of these survive the steps of others because nothing they
speak of is taken back (`Grows`: records keep waybill and action, documents and verdicts only
become more). That is why overlapping runs, which work on the same record with different memories,
do no harm to these two promises. `CancelledStaysCancelled` takes `Quiet` apart into records, runs
and requests, and shows for each that one step keeps it: a request's check refuses a cancelled
waybill, a run takes up only pending records (`BatchStep`), and what is pending for a quiet waybill
is a CANCEL, which writes no waybill.

`StockMovementProofs` proves for any warehouses, requests, quantities and costs (`StockAssumption`):

| theorem | statement |
|---|---|
| `TypeCorrect` | `Spec => []TypeOK`, with it that no quantity, cost or balance goes below zero |
| `Exclusive` | `Spec => []OneAtATime`: the row lock lets one transaction work, on the row as it is |
| `LedgerCorrect` | `Spec => []LedgerAddsUp` |
| `WarehousesCovered` | `Spec => []NoNegativeWarehouse` |
| `LayersMatch` | `Spec => []LayersAreStock` |
| `FifoCorrect` | `Spec => []ConsumeIsFifo` |
| `ValueBooked` | `Spec => ValueIsBooked` |

One part of this is about data. `ConsumeIsFifo` compares the consume loop, a fold over the layers,
with a definition that lays every unit out in a row, for whatever layers a product has; `Total`, the
units and the loop are recursive functions. `NatSet` derives induction over the natural numbers from
the well-foundedness of `<` (a set with 0 and every successor is all of them), `SeqSet` induction
over sequences from it, and each function gets a lemma of what it makes of `<<>>` and of one element
more (`TotalAppend`, `FlattenAppend`, `ConsumeAppend`). From these follow what the loop takes and
keeps (`ConsumeTakes`) and that it is the oldest units (`ConsumeOldest`), for all sequences.
`EffectSound` says of each type of movement what it does to quantity, layers and value, with
`CountSound` for the two sides of a count.

The other part is about the lock. The invariant is the type, `LockHeld` (an open transaction has the
lock, the row as it is, and passed its checks on it), `Booked` (the ledger's chain, and that the
product shows its last balance unless an edit overwrote it), and the two promises about warehouses
and layers. `Exclusive` carries it: what the check of `Begin` found in the warehouse, summed over
the ledger, is still there at the commit, because nobody else has booked meanwhile. `StockAppend`
adds the new movement to that sum.

`ProvisioningProofs` proves for any tenants, sagas, requests, addresses, slugs, calls
and faults (`ProvisioningAssumption`):

| theorem | statement |
|---|---|
| `TypeCorrect` | `Spec => []TypeOK` |
| `ActiveComplete` | `Spec => []ActiveIsComplete` |
| `NothingHalf` | `Spec => []AllOrNothing` |

The promises are about tenants, what happens to them is in a saga's memory. The invariant says of
each saga what it has to undo at each step (`UndoOK`, which holds of any), what its tenant's schema
holds by then, and that the tenant is not active before its last step (`BuiltOK`, unless the tenant is
broken), and the first time that it holds no more than what is to be undone (`FirstOK`); `AllWhole`
says that an active tenant no saga has touched is complete. `Alone` says that two sagas at one tenant
have made it `broken`, so that a saga's step is `Local` to a tenant that is its own or about which
nothing is promised: the rest of the invariant is kept once and for all (`LocalKeeps`) and each
action shows its `Own` part. The members service adds users to schemas that have tables and takes
roles only with `demoted` remembering it, which harms none of this (`MembersKeep`); `RequestsOK` is
what its memory is worth.

`GoodsFlowProofs` proves for any orders, products, calls, documents and faults
(`GoodsFlowAssumption`):

| theorem | statement |
|---|---|
| `TypeCorrect` | `Spec => []TypeOK` |
| `SyncedMoved` | `Spec => []SyncedIsMoved` |
| `ReceivedDocumented` | `Spec => []ReceivedIsDocumented` |
| `ReceivedComplete` | `Spec => []ReceivedIsComplete` |
| `WaybillEarned` | `Spec => []WaybillIsEarned` |
| `CancelFinal` | `Spec => CancelIsFinal` |

A call carries an order it read long ago and a document it inserted. `CallOK` says what both are worth
at each step: that the order was open, which document is its own, in which state, with which items
moved. `Owned` says no two calls hold
one document, `Fresh` and `Blank` that what does not exist yet has moved and received nothing. The
hard one is `ReceivedIsDocumented`, an equation between the order's numbers and a sum over all its
documents: `TotalUpdate` says how a sum changes when one term does, and a document joins the sum in
the step that writes the order (`Pending` leaves out the ones whose call is between the two).
`Step` reduces the actions to a dozen kinds of step, each naming only what the invariant speaks of;
`NextIsStep` is proved once and the parts of the invariant are carried over kinds.

`RefreshTokenProofs` proves for any users, sessions, tokens and requests (`RefreshAssumption`: `None`
is none of them):

| theorem | statement |
|---|---|
| `TypeCorrect` | `Spec => []TypeOK` |
| `LogoutFinal` | `Spec => []LogoutIsFinal` |
| `InactiveOut` | `Spec => []InactiveRunsOut` |
| `ImplementsSession` | `Spec => IsSession`: every command is a step of `Session` or a stutter |
| `SingleUse` | `Spec => []Chain!OneLiveToken`: a session has one live token at most, none while it is renewed |

The invariant `Inv` says what each request's memory is worth (`Memory`), that tokens in Redis were
issued (`Known`), that a session has one token, or one request making one, or neither (`Single`),
that sets hold tokens of their session (`Listed`), that a token in use is in the set of its session
unless a logout was torn (`Found`), that a quiet logout has read every token in use (`Calm`) and an
ended session has none (`Over`), and that whoever made a token too late was the last to make one
(`Last`). `Single` carries the refinement: without it a spent token could be one of two. `Found`
carries the logout: `LogoutIsFinal` is about keys, and what is deleted comes from the set. There is
a lemma per part (`TypeStep` to `RunsOutStep`), each with a step per action.

`WorkOrderProofs` proves for any orders, recipes, materials, requests, completions and failures
(`WorkOrderAssumption`):

| theorem | statement |
|---|---|
| `TypeCorrect` | `Spec => []TypeOK` |
| `FromBill` | `Spec => []ProducedFromBill` |
| `Once` | `Spec => []ProducedOnce` |

Its invariant ties a completion in memory to its movements: numbers are given out once (`Memory`,
`Fresh`), what is no longer in `left` has been posted (`Progress`), and an order that was never
handled by two requests still has the status its request read (`Alone`). `Backed`, `Finished`,
`Single` and `Earned` are the two properties without the set `Made`, which the provers handle badly.

`HrProofs` proves of `StaffAccounts`, for any employees, addresses and requests (`StaffAssumption`: the
consumer is no request, and `None` stands for nothing else):

| theorem | statement |
|---|---|
| `TypeCorrect` | `Spec => []TypeOK`, with it that no address has two accounts |
| `HiredAnswered` | `Spec => []HiredIsAnswered` |
| `TerminationFinal` | `Spec => []TerminationHolds` |

The invariant says what an actor knows at each point (`Memories`: at "roles" the account exists, the
consumer works on the address its event names, which no edit can change any more), that two requests
at one employee are noted (`Alone`), and what a request has read of an employee whose termination
was calculated (`Orderly`: an edit of him has read "terminated", and nobody calculates it again).
The requests that write an employee's row differ only in what they put there (`SaveIs`).
`AnsweredOrWaits` carries `HiredAnswered`: an event leaves queue and consumer only into the dead
letters or acknowledged, and when it is acknowledged the account is there. `StartFinds` carries
`TerminationFinal`: who starts on such an employee either reads that he is out or meets the request
between its two saves, and then the overlap is noted.

and of `Payroll`, for any employees, advances, months, requests and failures (`PayrollAssumption`:
`None` is no employee and no advance):

| theorem | statement |
|---|---|
| `PayrollTypeCorrect` | `PayrollSpec => []PayrollTypeOK` |
| `AdvanceTakenOnce` | `PayrollSpec => []TakenOnce` |
| `LedgerToldOnce` | `PayrollSpec => []ToldOnce` |

Part of the invariant `PayrollInv` holds of any use: what a request has in memory fits its point
(`Shape`), what a payroll counts is its employee's (`Owned`), and an advance nobody else handles is
still as its request read it, or was marked since (`Uncontested`). The rest, `Order`, holds while the
use is orderly: one request is at a payroll (`Solo`), all drafts are of its month and of employees it is
done with (`OneMonth`), what it approves is a draft and what it tells was not told (`Listed`,
`Told`). `TakenOnce` needs three things that speak of requests half way: an advance is counted once,
also by a payroll not saved yet (`CountedOnce`); one that an approved payroll counts is no candidate for
the next, being paid out or marked or still on the list of the approval (`Spent`); and whoever looked
has counted every advance that was approved in time (`InTime`), so that marking all the approved
advances of an employee marks only counted ones (`Accounted`). `Spent` is why paying an advance out
between its two reads does no harm, and why an approval that breaks off is the end of the order: its
list is lost, and the advances on it are deducted again. There is one lemma of what each action does
(`DraftSaved` to `AskedFor`) and one per part of the invariant, with a step per action;
`OrderKept` gives each the order that held before, since it is never restored.

Only model-checked: the liveness properties (TLAPS has no fairness reasoning to use here). The
library's induction theorems take an operator as a parameter, which the installed provers cannot
instantiate; where induction was needed it goes through sets, as `NatSet` and `SeqSet` do.

## What is not modelled

* Contents: payloads, signatures, UBL and XML, names, dates, prices beyond a unit cost.
* The webhook hub's read endpoints and the HMAC; the waybill service's PDF, statistics and its
  mapping of event items to lines; product categories and the Excel import; the migrations'
  contents and their re-application at start-up.
* Tenancy: each model is one tenant's schema (or the control plane). `packages/database` is assumed
  to route a request to its tenant; its cache may be minutes old, which is listed as a hazard.
* Of sessions: the platform administrators' store (a class of its own, with other keys, that issues
  the same commands), the access
  token's own expiry, password reset, OAuth clients. The seven days of the set of tokens are
  refreshed with each token, so its expiry before theirs is left out.
* Of hr-service: the tax arithmetic (the cumulative base is taken from approved payrolls, which
  `TakenOnce` does not depend on), leave, expenses, overtime, attendance, SGK files.
* Of manufacturing-service: operations, activation of recipes, MRP (reads only).
* financial-service, treasury-service and billing-service: what would be worth modelling lies behind
  the statements that the schema or the driver's types make fail (above). A model of the intended
  program would not be faithful to this one, and a model of this one ends at the failure.
* crm, fleet and notification services: rows of their own with a status, no protocol. Marketplaces,
  carriers and shops: what happens is decided by services outside the repository. Analytics, the
  Python services and the clients: reads, numbers and pages.

## Plan

Done, in this order: `WebhookOutbox` with its proofs, `WaybillGib`, `StockMovement`,
`Provisioning`, `GoodsFlow`; then `Session` and `RefreshToken` with the refinement and its proof,
`WorkOrder` with its proofs, `StaffAccounts`, `Payroll`; last the proofs of `WaybillGib`,
`StaffAccounts`, `StockMovement`, `GoodsFlow`, `Provisioning` and `Payroll`, and `Delivery`, which
`WebhookOutbox` was proved to implement.

Next would be, in this order:

1. `WorkOrder` with `StockMovement` in place of its set of movements.
2. The invoice, the payment and the subscription, when the schema lets their code run.

The modules are written for it: no RECURSIVE operators, one action per operation, constants with
named assumptions.
