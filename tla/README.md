# Verification of the coffee-order API

This directory holds TLA+ models of `apps/api` (a NestJS modular monolith on
PostgreSQL): the specifications, the TLC configurations that check them on small
instances, and the TLAPS proofs of what holds for every instance. Line numbers
below are those of the source files under `apps/api/src` unless a path says
otherwise; `PROJECT.json` maps every definition to its lines.

## 1. The system

### How the parts interact

```
 HTTP ──> Ordering ──OrderPlaced──────────> Payment ──(workflow)──> payment provider
             │  ^                              │                        │ callbacks
             │  └──PaymentSucceeded/Failed/────┘<───────────────────────┘
             │      Expired
             ├──OrderConfirmed, OrderReadyForDelivery──> Delivery ──(workflow)──> delivery provider
             │  ^                                           │
             │  └──DeliveryStarted, DeliveryCompleted───────┘
             └──OrderCancelled / OrderCompleted, PaymentSucceeded/Refunded──> Settlement
 every arrow between contexts:
   transaction of the producer ─> outbox_events ─> OutboxDispatcher ─> transport
   (RabbitMQ or in-memory) ─> InboxService ─> effect + inbox_events in one transaction
   ─> afterCommit callback, in memory
```

All contexts share one PostgreSQL database. Transactions run at READ COMMITTED
(the drizzle default; no `FOR UPDATE`, no stricter isolation anywhere), so the
protocol of every context is: read rows, decide, then write with an `UPDATE`
whose `WHERE` may repeat the condition. This is the pattern the models are built
around: **a transaction is two steps, its reads and its writes with the commit**,
and other transactions commit in between.

### Inventory

| Component | State | Operations | Hard behaviour | Correctness |
| --- | --- | --- | --- | --- |
| Ordering (`ordering/`) | `orders`, `order_items`; Outbox rows | create, cancel, startPreparation, markReadyForDelivery, consumers of Payment's and Delivery's events | requests overlap with consumers; events late, twice, out of order; two consumers on one queue | the lifecycle is kept; each transition announces its event once, under the next version; a cancelled Order is not prepared; a delivered Order completes; a paid cancellation refunds |
| Payment (`payment/`) | `payment_intents`, `payment_attempts`, `payment_callbacks`; workflow run per generation | handleOrderPlaced, the PaymentWorkflow, applyProviderOutcome for runs and callbacks, retryForUser, expiry | callback and run overlap; timeouts whose money moved; retries of old generations; crashes between steps | decisions are final and announced; no charge after a charge that may have succeeded; no success after the expiry; every payment is decided |
| Delivery (`delivery/`) | `deliveries`, attempts, callbacks; workflow run per generation | createFromOrderConfirmed, prepareForOrderReady, ensureAttempt, applyProviderOutcome, prepareRetry, completeDelivery | as Payment; the events may be enqueued although the guarded UPDATE found no row | one delivery per Order; started before completed; announced once |
| Settlement (`settlement/`) | projections of Order and Payment facts, `settlements`, ledger entries | four projections, evaluateEligibility, recordSettlement, appendRecordedRefund | facts arrive in any order and overlap with the recording | recorded once, only when eligible; the ledger balances; a late refund is not lost |
| Outbox (`messaging/outbox*.ts`) | `outbox_events`, `dead_letter_events` | enqueue, pending, markPublished, recordPublishFailure, dispatch | rows are not claimed; failures between publish and mark; backoff | what is marked was sent; nothing is lost; nothing is given up early |
| Inbox and transports (`messaging/inbox*.ts`, `*transport.ts`) | `inbox_events`, `dead_letter_events`; queues | processInContext, recordFailure, retry, deadLetter, acknowledge | overlapping copies; crash between commit, callback and ack; afterCommit in memory | effect once; nothing acknowledged away; dead letters kept |
| Workflow runtimes (`*-workflow-runtime.ts`) | DBOS system tables, or a map of promises | start, recovery | starts held in memory; replays after a crash | a run that began ends |
| Identity (`identity-and-access/`) | users, refresh sessions, authentication events | register, login, refresh, logout, logoutAll | two refreshes with one token; reuse detected while a rotation commits; late refreshes | a family has one live token; reuse revokes the family; how a session ended is not forgotten |
| RBAC (`rbac/`) | roles, permissions, grants, stores, assignments | bootstrap, create*, hasPermission | overlapping bootstraps, each by check and insert; scopes compared in three places | a permission is exactly what was assigned; bootstrap closes for good |
| Catalog (`catalog/`), Store management (`store-management/`) | stores, products, prices | createProduct, updateProduct, createPrice, updateOperations, browse; the reads of an order | stale reads before unguarded updates; several current prices; the version of the stores row | an order captures the newest price; an archived product stays archived |
| Performance (`performance/`) | counters and cache in Redis or memory | get, set, delete, increment | fallback while Redis may still do the operation; generations and namespaces per replica | no customer sees an older menu than the stores row announces |
| Users, controllers, observability, web, deployment | – | – | none of their own | not modelled |

## 2. The modules

| Module | What it is |
| --- | --- |
| `PaymentIntent` | Payment: one intent, its runs, callbacks, retries, expiry and crashes |
| `PaymentIntentProofs` | its theorems |
| `Inbox` | one event at one consumer: overlapping deliveries, transport, dead letters |
| `Outbox` | the Outbox rows and overlapping dispatchers |
| `Messaging` | both composed: the dispatchers feed the consumer's queue |
| `MessagingProofs` | the theorems of the Inbox, of the Outbox, and of both together |
| `OrderLifecycle` | the abstract specification of an Order, as documented and with the one deviation of the code |
| `Ordering` | Ordering: requests and consumers as overlapping transactions |
| `OrderingProofs` | its theorems, the refinement among them |
| `OrderAndPayment` | `Ordering` and `PaymentIntent` side by side |
| `DeliveryLifecycle` | the abstract specification of a delivery: its decisions, each announced once |
| `Delivery` | Delivery: the consumer, overlapping runs in both runtimes, the operator's retry; implements `DeliveryLifecycle` |
| `DeliveryProofs` | its theorems, the refinement among them |
| `StoreLedger` | the abstract specification of a settlement: recorded once, in balance, then only refunds |
| `Settlement` | Settlement: overlapping projections on the replicas, the workflow, late refunds; implements `StoreLedger` |
| `SettlementProofs` | its theorems, the refinement among them, and sums over finite sets |
| `Catalog` | one product and its prices, the store's operations, the orders that read them |
| `CatalogBrowse` | extends `Catalog` by the menu and its cache on several replicas |
| `Sessions`, `SessionsProofs` | the refresh sessions of a user, and the theorems |
| `Rbac`, `RbacProofs` | roles, permissions and assignments, and the theorems |
| `Platform` | `CatalogBrowse`, `Sessions` and `Rbac` side by side |
| `MC*` | model values, sets and constraints for TLC |

Definitions that a comment calls a **Slip** are plausible mistakes in one
operation. No specification uses them: each stands before the operation it
deforms, and replacing the operation by it makes a named property fail, which
shows that the property depends on that code.

### PaymentIntent

Intents share no row, so one intent is enough. The variables `status`,
`generation`, `currentAttempt`, `failureRetryable`, `attempts` and `callbacks`
are the columns and rows of the three Payment tables, and `outbox` the events
that this intent enqueued; `due` says whether the clock has reached
`expires_at`. `wf[g]` is the run of generation *g*: its `phase` names the step
of `PaymentWorkflowEngine.runInternal` that comes next and `number` the attempt
of its loop. `began[g]` is the point where its latest step began, which is what
DBOS has on record until the step itself is recorded. `txs` holds the open transactions of `applyProviderOutcome`, each
with what it read. `starting` holds the starts that exist only in memory.

* `HandleOrderPlaced`, `RedeliverOrderPlaced`, `RetryForUser`, `Start` – the
  service and the runtimes. `createFromOrderPlaced` and `prepareRetry` are
  single steps, because their writes repeat every condition of their reads or
  stand on a unique key.
* `Load`, `ExpireIfDue`, `EnsureRead`/`EnsureWrite`, `CheckExpiry`, `Charge`,
  `BeginApply`, `Reload` – the engine's steps. `ensureAttempt` is two steps: its
  insert follows a read of the intent that may be stale.
* `Apply` – the writes of `applyProviderOutcome`, one disjunct for each of its
  exits. The three reads of the transaction (intent, attempt, callback) are one
  step: what a later read could see differently either leads to the same exit or
  is tested again by the write. Whether the callback is known is looked up at
  the commit, where its unique key decides.
* `Refused` – `OutboxService.enqueue` compares `JSON.stringify` of the stored
  payload with that of the event. The column is `jsonb`, which stores object
  keys in an order of its own, so an event under an identity that is taken is
  refused even when it is equal; the transaction, its callback row included, is
  rolled back (`ApplyRefused`).
* `runtime` is `"dbos"` or `"local"`, by the configuration. `Crash`,
  `StepThrows` – a process that dies loses `starting` and its open
  transactions. The local runtime forgets the run, and a redelivered
  `OrderPlaced` starts it again. DBOS replays it (`Resumed`). A step that did not
  end is repeated from where it began, and so is the last step of any run whose
  effect was committed but whose record was `lost`. (A run that is done may lose its
  last record too, which allows more than DBOS does.) `Date.now()` at
  `payment-workflow.engine.ts:75` is not a step, so the replay evaluates it again
  (`Replayed`). A run that stopped before its first charge was recorded checks the
  expiry anew, and may expire an intent whose unrecorded charge took the money. One
  with a charge on record asks, once the expiry has passed, for
  `expire-payment-intent-if-due` where the record has `charge-payment-attempt-…`:
  DBOS refuses that, and the run ends in error.

Assumed of DBOS (external, `@dbos-inc/dbos-sdk` ^4.25.14; its source is not in the
repository): recorded steps answer a replay with what they returned; another step
name than the recorded one ends the run in error; and a run leaves its queue. On the
last: the runtimes start their runs under the queue names `payment-workflows`,
`delivery-workflows` and `settlement-workflows`, and nothing in `src/` registers a
`WorkflowQueue` of these names. If DBOS dequeued no such run, none would ever begin;
the models have a run begin with `Start`.

Assumed of the provider (`HonestAnswers`, modelled after
`fake-payment-provider.ts`): it answers one charge key always alike, and what it
did with the money is what it answered, unless it timed out. A report names the
attempt it is about and repeats the answer or tells the truth. Amounts,
currencies and failure texts are abstracted; authorization of the customer's
requests and the views are left out.

### Inbox, Outbox and Messaging

`Inbox` is one event and one consumer name; other events share no row.
`proc[d]` is one handler (one per replica: the channel's prefetch is 1) with the
row it read, `ready`, `retrying` and `poisoned` the copies in the queue, the
retry queue and the dead letter queue. `transport` is RabbitMQ or the in-memory
transport: they differ in what a retry's expiry does (`Redelivered`), what a
handler that throws leaves behind (`Forget`) and what a crash loses (`Crash`).
`effects` and `hooks` count what the code does outside the row.

In `Outbox`, events are numbered in the order of `createdAt`, which need not be
the order in which their transactions commit. `outbox[e]` is the row, `disp[d]`
a call of `dispatch` with the rest of its batch, and `sent` and `tried` count
what the transport accepted and what was attempted. `markPublished` is one
UPDATE without a condition; `recordPublishFailure` reads and then overwrites.

`Messaging` joins them: when a dispatcher hands over a copy of the event
`Traced`, the transport accepts it in the same step (`HandedOver`), and the
other events only keep the dispatchers busy. The in-memory transport dies with
the process its dispatchers run in (`ProcessDies`). Its `publish` waits for the
handlers in the code; the model lets the dispatcher go on at once, which allows
more. `InboxRetryDropped` runs `Inbox` alone, fed by `Arrive`.

### Ordering and OrderLifecycle

`open[p]` is the open transaction of a request or a consumer: its work and the
status it read. `Update(from, to, events)` is the guarded UPDATE with the events
of the same transaction. Early returns change nothing: for a request they are no
step at all, for a consumer the message leaves the queue (`Ignore`). Payment and
Delivery are external here: `MayAnnounce` says only what must have happened
before they can announce something. Deduplication by the Inbox is deliberately
*not* assumed, so a redelivered event is handled again. `SharedQueue` is the
RabbitMQ topology: both consumers of the context "Ordering" declare the same
queue (`messaging/messaging.constants.ts:38-65`).

`OrderLifecycle` states what the documents promise: `Transitions` are the rows of
the table in `docs/domain/state-models.md:37-46`, and `Announces` the event each adds,
under the next version and in the same transaction (`docs/domain/workflows.md:22-59`). An
Order that Payment ends has no event of Ordering. The code completes an Order in
another way: from READY_FOR_DELIVERY too, and with no event
(`ordering.service.ts:931-955`). So `Ordering`, under the mapping that forgets
`refund`, does *not* implement `Spec` (run `OrderingCompletion`). It implements
`AsBuilt`, which replaces the documented completion by `CompleteSilently` and
deviates in nothing else.

### OrderAndPayment

Ordering and Payment share no row and meet only through events, which each takes from
the other in any order, so their properties are checked side by side as in `Platform`
below: `focus` chooses the one that moves.

### Delivery and DeliveryLifecycle

Built like `PaymentIntent`, with two differences of the code. There is no expiry
and no callback endpoint: the only report of an outcome is the run's own, under
the callback identity of the provider's answer (`tag`). And runs are told apart
by host as well as by generation: `LocalDeliveryWorkflowRuntime` keeps its map in
the process, so two replicas that handle the same message run one generation at
the same time, while DBOS keeps one run (`RunOf`).

* `HandleOrderConfirmed`, `ReadyTooEarly`, `HandleOrderReady` – the consumer.
  `OrderReadyForDelivery` may overtake `OrderConfirmed`: its effect throws, and
  the Inbox delivers it again until `MaxDeliveries`. A local run is awaited by the
  afterCommit callback, so that its failure fails the delivery of the message
  (`Failing`); `recordFailure` then counts the attempt a second time.
* `RetryForUser` – the operator's retry, one guarded UPDATE.
* `EnsureRead`/`EnsureWrite`, `Deliver`, `BeginApply`, `Apply`, `Reload` – the
  engine's steps. `Commit` includes the reply that is lost after the commit.
* The provider acts once for an idempotency key (`Request`), as
  `fake-delivery-provider.ts` does, and `ReplyLost` loses what it answered.

`IN_TRANSIT` is entered and left within `completeDelivery`'s transaction, so no
committed row has it; `DeliveryLifecycle` goes from READY to DELIVERED with both
events.

### Settlement and StoreLedger

One Order. `facts` are the committed rows of the four fact tables, `row` the
settlement with the amounts that vary (the gross amount and the fee are functions
of the constants), `ledger` its entries. A projection is three steps: it reads
the row (`BeginProjection`); it inserts or adjusts it and reads the facts
(`EnsureSettlement`); it writes and commits (`Project`, one disjunct for each
exit). `lock` is the row lock between its insert or update and its commit:
`INSERT ... ON CONFLICT DO NOTHING` waits for it, and so do updates. Each replica
handles one message at a time (prefetch 1). `message` follows the Inbox: state,
deliveries counted, and the local run its callback awaits. `RecordRead` and
`RecordWrite` are `recordSettlement`.

`Calculates` is `calculateSettlement`: the fee is rounded down, refunds above the
gross amount, a negative result and one above the integer bound are refused. A
settlement never sees both `OrderCompleted` and `OrderCancelled` of its Order
(`fate`), which `Ordering` guarantees.

`StoreLedger` states what the Store may rely on: recorded once, from ELIGIBLE,
with one gross and one fee entry, a payable amount that is the sum of the entries
of that moment, one `SettlementRecorded`; later steps only add refund entries.

### Catalog and CatalogBrowse

One product of one store. `store` is the status, `acceptingOrders` and
`updated_at` of the stores row, `product` and `prices` the rows of the product.
`requests[r]` is a request with what it decided: `base` is the version that
`getStore` read before the transaction, `version` what it will write
(`NextCatalogVersion`). Rows that a transaction has written are locked until it
commits (`ProductFree`, `PriceFree`), so an UPDATE waits and then writes what was
decided before: `UpdateProduct`, `WriteOperations`. A request may end at any step
(`Abandon`): refused, rolled back (a deadlock included, which `updateProduct`
with a new name and `createPrice` can run into), or dead, between the commit and
the cache as well. The opening hours are part of `accepting`.

`browse` and the cache: `entries` is what Redis and the memories hold, each
under a namespace and the key of version and generation; `generation` and
`activeKey` are `CatalogCacheAdapter`'s maps per replica; `link` says whether a
replica uses Redis and whether it has left the shared namespace
(`markUnavailable` takes a random one, so only its owner ever finds it).
`Answers` is `execute`: Redis answers, or the operation fails there, done or not
done, and the memory answers. A menu is the number of catalog commits it shows.

### Sessions

The sessions of one user. `calls[c]` is an open transaction. The claim of
`refresh` locks the row until its commit (`Rotating`): other UPDATEs of it wait
and then judge the row again (`WriteGuarded`), while an UPDATE of many rows
visits only those that existed when it began (`targets`). `outrun` records the
families that gained a session between the two (see the limits). `late` is the
comparison of `expires_at` with the time taken at the start of the call.

### Rbac

The rows and calls of `RbacService`; the store of an assignment is `"all"` where
the column is null. Roles, permissions and grants are never changed or deleted,
so a call that reads them and inserts later inserts what it would have inserted
at once: calls are single steps, but for `bootstrap`, whose check goes stale. The
migrations' rows are represented by one of each kind: `customer`, `store-admin`
and `platform-admin`, and four permissions that these hold in different ways.

### Platform

`CatalogBrowse`, `Sessions` and `Rbac` share no state. A property of one of them
holds of all together exactly when it holds while the others rest, so `focus`
chooses the part that moves: the states are added up and not multiplied.

## 3. What the runs check

### Runs that hold

| Run | Instance | Shows |
| --- | --- | --- |
| `PaymentSafety` | 2 attempts; DBOS with 1 callback that may overlap every step, and a second generation or 1 crash; without the callback the local runtime and a step that throws | `TypeOK`, `DecisionsAnnounced`, `RetryOnlyAfterRefusal`, `OneCharge`, `AttemptReflectsCallback`, `FinalDecision` |
| `Messaging` | both transports, 2 consumers, 2 attempts; two faults of effects, callbacks and processes, or a second event, or a third dispatcher; fairness | `EffectOnce`, `DeadLetterKept`, `HookNotForgotten`, `PublishedIsNotLost`, `AttemptsBackedByTries`, `HandledForGood`, `PublishedForGood`, `EventuallyHandled` |
| `OrderAndPayment` | Ordering: one queue per consumer, 2 requests, 3 consumers, 6 foreign events, 2 redeliveries, 1 rollback; Payment: both runtimes, 2 generations of 3 attempts, 2 crashes, each with any set of lost records, 2 failing steps, redelivery, no callbacks; fairness | `LifecycleAsBuilt`, `CancelledNotPrepared`, `DeliveryNeverThrows`, `CompletesWhenDelivered`; `RunDecides`; `OneChargePerGeneration` although runs are forgotten or repeated |
| `DeliverySafety` | both runtimes, 2 replicas, 2 generations of 3 attempts, 2 callback identities, 2 throwing or lost steps, 1 crash, 3 deliveries of the message | the refinement of `DeliveryLifecycle`, `DeliveredOnce`, `SuccessIsDelivered`, `DoneRunDecided` |
| `SettlementSafety` | both runtimes, 2 replicas, completion or cancellation, 2 refunds that the Order bears one by one but not together, a debit adjustment, 1 throwing step, 1 crash, 3 deliveries of each message, fairness | the refinement of `StoreLedger`, `FactsMakeEligible`, `DoneRunRecorded`, `EligibleRecorded` |
| `Platform` | catalog: 2 overlapping requests of every kind and 3 in all, 2 replicas, 2 overlapping browsers, 1 outage or restart; sessions: 3 overlapping calls, 5 in all, 4 sessions; RBAC: 2 users, 2 stores, a custom role and permission, 2 overlapping bootstraps, 4 assignments | `NewestIsQuoted`, `BrowseFresh`; `OneActivePerFamily`, `ReusedFamilyDead`, `EndsOnce`; `PermissionIsCoverage`, `BootstrapCloses` |

**Why the bounds are enough.** A stale decision needs one transaction that is
open while another commits; one callback beside the runs of two generations, or
two requests and three consumers, give every pair and every triple of them. Two
attempts are the first and the last of the loop, three are all the code makes
(`PAYMENT_WORKFLOW_MAX_ATTEMPTS`). A second generation lets a callback of the
first arrive in the second. `PaymentSafety` keeps, of the answers of a provider
that times out, only the one whose money moved (`KeyAnswers`): it is the one
after which another charge does harm; `OrderAndPayment` takes all of them. Two
dispatchers and two deliveries are every pair; three attempts are the retry
policy's first, middle and last. In `SettlementSafety` the gross amount is 8, the
fee 1.2 rounded down to 1, the refunds 2 and 5 and the adjustment -1: each refund
alone leaves something for the Store and both together less than nothing, so a
projection, a late refund and a recording may each be refused.

Three constraints cut combinations, not single dangers. `OneComplication` of
`MCPaymentIntent` keeps a crash and the customer's retry apart while a callback
overlaps the runs, and the local runtime and a throwing step apart from all of them;
`OrderAndPayment` has these together without callbacks, and the proofs have all of
them at once. `OneComplication` of
`MCMessaging` keeps faults of the consumer, a second event in the Outbox and a
third call of `dispatch` apart; two dispatchers and two consumers overlap in all
of its parts, and no step that is subject to fairness leads out of it, so the
liveness it checks is not vacuous. `Bounded` of `MCPlatform` lets all kinds of
catalog requests meet in pairs, and three when they change the price or place an
order; while somebody browses, the clock stands still (writes then meet in one
millisecond, the hard case for versions) and two requests, or one and an outage,
overlap with two browsers. Five calls of sessions are a login, a refresh, and
three that overlap after it, one more than a reuse needs.

Counters without a limit in the code (crashes,
failing steps, redeliveries) are cut at one to three, which suffices for a fault
between any two steps. The proofs lift all of these bounds for the properties
they cover.

Deadlock is not checked: each system rests once its work is settled and no user
acts.

### Runs that find a disagreement

Each shows that the code does not do what a document of the repository says.

| Run | What happens | Against |
| --- | --- | --- |
| `PaymentContradiction` | a success that read PENDING commits after the expiry: the UPDATE finds no row, the event is enqueued all the same, and one intent announces both `PaymentExpired` and `PaymentSucceeded` (`payment.repository.ts:504-545`) | `docs/domain/state-models.md:57` |
| `InboxRetryDropped` | an expired retry is dead-lettered under the retry queue's own name, to which nothing is bound: the event is lost | ticket 06, line 13 |
| `OrderingSharedQueue` | the payment consumer acknowledges `DeliveryCompleted` and the Order never completes | `docs/domain/workflows.md:39` |
| `OrderingCompletion` | `DeliveryCompleted`, dispatched before `DeliveryStarted`, completes an Order that is READY_FOR_DELIVERY, and no `OrderCompleted` is enqueued (`ordering.service.ts:931-955`); the second holds of every completion, and Settlement, which waits for that event, has no other trigger | `docs/domain/workflows.md:46`, `docs/domain/state-models.md:45-46` |
| `CatalogArchiveUndone` | an update that read PUBLISHED commits after another request archived the product; the UPDATE is guarded by the id only (`catalog.service.ts:417-420`) and puts it back on sale | `docs/domain/state-models.md:10` |
| `SettlementRefundLost` | a refund reads the settlement as ELIGIBLE, `recordSettlement` commits without it, and the refund's guarded UPDATE finds no row: the workflow it starts ends at once and the ledger never gets the entry (`settlement.repository.ts:799-832`) | ticket 09, line 3 |

### Limits of the properties

What the code does *not* promise shows in how the properties are stated:

* `RunDecides` excepts a run that ended in error after a crash once the expiry had
  passed. Such a replay (see `Replayed` above) leaves the intent PENDING, with no step
  having thrown and nothing to start the run again, although
  `docs/domain/workflows.md:75` says "DBOS resumes a workflow from its last completed
  step after process recovery." It is not listed as a disagreement, because it rests
  on how DBOS treats an unexpected step, which the repository does not show. A replay
  may also expire an intent whose unrecorded charge took the money.
* `RunDecides` is checked without overlapping callbacks. A callback that
  overtakes the run completes the attempt; the run then finds an outcome that is
  neither terminal nor retryable (`payment.repository.ts:448-458`,
  `payment-workflow.engine.ts:109`) and ends with the intent PENDING.
* A run may also end in error because a callback enqueued its event first:
  `enqueue` refuses an equal event too (see `Refused` above). `OneCharge` stands
  on that: a stale refusal of an old generation would otherwise fail the new one
  and invite another charge.
* `EffectOnce` is stated for events whose effect and callback never threw. The
  UPDATE of an existing Inbox row is guarded by its id only
  (`inbox.service.ts:121`), so after one failure two copies may both read FAILED
  and both commit the effect.
* No liveness is stated of the Outbox: nothing in the application calls
  `OutboxDispatcher.dispatch`; only tests do. `EventuallyHandled` begins with a
  copy that was sent, and ends early when something happens that the transport
  does not survive (`Survivable`): a throwing effect or callback on RabbitMQ,
  whose retry is lost, or the death of the process of the in-memory transport.
  `PublishedIsNotLost` has the same limit.
* `NewestIsQuoted` is as much as the code keeps. `createPrice` and `updateProduct`
  each close the current price they found, so two that overlap leave two current
  prices, although `catalog/CONTEXT.md:36` has each replacement close the previous
  version; no unique index forbids it (`schema.ts:313-349`) and the conflict "Product price
  already exists" cannot arise. `OrderingService.create` takes the latest of
  them, `listProductRows` shows whichever it meets.
* `updateOperations` writes what it decided from a row it read before, so a
  suspension may be undone by an update that began earlier; nothing in the code
  promises otherwise. An order may also be placed although its store closes
  between its reads and its insert.
* `BrowseFresh` leaves out versions that two writes of the stores row share
  (`Ambiguous`): `updateOperations` takes the time of its read without regard to
  the version before it, and `nextCatalogVersion` builds on a version that was
  read before the transaction. Then an entry of the other menu may be served until
  it expires, in spite of the comment in `catalog-cache.adapter.ts:106`.
* `ReusedFamilyDead` excepts families a rotation outran: the UPDATE of the family
  does not see a session that is inserted after it began, so the successor stays
  live until it is reused itself. `logoutAll` has the same gap.
* `BootstrapCloses` begins when no call is past its check: two calls for
  different users that overlap both become administrators, since the unique index
  is per user.
* Ordering does not promise the refund of a paid cancellation: `refundRequired`
  comes from the status that was read, while the UPDATE also accepts a row that
  became CONFIRMED since (`ordering.service.ts:411`), although
  `docs/domain/state-models.md:48` requires one.
* A workflow that was not started is never started (Payment, Delivery and
  Settlement alike): the start lives in an afterCommit callback, and after a crash
  the redelivered message is a DUPLICATE (`inbox.service.ts:107-111`), although
  `docs/specs/coffee-order-v1.md:62` wants workflows to resume. `EligibleRecorded`
  is therefore stated for executions without a crash and a throwing step, and no
  liveness is stated of `Delivery`: a delivery that is READY without a run cannot
  be retried either, since `prepareRetry` asks for FAILED.
* `DoneRunDecided` speaks of runs that end as "done". A run whose attempt was
  completed under another callback identity ends as "ignored" and decides nothing
  (`delivery.repository.ts:494-524`).
* `StoreLedger` leaves the amount payable open after a late refund: of two late
  refunds at once the second writes the total it computed from the row it read
  (`settlement.repository.ts:1022-1069`), so the row forgets the first while the
  ledger has both. It also says nothing of the adjustment: a refund that read the
  row before `OrderCompleted` brought its adjustment writes the old one back
  (761-823), and row and ledger agree without it.
* `EligibleRecorded` excludes refunds that exceed what the Order bears, as a
  refund of the whole amount does when the fee is not zero: the calculation throws,
  and event after event is dead-lettered.
* No producer of `OrderCompleted` or `PaymentRefunded` exists in `src/`; Settlement
  is modelled from the point where they arrive.

### Fairness

* Payment: weak fairness of `Proceed(g)`, that is of the start and the steps of each
  run. A live process runs its event loop, open transactions end, and DBOS recovers
  runs at the next launch and takes them from their queue (assumed, see
  `PaymentIntent`). Nothing obliges a customer, a report of the provider, or a crash.
* Messaging: weak fairness of each handler and of a message's time to live; none of
  the dispatchers, of a fault or of a crash.
* Ordering: weak fairness of `Serve(p)`, what each consumer does with its messages and
  its open transaction; none of the requests, of Payment or of Delivery.
* Settlement: weak fairness of the consumers, of open transactions, of starts and
  of the runs' steps; none of a crash or a throwing step.

## 4. What is proved

All theorems assume only the named `ASSUME` of their module (the constants have
the right kind; callers and generations are told apart). They hold for any
number of attempts, generations, callers, replicas, crashes and redeliveries,
and are about the specifications without fairness, which those with fairness imply.

**PaymentIntentProofs.** `TypeOK` alone is not inductive: that an attempt's
status stays in its set needs the transaction that writes it to carry a real
outcome. `IInv` adds `AttemptExists` (a run past `ensureAttempt`, and an answer
of the provider, stand on an attempt row), `Answered` (a run that applies an
outcome has one) and `TxSound` (one transaction per process, carrying what the
provider said of that attempt). `BeganSound` says of the point a run is replayed from
what the first two say of the run, so that a crash that loses any set of records
keeps them. `ApplyShape` gathers what every exit of
`applyProviderOutcome` has in common, so that the step proofs need not look into
eight disjuncts. On top of it:

* `DecisionInv` – `ExpiredMatchesEvent`, `SuccessInTime` and `FailureJustified`,
  the parts of `DecisionsAnnounced`, are preserved together: theorem
  `DecisionsJustified`. `DecisionsAreFinal` is the action property.
* `MoneyInv` – `RefusedBefore` (a run has left only refused attempts behind,
  and comes back to its loop only from a refusal) carries
  `RetryOnlyAfterRefusal`: theorem `RetriesFollowRefusals`. `NoDoubleCharge`
  follows: of two attempts of one generation the earlier was refused.
* `RetryInv` carries the same across the customer's retries. `RetriedAnnounced`
  (the current generation was opened only over announced retryable failures),
  `RefusedGenerations` (such an announcement means that every attempt of its
  generation was refused) and `NoneAhead` (no attempt and no run is ahead of
  the intent's generation) are preserved together; with `NoDoubleCharge` they
  give theorem `MoneyTakenOnce`.
* `CallbackInv` – `AttemptReflectsCallback` needs `SeenCompleted`: a transaction
  that read its attempt as completed still finds it completed when it writes,
  since a completed attempt never returns to `PENDING`. Theorem
  `AttemptsAndCallbacksAgree`.

**OrderingProofs.** `RowStep` says what any step does to the Order's row and
events: one transition with its event, or nothing. `Behind` (which status an
announced event leaves behind it, and that no event has a version ahead of the
row) and `StartedAfterReady` (Delivery's causality) make it inductive. Theorems:
`NotCancelledAndPrepared`, `DeliveryIsWelcome`, `KeysAreUnique`,
`VersionsAreOrdered`, and `ImplementsLifecycle`: every step of Ordering is a
documented transition with its event, the silent completion, or a stutter
(`LifecycleAsBuilt`).

**DeliveryProofs.** A transaction of an old run may commit at any time; it does no
harm because what it decides is what the provider answered for its attempt.
`AttemptInv` says that the provider is asked in the order of attempts, each only
after a retryable refusal of the one before, and that a final answer that was
recorded closed its generation; `DecisionInv` that every decision is announced, a
failure only over a final refusal. So the attempts of a generation that is over
did not arrive (`NoArrival`), and one that arrived is of the current generation
(`ArrivalIsCurrent`). `SeenInv` keeps what a transaction read true where it was
final, `RunInv` what a run has behind it, and `MessageInv` that at most one start
or run holds up the message. `Grows` is what no step takes back, so a run that does
not move stays sound (`Kept`); `Recording` is the part that every recording exit of
`applyProviderOutcome` shares. Theorems: `ArrivesOnce`, `SuccessDelivered`,
`DoneDecided`, and `ImplementsLifecycle`: every step of Delivery is a transition of
`DeliveryLifecycle` or a stutter.

**MessagingProofs.** The composition is proved by
its parts. `InboxInv` adds to the types `DeadBacked` (a copy on its way to the
dead letter queue has its record), `CleanRun` (while nothing throws, the row is
inserted once, by one of the overlapping deliveries, and every other conflicts)
and `HookPending` (a processed row whose callback did not run yet belongs to a
delivery that still has it to run, or its failure to record). `OutboxInv` is
about counting: dispatchers that overlap overwrite each other's `attempts`, so
`Backed` reserves one publication for every dispatcher that tried one and did not
count it yet; `Current` is the least event of a batch, and that a finite batch has
one is `Smallest`, from the well-foundedness of inclusion on finite sets.
`StepOfEach` says that a step of `Messaging` is a step or a stutter of each side,
and `InFlight` follows a copy that was accepted: queued, waiting where the
transport brings it back, or with a delivery that will settle the event.
Theorems: `EffectCommittedOnce`, `DeadLettersRecorded`, `HookRuns`,
`AttemptsTried`, `PublishedReachesConsumer`, `HandledStays`, `PublishedStays`.

**SessionsProofs.** A rotation owns the session it claimed until it commits
(`Owned`): nobody else changes the row or claims it, so a family passes from one
ACTIVE session to the next. `Grounded` says that what a call holds exists and that
the targets of a family's UPDATE are of that family, `Rooted` that families are
named for sessions that exist. Theorems: `OneLiveToken`, `ReusedFamilyStaysDead`,
`EndsForGood`.

**RbacProofs.** `HasPermission` looks at scopes and its specification at the
assigned store alone; they agree because every assignment fits the scope of its
role and every grant both scopes (`Fitting`), and because a scope never changes
once something refers to it. Theorems: `CoverageAlways`, `BootstrapStaysClosed`.

**SettlementProofs.** Two parts. *Amounts.* `FiniteSetsExt` sums a set by a
recursive function that takes elements in the order `CHOOSE` gives them. That such
a function exists, that its value does not depend on the order, and that a new
element adds its term (`SumExists`, `SumRemove`, `SumAdd`) is proved once from the
well-foundedness of inclusion on finite sets; so `Balance` of a ledger and
`Refunded` of a set of events can be compared for any number of refunds
(`RefundEntriesFacts`, `LedgerOfBalance`). *Transactions.* The settlement becomes
eligible although each of the two founding facts is projected by a transaction
that may not see the other: `FoundersSee` says that a founding projection which
read has a row, and read after the other fact was committed unless it is the one
that inserts; `LockHeld`, that nobody else writes while the row is locked;
`RowFounded` and `EligibleFounded`, which facts stand behind a row and a status,
wherever a transaction or a run still carries them. `DeliveriesMatch` ties
projections, starts and awaited runs to the message they belong to, `RunsFounded`
says that a run was started by both facts and that what it is about to record was
calculated, `LedgerFounded` that nothing is entered before the record and a refund
only for its own event. The projections share one lemma (`Committable`,
`CommitStep`), and so do the steps that commit nothing (`ProjectionStep`) and those
of a run (`RunsStep`). Theorems: `BothFactsMakeEligible`, `RunsEndRecorded`, and
`ImplementsStoreLedger`: every step of Settlement is a step of `StoreLedger` or a
stutter.

**PlatformProofs.** *Prices.* `NewestIsQuoted` is kept because a request stamps the
time of its price after it read the one it will close (`Replaces`), so it never
closes a newer one, however many open prices overlapping requests leave; `InTime`
and `Bases` carry that to the orders, and `Room` that there is a row for every price
a request may still insert. *Menus.* `BrowseInv` says of every cache entry, in
whatever place and generation, that it shows at least a menu the stores row had with
the version of its key (`GoodEntry`), and of every request that the menu it read is
one its version had (`GoodBrowser`). Nothing is assumed of invalidation: the proof
of `Get` and `Set` uses the version in the key only, so generations, namespaces and
active keys bound how long entries stay but freshness does not rest on them. A
version that named one menu only then gives `MenusAreFresh`. *Together.*
`PartsOfPlatform`: every behaviour of the whole is one of each part, and the cache
adds no step to the catalog; so what is proved of a part holds of the whole
(`PlatformKeepsItsParts`). Theorems besides: `QuotesTheNewest`, `Typed`.

**Only model-checked.** Liveness (`RunDecides`, `EventuallyHandled`,
`CompletesWhenDelivered`, `EligibleRecorded`): fairness and ENABLED are out of
the prover's reach. Every invariant and every other action property or refinement
of a passing run is proved. The invariants of the proofs were checked by TLC on the
instances of the runs before they were proved.

## 5. Not modelled, and why

* *Ambiguous commits*: a statement that throws is taken as rolled back.
* *The broker's own faults*: `publish` is not confirmed; the models end at the
  hand-over to the channel. A handler that throws leaves its message
  unacknowledged, which with prefetch 1 blocks its queue until the connection is
  lost: the Inbox model has one message and shows only that message.
* *The rate limiter* (`fixed-window-rate-limiter.ts`): one counter per key and
  window, which a replica that falls back to its memory counts anew; nothing says
  that the limit holds across replicas in an outage.
* *Redis beyond one operation*: an operation that timed out is done at once or
  never; one that lands after a later operation is not modelled. An entry's age is
  any time (`Expire`).
* *Clocks*: the replicas' clocks agree, and a time of the database (`defaultNow`,
  microseconds) is not compared with one of a process.
* *Access tokens, password hashes*: cryptography without state of its own.
* *DBOS itself*: recovery and queues are external, with the assumptions named under
  `PaymentIntent`. The engines of Delivery and Settlement read no clock and branch only
  on what recorded steps returned, so their runs are resumed at the first step that
  was not recorded.
* *Authorization, parsing, views, logging, metrics*: no state that another
  component decides by.
* *The amounts of an Order, the roles `store-operator` and the read permissions*: data
  like the ones that are modelled.
* *`transitionToPreparingForTest`*: no caller in the application.

## 6. Plan

| Order | Module | Question | State |
| --- | --- | --- | --- |
| 1 | `PaymentIntent`, `PaymentIntentProofs` | is the money taken once and every decision announced? | done |
| 2 | `Inbox`, `Outbox`, `Messaging` and their proofs | is every event handled once, and none lost on the way? | done |
| 3 | `OrderLifecycle`, `Ordering`, `OrderingProofs` | is the lifecycle kept under overlapping transactions? | done |
| 4 | `DeliveryLifecycle`, `Delivery`, `DeliveryProofs` | is a delivery made and announced once, across retries and overlapping runs? | done |
| 5 | `StoreLedger`, `Settlement`, `SettlementProofs` | is every Order settled once, with a balanced ledger, whatever order facts arrive in? | done |
| 6 | `OrderSaga` | Ordering, Payment and Delivery composed over duplicated and reordered events: is a paid Order delivered or refunded? | open |
| 7 | `Catalog`, `CatalogBrowse`, `PlatformProofs` | what do customers see and pay while prices and menus change? | done |
| 8 | `Sessions`, `Rbac`, `Platform` and proofs | one live token per family; is a permission what was assigned? | done |

The abstract specifications are `OrderLifecycle`, `DeliveryLifecycle` and
`StoreLedger`; each has its refinement proved. What Payment promises the Order is
stated by its invariants and not by an abstract specification of its own: to prove
next.
