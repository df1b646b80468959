# Verification of the Madart order system

Madart is an ordering and production system for cafés: kiosks, cashiers and
mobile customers place orders, a terminal or a cashier takes the money, kitchen
stations produce the items, dispatch assembles them and calls the customer.
One NestJS API (`apps/api`) owns all state in PostgreSQL; every application is a
client of it. This directory holds TLA+ models of that system, the TLC runs that
check them on small instances, and proofs checked by TLAPS.

Everything that changes an order runs in one of many concurrent HTTP requests.
The requests share nothing but the database, and the code relies on short
transactions at READ COMMITTED, conditional updates (`UPDATE ... WHERE status =
expected`) and a check of the row count. Whether that is enough is the question
most of this project asks.

## 1. Inventory

### Parts, their state and operations

| Part | Source | State | Operations |
|---|---|---|---|
| Order domain rules | `packages/domain/src/order` | none | legal transitions, roll-up from tasks, forward-only rule |
| Order Engine | `apps/api/src/orders/order-engine.service.ts` | `Order`, `OrderItem`, `OrderStatusHistory` | `createOrder`, `transition`, `onPaymentSucceeded`, `rollupFromTasks`, `cancel`, `markRefundedIfSettled` |
| Production | `apps/api/src/production` | `ProductionTask`, `ProductionStep` | `start`, `ready` (both `act`), board, `tickStartingSoon` |
| Dispatch | `apps/api/src/dispatch` | the order row | `readyForCustomer` (with or without force), `handOver`, board |
| Payment domain rules | `packages/domain/src/payment` | none | payment transitions, `derivePaymentStatus`, `paymentStatusAfterRefund` |
| Payments | `apps/api/src/payments` | `Payment`, `Refund`, `Order.paymentStatus` | `initiate`, `callback`, `handleProviderResult`, `failPayment`, `confirmCash`, `reconcile`, `refund` |
| Terminal adapter | `packages/hardware-adapters` | the provider's: pending, results | `initiate`, `queryStatus`, `cancel`, `refund` |
| Planner, scheduling | `production-planner.service.ts`, `packages/domain/src/scheduling` | planned times of tasks | backward plan, display status, board order, pickup slots |
| Order numbers, maintenance | `order-number.service.ts`, `maintenance.module.ts` | `OrderNumberSequence` | allocate, purge, delete |
| Event bus, realtime, display | `common/events`, `realtime`, `display` | rooms of each socket, debounce timers | publish, route, connect, snapshot |
| API client, UI hooks | `packages/api-client`, `packages/ui/src/hooks.ts` | seen events, connection state, last answer of each resource | connect, de-duplicate, retry, refresh, poll |
| Settings | `common/settings` | `SystemSetting` rows, a cache in each API process | `get`, `upsert` |
| Auth, devices, users | `auth`, `devices`, `users` | roles and their permissions, devices and the hash of their token | login, issue a token, guards, save |
| Catalog, branches, stations | same names | products, overrides, production configuration | edit, enable, read by channel |
| Promotions | `promotions`, `packages/ui/src/promo.tsx` | `Promotion` rows, the kiosk's rotation | edit, read what is active, show |
| Catalog import | `catalog-import` | `CatalogImport` rows | `preview`, `commit` |
| Client applications | `apps/kiosk`, `pos`, `mobile-ordering`, `production`, `dispatcher`, `customer-display`, `admin` | screen, cart, idempotency key, loaded data | the user's flows over the API |
| Reports, audit, health, seed, tooling | same names | append-only rows or none | queries, inserts |

### How they interact

* `Payments` calls the engine's `onPaymentSucceeded` **inside** its own
  transaction; that moves the order AWAITING_PAYMENT → PAID → CONFIRMED →
  SCHEDULED (or READY_FOR_ASSEMBLY) and lets the planner insert the tasks.
* `Production.act` and a forced `readyForCustomer` write task and item rows and
  then call `rollupFromTasks` in the same transaction.
* `cancel` writes the order, its tasks, items and payments, in that order;
  settlements and presses write their own row first and the order last. The two
  lock orders are opposite.
* `refund` asks the provider first and then runs its transaction, which calls
  `markRefundedIfSettled`.
* `initiate`, `confirmCash`, `cancel`, `readyForCustomer` and `refund` load what
  they decide on **before** their transaction.
* After the commit, events go to the bus, from there to the gateway's rooms and
  to clients, which treat them as hints to reload; polls stand behind them.
* A client that loses an answer submits again under the same idempotency key;
  `createOrder` and `initiate` look the key up.
* Whatever an administrator writes (products, roles, settings, banners) is read
  by requests and screens that are under way.

### What is hard here

Every hazard, with its line, is listed in `PROJECT.json`. The groups are: write
skew between transactions that read each other's rows; decisions on state read
before the transaction; provider results that are late, lost or repeated;
crashes between the provider's step and the database's; opposite lock orders;
events and snapshots delivered out of order; caches re-filled with stale values.

### What makes each part correct

* Order Engine, production, dispatch: the order's status never runs ahead of its
  tasks and does not fall behind them; a cancelled order leaves no work; items
  and tasks agree; no press counts twice; statuses only move along the table.
* Payments: no production without captured money; captured money is recorded; no
  refund beyond the payment; cash is taken once; what is settled stays settled;
  `paymentStatus` is what the rows say.
* Intake: a basket is charged once, whatever is repeated; an order placed by card
  has a payment; the next order number is free.
* Scheduling: planned times fit the target or move it; a slot is offered only
  within capacity; the display status moves one way as time passes.
* Delivery: a connected screen overlooks nothing, every screen catches up, and
  none shows what never was.
* Administration: an import does what its status says and leaves the operators'
  data alone; a request is let through only by rights it had; saves of roles take
  effect; a setting is stale for a bounded time; a banner is shown on its days.

## 2. Modules

| Module | What it is |
|---|---|
| `OrderDomain` | the pure order rules; every status, `ORDER_TRANSITIONS`, `RollupOrderStatusFromTasks`, `NextStatusFromRollup` |
| `OrderLifecycle` | abstract: one order, each operation one indivisible step |
| `OrderEngine` | the same order with the transactions, row locks and concurrent requests of the code |
| `MCOrderEngine` | its instance for TLC |
| `OrderEngine_proofs` | theorems about `OrderEngine` |
| `PaymentDomain` | the pure payment rules |
| `Payments` | the payments of one order, the provider, and every payment request |
| `MCPayments` | its instance for TLC |
| `Payments_proofs` | theorems about `Payments` |
| `Scheduling` | the pure functions of `plan.ts`: estimate, plan, display status, board order, pickup slots |
| `Kitchen` | a branch over time: promises, plans, boards, the starting-soon tick, slot quotes |
| `MCKitchen` | its instance for TLC |
| `Kitchen_proofs` | theorems about `Kitchen` |
| `Mirror` | abstract: a copy that shows only what its source has been and catches up |
| `Delivery`, `MCDelivery` | from a commit over bus, gateway, socket and poll to one screen of any kind |
| `Delivery_proofs` | theorems about `Delivery` |
| `Storefront`, `MCStorefront` | a kiosk, till or phone placing and paying orders over a lossy network; `createOrder`, order numbers, the purge |
| `Storefront_proofs` | theorems about `Storefront` |
| `Catalog` | products, their editor, imports, and a customer who orders meanwhile |
| `Access` | employees, roles, device tokens, and a request that passes the guards meanwhile |
| `Settings` | the rows of one setting and the cache in front of them |
| `Promotions` | banners from the administrator's form to the kiosk's slide |
| `BackOffice`, `MCBackOffice` | one of those four areas, chosen at the start |
| `BackOffice_proofs` | theorems about those four areas |
| `SubsetInduction` | induction over the subsets of a finite set, for the proofs about sums |

`Storefront` uses `PaymentDomain`, `Delivery` uses `OrderDomain`, `Kitchen` uses
`Scheduling` and `OrderDomain`. `OrderEngine` implements `OrderLifecycle`,
`Delivery` implements `Mirror`. The four areas of `BackOffice` share no state, so
their product would only multiply states: one behaviour is of one area.

### How a transaction is modelled

`order`, `task`, `item`, `pay`, ... hold what is **committed**. A transaction is
a sequence of steps of its request `r`, one for each statement that waits for a
row or reads. A row it has written is locked (`orderLock`, `taskLock`,
`payLock`); what it wrote is a function of its operation (`Written`) that only
`r` sees (`TasksSeenBy`, `PaySeenBy`) until it commits. A conditional update
waits for the lock and then looks at the committed row, as PostgreSQL re-checks
the WHERE clause; if it does not match, the code throws and `Rollback` releases
everything. A statement that can neither wait nor read anything new is part of
the step before it, so `onPaymentSucceeded` with the planner is one step: after
its first update it holds the only row others compete for. Prisma loads an
`include` with a second SELECT, hence `RollupReadOrder` and `RollupReadTasks`.
`LockWaitAborted` is PostgreSQL's deadlock detection and Prisma's 15 s
transaction timeout (`prisma.service.ts`); `Crash` is the death of the API
process at any point.

A request that is refused at its first check changes nothing and is not a step.
An idempotent replay (a key already used) returns the stored row and is not a
step either.

### OrderEngine and the code

| Action | Code |
|---|---|
| `OnPaymentSucceeded` | `onPaymentSucceeded` + `ProductionPlannerService.plan` |
| `PressTask` | `ProductionService.act` up to the roll-up |
| `RollupReadOrder`, `RollupReadTasks`, `ApplyRollup` | `rollupFromTasks` and the `transition` it makes |
| `OpenRequest` | the load and first checks of `readyForCustomer` and `cancel` |
| `DispatchReady`, `ForceTasks`, `ApplyForce` | the transaction of `readyForCustomer` |
| `CancelOrderRow`, `CancelTasks` | the transaction of `cancel` |
| `HandOver`, `MarkRefundedIfSettled` | one conditional update each |

Histories, timestamps and audit rows are left out: no property is about them.
Events are the subject of `Delivery`.

### Payments and the code

A payment row keeps its status, its method, whether the provider's reference is
stored, and the amount refunded. `bank` is the provider: what a query answers,
what was decided at the terminal, and what it paid back. `acknowledged` holds
the payments whose success the API has answered with success. Of the order's
statuses CONFIRMED stands for all of CONFIRMED … READY_FOR_PICKUP, which
payments treat alike; `Complete` stands for the rest of the order's life.

| Action | Code |
|---|---|
| `OpenInitiate`, `CheckInFlight`, `CreatePayment`, `SendToTerminal`, `MarkPending` | `initiate` |
| `OpenCallback`, `ReadForSettlement`, `SettlePayment`, `SettleOrder` | `callback`, `handleProviderResult`; with operation FAIL, `failPayment` |
| `OpenReconcile`, `QueryStatus`, `CancelAtTerminal` | `reconcile` |
| `OpenCash`, `SupersedeCard`, `ConfirmCash` | `confirmCash` |
| `OpenCancel`, `CancelOrderRow`, `CancelPayments` | `OrderEngineService.cancel` |
| `OpenRefund`, `RefundAtProvider`, `RefundPayment`, `RefundOrder` | `refund` with `markRefundedIfSettled` |
| `BankDecides` | the customer at the terminal (external) |

### Kitchen and the code

Time is an integer that `Advance` moves; `MINUTE` is the length of a minute in
it, so that instants between minutes exist. Requests are indivisible here
(`OrderEngine` has their transactions); a tick is not. `created`, `paid` and
`promised` of an order remember what the properties compare.

| Action | Code |
|---|---|
| `CreateAsap`, `CreateScheduled` | `createOrder`: the target |
| `Plan` | `ProductionPlannerService.plan` at payment |
| `Press`, `Cancel` | `act`, `cancel`: the task's status |
| `Scan`, `Mark`, `Skip`, `Publish` | `tickStartingSoon`: the query, then each candidate |
| `Abort` | a query of the tick throws, or the process dies |
| `Offered`, `QuoteLoad` | `PickupSlotsService.quote` |

The opening hours of the day are a constant (`openingWindow` is a time zone
conversion). Thresholds do not change during a run: how late a change of them
becomes visible is said by `Settings`.

### Delivery and the code

`role` is the kind of screen, `truth` the committed status, `outbox` the events
that are published and not yet routed. Requests under way (`reads`, `boards`) are
counted by what they carry, so that answers overtake each other. `shown` is how
the screen shows the order, `latest` what was last read for it, `past` all that
there has been to show.

| Action | Code |
|---|---|
| `Elsewhere`, `Serve`, `ServeStray` (`Commit`) | any handler that changes the order, and `publishAll` after it |
| `Route`, `LoseEvents` | `RealtimeGateway.route`, `RealtimeClient`'s listeners; a death before publishing, Redis away |
| `Fire`, `ReadBoard`, `PushBoard`, `BoardFails` | `scheduleDisplayRefresh`, `DisplayService.board` |
| `Connect`, `Disconnect` | `handleConnection` with `defaultRooms`, `handleDisconnect` |
| `LoadProfile` | `api.auth.device()` or the session, asked once |
| `Poll`, `ReadForScreen`, `Answer`, `ReloadFails` | `useResource` over `request` |
| `Press`, `PressEnds`, `PressTimesOut` | the buttons of the boards: task cards, order cards, the till's panel, the administrators' dialog |

A request is one step of the server here; its transaction is in `OrderEngine`.

### Storefront and the code

`app` is the client, `screen` where its user is, `key` the base of its
idempotency keys, `view` the order and payment it shows. `req` holds the
submission of the client and one it has given up on, which the server may still
serve; `gets` the read of a payment's status, `deed` the buttons of the result
screen that are still being answered, at most `MaxPresses` of them. `orders`,
`lastValue`, `lock` and `doomed` are the database: orders with their payments,
the number sequence and the lock on its row, and what a purge has deleted and not
yet committed.

| Action | Code |
|---|---|
| `Start`, `Edit`, `ToCheckout`, `Back`, `Track`, `StartOver`, `Restart` | the navigation of kiosk, till and phone, with `reset` |
| `PlaceOrder`, `OrderPlaced`, `PlacingFails`, `LosePlacing`, `Abandon` | `placeOrder` / `place` and the client's `request` |
| `LookUpKey`, `Refuse`, `Allocate`, `Insert` | `createOrder`, `OrderNumberService.allocate` |
| `InitiateFirst`, `ServerDies` | `OrdersController.create` after the order; the death of the process anywhere in it |
| `AskPayment`, `ReadPayment`, `PaymentRead`, `LoseRead` | the two-second polls of the result screens |
| `Press`, `PayCashInstead`, `ServeDeed`, `DeedEnds`, `LoseDeed` | retry, cash instead, confirm, cancel |
| `BankDecides` | the customer at the terminal (external) |
| `PurgeOrders`, `PurgeNumbers`, `DeleteOrder` | `MaintenanceService`, statement by statement |

A press keeps the view it was made on (`at`), as the closures of the buttons do,
and its answer puts that view back: on the till with the new payment, on the
kiosk as the order alone. The kiosk's result screen has no key and keeps its
payment in its own state, so an answer that finds a result screen open replaces
the order and not the payment (`swapped`); one that finds none opens it with the
payment of the order's first answer (`first`). `Waits` says which buttons wait:
the confirmation of cash shares the till's `busy` flag with placing (`Busy`),
retry and cancel do not; the kiosk's retry waits for itself while its screen
lives. `Left` says which pages forget the read of a payment when they are left.

### The areas of BackOffice and the code

| Module | Action | Code |
|---|---|---|
| `Catalog` | `OpenEditor`, `SaveProduct`, `CloseEditor`, `SetState`, `CreateProduct`, `SetBranchOverride` | `ProductsPage`, `ProductEditor`, `CatalogService` |
| | `Preview`, `CheckImport`, `CommitImport`, `FailImport`, `ImportDies` | `CatalogImportService.preview`, `commit` |
| | `Browse`, `ShowCatalog` | `channelCatalog`: the SELECT of the products, the SELECT of the overrides |
| | `Submit`, `ReadProduct`, `ReadConfig`, `ReadOverride`, `Leave` | the order, and `createOrder`'s SELECTs with its checks |
| `Access` | `SaveUser`, `SwitchDevice`, `BeginRoleSave`, `DeleteGrants`, `InsertGrants` | `users.module.ts`, `devices.module.ts` |
| | `MakeToken`, `StoreHash`, `GiveToken` | `issueDeviceToken` and the page that shows the token |
| | `LoadProfileOf`, `Receive`, `Verify`, `ReadRoles`, `CheckPermission`, `Act` | login, `AuthGuard` with `verifyToken` and `profileFor`, `PermissionsGuard`, the handler |
| `Settings` | `GetHit`, `GetMiss`, `GetReturns` | `get`: the cache, the query, filling the cache |
| | `BeginUpsert`, `WriteRow`, `ClearCache`, `Tick` | `upsert` statement by statement; the clock |
| `Promotions` | `OpenPage`, `ListArrives`, `Redraw`, `EditBanner`, `SaveBanner`, `RemoveBanner`, `CloseBanner` | `PromotionsPage`, `PromotionEditor`, `PromotionsService` |
| | `ReadActive`, `ShowActive`, `LoseActive`, `Rotate`, `Walk`, `Passes` | the kiosk's poll, `active`, `useRotation`, the clock |

Several variables are histories that only properties read: `log` keeps what each
save of a role asked for and which had ended before it; `request.seen` what a
request could have read since it came in; `wanted` the production configuration
saved last; `inForce` the pairs of base price and override in force while an
order is served; `outdated` for how long each value has not been the setting; `promised`
the days entered for a banner. `Promotions` has two instants in a day (its first
second, which stands for all but the last, and its last second), the grain of
what its dates are turned into; its days are UTC days, as the form's are. `rendered` is the instant at
which the administrator's page was last drawn: the page has no timer, so its
badges are those of that instant until something else draws it (an answer, a
form opened or closed, `Redraw` for the products that arrive).

Steps that nothing can come between to any effect are one action: `FailImport`
is the rollback of an import's transaction, which leaves nothing, and the record
of its failure some time later; `ReadActive` is the kiosk's question and the
query that answers it. The SELECTs of one `include` are separate actions
wherever a save may come between them.

## 3. Runs

| Run | Instance | Shows |
|---|---|---|
| `engine_safety` | 3 tasks, 1 plain item, 3 requests; 151,516 states | the safety and step properties, the inductive invariant (which contains `TypeOK`), that `OrderEngine` implements `OrderLifecycle`, and that every request is answered |
| `payments_safety` | 2 payments, total 1, 2 requests, symmetric; 1.4 million states | money behind every confirmed order, statuses backed by rows, one-way rows, no revival of a cancelled order |
| `payments_live` | 1 payment of 2 units, 2 requests; 32,068 states | refunds stay within the payment; every request is answered |
| `kitchen_safety` | 2 orders with 3 tasks, clock 0 to 4, no tick, starting-soon 2 and board horizon 1; 266,450 states | promises kept and not moved too far; board complete, calm and consistent; slots complete and with room during opening hours |
| `kitchen_tick` | 1 order with 2 tasks, 2 overlapping ticks, 1 death; 324,317 states | one announcement, never early, nothing overlooked |
| `delivery` | one order, one screen of each of six kinds (and one of headquarters); 910,819 states | nothing overlooked while the socket is up; every screen catches up; `Delivery` implements `Mirror` |
| `storefront` | 2 orders, 2 payments each, 2 customers, each of the three clients, two presses at a time; 1,094,404 states | a basket is charged once, an order placed has its payment, what is shown was sent, a paid screen is paid, numbers go on, decisions reach the screen, placing ends |
| `backoffice` | one product, 2 imports, 3 changes; 2 roles, 3 saves; one setting, 2 saves; 2 banners, 2 days; 1,149,262 states | rights held since the request came in; role saves take effect; settings stale for a bounded time; banners live on their days, badge and slide right; an import's status is true and spares operators' data; prices made of what was in force, what is offered is accepted; what is saved reaches its readers |
| `engine_stuck` | 3 tasks, 2 requests | **violated**: an order stays behind its tasks for good |
| `payments_lost_capture` | 2 payments, 2 requests | **violated**: captured money dropped as a duplicate |
| `payments_over_refund` | 1 payment, 2 requests | **violated**: the provider pays back more than was paid |
| `storefront_slip` | 2 customers, 1 press at a time, no faults | **violated**: a kiosk shows an unpaid order as paid |

`NeverBack`, `SlotsAreRight`, `ImportKeepsItsWord`, `OrderIsCurrent`,
`SettingIsSound`, `BannersAreTrue` and `ChangesReachReaders` are conjunctions of
named parts, each stated at its own definition. The type invariants of
`OrderEngine` and `Kitchen` are conjuncts of their `IInv`, that of `Payments`
follows from its own; all three are proved. Those of `Delivery`, `Storefront` and
the areas of `BackOffice` hold in these instances too, and the proofs have their
own (`Typed`, `SettingsTyped`, ...); they say nothing about the code and are in no
standing run: add `TypeOK` to the .cfg when a module changes.

Deadlock checking is off in all of them: a finished order with no request open
is a state in which nothing more has to happen.

**Bounds.** Three requests let a third party interfere with any race of two; the
order's properties compare one order with its own rows, so one order is enough.
Three tasks are what it takes for two presses to roll up past each other
(`engine_stuck`), with a third request in between. In `Payments`, `MaxPayments`
bounds the rows of an order (`Room` reserves one for each request about to
insert), `Total` is the number of refundable units, and `MaxPaidBack` = 2 ·
`Total` lets the provider pay back too much but not without end. Two payments
are needed for a cash payment beside a card payment or a retry after a failure;
more only repeat the pattern. In `Kitchen`, `MaxTime` bounds the clock so that
orders are placed and paid before, at and after the instants that matter (two
half-minutes per minute; opening at 4, slots every 6); two orders are needed for
slots and boards that mix orders, two ticks for an overlap, and `MaxAborts` is
the number of ticks that die. The board of `kitchen_safety` looks one minute
ahead and its threshold is two, the way round that hides a task that is starting
soon. Symmetry is used for requests and tasks in `engine_stuck` and for requests
in `payments_safety`, `payments_lost_capture` and `payments_over_refund`, and
never with liveness.

`delivery`: two commits and two reloads or boards under way are the least at
which an old answer overtakes a new one; `MaxFaults` = 1 is a lost event, a
dropped socket, a failed request or a press given up on. `storefront`: two
customers with two orders let an answer, a key or a poll of one meet the other;
two payments are an attempt and its retry; `MaxFaults` is 2 for the kiosk, 1 for
the till, which has by far the most states, and 3 for the phone, whose answers
may be lost before and after a restart. Two presses under way are the least at
which one is answered after the other; a press while another is being served
counts as one of the faults. `backoffice`: one product, because no property
relates two, two prices, two imports and two administrators committing them, and
three changes once something has been previewed; before that `MaxSavesAlone` = 4
changes, the least at which two fall between two SELECTs of a catalog or of an
order with saves before and after. Commits may die and answers be lost without a
bound. Two roles, one permission (permissions are independent of each other) and
three saves, the least at which two overlap and a third tells; two saves of a
setting, a time to live of 2 and a read that may last 1; two banners, two days
and two edits.

**Fairness.** `FairSpec` (of `OrderEngine` and `Payments`) assumes that a
handler which can go on does (strong fairness of its steps, because PostgreSQL
serves the waiters of a row in turn, so that a request is not overtaken for
ever) and that a wait does end in an abort. Nothing is assumed of people, the
bank, or callbacks. `Kitchen!Spec` assumes weak fairness of each tick's steps:
the interval keeps firing, and a run that does not die goes on. `Delivery!Spec`
assumes weak fairness of the first request of the app, of the poll, of the
server's reads and of some answer arriving, and nothing of sockets, events or
pushed boards: the poll alone must do. `Storefront!Spec` assumes that the server
serves what it got, that a submission ends in an answer or in the client's
timeout, that a started purge goes on, and that the two-second polls are sent
and answered. `BackOffice!Spec` assumes that time passes and a query does not
take longer than `MaxRead`, that the jobs and screens that read settings keep
reading and are answered, and that the kiosk keeps polling its banners, of which
not every answer is lost (strong fairness of `ShowActive`: a poll that fails is
followed by another two minutes later, and the network is not down for ever).
Nothing is assumed of administrators.

### Findings

1. *Roll-up write skew* (`engine_stuck`). With the order PARTIALLY_READY, two
   presses that finish the last two tasks both see the other's task unfinished,
   both write nothing, and both commit. All tasks are READY, the order is not
   READY_FOR_ASSEMBLY, and no further press can come. Two tasks are not enough:
   both roll-ups then want to write the order and the conditional update stops
   one of them.
2. *Captured money dropped* (`payments_lost_capture`). Cash, cancellation or a
   timeout closes a card payment while the card is being charged; the success is
   then a "duplicate". The branch written for late money is only reached while
   the payment is still in flight.
3. *Double pay-back* (`payments_over_refund`). Two refunds with different keys,
   or one repeated after a crash, both ask the provider before the conditional
   update that detects the other.
4. *Paid slip of an unpaid order* (`storefront_slip`). A customer retries the
   card and leaves; the kiosk resets; the next customer's order is placed and its
   result is open when the retry is answered. `onRetryCard` (`App.tsx:157`) puts
   back the order of its closure, while `ResultScreen`, which has no key, keeps
   the payment in its state: the screen says of the first order, which is not
   paid, that it is, because the second one's payment is.

### Seen while modelling

No run is about these; each is a behaviour of the code that the models have (or
step around by a condition named in the property), with its place.

*Orders, payments, kitchen.* `initiate` checks the order before its transaction
(`payments.service.ts:72`), so a payment can start on an order that is being
cancelled, where `order-engine.service.ts:378` says pending payments are
cancelled. The right to cancel a paid order is judged by `paymentStatus`
(`order-engine.service.ts:367`), which `initiate` overwrites
(`payments.service.ts:85`; `docs/ASSUMPTIONS.md:23`). The slot quote reads load
only from the opening on (`pickup-slots.service.ts:46`), while production for
the first slots starts before it (`docs/PRODUCTION_SCHEDULING.md:77`): those
slots may be offered although the oven is full when their tasks begin, where
`docs/ASSUMPTIONS.md:22` says that such a slot is unavailable; `SlotsAreRight`
speaks of tasks that begin within opening hours. A slot is not checked again
when the order is created. `cancel` leaves `paymentStatus` PENDING when it
cancels the last payment in flight; `refund` decides on REFUNDED from rows read
before it waits for the order; a late task moves the target by its buffer too,
where `docs/PRODUCTION_SCHEDULING.md` says `max(plannedReadyAt)`; the tick may
announce a task that was started since it was read, and an announcement is lost
when the process dies right after the mark.

*Delivery.* `docs/REALTIME_EVENTS.md:46` says that clients fetch again on
reconnect; the code only polls (15 to 30 s), and an event between the first load
and the socket is missed. The device apps ask who they are once: if that fails,
the spinner stays. A user without a branch joins no room. A forced dispatch
publishes no task event, so stations learn of it by the poll. The client's
timeout is cleared once headers have arrived (`http.ts:96`), so a hanging body
keeps a button busy. When `orders.get` fails after a confirmed cash payment, the
till's panel stays although the order is paid.

*Storefront.* An order created while a purge runs survives it without its number
sequence, and its number later blocks every creation that reaches it
(`docs/API.md:37` says numbering restarts; `overrun` in `NumberingGoesOn`). The
kiosk's result screen keeps its own payment, so the outcome of a retried one is
not shown; its idle reset (25 s) comes before the time-out of a retry (30 s), so
finding 4 needs no fault. On the till, a retry answered after the reset opens a
panel without buttons, which only F3 or a reload leaves, and a cancellation
pressed twice resets the next customer's cart. An answer that the phone's
`useResource` gets for an order it has left is dropped here. A cart changed
after a lost answer is submitted under the old key and the old order comes back
(`spoiled`). Choosing the other method after a lost answer makes a second order.
A late answer of the till's poll lands on its next order. The till's modal of a
deleted order with a pending payment cannot be closed. The till renews its cash
key after any error.

*Administration.* The branch form shows Monday's hours and writes them to every
day. Saving an employee clears the PIN unless it is entered again
(`organisation.tsx:206`). The settings page may show a branch's override and save
it for all. `payments.timeoutSeconds` is read without a branch
(`payments.service.ts:267`). Two first saves of a global setting create two rows
(`overlapped` in `OneRowEach`). A failed commit of an import may cover another's
IMPORTED (`raced`); an import of updates only can be committed twice; an older
preview reinstates older prices. A product of the operators' own with an
importer's SKU makes every import of it fail. A product that needs production
and has no station is offered and refused. Editors save whole forms, however
stale. A banner ends at 23:59:59 UTC, its last second excluded. Creating a banner
has no idempotency key, so a lost answer and a second press make two. Overlapping
saves of a role leave the union of both. A socket survives the rotation of its
device's token. The price of an order may be a base price read before, and its
override read after, two saves (`order-engine.service.ts:144`): a product of base
price 1 and override 2 is sold for 1, which was never its price, where
`docs/ASSUMPTIONS.md:20` says that the base price counts in the absence of an
override (`OrderPriceWasInForce` names it). Likewise the user, the roles and
their permissions are three SELECTs (`auth.service.ts:59`): who loses a role that
is then given a permission may act by it once, where `decorators.ts:11` says that
all listed permissions are required (`EffectsWereAllowed` names it). The list of
banners prints local dates of instants made of UTC days (`catalog.tsx:437`), and
its badges are those of its last drawing.

## 4. Proofs

Every safety invariant and every action property that a passing run checks is
proved, too, for all values of the constants; so are the refinement of
`OrderLifecycle` and the safety half of that of `Mirror`. In each module there is
one inductive invariant, one lemma per action that it survives the action
(`...Keeps`, `...Step`), one step that puts them together along the disjuncts of
`Next`, and a short theorem for each property. Every inductive invariant was
first checked by TLC on the instance of its component's run.

### OrderEngine

`OrderEngine_proofs` proves, for **any** set of items, any subset that needs
production and any set of requests:

| Theorem | Statement |
|---|---|
| `Invariance` | `Spec => []IInv` |
| `TypeCorrect` | `Spec => []TypeOK` |
| `NeverAhead` | `Spec => []OrderNeverAhead` |
| `CancelStopsWork` | `Spec => []NoWorkAfterCancel` |
| `ItemsFollowTasks` | `Spec => []ItemMirrorsTask` |
| `Refinement` | `Spec => RefinesLifecycle` |
| `StatusForward` | `Spec => StatusOnlyForward` |
| `TasksForward` | `Spec => TaskNeverReopened` |

Assumptions: `Produced \subseteq Items` and `NoRequest \notin Requests`; no
finiteness.

*Why an inductive invariant.* `OrderNeverAhead` alone is not inductive: a state in
which a request is about to write READY_FOR_ASSEMBLY on unfinished tasks satisfies
it and breaks it in one step. `IInv` adds what the locks guarantee.
`OwnsItsLocks`: a transaction holds only unfinished tasks, exactly one with the
status its press requires, or, when forcing, all that are unfinished; so no
cancellation, which waits for unfinished tasks, can pass it.
`RollupIsJustified`: what a request is about to write to the order is justified
by the tasks **as they will be when it commits**, and stays so because tasks only
advance (lemma `JustifiesMonotone`). `TasksMatchOrder`: tasks exist exactly from
confirmation on and are never cancelled while the order is in production.

*The refinement.* Committed rows are the abstract state. Each commit is shown to
be one operation of `OrderLifecycle` (`ApplyRollupIsPress`, `ApplyForceIsCall`,
`DispatchReadyIsCall`, `CancelTasksIsCancel`), every other step a stutter
(`StepIsLifecycle`). The two step properties then follow from the abstract
operations alone: a step of the lifecycle moves along `ORDER_TRANSITIONS`.

### Payments

`Payments_proofs` proves, for **any** set of requests, any number of payment rows
and any total:

| Theorem | Statement |
|---|---|
| `Invariance` | `Spec => []IInv` |
| `TypeCorrect` | `Spec => []TypeOK` |
| `MoneyIsThere` | `Spec => []MoneyBehindOrder` |
| `PaidIsReal` | `Spec => []PaidStatusIsReal` |
| `RefundsAdd` | `Spec => []RefundsBalanced` |
| `OneCash` | `Spec => []CashTakenOnce` |
| `Forward` | `Spec => NeverBack` |

Assumptions: at least one row, a positive total, `NoRequest \notin Requests`.

*The invariant* says of every request what it may rely on at each place.
`OwnsItsLocks`: what it wrote under a lock nobody else changes. `DoesItsJob`,
`SettlesTheTruth`, `RefundsWhatIsLeft`, `DerivedIsReal`: what it read without a
lock is still good enough when it writes, because payments only grow (a captured
row stays captured, refunds only increase, the provider's decision is final).
`Seats`: every request has a place for the row it may insert. `OrderIsSound`
includes that an unpaid order has no cash payment, without which two cashiers
could not be told apart. `NothingSumsToZero` is about the sum inside
`derivePaymentStatus` for any number of rows: it is not zero only if something
was refunded. `SubsetInduct` makes it an induction over a **set** of subsets,
which the prover can do, where one over a predicate it cannot.

The two disagreements with the documentation, lost captures and double
pay-backs, are in the model and do not stand in the way: the theorems say what
holds in spite of them.

### Kitchen

`Kitchen_proofs` proves, for **any** menu, carts, orders, settings, opening
hours, capacity rules and number of overlapping ticks:

| Theorem | Statement |
|---|---|
| `Invariance` | `Spec => []IInv` |
| `TypeCorrect` | `Spec => []TypeOK` |
| `PromiseHolds` | `Spec => []PromiseKept` |
| `SlipIsDelay` | `Spec => []AsapSlipsByDelayOnly` |
| `OneAnnouncement` | `Spec => []AnnouncedOnce` |
| `AnnouncementShows` | `Spec => []AnnouncedLooksSoon` |
| `BoardConsistent` | `Spec => []BoardOrderIsConsistent` |
| `UpcomingCalm` | `Spec => []UpcomingIsCalm` |
| `SlotsHold` | `Spec => []SlotsAreRight`, if the window of every capacity rule is longer than nothing |

Assumptions: a minute is a positive number of time units; the items of the menu
are within the limits the catalog's input checks set (`catalog.ts`: at most 1440
minutes and a buffer of at most 240), carts are made of the menu, settings are
natural numbers; orders and menu are finite; a day opens at a full minute
(`HH:mm`), slots are at least one minute apart and the lead is not negative
(`organisation.ts:39`). Nothing in the code writes or checks capacity rules, which
come from the database alone; a rule whose window is empty counts no task at all,
hence the hypothesis of `SlotsHold`.

*Promise and tick.* The limits make the maximum behind a plan's target exist:
`MaxExists` derives it from the well-ordering of the naturals. `EffectiveTarget`
says what a plan does to a target, `AsapTarget` what the estimate leaves room
for. `IInv` adds `EstimateOf` (until it is paid, an ASAP order's target leaves
time for every item counted from its creation), without which `SlipOf` is not
inductive, and `MarkedByOne` (a run that has marked a task is the only one, and
has not published it), without which `AnnouncedOnce` is not. `MarkedIsDue` (a run
looks at a time that is past, and a marked task is due) is what makes an
announcement agree with the screens: the clock does not go back, and nothing
writes the planned start of a task again (`StaysDue`).

*Slots.* `FirstOfGrid` is about `computePickupSlots`: an instant is reached by its
loop exactly if it is a whole number of steps after the opening and leaves the
lead time; rounding the lead up to a minute loses no slot because the grid is
made of full minutes (`RoundUp`). For the capacity, `RunningIsCounted` shows that
whatever runs when a task of the cart begins is counted in the window that begins
with it, for the load of the branch and for the cart's own tasks. To compare sums
over different sets of tasks, `UnitsAreTrays` says that the units of a set of
tasks are the size of a set, with one tray per unit; a subset then has no more.

### Delivery

`Delivery_proofs` proves, for **any** bound on reloads, boards, changes and
faults:

| Theorem | Statement |
|---|---|
| `Invariance` | `Spec => []IInv` |
| `Overlooked` | `Spec => []NothingOverlooked` |
| `MirrorSafety` | `Spec => M!Safety`, the part of `RefinesMirror` without fairness |

Assumption: at least one reload and one board may be under way.
`NothingOverlooked` is inductive once requests are counted in natural numbers;
the work is in the table that says which screens hear of which change
(`EventsCoverChanges`, for every role and change). For the mirror, `IInv` adds
`CargoIsPast` (whatever is on its way to the screen is a view the order has had)
and `StartedFirst` (nothing reaches a screen that does not know who it is).

### Storefront

`Storefront_proofs` proves, for **any** number of orders, payment attempts,
baskets and faults:

| Theorem | Statement |
|---|---|
| `Invariance` | `Spec => []IInv` |
| `NumbersGoOn` | `Spec => []NumberingGoesOn` |
| `PlacedIsPaidFor` | `Spec => []PlacedHasPayment` |
| `OneCharge` | `Spec => []ChargedOnce` |
| `ShownIsSent` | `Spec => []ShownIsWhatWasSent` |
| `PaidIsTrue` | `Spec => []PaidScreenIsPaid` |

Assumptions: at least one order, attempt and basket, and a number of faults for
each kind of client.

*The invariant* relates four places that know of an order: its row, the
submission under way, the client's screen, and the presses and reads that are on
the wire. Its parts are operators of a table of orders, so that one
lemma (`GrownKeeps`) serves every step of the server: tables only **grow**
(`Grows`: a deleted order does not return, key, cart and number stay, a payment
that succeeded stays), and what was learned of a smaller table is true of a
larger one (`ViewsStayTrue`, `PaysStayTrue`, `SubmissionsStaySound`). `OneCart`:
all submissions under a key carry one cart, unless the customer changed it in
between. `ViewIsItsOwn`: the payment on the screen is one of the order shown
until a late answer exchanges the order under an open result screen of the kiosk
(`swapped`); what is said of the payment itself (`PayIsTrue`) holds all the same.
The purge deletes what it finds, and a number is free if the sequence
has not been deleted under an order created meanwhile (`overrun`).

### BackOffice

`BackOffice_proofs` proves, for **any** catalog, import sites, roles and
permissions, values and ages of a setting, and calendar:

| Theorem | Statement |
|---|---|
| `Invariance` | `Spec => []IInv` |
| `SettingsStaySound` | `Spec => []SettingIsSound` |
| `OnlyTheAllowed` | `Spec => []EffectsWereAllowed` |
| `RolesAreSaved` | `Spec => []RoleSavesTakeEffect` |
| `ImportsKeepTheirWord` | `Spec => []ImportKeepsItsWord` |
| `AnswersAreCurrent` | `Spec => []OrderIsCurrent` |
| `BannersStayTrue` | `Spec => []BannersAreTrue` |

Assumptions: the bounds are natural numbers (a day and a banner at least), prices
are positive, a role starts with some of the permissions, and the default of a
setting is told apart from the values saved.

*The invariant* is that of the four areas. Settings: an entry of the cache, or a
read that will fill it, holds a value that was in force as long ago as its age
says (`AgesAreTrue`), and saves that do not overlap find the one global row.
Access: what a request may have seen since it came in includes what is true now
(`SeenIsCurrent`), and what a guard has read it could have seen
(`GuardsHaveSeen`); a row of a role outlives only saves whose snapshot is older
than the row (`RowsHaveASave`). Catalog: what an import does not create is there
(`ImportsMeetProducts`), a commit that finds its import applied already was raced
(`CommitsAreRaced`), what an operator configured stays (`OperatorsWork`), and
between two SELECTs of a customer's request the row that was read is one that was
in force (`ShopperIsServed`).
Promotions: the instants of a row are those of the days that were entered
(`DaysAreKept`), which is where the conversions between day and instant meet
(`DatesGoRound`), the page has the rows as they are unless it is reading them or
an answer was lost (`ListIsCurrent`), and the slide on the screen is one of the
list.

### Only model-checked

* Liveness: `EveryRequestAnswered`, `DueIsMarked`, `ScreenCatchesUp`,
  `DecisionReachesScreen`, `PlacingEnds`, `ChangesReachReaders`, and the fairness
  half of `RefinesMirror`. They need ENABLED, which is out of the prover's reach.
* The four violations of section 3: a counterexample is TLC's to show.

Induction over a predicate is out of the prover's reach, too. Where a sum is over
a set of any size, the proof goes through a set of subsets (`SubsetInduction`);
no module declares a RECURSIVE operator.

## 5. Not modelled

`PROJECT.json` lists every part with its status. Left out for good: rendering,
formatting, scraping, logging, report queries, seeds and development tools.

Left out of what is modelled:

* `OrderEngine`, `Payments`: permissions other than the two that decide between
  outcomes (`orders.refund`, forced dispatch), histories, and idempotency keys
  within one order (a replay is no step; the keys of a submission are in
  `Storefront`).
* `Delivery`: the `subscribe` request for rooms of single orders, the age at
  which READY orders leave the customer display, the clock offset, and the
  bounded set of event ids the client has seen (an event is delivered to it
  once).
* `Storefront`: what is inside a payment (`Payments`), items and prices
  (`Catalog`), printing.
* `Access`: PIN login, creation of rows, the audit.
* `Catalog`: categories, modifiers, translations, images; the site that is
  imported is any set of products.
* `Promotions`: texts, the order of banners, the product a banner links to, and
  the phone's banners, which are the kiosk's. NEW_PRODUCT is another kind like
  DISCOUNT. That an effect runs one frame after the render is not modelled.
* Branches with their opening hours, and stations: forms over single rows.

## 6. Plan

1. `subscribe` and the rooms of single orders in `Delivery`; branches with
   opening hours, and stations, in `Catalog`.
2. Composition of `OrderEngine` and `Payments` over one order row: that an order
   whose payments are refunded before it is cancelled is settled, too.
3. Proofs: what the composition of item 2 needs is an invariant over both
   modules' rows, of which `OwnsItsLocks` of either is a part; and the positive
   side of the violations: refunds that neither overlap nor die half-way are not
   paid back twice, and captured money is recorded unless its payment was closed
   before.
