# Verification of the VPN payment backend

TLA+ models of the backend in `src/` (TypeScript, Node), the TLC runs that check
them and the TLAPS proofs about them. `PROJECT.json` maps each definition to the
lines it stands for and lists runs, mutants, findings, hazards and theorems.

## The system

One Node process (or several replicas of it) serves the HTTP API and runs timers.
A handler runs without interruption between two `await`s, so every `await` on a
store, a provider or a lock is a point where other handlers, and other replicas,
act. That is the grain of the models: **one action is the code between two
awaits**, and a *task* (or *pass*) is one running handler.

| Component | State | Operations | What makes it correct | Module |
|---|---|---|---|---|
| Order settlement (`paymentService`) | orders, processed events | create, callback, sync, apply, expire | a full payment grants its duration exactly once, or meets a closed order | `OrderSettlement` implementing `OrderLedger` |
| USDT intake (`createOrder`, `addressAllocator`, `usdtTron`) | pending amounts, address index, transfers | create, allocate, match, poll | one order per key, one order per transfer | `Intake` |
| Subscriptions and expiry (`subscriptionService`, `expiryService`) | one active row per user, its orders and expiry | fulfil, remind, deactivate | no order's duration is lost or granted twice, lapsed access ends | `Subscriptions` |
| Refunds (`refundService`) | refund rows, `refundedAmount`, provider's record | issue, result callback | never over the amount; the total is the sum of the standing refunds | `Refunds` implementing `RefundLedger` |
| Sweep pipeline (`sweepService`) | job row, chain transactions | enqueue, step, retry | what was sent and recorded is not sent again; SWEPT means collected; jobs end | `Sweep` implementing `SweepPipeline` |
| Locker (`InProcessLocker`) | tail promise per key | withLock | mutual exclusion, first come first served, released on every exit | inside `OrderSettlement`, `Refunds` |
| Repositories, audit log, reports | tables; rows and index Maps | create, update, find, list, sum | both backends behave alike | `Stores` |
| Outbound webhooks (`outbound`, `webhookWatcher`) | deliveries, alert latch | emit, deliver, retry, alert | every event reaches the merchant or the dead letters | `Webhooks` |
| HTTP API, limiters, readiness, shutdown | connections, counters, pools | dispatch, check, probe, drain | refusals change nothing, limits hold, the process ends | `Api`, `Server` |
| Rate cache, secret cache, sweep alerts | one value, one latch | refresh, get, alert | fresh means recent, never backwards, trouble is told | `Background` |

They interact by calls (settlement calls fulfilment, outbound emit and sweep
enqueue while it holds the order's lock), by the shared database (several
replicas, several timers), and by what the outside repeats: providers resend
notices, clients repeat calls, timers tick again.

Hard behaviours: interleaving at awaits; stale copies written back whole; a lock
that exists per process while the data is shared; events marked before they are
applied; partial failures between two writes; results out of order; crashes
between an external effect and its record; answers that come after a timeout.

## Plan

Done: settlement, refunds, sweep, subscriptions, webhooks, intake, the stores, the
HTTP side, the caches and alerts, each model-checked; a theorem for every safety
invariant, refinement and action property those runs check, but for
`ServedAsDocumented`.

Left, in this order:

1. `KeyedLocker`: the promise chain of `withLock` implementing the mutex with a
   queue that `OrderSettlement` and `Refunds` assume.
2. Fee wallet rotation (`roundRobin.ts`) and the healing pass of reconciliation,
   as further operations of `Sweep` and `OrderSettlement`.

## The modules

### OrderStateMachine
`TRANSITIONS`, `canTransition`, `isTerminal`, `assertTransition` of
`core/orderStateMachine.ts`. The other modules use its status set and
`isTerminal`; the guards they translate are narrower than the table.

### OrderLedger
The promise: an order opens once, is then closed or paid, a paid order gets one
grant, and is FULFILLED after it. No handlers, locks or faults.

### OrderSettlement
`createOrder` (from the stored order on), `handleCallback`, `syncOrder`,
`applyPayment`, `fulfillOrder`, `expireStaleOrders`, and retention of dedupe
records. Correspondence:

- `pc[t]` is the await task `t` is suspended at, `req[t]` its arguments, `snap[t]`
  the subscription it read; `Begin`/`End` start and finish a task, `End` runs the
  `finally` of `withLock`.
- `lock[i][o]`: the locker of process `i`. Processes share every other variable.
- `seenNotices` / `seenTxns`: `markIfNew` keys `cb:` and `txn:`, separate as in
  the code.
- `orderIds`, `active`, `lapsed`: subscriptions; a subscription is named by the
  order that created it, its expiry abstracted to "lapsed or not".
- `credits` is a history variable: how often `fulfillOrder` wrote a duration for
  the order. `announced` stands for audit, `outbound.emit` and `onUsdtSettled`.
- `offered`, `due`, `paid`, `acked` are the environment: intents handed out,
  elapsed payment windows, what the buyer paid, notices answered with success.
- A verified callback that reports no success is acknowledged and changes
  nothing, so it is not an action. Currency mismatch takes the path of
  underpayment, overpayment that of a full payment.

Switches: `PromptCreate` (the provider answers `createPayment` before the window
ends and before the client repeats the call), `Faults` (exceptions and crashes),
`ActiveIndex` (the SQL store's unique index on active subscriptions).

### RefundLedger, Refunds
The promise: reserve up to the amount, release, close once and only when all is
reserved. `Refunds` models `refundOrder` and `handleRefundCallback` for one paid
order: `rows` is the refunds table, `provider` the provider's own record,
`copy[t]` the order a handler read, `Interruptible` the awaits that may throw or
at which the process may die. `input.amount` omitted is `NotGiven`. The audit and
outbound calls that end `refundOrder` change nothing here and belong to `Reserve`.

### SweepPipeline, Sweep
The promise is the status diagram of `domain/deposit.ts`. `Sweep` models one
deposit: `job` and `due` are the row, `copy[p]` the object a pass carries and
writes back whole, `usdt`, `trx`, `txs`, `collected` the chain. Balances are
abstracted to "at least `minSweepMicro`" and "at least `gasMinSun`"; backoff
lengths to "not due until `Wait`". A broadcast has three outcomes: the node refuses
it (`StepFails`), takes it and answers (`FuelGas`, `SweepTrc20`), or takes it and the
call throws all the same (`BroadcastThrows`: no txid in the answer, or none in time).
`untold` is history: the transactions on the chain whose ids never reached the
service, or died with a process before it stored them. `Interruptible` are the
awaits a process may die at.

### Subscriptions
`fulfillOrder`, `sendExpiryReminders`, `deactivateExpired` and `runOnce` over the
subscription repository. `rows` is the table (a row is named by the order that
made it), `activeByUser` the memory store's index, `store` which of the two is
wired: the SQL store refuses a second active row (`Refused`), the memory store
takes it. `stage[o]` and `seen[o]` are a fulfilment between its read and its
write, and how it ended; an order whose INSERT is refused stays PAID and nothing
fulfils it again (`refused`). `pass[p]` is one of several passes (overlapping
timers, replicas, the admin route) with the rows it listed; it may fail at every
await, the one between a reminder and its mark included (`PassFails`). Three
histories: `granted[u]`, until when the fulfilled orders entitle the user, stacked
from the later of now and what was granted; `reminded` and `marked`, the periods a
reminder went out for and those whose mark was written, named by the orders the row
listed: naming a period by its end would not do, as two overlapping renewals may
end on the same day. `serial` says that fulfilments and passes happen not to
overlap, which no code ensures. The clock counts plan-duration units.

### Intake
`createOrder` up to the stored order, `resolveAmount` and `allocateUniqueAmount`,
`AddressAllocator.allocate`, `queryPayment` with `matchTransfer` and
`matchByAddress`, and `syncOrder` for USDT. `mode`, `backend` and `oneByOne` (calls
of `createOrder` happen not to overlap) are chosen by `Init`. `creating[o]` is where
a call is, `counter` the address sequence, `depositOf` the address table, `chain`
the confirmed transfers with the order their sender meant (`by`, history),
`marked` the `txn:usdt:` keys. A settled order only remembers its transfer: access
is `OrderSettlement`'s. A restart is possible on the SQL store only.

### Stores
Every repository twice, in lockstep: `mem` is the insertion-ordered Map with its
index Maps, `tab` the SQL table with the constraints of `schema.sql`. `kind` is the
repository a behaviour exercises. Actions are the writes the services make;
listings and reports are operators compared in every state, for every filter a
request can set (`Filter`, `RefundFilter`, `AuditFilter`). A listing of the memory
store is the slots of its Map, sorted: a row stands where its rank in the order is
(`Sorted`), ties in insertion order, as `Array.prototype.sort` is stable. Where SQL
leaves an order open (equal `createdAt`), the memory store's answer must be one SQL
may give. Pages are slices of these listings, so they agree where the listings do.
Taken from the callers: ids, API keys and address indexes are fresh, and `createdAt`
does not decrease within what is listed in insertion order (merchants, jobs, an
order's refunds). Idempotency keys are anything a request carries, repeated ones and
`''` (`Blank`) included: `createOrder`'s lookup may be out of date when it creates,
and for `''` there is none. From the first order the memory store takes with
another's key on, the stores hold different rows; the properties compare them while
the keys are apart (`KeysApart`). Amounts are any numbers (`amountOf`).

### Webhooks
`emit`, `processDue`, `deliver`, `fail`, `retry` and `WebhookWatcher.runOnce`.
`work[w]` is a pass, its queue the deliveries **as listed**, which is what it writes
back; passes list as many due events as `limit` allows, in whatever passes overlap.
`due` abstracts `nextAttemptAt <= now`. `alerted` is history: the deliveries alerts
have named. `crashed`: deliveries live in the process's memory.
`verifyWebhookSignature` keeps the freshness check with its two time units, the HMAC
being right or wrong.

### Api, Server
`Api` holds the route table of `routes.ts` (what a handler demands of its caller,
the status it succeeds with, the errors it may answer) beside the operation table
of `openapi.ts`. `Server` runs one request per name through `Router.handle` and
`dispatch`: `phase` is the await it is at, `sent` the status on the wire, `acted`
whether the handler did its work. `counters` are the limiter's, in memory or in
Redis with one action per command, one per pattern (the methods of a pattern share
it). `proc`, `sql`, `redis` are the process and its pools; `Signal` to `ForceClose`
are `main.ts`'s shutdown and `GracefulShutdown`. A handler in a query holds a client
of the pool, so `PoolEnded` waits until every query was answered (`QueryAnswered`),
and `RedisQuit` is Redis answering QUIT: neither has a timeout. The clock
orders the windows. A second write of headers throws, in a promise nobody holds:
the process dies (`sendJson`).

### Background
Three parts that share nothing, one per behaviour: the timer and refreshes of
`CachingExchangeRateProvider`, `get` and the single fetch of `CachingSecretProvider`,
and the ticks of `SweepAlertWatcher`. `call[c]` is a request or tick in flight with
the answer it carries; a quote is named by when the feed read it, a secret by its
rotation. Two histories: `told`, the FAILED jobs an alert has named since they failed
and whether the low wallet was; `gone`, whether a trouble that was named went away
before the watcher saw it gone, which is when its guards (a count, a flag) mislead it.

### The MC modules
Model values, the functions a `.cfg` cannot write, symmetry sets.

Type invariants: every stateful module but `Stores`, `Intake` and `Background`
(whose records are built from declared sets) states a `TypeOK`; the run `settle`
checks the core's. All of them are proved, and for those three modules the type
invariant their proofs begin with.

## The runs

| Run | Shows | Bounds (distinct states) |
|---|---|---|
| `settle` | `TypeOK`, `CreditedOnce`, `SettledIsPaidFor`, `ImplementsLedger` with exceptions and crashes | 2 orders of 1 buyer, 1 notice id, 2 handlers, 1 instance (555,196) |
| `settle_live` | `NothingStranded`, `AckedMeansSettled`, `PaymentIsServed`, `HandlersFinish` | 1 order, 3 handlers, no faults (29,665) |
| `refunds` | `NeverOverRefunded`, `LedgerMatchesRefunds`, `SettledAtProvider`, `ImplementsRefundLedger` | amount 2, 2 refund numbers, 2 handlers (130,526) |
| `sweep` | `SweptMeansCollected`, `SentOnce`, `ImplementsPipeline`, `SweepEnds` with broadcasts that throw and deaths before one | 1 pass at a time, 2 attempts, 1 retry, 8 broadcasts (60,671) |
| `access` | `PurchasesStackSerially`, `LastsAsListed`, `MarkIsOfPeriod`, `MarkEndsReminders`, `RefusedOnlyOverLapsed`, `LapsedIsClosed` | 2 orders of one buyer, 2 passes, clock to 3, both stores (197,105) |
| `webhooks` | `DeliveredStays`, `EventSettles`, `DeadIsAlerted` | 2 events, 2 passes of up to 2, 2 attempts, 1 retry, 1 crash (224,778) |
| `stores` | `SameOutcome`, `FindersAgree`, `ListsAgree`, `ReportsAgree` | 7 repositories, 2 rows each, keys repeated or blank (32,717 up to symmetry) |
| `intake` | `OneOrderPerKey`, `TransferSettlesOnce`, `DepositIsOwn` | 3 calls, 2 of them with one key, 2 transfers, clock to 2, both modes and stores (4,333,659) |
| `service` | `RefusedUntouched`, `BurstBounded`, `ServedAsDocumented`, `ShutdownEnds` | every route for 1 request; 3 requests at a limit of 1 per 2 ticks; a shutdown with queries in flight (357,450) |
| `background` | `FreshIsRecent`, `MovesForward`, `SecretCatchesUp`, `TroubleIsTold` | 2 calls in flight, feeds slower and faster than the timer, 2 rotations, 2 jobs (25,590) |
| `settle_lost_callback` | violates `AckedMeansSettled`: the event is marked before it is applied | as `settle_live`, 2 handlers, faults |
| `renewal_undone` | violates `PurchasesStack`: the reminder pass writes an old row over a renewal | 2 orders of one buyer, 1 of another, 2 passes, clock to 3, SQL store, overlapping |

Why these bounds: two handlers are the smallest number that interleaves, and a
lock admits one of them, so a third only waits; `settle_live` has three, which
gives a callback, a poll and an expiry pass at once. Two orders of one buyer meet
in the subscription. Two passes list the same row, and the second is also the one that
follows a failed one. In `refunds` amount 2 gives partial, full and excessive
requests, and two numbers give a second refund or a repeated one. `MaxTxs` of `sweep` is
what the run reaches at most, and cuts nothing. With a limit of 2 in `webhooks`
a pass still carries the second event, as it listed it, while the first is
answered; with a limit of 1, where events wait for one another, the three
properties hold as well (75,046 states). In `intake`
`maxDelta` 1 lets the third order find the amounts used up. In `stores` two rows
are what an index, an order or a group needs to be wrong. In `service` three
requests exceed twice the limit of one. In `background` a latency above the
timer's period makes refreshes overtake each other.
Handlers are interchangeable (`TaskSymmetry`, `Symmetry`), and so are the keys and the
names of `stores`; runs with liveness use no symmetry. `CHECK_DEADLOCK FALSE` where the system may stop: an order fully
refunded, a terminal job, every call answered or every transfer made, a process
that exited, and the cached rates at `MaxClock`.

Two of the runs with liveness are kept small for it. Their safety properties were
checked on larger instances as well, under the specification without fairness:
`sweep` with deaths at every await, the one between a broadcast and its record
included (`Interruptible <- Anywhere`, `MaxTxs = 6`: a top-up and a transfer, each
repeated, and once more each after a retry; 696,339 states), and `access` with three
orders, two of them of one plan (`SYMMETRY PassesAndOrdersAlike`; 4,618,000), where the
third finds what two overlapping renewals, of one length or of two, left.

### What the passing runs assume
One instance and prompt payment intents (`settle`); no failure between a marked
event and its application (`settle_live`); no interruption after the provider took
a refund and before it is recorded (`BeforeEffects`); one pass at a time and no
reverted transaction (`sweep`); no death between a broadcast and its record (`sweep`,
`BeforeBroadcast`: repeated for ever it is broadcasts for ever, and no job would end;
the safety properties are proved without it); Redis answering within a
tick (`BurstBounded`), the database and Redis answering what is in flight
(`ShutdownEnds`, as `Answering`).

Some properties carry their condition: `PurchasesStackSerially` and
`RefusedOnlyOverLapsed` speak of `serial` behaviours, `DeliveredStays` too,
`OneOrderPerKey`, and the theorem about `UniqueAmounts`, of calls made one by one, those of `stores` of
keys that are apart, `DeadIsAlerted` and `TroubleIsTold` except what was named and
went away.

Each is a condition the code does not ensure. Dropping it gives a counterexample:

| Change | Property refuted | What happens |
|---|---|---|
| `PromptCreate = FALSE` in `settle` | `CreditedOnce` | `createOrder`'s last write (paymentService.ts:148), made without the lock, puts a fulfilled order back to PENDING |
| `InstanceOf <- MCTwoInstances` (add `i2`) in `settle` | `CreditedOnce` | a locker per process (container.ts:145): callback and poll on two replicas both grant |
| two orders of one buyer in `settle_live` | `NothingStranded` | renewing a lapsed, still active subscription violates the unique index (sqlStore.ts:283) after PAID was stored |
| `Faults = TRUE` in `settle_live` | `NothingStranded` | an exception after PAID and before the grant |
| - (`FailedIsRefundable`) in `refunds` | itself | a settled refund closes the order over a pending one that then fails (refundService.ts:217) |
| - (`AckedIsApplied`) in `refunds` | itself | a result before `refunds.create` is marked and dropped (refundService.ts:171) |
| `Passes = {p1, p2}` in `sweep` | `SentOnce` | overlapping passes both broadcast (sweepService.ts:104) |
| `Reverts = TRUE` in `sweep` | `SweptMeansCollected` | a reverted transfer counts as confirmed (tronWebTreasury.ts:333) |
| - (`PaidByItsBuyer`) in `intake` | itself | the late payment of an expired order settles the order given its amount next (usdtTron.ts:148) |
| without `oneByOne` in `intake` | `OneOrderPerKey` (memory), `UniqueAmounts` (listed) | two calls read the same pending orders, or no order |
| without `serial` in `webhooks` | `DeliveredStays` | a slow failure is written over `delivered` (outbound.ts:188) |
| - (`GenuineIsAccepted`) in `webhooks` | itself | `verify.ts:61` compares seconds with a timestamp that `outbound.ts` sends in milliseconds |
| without the excuse `crashed` in `webhooks` | `EventSettles` | deliveries live in memory (container.ts:155), against outbound.ts:106 |
| - (`DrainedBeforeClose`) in `service` | itself | `main.ts:126` closes the pool before the server stops accepting, against main.ts:115 |
| `Setups <- RedisSetups` in `service` | `RedisNeverCrashes` | a rejected Redis command is awaited outside the `try` of `dispatch` |
| `Latency = 1` in `service` | `BurstBounded` | a Redis check answered after its key expired counts from one again |

The changes without a dash are to the `.cfg`, or to the guard named in the
property; a dash means the property stands in the module and is only to be listed.

### Where the code and its comments part
`settle_lost_callback` and `renewal_undone` are runs that refute what the code says of
itself. The modules state seven more such claims, each refuted within seconds when it is
listed in the `.cfg` named here, and each beside the property that says what is left of
it, which the run checks:

| Claim | In | Says | What happens | What is left |
|---|---|---|---|---|
| `EachStepIsIdempotent` | `sweep` | "jobs are persisted and each step is idempotent" (sweepWatcher.ts:7-8), "a crash/restart resumes each job from its last durable state" (sweepService.ts:42-43) | the node takes a transaction and the call throws (tronWebTreasury.ts:278-282, or no answer at :308): `onError` keeps the status and the step broadcasts again | `SentOnce` |
| `PaidIsFulfilled` | `access` | "Turns a PAID order into VPN access", "stacks duration from whichever is later (now or current expiry)" (subscriptionService.ts:10-12) | a subscription that has run out stays active until the hourly pass; the INSERT of the paid renewal violates `idx_subscriptions_active_user` (sqlStore.ts:283, schema.sql:77-78), and nothing fulfils the order again | `RefusedOnlyOverLapsed` |
| `RemindedOnce` | `access` | "once per period", "Both passes are idempotent and safe to run repeatedly" (expiryService.ts:27, :18) | the mark is written after the reminder (:48-49): a pass that fails in between, or one beside another (expiryWatcher.ts:28, a replica, routes.ts:511-513), reminds again | `MarkEndsReminders` |
| `CheckNamesTheDead` | `webhooks` | "raises an alert when the dead-letter queue grows" (webhookWatcher.ts:7) | depths are compared (:30): a requeue, or the late success of an overlapping pass, takes one delivery off the dead letters while another dies | `DeadIsAlerted` |
| `NewFailuresAreTold` | `background` | "alert on newly-appeared/worsened FAILED sweeps" (sweepAlerts.ts:137, also :117-118) | counts are compared (:161): one job is requeued while another fails, or a late overlapping tick writes back a higher count | `TroubleIsTold` |
| `SignalEnds` | `service` with `Setups <- StopSetups` | "wait up to `timeoutMs` ... every tracked socket is destroyed" (gracefulShutdown.ts:51-53), "then force lingering sockets after timeout" (main.ts:116) | the stoppers are awaited with no timeout, before `timeoutMs` is armed (:67-73, :92): a query never answered (pgClient.ts:60) or a Redis that is gone (redisClient.ts:61) holds the process | `ShutdownEnds` |
| `SwappedUnnoticed` | `stores` | "simple but correct ... swapped for a SQL/Redis-backed implementation in production without changing business logic" (memoryStore.ts:28-31) | a body may carry the idempotency key `''` (routes.ts:276-278): no key to createOrder (paymentService.ts:86) and the memory store (memoryStore.ts:49), a value of a UNIQUE column to SQL (sqlStore.ts:100, schema.sql:29), which refuses the second such order | `SameOutcome` |

Noticed beside the models: `container.ts:277` reports "stale (serving fallback)"
while `rate()` serves the stale cache; the first refresh of the rates comes one
period after start; `openapi.ts` documents 409 for a registered e-mail where
`userService.ts:46` raises 400, and 400 for a notice whose signature fails where
the handler answers 401; `/admin/refunds.csv` takes no filter (routes.ts:505);
a merchant's key rotation and suspension each write back the row they read
(merchantService.ts:83), so one of two overlapping calls is lost.

### Fairness
`settle_live`: weak fairness of every step of a started handler (promise
continuations run and providers answer), strong fairness of `Acquire` (the locker
is first come first served), and for each order either its notices keep being
resent until taken, as WeChat and Alipay do, or the watcher's 30 s timer keeps
polling it. Nothing obliges a buyer to pay or a client to call.
`sweep`: the watcher's timer keeps ticking, transactions are mined, and no single
await fails or is answered "not yet" for ever. The number of failures is not
bounded: exhausted attempts end in FAILED, a terminal status.
`access`: a started fulfilment is finished by its store; timers keep starting
passes, and of each kind of call (a reminder, its mark, a listing, a deactivation)
some pass's succeeds if tried again and again. It is a fairness of the passes
together: any one of them may hang or fail for ever. The only call that fails every
time is a write the unique index refuses, and it fails at once (`MarkRefused`). An
exception in a pass of the timer is an unhandled rejection, which ends the Node
process, as nothing in `src/` catches it: the timer that goes on is then the
restarted process's, over the same table. (The memory store has no table to come
back to; there `PassFails` is the admin route's pass, whose exception the router
answers.)
`webhooks`: time passes, the timer ticks, every request is answered or times
out; merchants owe nothing.
`service`: timers fire and the process takes its own steps; clients, handlers, the
database and Redis owe nothing, so a request may hang and the shutdown must end all
the same. That the database and Redis answer what is in flight when a stopper waits
for it is a premise of `ShutdownEnds`, not fairness; without it `SignalEnds` is refuted.
`background`: timers fire, callers keep asking, and no source or sink fails every
time. No fairness is put on the exchange rates, whose properties are safety.

## The proofs

Eight modules of theorems, checked by `tlapm`; the eighth, `SumTheorems`, holds the
lemmas about sums that `RefundsProofs`, `SubscriptionsProofs` and `StoresProofs` use.
`ServerProofs` extends `Server`, `Background` and `Webhooks`, which share no name.
Each theorem holds for every value of the constants that the hypotheses named here
allow; the runs show the same properties on small instances. Every inductive invariant
was checked by TLC first.

| Module | Theorems | Hypotheses |
|---|---|---|
| `OrderSettlementProofs` | `TypeCorrect` | none |
| | `ExactlyOnceCredit` (`CreditedOnce`), `PaidBeforeAccess` (`SettledIsPaidFor`), `SettlementImplementsLedger` (`ImplementsLedger`) | `SingleInstance`, `PromptCreate` |
| | `AcknowledgedIsApplied` (`AckedMeansSettled`) | the same, no `Faults` |
| | `NothingIsStranded` (`NothingStranded`) | the same, no `Faults`, `OneOrderEach` |
| `RefundsProofs` | `TypeCorrect`, `SettledIsProvided` (`SettledAtProvider`) | none |
| | `RefundsImplementLedger` (`ImplementsRefundLedger`) | `OneInstance` |
| | `LedgerIsExact` (`LedgerMatchesRefunds`), `NoOverRefund` (`NeverOverRefunded`) | `OneInstance`, `Uninterrupted` |
| `SweepProofs` | `TypeCorrect` | none |
| | `SweptIsCollected` (`SweptMeansCollected`) | `FundedTransfersSucceed` |
| | `SweepImplementsPipeline` (`ImplementsPipeline`) | `OnePass` |
| | `NothingSentTwice` (`SentOnce`) | `OnePass` |
| `IntakeProofs` | `TypeCorrect`, `OneTransferOneOrder` (`TransferSettlesOnce`), `DepositIsOwnOrders` (`DepositIsOwn`), `KeyMakesOneOrder` (`OneOrderPerKey`), `AmountsAreUnique` (`UniqueAmounts`) | none |
| `SubscriptionsProofs` | `TypeCorrect`, `OrdersAndTimeAgree` (`LastsAsListed`), `NoUnearnedMark` (`MarkIsOfPeriod`), `MarkedPeriodsRest` (`MarkEndsReminders`), `SerialPurchasesStack` (`PurchasesStackSerially`), `RenewalsInTimeAreFulfilled` (`RefusedOnlyOverLapsed`) | none |
| `ServerProofs` | `TypeCorrect`, `RefusalsChangeNothing` (`RefusedUntouched`) | none |
| | `BurstsAreBounded` (`BurstBounded`) | `PromptChecks` |
| | `BackgroundTypeCorrect`, `FreshRatesAreRecent` (`FreshIsRecent`), `CachesMoveForward` (`MovesForward`) | none |
| | `WebhooksTypeCorrect`, `DeliveredIsFinal` (`DeliveredStays`) | none |
| `StoresProofs` | `InductiveInv`, `SameOutcomes` (`SameOutcome`), `Finders` (`FindersAgree`), `Listings` (`ListsAgree`), `Reports` (`ReportsAgree`) | none |

"None" means none beyond the module's assumption on its constants: conditions such
as `oneByOne` or `serial` are variables there, part of the property. The other
hypotheses are the conditions of "What the passing runs assume"; the table of
changes shows that each is needed. Where a run assumes more than a theorem, the
theorem says so: `SweptMeansCollected` holds of passes that overlap, the refund ledger
is implemented however handlers are interrupted.

### Settlement
`CreditedOnce` is not inductive: a handler past its checks relies on the order
still being what it read. `IInv` says so. `LockInv`: a task inside `withLock` is
the one the locker admitted, hence at most one per order (`Exclusive`).
`SectionInv`: such a task still knows its order's status, credits and payment at
each await. `CreditInv` ties credits and payment to the status. `CreatingInv`:
while `createPayment` is awaited nothing but an unpaid poll works on the order,
which makes the unlocked last write harmless. `UnopenedInv`: nothing happens to an
order before it is stored. The refinement then maps each write, under `IInv`, to
one ledger step.

While no await fails, a notice marked or acknowledged for an order that is still
open and paid in full has a callback in flight that will apply it (`NoteInv`,
`AckInv`). An order in PAID is in the hands of a task between its two writes, and
one in FULFILLED is granted, and announced unless its task is about to (`ServedInv`);
that task finds no other subscription of its buyer (`OwnInv`), which is where
`OneOrderEach`, no two orders of one buyer, is needed.

### Refunds
`SettledAtProvider` follows from what a result carries: a row leaves PENDING only
as its provider record did (`ProviderInv`), under any interleaving. The other three
rest on mutual exclusion (`Exclusive`): the copy a handler read is the order as it
stands (`SectionInv`), which maps each write to a step of `RefundLedger`. The sums
need more: at each await `IInv` says by how much `refundedAmount` and the rows, and
the rows and the provider, may differ, and for whose refund. `SumTheorems` proves what
sums over a finite set do when one term changes, for the community modules'
`SumFunction`.

### Sweep
For `SweptMeansCollected` the chain is followed, not the passes: a transfer that was
broadcast had funds and gas (`Fueled`), so one that was mined has collected the
deposit (`TxInv`), and what a job object or a pass says of the chain is true of it
(`JobChain`, `PassChain`). For `SentOnce`: a job that may still send a transaction
has not sent one it was told of since it was created or last retried (`SentTask`);
only between a broadcast and its record is one more out than the row tells. A
broadcast whose id was lost with an answer or a process is `untold` and not counted:
nothing in the code keeps it from being sent again.

### Intake
`TransferSettlesOnce`: the `txn:usdt:` key is marked before its order is settled and
by one poll only. `DepositIsOwn`: an index below `counter` is given out once, is
saved for the order that drew it, and transfers to it were meant for that order.
`OneOrderPerKey` and `UniqueAmounts`: while calls do not overlap, what a call read
of the pending orders is still so when it stores its own.

### Subscriptions
`LastsAsListed` and `MarkIsOfPeriod` hold under every interleaving because every
*copy* of a row is right, wherever it is held (`CopyInv`): in the table, in what a
fulfilment has read, in what a pass has listed. Writing any copy over any other
keeps that. `MarkEndsReminders` (`MarkInv`): the orders of a period that was
marked are fulfilled, and no active row in the table names that period without the
mark. A renewal adds an order not fulfilled before, so its period is a new one, and
passes write back only rows that are marked or closed.
`PurchasesStackSerially` (`SerialInv`): the row found ends when what was
granted does, every other active row has lapsed, and what fulfilments and passes have
read is still so. `RefusedOnlyOverLapsed` is a step from there: a fulfilment that
found a row in force updates it, and one that did not meets only lapsed rows. What a
write does to
`findActiveByUser` is proved once for both repositories (`WriteActive`,
`WriteClosed`).

### Caches
`RatesInv`: an answer in flight, like the rate served, was read no earlier than one
latency before it is written, and a feed faster than the timer has one refresh in
flight. `SecretInv`: one fetch is in flight, and brings nothing older than what is
cached.

### Webhooks
`DeliveredStays` rests on `SerialInv`: while passes do not overlap, the list of the
one under way holds deliveries as they stand, each once and all pending. A new
event, a requeue or a backoff that ends cannot change one of them, and writing one
back touches none of the rest. Types need no such condition (`Tried`): a stale copy
is still a pending delivery with an attempt left, and a requeue allows one more.

### Stores
The invariant `Inv` holds of the memory store what `schema.sql` declares of the
table. `IndexInv`: an index Map leads from every value its column holds to the row
that holds it, and from nothing else; it is what makes `MemFind` and the table agree,
and what `update` keeps by dropping a key that changed. With it the memory store's
duplicate check, which looks up fewer columns than the table has constraints, refuses
exactly what the table refuses: of the columns it does not look up, ids and API keys
are fresh, and an idempotency key that is another order's, `''` included, ends
`KeysApart` with the order that has it. The invariant itself is stated while the keys
are apart, which, once lost, they never are again. `KeysInv`: of the
current and previous API keys none is two merchants'. `AuditInv`: the bounded log is
the newest tail of the table, in the order of its ids, and time does not run backwards
along it, so sorting by time and then by slot is sorting by id.

For the listings: in a linear order ranks are a bijection between the rows and the
first numbers (`Arranged`), so `Sorted` lists each row once and in order, and the
listing is one of the sequences SQL may return. For the reports: a sum over paid
orders is the sum over its groups by method (`SumGroups` in `SumTheorems`), the memory
store's fold and GROUP BY are both that, and a currency belongs to a method.

### Refusals and quotas
`RefusedUntouched`: of all answers only the timeout's 503 leaves a handler running
behind it, so behind a refusal nothing can still act (`Told`). `BurstBounded`, in memory: the
counter is no less than what passed since its window began, and at most a quota passed
in the window's length before (`WindowInv`). In Redis, with `PromptChecks` (no Redis, or a
command is answered within its tick): a key outlives its bucket, so no two
checks of a bucket read the same count, and of different counts at most a quota is
within the limit; a window's length meets two buckets (`BucketInv`).

### What is only model-checked
Liveness, which is beyond the prover (`PaymentIsServed`, `HandlersFinish`,
`SweepEnds`, `LapsedIsClosed`, `EventSettles`, `DeadIsAlerted`, `ShutdownEnds`,
`SecretCatchesUp`, `TroubleIsTold`); and
`ServedAsDocumented`, a comparison of two constant tables that TLC makes in full for
every route, where a proof would only repeat it row by row.

The library's induction theorems take an operator, which no prover here can
instantiate. Where induction over data was needed (sums, the least free amount), it
was had from the library's statements about well-founded relations on sets
(`WFMin`, `FS_StrictSubsetOrderingWellFounded`).

## Not modelled

Pure I/O and formatting (HTTP parsing and views, QR codes, e-mail, metrics, CSV,
reading the environment), signing and decryption (their outcomes are inputs), key
derivation and transaction building (tronweb's), price conversion (arithmetic
without state), developer scripts. `PROJECT.json` gives each component's reason.

Limits of what is modelled:
- an order's refund starts from a settled order, so settlement and refunds are not
  composed; `Subscriptions` and `Intake` detail what `OrderSettlement` abstracts, and
  share its actions by translation, not by a checked refinement;
- each sweep job is followed alone, so a pass that ends early and skips the jobs
  after it is only a delay, and one fee wallet stands for the pool;
- the locker is a mutex; its promise chain is in the plan;
- `Server` knows a handler by the statuses it may answer, not by its effects.
