--------------------------- MODULE OrderSettlement ---------------------------
(***************************************************************************)
(* Order creation, settlement and expiry: PaymentService,                  *)
(* SubscriptionService.fulfillOrder and the repositories they write.       *)
(*                                                                         *)
(* A task is one execution of a handler (an HTTP request or one iteration  *)
(* of a timer pass) on one application instance.  Node runs a handler      *)
(* without interruption between two awaits, so an action is the code from  *)
(* one await on a shared store, a provider or a lock to the next, and      *)
(* tasks interleave between actions.  Instances share the database but     *)
(* not the locker, which lives in each process (container.ts never gets    *)
(* another one from main.ts).                                              *)
(*                                                                         *)
(* A payment reaches the service as a callback notice (WeChat, Alipay) or  *)
(* through syncOrder, which queries the provider or the chain (USDT).      *)
(***************************************************************************)
EXTENDS Naturals, OrderStateMachine

CONSTANTS
  Orders,        \* the orders that may be created
  Users,
  UserOf,        \* [Orders -> Users]: the buyer
  Notices,       \* notification ids (event ids) a provider may send
  NoticeOf,      \* [Notices -> Orders]: the payment a notification reports
  Tasks,         \* slots for concurrently running handlers
  Instances,     \* application processes
  InstanceOf,    \* [Tasks -> Instances]
  PromptCreate,  \* provider.createPayment answers before the payment window
                 \* ends and before the client repeats the call
  Faults,        \* awaits may throw and instances may crash
  ActiveIndex,   \* the store has idx_subscriptions_active_user (schema.sql)
  NoTask, NoReq, NoNotice, NoSub

ASSUME SettlementAssumption ==
  /\ UserOf \in [Orders -> Users]
  /\ NoticeOf \in [Notices -> Orders]
  /\ InstanceOf \in [Tasks -> Instances]
  /\ {PromptCreate, Faults, ActiveIndex} \subseteq BOOLEAN
  /\ NoTask \notin Tasks
  /\ NoNotice \notin Notices
  /\ NoSub \notin Orders

Request ==
  [kind : {"callback"}, ord : Orders, note : Notices]
    \cup [kind : {"create", "sync", "expire"}, ord : Orders, note : {NoNotice}]

ASSUME NoReqAssumption == NoReq \notin Request

\* What fulfillOrder has read of the buyer's active subscription: NoSub when
\* a new subscription is due.  A subscription's id is the order it was created
\* for (code: a uuid).
Snapshot == [id : Orders, orderIds : SUBSET Orders]

VARIABLES
  (************************* database *************************)
  status,       \* [Orders -> OrderStatus \cup {"NONE"}]
  credits,      \* [Orders -> Nat]: durations granted for the order (history)
  seenNotices,  \* processed event keys cb:<method>:<eventId>
  seenTxns,     \* processed event keys txn:<method>:<txnId>, one txn per order
  orderIds,     \* [Orders -> SUBSET Orders]: orderIds of each subscription
  active,       \* [Users -> Orders \cup {NoSub}]: the user's active subscription
  lapsed,       \* subscriptions whose expiresAt has passed
  announced,    \* orders whose order.fulfilled event and sweep were handed over
  (************************* processes ************************)
  lock,         \* [Instances -> [Orders -> Tasks \cup {NoTask}]]: InProcessLocker
  pc,           \* [Tasks -> the await the task is suspended at]
  req,          \* [Tasks -> Request \cup {NoReq}]
  snap,         \* [Tasks -> Snapshot \cup {NoSub}]
  (************************ environment ***********************)
  offered,      \* orders whose payment intent the client has received
  due,          \* orders with expiresAt <= now
  paid,         \* [Orders -> {"no", "short", "full"}]: what the buyer has paid
  acked         \* notices answered with callbackAck(true)

dbVars   == <<status, credits, seenNotices, seenTxns, orderIds, active, lapsed, announced>>
taskVars == <<lock, pc, req, snap>>
envVars  == <<offered, due, paid, acked>>
subVars  == <<orderIds, active, lapsed>>
seenVars == <<seenNotices, seenTxns>>
vars     == <<dbVars, taskVars, envVars>>

PC == {"idle", "creating", "query", "want", "read", "markPaid", "findSub",
       "writeSub", "fulfil", "emit", "expire"}

\* The awaits inside the callback of locker.withLock(orderId, ...).
InLock == {"read", "markPaid", "findSub", "writeSub", "fulfil", "emit", "expire"}

TypeOK ==
  /\ status \in [Orders -> OrderStatus \cup {"NONE"}]
  /\ credits \in [Orders -> Nat]
  /\ seenNotices \subseteq Notices
  /\ seenTxns \subseteq Orders
  /\ orderIds \in [Orders -> SUBSET Orders]
  /\ active \in [Users -> Orders \cup {NoSub}]
  /\ lapsed \subseteq Orders
  /\ announced \subseteq Orders
  /\ lock \in [Instances -> [Orders -> Tasks \cup {NoTask}]]
  /\ pc \in [Tasks -> PC]
  /\ req \in [Tasks -> Request \cup {NoReq}]
  /\ snap \in [Tasks -> Snapshot \cup {NoSub}]
  /\ offered \subseteq Orders
  /\ due \subseteq Orders
  /\ paid \in [Orders -> {"no", "short", "full"}]
  /\ acked \subseteq Notices

Init ==
  /\ status = [o \in Orders |-> "NONE"]
  /\ credits = [o \in Orders |-> 0]
  /\ seenNotices = {}
  /\ seenTxns = {}
  /\ orderIds = [o \in Orders |-> {}]
  /\ active = [u \in Users |-> NoSub]
  /\ lapsed = {}
  /\ announced = {}
  /\ lock = [i \in Instances |-> [o \in Orders |-> NoTask]]
  /\ pc = [t \in Tasks |-> "idle"]
  /\ req = [t \in Tasks |-> NoReq]
  /\ snap = [t \in Tasks |-> NoSub]
  /\ offered = {}
  /\ due = {}
  /\ paid = [o \in Orders |-> "no"]
  /\ acked = {}

-----------------------------------------------------------------------------
(* Running and finishing a task. *)

Ord(t)  == req[t].ord
Held(t) == pc[t] \in InLock

Begin(t, kind, o, n, at) ==
  /\ pc[t] = "idle"
  /\ pc' = [pc EXCEPT ![t] = at]
  /\ req' = [req EXCEPT ![t] = [kind |-> kind, ord |-> o, note |-> n]]
  /\ UNCHANGED <<lock, snap>>

At(t, label) == pc[t] = label

Goto(t, label) == pc' = [pc EXCEPT ![t] = label]

\* (mutant: the release is not in a finally, an early return skips it)
ReleasedAtTheEnd(t) ==
  IF Held(t) /\ ~At(t, "read")
  THEN [lock EXCEPT ![InstanceOf[t]][Ord(t)] = NoTask] ELSE lock

\* Leaving withLock runs its finally block, whichever way the handler ends.
Released(t) ==
  IF Held(t) THEN [lock EXCEPT ![InstanceOf[t]][Ord(t)] = NoTask] ELSE lock

End(t) ==
  /\ lock' = Released(t)
  /\ Goto(t, "idle")
  /\ req' = [req EXCEPT ![t] = NoReq]
  /\ snap' = [snap EXCEPT ![t] = NoSub]

\* (mutant: the wrong id is recorded)
AckTrueOrder(t) ==
  acked' = IF req[t].kind = "callback" THEN acked \cup {Ord(t)} ELSE acked

\* The answer to the provider of a notice: callbackAck(true), or
\* callbackAck(false), which changes nothing.  Other tasks answer no notice.
AckTrue(t) ==
  acked' = IF req[t].kind = "callback" THEN acked \cup {req[t].note} ELSE acked

-----------------------------------------------------------------------------
(* createOrder *)

\* A task of this process or another one is awaiting provider.createPayment.
Creating(o) == \E t \in Tasks : pc[t] = "creating" /\ Ord(t) = o

StartCreate(t, o) ==
  /\ status[o] = "NONE"
  /\ Begin(t, "create", o, NoNotice, "creating")
  /\ status' = [status EXCEPT ![o] = "PENDING"]
  /\ UNCHANGED <<credits, seenVars, subVars, announced, envVars>>

\* provider.createPayment answered.  The order object built before the await is
\* written back whole, without the lock: its status is still PENDING.
CreateDone(t) ==
  /\ At(t, "creating")
  /\ status' = [status EXCEPT ![Ord(t)] = "PENDING"]
  /\ offered' = offered \cup {Ord(t)}
  /\ End(t)
  /\ UNCHANGED <<credits, seenVars, subVars, announced, due, paid, acked>>

\* provider.createPayment threw: the same object is written back as FAILED.
CreateRejected(t) ==
  /\ At(t, "creating")
  /\ status' = [status EXCEPT ![Ord(t)] = "FAILED"]
  /\ End(t)
  /\ UNCHANGED <<credits, seenVars, subVars, announced, envVars>>

\* The call repeated with the same idempotency key: the stored payInfo, or a
\* new provider.createPayment for the stored order, whatever its status.
RepeatCreate(o) ==
  /\ status[o] # "NONE"
  /\ PromptCreate => ~Creating(o)
  /\ offered' = offered \cup {o}
  /\ UNCHANGED <<dbVars, taskVars, due, paid, acked>>

-----------------------------------------------------------------------------
(* handleCallback and syncOrder, up to applyPayment *)

\* verifyCallback, then markIfNew; a new event goes on to findByOutTradeNo
\* (an immutable index) and queues for the order's lock.
Deliver(t, n) ==
  /\ paid[NoticeOf[n]] # "no"
  /\ n \notin seenNotices
  /\ seenNotices' = seenNotices \cup {n}
  /\ Begin(t, "callback", NoticeOf[n], n, "want")
  /\ UNCHANGED <<status, credits, seenTxns, subVars, announced, envVars>>

\* A notice already marked is acknowledged at once.
DeliverDuplicate(n) ==
  /\ paid[NoticeOf[n]] # "no"
  /\ n \in seenNotices
  /\ acked' = acked \cup {n}
  /\ UNCHANGED <<dbVars, taskVars, offered, due, paid>>

\* syncOrder, from the watcher's pass or the status endpoint.
StartSync(t, o) ==
  /\ status[o] = "PENDING"
  /\ Begin(t, "sync", o, NoNotice, "query")
  /\ UNCHANGED <<dbVars, envVars>>

QueryUnpaid(t) ==
  /\ At(t, "query")
  /\ paid[Ord(t)] = "no" \/ Ord(t) \in seenTxns
  /\ End(t)
  /\ UNCHANGED <<dbVars, envVars>>

\* (mutant: the event is marked and the pass moves on)
QueryPaidDropped(t) ==
  /\ At(t, "query")
  /\ paid[Ord(t)] # "no"
  /\ Ord(t) \notin seenTxns
  /\ seenTxns' = seenTxns \cup {Ord(t)}
  /\ End(t)
  /\ UNCHANGED <<status, credits, seenNotices, subVars, announced, envVars>>

\* The provider reports the payment and markIfNew(txn:...) is new.
QueryPaid(t) ==
  /\ At(t, "query")
  /\ paid[Ord(t)] # "no"
  /\ Ord(t) \notin seenTxns
  /\ seenTxns' = seenTxns \cup {Ord(t)}
  /\ Goto(t, "want")
  /\ UNCHANGED <<status, credits, seenNotices, subVars, announced, lock, req, snap, envVars>>

-----------------------------------------------------------------------------
(* withLock and applyPayment *)

Acquire(t) ==
  /\ At(t, "want")
  /\ lock[InstanceOf[t]][Ord(t)] = NoTask
  /\ lock' = [lock EXCEPT ![InstanceOf[t]][Ord(t)] = t]
  /\ Goto(t, "read")
  /\ UNCHANGED <<dbVars, req, snap, envVars>>

Applying(t) == At(t, "read") /\ req[t].kind # "expire"

\* (mutant: an exact payment counts as underpaid)
ApplyNothingStrict(t) ==
  /\ Applying(t)
  /\ status[Ord(t)] \in {"PENDING", "PAID", "FULFILLED"}
  /\ AckTrue(t)
  /\ End(t)
  /\ UNCHANGED <<dbVars, offered, due, paid>>

\* Already settled: nothing to do.  Underpaid: AmountMismatchError, which
\* handleCallback acknowledges as permanent.
ApplyNothing(t) ==
  /\ Applying(t)
  /\ \/ status[Ord(t)] \in {"PAID", "FULFILLED"}
     \/ status[Ord(t)] = "PENDING" /\ paid[Ord(t)] = "short"
  /\ AckTrue(t)
  /\ End(t)
  /\ UNCHANGED <<dbVars, offered, due, paid>>

\* A terminal order: ProviderError, which handleCallback does not acknowledge.
ApplyRefused(t) ==
  /\ Applying(t)
  /\ isTerminal(status[Ord(t)])
  /\ End(t)
  /\ UNCHANGED <<dbVars, envVars>>

\* (mutant: no early return for a settled order)
ApplyAcceptSettled(t) ==
  /\ Applying(t)
  /\ status[Ord(t)] \in {"PENDING", "PAID", "FULFILLED"}
  /\ paid[Ord(t)] = "full"
  /\ Goto(t, "markPaid")
  /\ UNCHANGED <<dbVars, lock, req, snap, envVars>>

\* (mutant: no amount check)
ApplyAcceptShort(t) ==
  /\ Applying(t)
  /\ status[Ord(t)] = "PENDING"
  /\ Goto(t, "markPaid")
  /\ UNCHANGED <<dbVars, lock, req, snap, envVars>>

ApplyAccept(t) ==
  /\ Applying(t)
  /\ status[Ord(t)] = "PENDING"
  /\ paid[Ord(t)] = "full"
  /\ Goto(t, "markPaid")
  /\ UNCHANGED <<dbVars, lock, req, snap, envVars>>

\* orders.update of the copy read under the lock, with status PAID.
MarkPaid(t) ==
  /\ At(t, "markPaid")
  /\ status' = [status EXCEPT ![Ord(t)] = "PAID"]
  /\ Goto(t, "findSub")
  /\ UNCHANGED <<credits, seenVars, subVars, announced, lock, req, snap, envVars>>

-----------------------------------------------------------------------------
(* SubscriptionService.fulfillOrder *)

Current(o) == active[UserOf[o]]

InForce(o) == Current(o) # NoSub /\ Current(o) \notin lapsed

\* findActiveByUser, and the choice between extending and a new subscription.
FindSubscription(t) ==
  /\ At(t, "findSub")
  /\ snap' = [snap EXCEPT ![t] =
       IF InForce(Ord(t))
       THEN [id |-> Current(Ord(t)), orderIds |-> orderIds[Current(Ord(t))]]
       ELSE NoSub]
  /\ Goto(t, "writeSub")
  /\ UNCHANGED <<dbVars, lock, req, envVars>>

Grant(o) == credits' = [credits EXCEPT ![o] = @ + 1]

\* subs.update of the snapshot plus this order; its new expiry is ahead of now.
ExtendSubscription(t) ==
  LET s == snap[t] IN
  /\ At(t, "writeSub")
  /\ s # NoSub
  /\ orderIds' = [orderIds EXCEPT ![s.id] = s.orderIds \cup {Ord(t)}]
  /\ active' = [active EXCEPT ![UserOf[Ord(t)]] = s.id]
  /\ lapsed' = lapsed \ {s.id}
  /\ Grant(Ord(t))
  /\ Goto(t, "fulfil")
  /\ UNCHANGED <<status, seenVars, announced, lock, req, snap, envVars>>

CreateSubscription(t) ==
  /\ At(t, "writeSub")
  /\ snap[t] = NoSub
  /\ ActiveIndex => Current(Ord(t)) = NoSub
  /\ orderIds' = [orderIds EXCEPT ![Ord(t)] = {Ord(t)}]
  /\ active' = [active EXCEPT ![UserOf[Ord(t)]] = Ord(t)]
  /\ lapsed' = lapsed \ {Ord(t)}
  /\ Grant(Ord(t))
  /\ Goto(t, "fulfil")
  /\ UNCHANGED <<status, seenVars, announced, lock, req, snap, envVars>>

\* The INSERT hits idx_subscriptions_active_user: the user still has a row with
\* active = true, in force or lapsed.  The exception ends applyPayment.
CreateConflict(t) ==
  /\ At(t, "writeSub")
  /\ snap[t] = NoSub
  /\ ActiveIndex /\ Current(Ord(t)) # NoSub
  /\ End(t)
  /\ UNCHANGED <<dbVars, envVars>>

\* (mutant: returns before outbound.emit)
MarkFulfilledQuietly(t) ==
  /\ At(t, "fulfil")
  /\ status' = [status EXCEPT ![Ord(t)] = "FULFILLED"]
  /\ End(t)
  /\ UNCHANGED <<credits, seenVars, subVars, announced, envVars>>

MarkFulfilled(t) ==
  /\ At(t, "fulfil")
  /\ status' = [status EXCEPT ![Ord(t)] = "FULFILLED"]
  /\ Goto(t, "emit")
  /\ UNCHANGED <<credits, seenVars, subVars, announced, lock, req, snap, envVars>>

\* audit, outbound.emit, onUsdtSettled; then the lock is released and a callback
\* is acknowledged.
Announce(t) ==
  /\ At(t, "emit")
  /\ announced' = announced \cup {Ord(t)}
  /\ AckTrue(t)
  /\ End(t)
  /\ UNCHANGED <<status, credits, seenVars, subVars, offered, due, paid>>

-----------------------------------------------------------------------------
(* expireStaleOrders: one order of the pass *)

StartExpire(t, o) ==
  /\ status[o] = "PENDING"
  /\ o \in due
  /\ Begin(t, "expire", o, NoNotice, "want")
  /\ UNCHANGED <<dbVars, envVars>>

\* (mutant: the order is not read again under the lock)
ExpireReadStale(t) ==
  /\ At(t, "read") /\ req[t].kind = "expire"
  /\ Goto(t, "expire")
  /\ UNCHANGED <<dbVars, lock, req, snap, envVars>>

ExpireSkip(t) ==
  /\ At(t, "read") /\ req[t].kind = "expire"
  /\ status[Ord(t)] # "PENDING"
  /\ End(t)
  /\ UNCHANGED <<dbVars, envVars>>

ExpireRead(t) ==
  /\ At(t, "read") /\ req[t].kind = "expire"
  /\ status[Ord(t)] = "PENDING"
  /\ Goto(t, "expire")
  /\ UNCHANGED <<dbVars, lock, req, snap, envVars>>

ExpireWrite(t) ==
  /\ At(t, "expire")
  /\ status' = [status EXCEPT ![Ord(t)] = "EXPIRED"]
  /\ End(t)
  /\ UNCHANGED <<credits, seenVars, subVars, announced, envVars>>

-----------------------------------------------------------------------------
(* Environment, maintenance and faults *)

Elapse(o) ==
  /\ status[o] # "NONE"
  /\ o \notin due
  /\ PromptCreate => ~Creating(o)
  /\ due' = due \cup {o}
  /\ UNCHANGED <<dbVars, taskVars, offered, paid, acked>>

Pay(o) ==
  /\ o \in offered
  /\ paid[o] = "no"
  /\ \E amount \in {"short", "full"} : paid' = [paid EXCEPT ![o] = amount]
  /\ UNCHANGED <<dbVars, taskVars, offered, due, acked>>

\* A subscription's expiresAt passes; it stays active until a deactivation pass.
Lapse(u) ==
  /\ active[u] # NoSub
  /\ active[u] \notin lapsed
  /\ lapsed' = lapsed \cup {active[u]}
  /\ UNCHANGED <<status, credits, seenVars, orderIds, active, announced, taskVars, envVars>>

\* processedEvents.sweep: records older than the retention window are removed.
\* The clock is abstract, so any record may be old enough.
SweepNotice(n) ==
  /\ n \in seenNotices
  /\ seenNotices' = seenNotices \ {n}
  /\ UNCHANGED <<status, credits, seenTxns, subVars, announced, taskVars, envVars>>

SweepTxn(o) ==
  /\ o \in seenTxns
  /\ seenTxns' = seenTxns \ {o}
  /\ UNCHANGED <<status, credits, seenNotices, subVars, announced, taskVars, envVars>>

\* The await the task is suspended at throws: withLock releases the lock and a
\* callback is answered with callbackAck(false).
Throw(t) ==
  /\ Faults
  /\ pc[t] # "idle"
  /\ End(t)
  /\ UNCHANGED <<dbVars, envVars>>

\* The process dies with its tasks and its locker; the database remains.
Crash(i) ==
  LET mine == {t \in Tasks : InstanceOf[t] = i} IN
  /\ Faults
  /\ \E t \in mine : pc[t] # "idle"
  /\ lock' = [lock EXCEPT ![i] = [o \in Orders |-> NoTask]]
  /\ pc' = [t \in Tasks |-> IF t \in mine THEN "idle" ELSE pc[t]]
  /\ req' = [t \in Tasks |-> IF t \in mine THEN NoReq ELSE req[t]]
  /\ snap' = [t \in Tasks |-> IF t \in mine THEN NoSub ELSE snap[t]]
  /\ UNCHANGED <<dbVars, envVars>>

-----------------------------------------------------------------------------

Settle(t) ==
  \/ ApplyNothing(t) \/ ApplyRefused(t) \/ ApplyAccept(t) \/ MarkPaid(t)
  \/ FindSubscription(t) \/ ExtendSubscription(t) \/ CreateSubscription(t)
  \/ CreateConflict(t) \/ MarkFulfilled(t) \/ Announce(t)

Expire(t) == ExpireSkip(t) \/ ExpireRead(t) \/ ExpireWrite(t)

Step(t) ==
  \/ CreateDone(t) \/ CreateRejected(t)
  \/ QueryUnpaid(t) \/ QueryPaid(t)
  \/ Settle(t) \/ Expire(t)

Next ==
  \/ \E t \in Tasks : Step(t) \/ Acquire(t) \/ Throw(t)
  \/ \E t \in Tasks, o \in Orders :
       StartCreate(t, o) \/ StartSync(t, o) \/ StartExpire(t, o)
  \/ \E t \in Tasks, n \in Notices : Deliver(t, n)
  \/ \E n \in Notices : DeliverDuplicate(n) \/ SweepNotice(n)
  \/ \E o \in Orders : RepeatCreate(o) \/ Elapse(o) \/ Pay(o) \/ SweepTxn(o)
  \/ \E u \in Users : Lapse(u)
  \/ \E i \in Instances : Crash(i)

Spec == Init /\ [][Next]_vars

\* Promise continuations run and the locker is first come first served.  For
\* each order one of the two channels works: a provider resends its notices
\* until they are taken, or UsdtWatcher polls the pending order on a timer.
Fairness ==
  /\ \A t \in Tasks : WF_vars(Step(t)) /\ SF_vars(Acquire(t))
  /\ \A o \in Orders :
       \/ \E n \in Notices : NoticeOf[n] = o /\ SF_vars(\E t \in Tasks : Deliver(t, n))
       \/ SF_vars(\E t \in Tasks : StartSync(t, o))

FairSpec == Spec /\ Fairness

-----------------------------------------------------------------------------
(* Properties *)

Ledger == INSTANCE OrderLedger

\* Every behaviour of the handlers is one the ledger allows: an order closes at
\* most once, a closed order is never revived or credited, and FULFILLED follows
\* exactly one grant (README "Idempotency", "Order expiry"; domain/types.ts).
ImplementsLedger == Ledger!Spec

\* Duplicate and concurrent callbacks, polls and expiry passes grant the
\* duration of an order at most once (applyPayment under the per-order lock).
CreditedOnce == \A o \in Orders : credits[o] <= 1

\* Access is only ever granted against a payment of the full amount
\* (applyPayment's amount check; the payer acts between any two awaits).
SettledIsPaidFor ==
  \A o \in Orders : (status[o] \in {"PAID", "FULFILLED"} \/ credits[o] > 0) => paid[o] = "full"

Idle(o) == \A t \in Tasks : pc[t] # "idle" => Ord(t) # o

Listed(o) == \E s \in Orders : o \in orderIds[s]

\* Once no handler works on an order it is not left half settled: not PAID
\* without access, and a FULFILLED order is on a subscription of its buyer and
\* was announced (applyPayment's writes after the one that sets PAID).
NothingStranded ==
  \A o \in Orders : Idle(o) =>
    /\ status[o] # "PAID"
    /\ status[o] = "FULFILLED" => Listed(o) /\ o \in announced

\* A provider is told to stop resending a full payment only when that payment
\* was applied or the order had closed (handleCallback's answers).
AckedMeansSettled ==
  \A n \in acked : LET o == NoticeOf[n] IN
    Idle(o) /\ paid[o] = "full" => status[o] # "PENDING"

\* A full payment ends in access, unless the order had closed before it arrived.
PaymentIsServed ==
  \A o \in Orders :
    paid[o] = "full" ~> status[o] \in {"FULFILLED", "EXPIRED", "FAILED"}

\* Every handler ends: whichever early return or exit of applyPayment and
\* expireStaleOrders a holder takes, the order's next in line gets the lock
\* (InProcessLocker.withLock, and no handler ever waits for a second lock).
HandlersFinish == \A t \in Tasks : pc[t] # "idle" ~> pc[t] = "idle"

=============================================================================
