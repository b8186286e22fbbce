------------------------------- MODULE Refunds -------------------------------
(***************************************************************************)
(* RefundService: refundOrder and handleRefundCallback, for one paid       *)
(* order.  Refunds of different orders share no row and no lock.           *)
(*                                                                         *)
(* As in OrderSettlement a task is one handler execution and an action is  *)
(* the code between two awaits.  The provider is external: it takes a      *)
(* refund request, answers it, and later reports the result of one that    *)
(* was still processing; a repeated out_refund_no is the same refund.      *)
(***************************************************************************)
EXTENDS Naturals, FiniteSets, Functions, OrderStateMachine

CONSTANTS
  Amount,         \* the order's amount, in minor units
  RefundNos,      \* outRefundNo values, given by callers or generated
  Tasks,          \* slots for concurrently running handlers
  Instances,      \* application processes, each with its own locker
  InstanceOf,     \* [Tasks -> Instances]
  Interruptible,  \* the awaits that may throw, or at which a process may die
  NoTask, NoReq, NoOrder

PC == {"idle", "want", "readOrder", "refund", "store", "reserve",
       "findRefund", "readRefund", "writeRefund", "readOwner", "writeOwner"}

ASSUME RefundsAssumption ==
  /\ Amount \in Nat \ {0}
  /\ IsFiniteSet(RefundNos)
  /\ InstanceOf \in [Tasks -> Instances]
  /\ Interruptible \subseteq PC \ {"idle"}
  /\ NoTask \notin Tasks

\* input.amount; NotGiven asks for all that remains.
NotGiven == 0
Asked == {NotGiven} \cup 1..(Amount + 1)

RefundStatus == {"PENDING", "SUCCESS", "FAILED", "MANUAL"}
Row == [status : RefundStatus \cup {"NONE"}, amount : 0..Amount]
NoRow == [status |-> "NONE", amount |-> 0]

Request ==
  [kind : {"refund"}, no : RefundNos, amount : Asked, answer : RefundStatus \cup {"NONE"}]
    \cup [kind : {"result"}, no : RefundNos, amount : {NotGiven}, answer : {"NONE"}]
OrderCopy == [status : OrderStatus, refunded : 0..Amount]

ASSUME NoValuesAssumption == NoReq \notin Request /\ NoOrder \notin OrderCopy

VARIABLES
  (************************* database *************************)
  status,      \* the order's status
  refunded,    \* order.refundedAmount
  rows,        \* [RefundNos -> Row]: the refunds table
  seen,        \* refund numbers whose result event rfcb:... was marked
  (************************* processes ************************)
  lock,        \* [Instances -> Tasks \cup {NoTask}]: withLock(order.id)
  pc,          \* [Tasks -> PC]
  req,         \* [Tasks -> Request \cup {NoReq}]
  copy,        \* [Tasks -> OrderCopy \cup {NoOrder}]: what findById returned
  (************************ environment ***********************)
  channel,     \* whether the order's provider has a refund method
  provider,    \* [RefundNos -> Row]: the provider's own record of the refund
  acked        \* refund numbers whose result was answered with callbackAck(true)

dbVars   == <<status, refunded, rows, seen>>
taskVars == <<lock, pc, req, copy>>
envVars  == <<channel, provider, acked>>
vars     == <<dbVars, taskVars, envVars>>

InLock == {"readOrder", "refund", "store", "reserve",
           "readRefund", "writeRefund", "readOwner", "writeOwner"}

TypeOK ==
  /\ status \in {"PAID", "FULFILLED", "REFUNDED"}
  /\ refunded \in 0..Amount
  /\ rows \in [RefundNos -> Row]
  /\ seen \subseteq RefundNos
  /\ lock \in [Instances -> Tasks \cup {NoTask}]
  /\ pc \in [Tasks -> PC]
  /\ req \in [Tasks -> Request \cup {NoReq}]
  /\ copy \in [Tasks -> OrderCopy \cup {NoOrder}]
  /\ channel \in BOOLEAN
  /\ provider \in [RefundNos -> Row]
  /\ acked \subseteq RefundNos

Init ==
  /\ status \in {"PAID", "FULFILLED"}
  /\ refunded = 0
  /\ rows = [n \in RefundNos |-> NoRow]
  /\ seen = {}
  /\ lock = [i \in Instances |-> NoTask]
  /\ pc = [t \in Tasks |-> "idle"]
  /\ req = [t \in Tasks |-> NoReq]
  /\ copy = [t \in Tasks |-> NoOrder]
  /\ channel \in BOOLEAN
  /\ provider = [n \in RefundNos |-> NoRow]
  /\ acked = {}

-----------------------------------------------------------------------------
(* Running and finishing a task. *)

At(t, label)   == pc[t] = label
Goto(t, label) == pc' = [pc EXCEPT ![t] = label]
No(t)          == req[t].no

Begin(t, kind, n, amount, label) ==
  /\ At(t, "idle")
  /\ Goto(t, label)
  /\ req' = [req EXCEPT ![t] =
       [kind |-> kind, no |-> n, amount |-> amount, answer |-> "NONE"]]
  /\ UNCHANGED <<lock, copy>>

End(t) ==
  /\ lock' = IF pc[t] \in InLock THEN [lock EXCEPT ![InstanceOf[t]] = NoTask] ELSE lock
  /\ Goto(t, "idle")
  /\ req' = [req EXCEPT ![t] = NoReq]
  /\ copy' = [copy EXCEPT ![t] = NoOrder]

Ack(t) == acked' = acked \cup {No(t)}

Acquire(t) ==
  /\ At(t, "want")
  /\ lock[InstanceOf[t]] = NoTask
  /\ lock' = [lock EXCEPT ![InstanceOf[t]] = t]
  /\ Goto(t, IF req[t].kind = "refund" THEN "readOrder" ELSE "readRefund")
  /\ UNCHANGED <<dbVars, req, copy, envVars>>

-----------------------------------------------------------------------------
(* refundOrder *)

\* The early findByOutRefundNo, outside the lock.  A stored refund would be
\* returned as it is.
StartRefund(t, n, amount) ==
  /\ rows[n] = NoRow
  /\ Begin(t, "refund", n, amount, "want")
  /\ UNCHANGED <<dbVars, envVars>>

Amounts(t) == IF req[t].amount = NotGiven THEN Amount - refunded ELSE req[t].amount

\* (mutant: the amount asked is compared with the whole order)
RefundableTotal(t) ==
  /\ status \in {"PAID", "FULFILLED"}
  /\ Amounts(t) \in 1..Amount

Refundable(t) ==
  /\ status \in {"PAID", "FULFILLED"}
  /\ Amounts(t) \in 1..(Amount - refunded)

RefundRefused(t) ==
  /\ At(t, "readOrder")
  /\ ~Refundable(t)
  /\ End(t)
  /\ UNCHANGED <<dbVars, envVars>>

\* The checks pass on the order just read; without a refund channel the answer
\* is MANUAL at once.
RefundChecked(t) ==
  /\ At(t, "readOrder")
  /\ Refundable(t)
  /\ copy' = [copy EXCEPT ![t] = [status |-> status, refunded |-> refunded]]
  /\ req' = [req EXCEPT ![t].amount = Amounts(t),
                        ![t].answer = IF channel THEN "NONE" ELSE "MANUAL"]
  /\ Goto(t, IF channel THEN "refund" ELSE "store")
  /\ UNCHANGED <<dbVars, lock, envVars>>

\* The provider takes the request, or finds the refund it already has under this
\* number, and its answer comes back.
ProviderAnswers(t) ==
  LET n == No(t) IN
  /\ At(t, "refund")
  /\ \E answer \in {"PENDING", "SUCCESS", "FAILED"} :
       /\ \/ provider[n] = NoRow
          \/ provider[n] = [status |-> answer, amount |-> req[t].amount]
       /\ provider' = [provider EXCEPT ![n] = [status |-> answer, amount |-> req[t].amount]]
       /\ req' = [req EXCEPT ![t].answer = answer]
  /\ Goto(t, "store")
  /\ UNCHANGED <<dbVars, lock, copy, channel, acked>>

\* provider.refund threw: the provider refused the request.
ProviderRefuses(t) ==
  /\ At(t, "refund")
  /\ End(t)
  /\ UNCHANGED <<dbVars, envVars>>

\* refunds.create; a hard FAILED refund reserves nothing.
StoreRefund(t) ==
  /\ At(t, "store")
  /\ rows[No(t)] = NoRow
  /\ rows' = [rows EXCEPT ![No(t)] = [status |-> req[t].answer, amount |-> req[t].amount]]
  /\ IF req[t].answer = "FAILED" THEN End(t)
     ELSE Goto(t, "reserve") /\ UNCHANGED <<lock, req, copy>>
  /\ UNCHANGED <<status, refunded, seen, envVars>>

\* refunds.create throws: out_refund_no is unique.
StoreDuplicate(t) ==
  /\ At(t, "store")
  /\ rows[No(t)] # NoRow
  /\ End(t)
  /\ UNCHANGED <<dbVars, envVars>>

isSettled(s) == s \in {"SUCCESS", "MANUAL"}

\* (mutant: any settled refund closes the order)
reserveRefundPartial(order, total, settled) ==
  /\ refunded' = total
  /\ status' = IF settled THEN "REFUNDED" ELSE order.status

\* The order copy is written back with the new total.
reserveRefund(order, total, settled) ==
  /\ refunded' = total
  /\ status' = IF settled /\ total >= Amount THEN "REFUNDED" ELSE order.status

Reserve(t) ==
  /\ At(t, "reserve")
  /\ reserveRefund(copy[t], copy[t].refunded + req[t].amount, isSettled(req[t].answer))
  /\ End(t)
  /\ UNCHANGED <<rows, seen, envVars>>

-----------------------------------------------------------------------------
(* handleRefundCallback *)

Reported(n) == provider[n].status \in {"SUCCESS", "FAILED"}

DeliverResult(t, n) ==
  /\ Reported(n)
  /\ n \notin seen
  /\ seen' = seen \cup {n}
  /\ Begin(t, "result", n, NotGiven, "findRefund")
  /\ UNCHANGED <<status, refunded, rows, envVars>>

\* A result already marked is acknowledged at once.
DeliverResultAgain(n) ==
  /\ n \in seen
  /\ acked' = acked \cup {n}
  /\ UNCHANGED <<dbVars, taskVars, channel, provider>>

\* The result of a refund that is not stored: callbackAck(false).
ResultUnknown(t) ==
  /\ At(t, "findRefund")
  /\ rows[No(t)] = NoRow
  /\ End(t)
  /\ UNCHANGED <<dbVars, envVars>>

ResultFound(t) ==
  /\ At(t, "findRefund")
  /\ rows[No(t)] # NoRow
  /\ Goto(t, "want")
  /\ UNCHANGED <<dbVars, lock, req, copy, envVars>>

ResultIgnored(t) ==
  /\ At(t, "readRefund")
  /\ rows[No(t)].status # "PENDING"
  /\ Ack(t)
  /\ End(t)
  /\ UNCHANGED <<dbVars, channel, provider>>

ResultAwaited(t) ==
  /\ At(t, "readRefund")
  /\ rows[No(t)].status = "PENDING"
  /\ Goto(t, "writeRefund")
  /\ UNCHANGED <<dbVars, lock, req, copy, envVars>>

\* (mutant: CLOSED and ABNORMAL count as success)
WriteRefundSuccess(t) ==
  /\ At(t, "writeRefund")
  /\ rows' = [rows EXCEPT ![No(t)].status = "SUCCESS"]
  /\ Goto(t, "readOwner")
  /\ UNCHANGED <<status, refunded, seen, lock, req, copy, envVars>>

WriteRefund(t) ==
  /\ At(t, "writeRefund")
  /\ rows' = [rows EXCEPT ![No(t)].status = provider[No(t)].status]
  /\ Goto(t, "readOwner")
  /\ UNCHANGED <<status, refunded, seen, lock, req, copy, envVars>>

ReadOwner(t) ==
  /\ At(t, "readOwner")
  /\ copy' = [copy EXCEPT ![t] = [status |-> status, refunded |-> refunded]]
  /\ Goto(t, "writeOwner")
  /\ UNCHANGED <<dbVars, lock, req, envVars>>

\* (mutant: a failed refund keeps its reservation)
WriteOwnerKept(t) ==
  /\ At(t, "writeOwner")
  /\ reserveRefund(copy[t], copy[t].refunded, provider[No(t)].status = "SUCCESS")
  /\ Ack(t)
  /\ End(t)
  /\ UNCHANGED <<rows, seen, channel, provider>>

\* The reservation already counts a successful refund; a failed one is released.
WriteOwner(t) ==
  LET order == copy[t]
      freed == rows[No(t)].amount
  IN
  /\ At(t, "writeOwner")
  /\ IF provider[No(t)].status = "SUCCESS"
     THEN reserveRefund(order, order.refunded, TRUE)
     ELSE /\ refunded' = IF freed > order.refunded THEN 0 ELSE order.refunded - freed
          /\ status' = order.status
  /\ Ack(t)
  /\ End(t)
  /\ UNCHANGED <<rows, seen, channel, provider>>

-----------------------------------------------------------------------------
(* Provider, maintenance and faults *)

ProviderSettles(n) ==
  /\ provider[n].status = "PENDING"
  /\ \E s \in {"SUCCESS", "FAILED"} : provider' = [provider EXCEPT ![n].status = s]
  /\ UNCHANGED <<dbVars, taskVars, channel, acked>>

\* processedEvents.sweep; the clock is abstract, so any record may be old enough.
SweepResult(n) ==
  /\ n \in seen
  /\ seen' = seen \ {n}
  /\ UNCHANGED <<status, refunded, rows, taskVars, envVars>>

Throw(t) ==
  /\ pc[t] \in Interruptible
  /\ End(t)
  /\ UNCHANGED <<dbVars, envVars>>

Crash(i) ==
  LET mine == {t \in Tasks : InstanceOf[t] = i /\ pc[t] # "idle"} IN
  /\ mine # {}
  /\ \A t \in mine : pc[t] \in Interruptible
  /\ lock' = [lock EXCEPT ![i] = NoTask]
  /\ pc' = [t \in Tasks |-> IF t \in mine THEN "idle" ELSE pc[t]]
  /\ req' = [t \in Tasks |-> IF t \in mine THEN NoReq ELSE req[t]]
  /\ copy' = [t \in Tasks |-> IF t \in mine THEN NoOrder ELSE copy[t]]
  /\ UNCHANGED <<dbVars, envVars>>

-----------------------------------------------------------------------------

IssueRefund(t) ==
  \/ RefundRefused(t) \/ RefundChecked(t) \/ ProviderAnswers(t) \/ ProviderRefuses(t)
  \/ StoreRefund(t) \/ StoreDuplicate(t) \/ Reserve(t)

ApplyResult(t) ==
  \/ ResultUnknown(t) \/ ResultFound(t) \/ ResultIgnored(t) \/ ResultAwaited(t)
  \/ WriteRefund(t) \/ ReadOwner(t) \/ WriteOwner(t)

Next ==
  \/ \E t \in Tasks : Acquire(t) \/ IssueRefund(t) \/ ApplyResult(t) \/ Throw(t)
  \/ \E t \in Tasks, n \in RefundNos, amount \in Asked : StartRefund(t, n, amount)
  \/ \E t \in Tasks, n \in RefundNos : DeliverResult(t, n)
  \/ \E n \in RefundNos : DeliverResultAgain(n) \/ ProviderSettles(n) \/ SweepResult(n)
  \/ \E i \in Instances : Crash(i)

Spec == Init /\ [][Next]_vars

-----------------------------------------------------------------------------
(* Properties *)

Ledger == INSTANCE RefundLedger

\* The handlers only reserve what is left, release what was reserved, and close
\* the order when all of it is reserved and a refund has settled; no update is
\* lost between an order's read and its write (README "Asynchronous refund
\* settlement").
ImplementsRefundLedger == Ledger!Spec

Idle == \A t \in Tasks : pc[t] \notin InLock

Standing(table, n) == table[n].status \notin {"NONE", "FAILED"}

Counted(table) ==
  [n \in RefundNos |-> IF Standing(table, n) THEN table[n].amount ELSE 0]

Total(table) == SumFunction(Counted(table))

\* The provider is never asked for more than the order's amount: concurrent
\* calls, repeated numbers, partial amounts and results are all counted
\* ("prevents over-refunding", RefundService).
NeverOverRefunded == Total(provider) <= Amount

\* ReconciliationService.checkOrder on what refunds can disturb.
checkOrder ==
  {d \in {"over_refunded", "refund_ledger_mismatch"} :
     IF d = "over_refunded" THEN refunded > Amount ELSE refunded # Total(rows)}

\* Between handlers POST /admin/reconciliation has nothing to report: the order's
\* refundedAmount is the sum of its refunds that have not failed.
LedgerMatchesRefunds == Idle => checkOrder = {}

\* A refund the service counts as settled was settled by the provider, unless it
\* is one an operator sends, and one marked FAILED did fail.
SettledAtProvider ==
  \A n \in RefundNos :
    rows[n].status \in {"SUCCESS", "FAILED"} => provider[n] = rows[n]

\* A refund that fails leaves its amount refundable again: an order is closed as
\* REFUNDED only while its whole amount is refunded (README "so the order can be
\* refunded again").
FailedIsRefundable == Idle /\ status = "REFUNDED" => refunded = Amount

\* The provider stops resending a result only when the refund has it
\* (handleRefundCallback's answers).
AckedIsApplied ==
  \A n \in acked : Idle => rows[n].status # "PENDING"

=============================================================================
