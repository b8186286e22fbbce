---------------------------- MODULE RefundsProofs ----------------------------
(***************************************************************************)
(* Proofs about Refunds for every amount, set of refund numbers, tasks and *)
(* instances.  What the refunds table says of the provider holds under any *)
(* parameters.  The order's amount is never exceeded, and the ledger is     *)
(* exact, on one instance whose handlers are not interrupted between an     *)
(* effect and the record of it; the README says what breaks otherwise.     *)
(***************************************************************************)
EXTENDS Refunds, SumTheorems

-----------------------------------------------------------------------------
(* Type correctness *)

Open == {"PAID", "FULFILLED"}
Holding == {"refund", "store", "reserve"}

\* What a running task carries: its request, the order it read under the lock,
\* and an amount that fits in what that order had left.
TaskInv(t) ==
  /\ pc[t] # "idle" => req[t] \in Request
  /\ pc[t] \in Holding \cup {"readOrder"} => req[t].kind = "refund"
  /\ pc[t] \in Holding \cup {"writeOwner"} =>
       copy[t] \in OrderCopy /\ copy[t].status \in Open \cup {"REFUNDED"}
  /\ pc[t] \in Holding =>
       copy[t].status \in Open /\ req[t].amount \in 1..(Amount - copy[t].refunded)

TypeInv == TypeOK /\ \A t \in Tasks : TaskInv(t)

\* The tables after a task's step.
TasksType ==
  /\ lock' \in [Instances -> Tasks \cup {NoTask}]
  /\ pc' \in [Tasks -> PC]
  /\ req' \in [Tasks -> Request \cup {NoReq}]
  /\ copy' \in [Tasks -> OrderCopy \cup {NoOrder}]
  /\ \A u \in Tasks : TaskInv(u)'

\* A new task holds a request and nothing else.
LEMMA BeginType ==
  ASSUME TypeInv, NEW t \in Tasks, NEW kind, NEW n, NEW amount,
         [kind |-> kind, no |-> n, amount |-> amount, answer |-> "NONE"] \in Request,
         NEW at \in {"want", "findRefund"}, Begin(t, kind, n, amount, at)
  PROVE  TasksType
<1> DEFINE r == [kind |-> kind, no |-> n, amount |-> amount, answer |-> "NONE"]
<1>1. \A u \in Tasks : u # t => pc'[u] = pc[u] /\ req'[u] = req[u] /\ copy'[u] = copy[u]
  BY DEF TypeInv, TypeOK, Begin, Goto
<1>2. pc'[t] = at /\ req'[t] = r
  BY DEF TypeInv, TypeOK, Begin, Goto
<1>3. \A u \in Tasks : TaskInv(u)'
  BY <1>1, <1>2 DEF TypeInv, TaskInv, Holding
<1>4. at \in PC
  BY DEF PC
<1> QED
  BY <1>3, <1>4 DEF TypeInv, TypeOK, Begin, Goto, TasksType

\* withLock's finally block and the end of a handler.
LEMMA EndType ==
  ASSUME TypeInv, NEW t \in Tasks, End(t)
  PROVE  TasksType
<1>1. InstanceOf[t] \in Instances
  BY RefundsAssumption
<1>2. \A u \in Tasks : u # t => pc'[u] = pc[u] /\ req'[u] = req[u] /\ copy'[u] = copy[u]
  BY DEF TypeInv, TypeOK, End, Goto
<1>3. pc'[t] = "idle"
  BY DEF TypeInv, TypeOK, End, Goto
<1>4. \A u \in Tasks : TaskInv(u)'
  BY <1>2, <1>3 DEF TypeInv, TaskInv, Holding
<1>5. lock' \in [Instances -> Tasks \cup {NoTask}]
  BY <1>1 DEF TypeInv, TypeOK, End
<1> QED
  BY <1>4, <1>5 DEF TypeInv, TypeOK, End, Goto, TasksType, PC

\* A task that only moves on to a label where it needs no more than it has.
LEMMA GotoType ==
  ASSUME TypeInv, NEW t \in Tasks, pc[t] # "idle", NEW at \in PC, Goto(t, at),
         UNCHANGED <<req, copy>>, lock' \in [Instances -> Tasks \cup {NoTask}],
         \/ at \in {"want", "readRefund", "writeRefund", "readOwner"}
         \/ at = "readOrder" /\ req[t].kind = "refund"
         \/ at = "reserve" /\ pc[t] = "store"
  PROVE  TasksType
<1>1. \A u \in Tasks : u # t => pc'[u] = pc[u]
  BY DEF TypeInv, TypeOK, Goto
<1>2. pc'[t] = at
  BY DEF TypeInv, TypeOK, Goto
<1>3. \A u \in Tasks : TaskInv(u)'
  BY <1>1, <1>2 DEF TypeInv, TaskInv, Holding
<1> QED
  BY <1>3 DEF TypeInv, TypeOK, Goto, TasksType

LEMMA IssueType ==
  ASSUME TypeInv, NEW t \in Tasks, IssueRefund(t)
  PROVE  TypeInv'
<1> USE DEF At
<1>0. /\ InstanceOf[t] \in Instances /\ Amount \in Nat \ {0}
      /\ pc[t] # "idle" => No(t) \in RefundNos
  BY RefundsAssumption DEF TypeInv, TaskInv, No, Request
<1>1. CASE RefundRefused(t)
  BY <1>1, EndType DEF RefundRefused, TypeInv, TypeOK, TasksType, dbVars, envVars
<1>2. CASE RefundChecked(t)
  <2>1. Amounts(t) \in 1..(Amount - refunded) /\ status \in Open
    BY <1>2 DEF RefundChecked, Refundable, Open
  <2>2. [status |-> status, refunded |-> refunded] \in OrderCopy
    BY DEF TypeInv, TypeOK, OrderCopy, OrderStatus
  <2>3. req[t] \in Request /\ req[t].kind = "refund"
    BY <1>2 DEF RefundChecked, TypeInv, TaskInv
  <2> DEFINE r == [req[t] EXCEPT !.amount = Amounts(t), !.answer = IF channel THEN "NONE" ELSE "MANUAL"]
  <2>4. r \in Request /\ r.kind = "refund" /\ r.amount = Amounts(t)
    <3>1. Amounts(t) \in Asked
      BY <1>0, <2>1 DEF Asked, TypeInv, TypeOK
    <3> QED
      BY <2>3, <3>1 DEF Request, RefundStatus
  <2>5. req' = [req EXCEPT ![t] = r]
    BY <1>2 DEF RefundChecked, TypeInv, TypeOK
  <2>6. /\ pc'[t] \in {"refund", "store"} /\ req'[t] = r
        /\ copy'[t] = [status |-> status, refunded |-> refunded]
    BY <1>2, <2>5 DEF RefundChecked, Goto, TypeInv, TypeOK
  <2>7. \A u \in Tasks : u # t => pc'[u] = pc[u] /\ req'[u] = req[u] /\ copy'[u] = copy[u]
    BY <1>2, <2>5 DEF RefundChecked, Goto, TypeInv, TypeOK
  <2> HIDE DEF r
  <2>8. \A u \in Tasks : TaskInv(u)'
    BY <2>1, <2>2, <2>4, <2>6, <2>7 DEF TypeInv, TaskInv, Holding, Open
  <2> QED
    BY <1>2, <2>2, <2>4, <2>5, <2>8
    DEF RefundChecked, Goto, TypeInv, TypeOK, PC, dbVars, envVars
<1>3. CASE ProviderAnswers(t)
  <2>1. PICK a \in {"PENDING", "SUCCESS", "FAILED"} :
          /\ provider' = [provider EXCEPT ![No(t)] = [status |-> a, amount |-> req[t].amount]]
          /\ req' = [req EXCEPT ![t].answer = a]
    BY <1>3 DEF ProviderAnswers
  <2>2. req[t] \in Request /\ req[t].kind = "refund" /\ req[t].amount \in 0..Amount
    BY <1>0, <1>3 DEF ProviderAnswers, TypeInv, TypeOK, TaskInv, Holding, OrderCopy
  <2> DEFINE r == [req[t] EXCEPT !.answer = a]
  <2>3. r \in Request /\ r.kind = "refund" /\ r.amount = req[t].amount
    BY <2>2 DEF Request, RefundStatus
  <2>4. req' = [req EXCEPT ![t] = r]
    BY <2>1 DEF TypeInv, TypeOK
  <2>5. pc'[t] = "store" /\ req'[t] = r /\ copy' = copy
    BY <1>3, <2>4 DEF ProviderAnswers, Goto, TypeInv, TypeOK
  <2>6. \A u \in Tasks : u # t => pc'[u] = pc[u] /\ req'[u] = req[u]
    BY <1>3, <2>4 DEF ProviderAnswers, Goto, TypeInv, TypeOK
  <2> HIDE DEF r
  <2>7. \A u \in Tasks : TaskInv(u)'
    BY <1>3, <2>3, <2>5, <2>6 DEF ProviderAnswers, TypeInv, TaskInv, Holding, Open
  <2>8. provider' \in [RefundNos -> Row]
    BY <2>1, <2>2 DEF TypeInv, TypeOK, Row, RefundStatus
  <2> QED
    BY <1>3, <2>3, <2>4, <2>7, <2>8 DEF ProviderAnswers, Goto, TypeInv, TypeOK, PC, dbVars
<1>4. CASE ProviderRefuses(t)
  BY <1>4, EndType DEF ProviderRefuses, TypeInv, TypeOK, TasksType, dbVars, envVars
<1>5. CASE StoreRefund(t)
  <2>1. req[t].amount \in 0..Amount /\ req[t].answer \in RefundStatus \cup {"NONE"}
    BY <1>0, <1>5 DEF StoreRefund, TypeInv, TypeOK, TaskInv, Holding, OrderCopy, Request
  <2>2. rows' \in [RefundNos -> Row]
    BY <1>5, <2>1 DEF StoreRefund, TypeInv, TypeOK, Row
  <2>3. TasksType
    BY <1>5, EndType, GotoType DEF StoreRefund, TypeInv, TypeOK, PC
  <2> QED
    BY <1>5, <2>2, <2>3 DEF StoreRefund, TypeInv, TypeOK, TasksType, envVars
<1>6. CASE StoreDuplicate(t)
  BY <1>6, EndType DEF StoreDuplicate, TypeInv, TypeOK, TasksType, dbVars, envVars
<1>7. CASE Reserve(t)
  <2>1. /\ status' \in {"PAID", "FULFILLED", "REFUNDED"}
        /\ refunded' \in 0..Amount
    BY <1>0, <1>7 DEF Reserve, reserveRefund, TypeInv, TypeOK, TaskInv, Holding, Open, OrderCopy
  <2>2. TasksType
    BY <1>7, EndType DEF Reserve
  <2> QED
    BY <1>7, <2>1, <2>2 DEF Reserve, TypeInv, TypeOK, TasksType, envVars
<1> QED
  BY <1>1, <1>2, <1>3, <1>4, <1>5, <1>6, <1>7 DEF IssueRefund

LEMMA ResultType ==
  ASSUME TypeInv, NEW t \in Tasks, ApplyResult(t)
  PROVE  TypeInv'
<1> USE DEF At
<1>0. Amount \in Nat /\ (pc[t] # "idle" => No(t) \in RefundNos)
  BY RefundsAssumption DEF TypeInv, TaskInv, No, Request
<1>1. CASE ResultUnknown(t)
  BY <1>1, EndType DEF ResultUnknown, TypeInv, TypeOK, TasksType, dbVars, envVars
<1>2. CASE ResultFound(t)
  BY <1>2, GotoType DEF ResultFound, TypeInv, TypeOK, TasksType, PC, dbVars, envVars
<1>3. CASE ResultIgnored(t)
  BY <1>0, <1>3, EndType DEF ResultIgnored, Ack, TypeInv, TypeOK, TasksType, dbVars
<1>4. CASE ResultAwaited(t)
  BY <1>4, GotoType DEF ResultAwaited, TypeInv, TypeOK, TasksType, PC, dbVars, envVars
<1>5. CASE WriteRefund(t)
  <2>1. TasksType
    BY <1>5, GotoType DEF WriteRefund, TypeInv, TypeOK, PC
  <2>2. rows' \in [RefundNos -> Row]
    BY <1>0, <1>5 DEF WriteRefund, TypeInv, TypeOK, Row
  <2> QED
    BY <1>5, <2>1, <2>2 DEF WriteRefund, TypeInv, TypeOK, TasksType, envVars
<1>6. CASE ReadOwner(t)
  <2> DEFINE c == [status |-> status, refunded |-> refunded]
  <2>1. c \in OrderCopy /\ c.status \in Open \cup {"REFUNDED"}
    BY DEF TypeInv, TypeOK, OrderCopy, OrderStatus, Open
  <2>2. pc'[t] = "writeOwner" /\ copy'[t] = c
    BY <1>6 DEF ReadOwner, Goto, TypeInv, TypeOK
  <2>3. \A u \in Tasks : u # t => pc'[u] = pc[u] /\ copy'[u] = copy[u]
    BY <1>6 DEF ReadOwner, Goto, TypeInv, TypeOK
  <2> HIDE DEF c
  <2>4. \A u \in Tasks : TaskInv(u)'
    BY <1>6, <2>1, <2>2, <2>3 DEF ReadOwner, TypeInv, TaskInv, Holding
  <2>5. copy' \in [Tasks -> OrderCopy \cup {NoOrder}]
    BY <1>6, <2>1 DEF ReadOwner, TypeInv, TypeOK, c
  <2> QED
    BY <1>6, <2>4, <2>5 DEF ReadOwner, Goto, TypeInv, TypeOK, PC, dbVars, envVars
<1>7. CASE WriteOwner(t)
  <2>1. /\ copy[t] \in OrderCopy /\ copy[t].status \in {"PAID", "FULFILLED", "REFUNDED"}
        /\ rows[No(t)].amount \in Nat
    BY <1>0, <1>7 DEF WriteOwner, TypeInv, TypeOK, TaskInv, Open, Row
  <2>2. /\ status' \in {"PAID", "FULFILLED", "REFUNDED"}
        /\ refunded' \in 0..Amount
    BY <1>0, <1>7, <2>1 DEF WriteOwner, reserveRefund, OrderCopy
  <2>3. TasksType /\ acked' \subseteq RefundNos
    BY <1>0, <1>7, EndType DEF WriteOwner, Ack, TypeInv, TypeOK
  <2> QED
    BY <1>7, <2>2, <2>3 DEF WriteOwner, TypeInv, TypeOK, TasksType
<1> QED
  BY <1>1, <1>2, <1>3, <1>4, <1>5, <1>6, <1>7 DEF ApplyResult

LEMMA InitType == Init => TypeInv
BY RefundsAssumption DEF Init, TypeInv, TypeOK, TaskInv, NoRow, Row, RefundStatus, PC, Holding

LEMMA NextType == TypeInv /\ [Next]_vars => TypeInv'
<1> SUFFICES ASSUME TypeInv, [Next]_vars PROVE TypeInv'
  OBVIOUS
<1> USE DEF At
<1>1. ASSUME NEW t \in Tasks, Acquire(t) PROVE TypeInv'
  <2>1. InstanceOf[t] \in Instances
    BY RefundsAssumption
  <2>2. lock' \in [Instances -> Tasks \cup {NoTask}]
    BY <1>1, <2>1 DEF Acquire, TypeInv, TypeOK
  <2>3. TasksType
    BY <1>1, <2>2, GotoType DEF Acquire, PC
  <2> QED
    BY <1>1, <2>3 DEF Acquire, TypeInv, TypeOK, TasksType, dbVars, envVars
<1>2. ASSUME NEW t \in Tasks, Throw(t) PROVE TypeInv'
  BY <1>2, EndType DEF Throw, TypeInv, TypeOK, TasksType, dbVars, envVars
<1>3. ASSUME NEW t \in Tasks, NEW n \in RefundNos, NEW a \in Asked, StartRefund(t, n, a)
      PROVE  TypeInv'
  <2>1. [kind |-> "refund", no |-> n, amount |-> a, answer |-> "NONE"] \in Request
    BY DEF Request
  <2>2. TasksType
    BY <1>3, <2>1, BeginType DEF StartRefund
  <2> QED
    BY <1>3, <2>2 DEF StartRefund, TypeInv, TypeOK, TasksType, dbVars, envVars
<1>4. ASSUME NEW t \in Tasks, NEW n \in RefundNos, DeliverResult(t, n) PROVE TypeInv'
  <2>1. [kind |-> "result", no |-> n, amount |-> NotGiven, answer |-> "NONE"] \in Request
    BY DEF Request
  <2>2. TasksType
    BY <1>4, <2>1, BeginType DEF DeliverResult
  <2> QED
    BY <1>4, <2>2 DEF DeliverResult, TypeInv, TypeOK, TasksType, envVars
<1>5. ASSUME NEW n \in RefundNos, DeliverResultAgain(n) \/ ProviderSettles(n) \/ SweepResult(n)
      PROVE  TypeInv'
  <2>1. \A u \in Tasks : TaskInv(u)'
    BY <1>5 DEF DeliverResultAgain, ProviderSettles, SweepResult, taskVars, TypeInv, TaskInv
  <2>2. TypeOK'
    BY <1>5 DEF DeliverResultAgain, ProviderSettles, SweepResult, taskVars, dbVars, envVars,
                TypeInv, TypeOK, Row, RefundStatus
  <2> QED
    BY <2>1, <2>2 DEF TypeInv
<1>6. ASSUME NEW i \in Instances, Crash(i) PROVE TypeInv'
  <2>1. \A u \in Tasks : TaskInv(u)'
    BY <1>6 DEF Crash, TypeInv, TaskInv, Holding
  <2>2. TypeOK'
    BY <1>6 DEF Crash, TypeInv, TypeOK, PC, dbVars, envVars
  <2> QED
    BY <2>1, <2>2 DEF TypeInv
<1>7. CASE UNCHANGED vars
  BY <1>7 DEF vars, dbVars, taskVars, envVars, TypeInv, TypeOK, TaskInv
<1> QED
  BY <1>1, <1>2, <1>3, <1>4, <1>5, <1>6, <1>7, IssueType, ResultType DEF Next

\* Every variable keeps its type under any parameters, and a request under way
\* asks for no more than its order had left when it was read.
THEOREM TypeCorrect == Spec => []TypeOK
<1>1. TypeInv => TypeOK
  BY DEF TypeInv
<1> QED
  BY <1>1, InitType, NextType, PTL DEF Spec

-----------------------------------------------------------------------------
(* The refunds table and the provider *)

OfResult(t) == pc[t] # "idle" /\ req[t].kind = "result"

\* A row exists only for what the provider has, with its amount, and a final
\* status only when the provider has reached it; a MANUAL row never meets a
\* provider.
RecordInv(n) ==
  /\ provider[n].status \in {"NONE", "PENDING", "SUCCESS", "FAILED"}
  /\ provider[n].status = "NONE" => provider[n] = NoRow
  /\ provider[n].status # "NONE" => channel
  /\ rows[n].status = "NONE" => rows[n] = NoRow
  /\ rows[n].status = "MANUAL" => ~channel
  /\ rows[n].status \in {"PENDING", "SUCCESS", "FAILED"} =>
       provider[n].status # "NONE" /\ provider[n].amount = rows[n].amount
  /\ rows[n].status \in {"SUCCESS", "FAILED"} => provider[n].status = rows[n].status

\* What a task has learnt of the provider or of its row stays true until it
\* writes it down.
CallInv(t) ==
  /\ pc[t] = "refund" => channel
  /\ pc[t] \in {"store", "reserve"} =>
       /\ req[t].answer \in RefundStatus
       /\ req[t].answer = "MANUAL" => ~channel
       /\ req[t].answer # "MANUAL" =>
            provider[No(t)].status # "NONE" /\ provider[No(t)].amount = req[t].amount
       /\ req[t].answer \in {"SUCCESS", "FAILED"} =>
            provider[No(t)].status = req[t].answer
  /\ pc[t] \in {"findRefund", "readRefund", "writeRefund", "readOwner", "writeOwner"} =>
       req[t].kind = "result"
  /\ OfResult(t) => Reported(No(t))
  /\ OfResult(t) /\ pc[t] # "findRefund" => rows[No(t)].status # "NONE"
  /\ pc[t] \in {"readOwner", "writeOwner"} => rows[No(t)].status \in {"SUCCESS", "FAILED"}

ProviderInv ==
  /\ TypeInv
  /\ \A n \in RefundNos : RecordInv(n)
  /\ \A t \in Tasks : CallInv(t)

\* The number of a running task is one.
LEMMA Numbered ==
  ASSUME TypeInv, NEW t \in Tasks, pc[t] # "idle"
  PROVE  No(t) \in RefundNos /\ req[t] \in Request
BY DEF TypeInv, TaskInv, No, Request

\* The records of a number only advance: the provider's from nothing to pending
\* to a final status, the row's from nothing to what the provider answered to
\* the final status.
Advances(n) ==
  /\ \/ provider'[n] = provider[n]
     \/ provider[n].status = "NONE"
     \/ provider[n].status = "PENDING" /\ provider'[n].amount = provider[n].amount
          /\ provider'[n].status # "NONE"
  /\ \/ rows'[n] = rows[n]
     \/ rows[n].status = "NONE" /\ rows'[n].status # "NONE"
     \/ rows[n].status = "PENDING" /\ rows'[n].status \in {"SUCCESS", "FAILED"}
     \/ rows[n].status \in {"SUCCESS", "FAILED"} /\ rows'[n].status = rows[n].status

\* A task that does not move keeps what it has learnt while records advance.
LEMMA OthersKeep ==
  ASSUME ProviderInv, NEW u \in Tasks, pc'[u] = pc[u], req'[u] = req[u],
         UNCHANGED channel, \A n \in RefundNos : Advances(n)
  PROVE  CallInv(u)'
<1>1. CASE pc[u] = "idle"
  BY <1>1 DEF CallInv, OfResult
<1>2. CASE pc[u] # "idle"
  <2>1. No(u) \in RefundNos /\ Advances(No(u)) /\ No(u)' = No(u)
    BY <1>2, Numbered DEF ProviderInv, No
  <2>2. CallInv(u)
    BY DEF ProviderInv
  <2>3. provider[No(u)].status \in {"SUCCESS", "FAILED"} => provider'[No(u)] = provider[No(u)]
    BY <2>1 DEF Advances
  <2> QED
    BY <2>1, <2>2, <2>3 DEF CallInv, OfResult, Reported, Advances
<1> QED
  BY <1>1, <1>2

\* A step that leaves both records alone and moves one task.
LEMMA QuietStep ==
  ASSUME ProviderInv, TypeInv', NEW t \in Tasks, UNCHANGED <<rows, provider, channel>>,
         \A u \in Tasks \ {t} : pc'[u] = pc[u] /\ req'[u] = req[u],
         CallInv(t)'
  PROVE  ProviderInv'
<1>1. \A n \in RefundNos : Advances(n) /\ RecordInv(n)'
  BY DEF ProviderInv, Advances, RecordInv
<1>2. \A u \in Tasks : CallInv(u)'
  BY <1>1, OthersKeep
<1> QED
  BY <1>1, <1>2 DEF ProviderInv

\* The end of a handler asks nothing of the records.
LEMMA EndQuiet ==
  ASSUME ProviderInv, TypeInv', NEW t \in Tasks, End(t), UNCHANGED <<rows, provider, channel>>
  PROVE  ProviderInv'
<1>1. /\ \A u \in Tasks \ {t} : pc'[u] = pc[u] /\ req'[u] = req[u]
      /\ pc'[t] = "idle"
  BY DEF End, Goto, ProviderInv, TypeInv, TypeOK
<1> QED
  BY <1>1, QuietStep DEF CallInv, OfResult

LEMMA ProviderTask ==
  ASSUME ProviderInv, TypeInv', NEW t \in Tasks,
         Acquire(t) \/ IssueRefund(t) \/ ApplyResult(t) \/ Throw(t)
  PROVE  ProviderInv'
<1> USE DEF At
<1> DEFINE n == No(t)
<1>0. pc[t] # "idle" => n \in RefundNos /\ req[t] \in Request /\ RecordInv(n)
  BY Numbered DEF ProviderInv
<1>a. CallInv(t)
  BY DEF ProviderInv
<1>b. \A label \in PC : Goto(t, label) => pc'[t] = label /\ \A u \in Tasks \ {t} : pc'[u] = pc[u]
  BY DEF Goto, ProviderInv, TypeInv, TypeOK
<1>1. CASE \/ RefundRefused(t) \/ ProviderRefuses(t) \/ StoreDuplicate(t) \/ Reserve(t)
           \/ ResultUnknown(t) \/ ResultIgnored(t) \/ WriteOwner(t) \/ Throw(t)
  BY <1>1, EndQuiet DEF RefundRefused, ProviderRefuses, StoreDuplicate, Reserve, ResultUnknown,
       ResultIgnored, WriteOwner, Throw, dbVars, envVars
<1>2. CASE Acquire(t)
  <2>1. /\ pc'[t] \in {"readOrder", "readRefund"} /\ \A u \in Tasks \ {t} : pc'[u] = pc[u]
        /\ UNCHANGED <<rows, provider, channel, req>>
        /\ pc'[t] = "readRefund" => req[t].kind # "refund"
    BY <1>2, <1>b DEF Acquire, PC, dbVars, envVars
  <2>2. CallInv(t)'
    BY <1>0, <1>2, <1>a, <2>1 DEF Acquire, CallInv, OfResult, No, Reported, Request
  <2> QED
    BY <2>1, <2>2, QuietStep
<1>3. CASE RefundChecked(t)
  <2>1. /\ pc'[t] = IF channel THEN "refund" ELSE "store"
        /\ \A u \in Tasks \ {t} : pc'[u] = pc[u] /\ req'[u] = req[u]
        /\ UNCHANGED <<rows, provider, channel>>
    BY <1>3, <1>b DEF RefundChecked, PC, dbVars, envVars, ProviderInv, TypeInv, TypeOK
  <2>2. /\ req'[t].answer = (IF channel THEN "NONE" ELSE "MANUAL")
        /\ req'[t].kind = "refund"
    BY <1>0, <1>3 DEF RefundChecked, ProviderInv, TypeInv, TypeOK, TaskInv, Request
  <2>3. CallInv(t)'
    BY <2>1, <2>2 DEF CallInv, OfResult, RefundStatus
  <2> QED
    BY <2>1, <2>3, QuietStep
<1>4. CASE ResultFound(t) \/ ResultAwaited(t) \/ ReadOwner(t)
  <2>1. /\ pc'[t] \in {"want", "writeRefund", "writeOwner"} /\ \A u \in Tasks \ {t} : pc'[u] = pc[u]
        /\ pc'[t] = "writeOwner" => pc[t] = "readOwner"
        /\ UNCHANGED <<rows, provider, channel, req>>
    BY <1>4, <1>b DEF ResultFound, ResultAwaited, ReadOwner, PC, dbVars, envVars
  <2>2. n \in RefundNos /\ OfResult(t) /\ rows[n].status # "NONE"
    BY <1>0, <1>4, <1>a DEF ResultFound, ResultAwaited, ReadOwner, CallInv, OfResult, RecordInv
  <2>3. CallInv(t)'
    BY <1>a, <2>1, <2>2 DEF CallInv, OfResult, Reported, No
  <2> QED
    BY <2>1, <2>3, QuietStep
<1>5. CASE ProviderAnswers(t)
  <2>1. PICK a \in {"PENDING", "SUCCESS", "FAILED"} :
          /\ provider[n] = NoRow \/ provider[n] = [status |-> a, amount |-> req[t].amount]
          /\ provider' = [provider EXCEPT ![n] = [status |-> a, amount |-> req[t].amount]]
          /\ req' = [req EXCEPT ![t].answer = a]
    BY <1>5 DEF ProviderAnswers
  <2>2. /\ pc'[t] = "store" /\ \A u \in Tasks \ {t} : pc'[u] = pc[u] /\ req'[u] = req[u]
        /\ UNCHANGED <<rows, channel>> /\ channel /\ n \in RefundNos
    BY <1>0, <1>5, <1>a, <1>b, <2>1
    DEF ProviderAnswers, PC, dbVars, CallInv, ProviderInv, TypeInv, TypeOK
  <2>3. /\ provider'[n] = [status |-> a, amount |-> req[t].amount]
        /\ \A m \in RefundNos \ {n} : provider'[m] = provider[m]
    BY <2>1, <2>2 DEF ProviderInv, TypeInv, TypeOK
  <2>4. /\ req'[t].answer = a /\ req'[t].kind = "refund" /\ No(t)' = n
        /\ req'[t].amount = req[t].amount
    BY <1>0, <1>5, <2>1 DEF ProviderAnswers, ProviderInv, TypeInv, TypeOK, TaskInv, Holding, No, Request
  <2>5. \A m \in RefundNos : Advances(m) /\ RecordInv(m)'
    BY <2>1, <2>2, <2>3 DEF Advances, RecordInv, NoRow, ProviderInv
  <2>6. CallInv(t)'
    BY <2>2, <2>3, <2>4 DEF CallInv, OfResult, RefundStatus
  <2>7. \A u \in Tasks : CallInv(u)'
    BY <2>2, <2>5, <2>6, OthersKeep
  <2> QED
    BY <2>5, <2>7 DEF ProviderInv
<1>6. CASE StoreRefund(t)
  <2>1. /\ pc'[t] \in {"idle", "reserve"}
        /\ \A u \in Tasks \ {t} : pc'[u] = pc[u] /\ req'[u] = req[u]
        /\ pc'[t] = "reserve" => req' = req
        /\ UNCHANGED <<provider, channel>> /\ n \in RefundNos
    BY <1>0, <1>6, <1>b DEF StoreRefund, End, PC, envVars, ProviderInv, TypeInv, TypeOK
  <2>2. /\ rows'[n] = [status |-> req[t].answer, amount |-> req[t].amount]
        /\ \A m \in RefundNos \ {n} : rows'[m] = rows[m]
        /\ rows[n] = NoRow
    BY <1>6, <2>1 DEF StoreRefund, ProviderInv, TypeInv, TypeOK
  <2>3. \A m \in RefundNos : Advances(m) /\ RecordInv(m)'
    BY <1>6, <1>a, <2>1, <2>2
    DEF StoreRefund, Advances, RecordInv, NoRow, ProviderInv, CallInv, RefundStatus
  <2>4. CallInv(t)'
    BY <1>6, <1>a, <2>1 DEF StoreRefund, CallInv, OfResult, No, ProviderInv, TypeInv, TaskInv, Holding
  <2>5. \A u \in Tasks : CallInv(u)'
    BY <2>1, <2>3, <2>4, OthersKeep
  <2> QED
    BY <2>3, <2>5 DEF ProviderInv
<1>7. CASE WriteRefund(t)
  <2>1. /\ pc'[t] = "readOwner" /\ \A u \in Tasks \ {t} : pc'[u] = pc[u]
        /\ UNCHANGED <<provider, channel, req>> /\ n \in RefundNos
    BY <1>0, <1>7, <1>b DEF WriteRefund, PC, envVars
  <2>2. rows[n].status # "NONE" /\ OfResult(t) /\ provider[n].status \in {"SUCCESS", "FAILED"}
    BY <1>7, <1>a DEF WriteRefund, CallInv, OfResult, Reported
  <2>3. rows[n].status \in {"PENDING", "SUCCESS", "FAILED"}
    BY <1>0, <1>7, <2>1, <2>2 DEF RecordInv, WriteRefund, ProviderInv, TypeInv, TypeOK, Row, RefundStatus
  <2>4. /\ rows'[n] = [rows[n] EXCEPT !.status = provider[n].status]
        /\ \A m \in RefundNos \ {n} : rows'[m] = rows[m]
        /\ rows[n] \in Row
    BY <1>7, <2>1 DEF WriteRefund, ProviderInv, TypeInv, TypeOK
  <2>5. rows'[n].status = provider[n].status /\ rows'[n].amount = rows[n].amount
    BY <2>4 DEF Row
  <2>6. \A m \in RefundNos : Advances(m) /\ RecordInv(m)'
    BY <2>1, <2>2, <2>3, <2>4, <2>5 DEF Advances, RecordInv, ProviderInv
  <2>7. CallInv(t)'
    BY <1>a, <2>1, <2>2, <2>5 DEF CallInv, OfResult, No, Reported
  <2>8. \A u \in Tasks : CallInv(u)'
    BY <2>1, <2>6, <2>7, OthersKeep
  <2> QED
    BY <2>6, <2>8 DEF ProviderInv
<1> QED
  BY <1>1, <1>2, <1>3, <1>4, <1>5, <1>6, <1>7 DEF IssueRefund, ApplyResult

LEMMA InitProvider == Init => ProviderInv
<1> SUFFICES ASSUME Init PROVE ProviderInv
  OBVIOUS
<1>1. \A n \in RefundNos : RecordInv(n)
  BY DEF Init, RecordInv, NoRow
<1>2. \A t \in Tasks : CallInv(t)
  BY DEF Init, CallInv, OfResult
<1> QED
  BY <1>1, <1>2, InitType DEF ProviderInv

LEMMA NextProvider == ProviderInv /\ [Next]_vars => ProviderInv'
<1> SUFFICES ASSUME ProviderInv, [Next]_vars PROVE ProviderInv'
  OBVIOUS
<1>0. TypeInv /\ TypeInv'
  BY NextType DEF ProviderInv
<1>1. ASSUME NEW t \in Tasks, Acquire(t) \/ IssueRefund(t) \/ ApplyResult(t) \/ Throw(t)
      PROVE  ProviderInv'
  BY <1>0, <1>1, ProviderTask
<1>2. ASSUME NEW t \in Tasks, NEW n \in RefundNos, NEW a \in Asked, StartRefund(t, n, a)
      PROVE  ProviderInv'
  <2>1. /\ pc'[t] = "want" /\ req'[t].kind = "refund"
        /\ \A u \in Tasks \ {t} : pc'[u] = pc[u] /\ req'[u] = req[u]
    BY <1>0, <1>2 DEF StartRefund, Begin, Goto, TypeInv, TypeOK
  <2>2. CallInv(t)'
    BY <2>1 DEF CallInv, OfResult
  <2> QED
    BY <1>0, <1>2, <2>1, <2>2, QuietStep DEF StartRefund, dbVars, envVars
<1>3. ASSUME NEW t \in Tasks, NEW n \in RefundNos, DeliverResult(t, n) PROVE ProviderInv'
  <2>1. /\ pc'[t] = "findRefund" /\ req'[t].kind = "result" /\ No(t)' = n
        /\ \A u \in Tasks \ {t} : pc'[u] = pc[u] /\ req'[u] = req[u]
    BY <1>0, <1>3 DEF DeliverResult, Begin, Goto, TypeInv, TypeOK, No
  <2>2. CallInv(t)'
    BY <1>3, <2>1 DEF DeliverResult, CallInv, OfResult, Reported, envVars
  <2> QED
    BY <1>0, <1>3, <2>1, <2>2, QuietStep DEF DeliverResult, envVars
<1>4. ASSUME NEW n \in RefundNos, ProviderSettles(n) PROVE ProviderInv'
  <2>1. /\ UNCHANGED <<rows, channel, pc, req>>
        /\ provider[n].status = "PENDING" /\ provider[n] \in Row
        /\ \A m \in RefundNos \ {n} : provider'[m] = provider[m]
    BY <1>0, <1>4 DEF ProviderSettles, dbVars, taskVars, TypeInv, TypeOK
  <2>2. provider'[n].status \in {"SUCCESS", "FAILED"} /\ provider'[n].amount = provider[n].amount
    BY <1>0, <1>4, <2>1 DEF ProviderSettles, TypeInv, TypeOK, Row
  <2>3. \A m \in RefundNos : Advances(m) /\ RecordInv(m)'
    BY <2>1, <2>2 DEF Advances, RecordInv, ProviderInv
  <2>4. \A u \in Tasks : CallInv(u)'
    BY <2>1, <2>3, OthersKeep
  <2> QED
    BY <1>0, <2>3, <2>4 DEF ProviderInv
<1>5. ASSUME NEW n \in RefundNos, DeliverResultAgain(n) \/ SweepResult(n) PROVE ProviderInv'
  <2>1. UNCHANGED <<rows, provider, channel, pc, req>>
    BY <1>5 DEF DeliverResultAgain, SweepResult, dbVars, taskVars, envVars
  <2> QED
    BY <1>0, <2>1 DEF ProviderInv, RecordInv, CallInv, OfResult, Reported, No
<1>6. ASSUME NEW i \in Instances, Crash(i) PROVE ProviderInv'
  <2>1. UNCHANGED <<rows, provider, channel>>
    BY <1>6 DEF Crash, dbVars, envVars
  <2>2. \A u \in Tasks : pc'[u] = "idle" \/ (pc'[u] = pc[u] /\ req'[u] = req[u])
    BY <1>6 DEF Crash
  <2>3. \A n \in RefundNos : Advances(n) /\ RecordInv(n)'
    BY <2>1 DEF Advances, RecordInv, ProviderInv
  <2>4. \A u \in Tasks : CallInv(u)'
    BY <2>1, <2>2, <2>3, OthersKeep DEF CallInv, OfResult
  <2> QED
    BY <1>0, <2>3, <2>4 DEF ProviderInv
<1>7. CASE UNCHANGED vars
  <2>1. UNCHANGED <<rows, provider, channel, pc, req>>
    BY <1>7 DEF vars, dbVars, taskVars, envVars
  <2> QED
    BY <1>0, <2>1 DEF ProviderInv, RecordInv, CallInv, OfResult, Reported, No
<1> QED
  BY <1>1, <1>2, <1>3, <1>4, <1>5, <1>6, <1>7 DEF Next

LEMMA ProviderInvariant == Spec => []ProviderInv
BY InitProvider, NextProvider, PTL DEF Spec

\* A refund the service counts as settled or failed is so at the provider, for
\* the same amount, whatever crashes, throws or runs on another instance.
THEOREM SettledIsProvided == Spec => []SettledAtProvider
<1>1. ProviderInv => SettledAtProvider
  <2> SUFFICES ASSUME ProviderInv, NEW n \in RefundNos, rows[n].status \in {"SUCCESS", "FAILED"}
               PROVE  provider[n] = rows[n]
    BY DEF SettledAtProvider
  <2>1. provider[n].status = rows[n].status /\ provider[n].amount = rows[n].amount
    BY DEF ProviderInv, RecordInv
  <2>2. provider[n] \in Row /\ rows[n] \in Row
    BY DEF ProviderInv, TypeInv, TypeOK
  <2> QED
    BY <2>1, <2>2 DEF Row
<1> QED
  BY <1>1, ProviderInvariant, PTL

-----------------------------------------------------------------------------
(* One locker: Refunds implements RefundLedger *)

OneInstance == \A t, u \in Tasks : InstanceOf[t] = InstanceOf[u]

\* The task inside withLock is the one the locker admitted.
LockInv == \A t \in Tasks : pc[t] \in InLock => lock[InstanceOf[t]] = t

\* The order a task read under the lock is still the order when it writes it back.
CopyInv ==
  \A t \in Tasks : pc[t] \in Holding \cup {"writeOwner"} =>
    copy[t].status = status /\ copy[t].refunded = refunded

SectionInv == TypeInv /\ LockInv /\ CopyInv

LEMMA Exclusive ==
  ASSUME OneInstance, LockInv, NEW t \in Tasks, NEW u \in Tasks,
         pc[t] \in InLock, pc[u] \in InLock
  PROVE  t = u
BY DEF OneInstance, LockInv

\* What every step of a task does to the lock, and to the order, which it writes
\* only as the last thing in the section.
LEMMA TaskMoves ==
  ASSUME TypeInv, NEW t \in Tasks, IssueRefund(t) \/ ApplyResult(t) \/ Throw(t)
  PROVE  /\ \A u \in Tasks \ {t} : pc'[u] = pc[u] /\ copy'[u] = copy[u] /\ req'[u] = req[u]
         /\ pc[t] # "idle"
         /\ \/ pc'[t] = "idle" /\ End(t)
            \/ pc[t] = "findRefund" /\ pc'[t] = "want" /\ lock' = lock
            \/ pc[t] \in InLock /\ pc'[t] \in InLock /\ lock' = lock
         /\ \/ UNCHANGED <<status, refunded>>
            \/ (Reserve(t) \/ WriteOwner(t)) /\ pc[t] \in InLock
<1> USE DEF At, InLock
<1>1. \A label \in PC : Goto(t, label) => pc'[t] = label /\ \A u \in Tasks \ {t} : pc'[u] = pc[u]
  BY DEF Goto, TypeInv, TypeOK
<1>2. End(t) => /\ pc'[t] = "idle"
                /\ \A u \in Tasks \ {t} : pc'[u] = pc[u] /\ copy'[u] = copy[u] /\ req'[u] = req[u]
  BY <1>1 DEF End, PC, TypeInv, TypeOK
<1>3. CASE \/ RefundRefused(t) \/ ProviderRefuses(t) \/ StoreDuplicate(t) \/ ResultUnknown(t)
           \/ ResultIgnored(t) \/ Reserve(t) \/ WriteOwner(t)
  BY <1>2, <1>3 DEF RefundRefused, ProviderRefuses, StoreDuplicate, ResultUnknown, ResultIgnored,
       Reserve, WriteOwner, dbVars
<1>4. CASE Throw(t)
  BY <1>2, <1>4, RefundsAssumption DEF Throw, dbVars
<1>5. CASE RefundChecked(t)
  BY <1>1, <1>5 DEF RefundChecked, PC, dbVars, TypeInv, TypeOK
<1>6. CASE ProviderAnswers(t)
  <2>1. \A u \in Tasks \ {t} : req'[u] = req[u]
    BY <1>6 DEF ProviderAnswers, TypeInv, TypeOK
  <2> QED
    BY <1>1, <1>6, <2>1 DEF ProviderAnswers, PC, dbVars
<1>7. CASE StoreRefund(t)
  BY <1>1, <1>2, <1>7 DEF StoreRefund, PC
<1>8. CASE ResultFound(t) \/ ResultAwaited(t) \/ WriteRefund(t) \/ ReadOwner(t)
  BY <1>1, <1>8 DEF ResultFound, ResultAwaited, WriteRefund, ReadOwner, PC, dbVars, TypeInv, TypeOK
<1> QED
  BY <1>3, <1>4, <1>5, <1>6, <1>7, <1>8 DEF IssueRefund, ApplyResult

LEMMA SectionTask ==
  ASSUME OneInstance, SectionInv, NEW t \in Tasks, IssueRefund(t) \/ ApplyResult(t) \/ Throw(t)
  PROVE  LockInv' /\ CopyInv'
<1> USE DEF At
<1>1. /\ \A u \in Tasks \ {t} : pc'[u] = pc[u] /\ copy'[u] = copy[u]
      /\ pc[t] # "idle" /\ pc[t] \in PC /\ InstanceOf[t] \in Instances
  BY TaskMoves, RefundsAssumption DEF SectionInv, TypeInv, TypeOK
<1>2. pc[t] \in InLock => \A u \in Tasks \ {t} : pc[u] \notin InLock
  BY Exclusive DEF SectionInv
<1>3. LockInv'
  <2>1. CASE pc'[t] = "idle" /\ End(t)
    <3>1. pc[t] \notin InLock => lock' = lock
      BY <2>1 DEF End
    <3> QED
      BY <1>1, <1>2, <2>1, <3>1 DEF LockInv, SectionInv, InLock
  <2>2. CASE pc[t] = "findRefund" /\ pc'[t] = "want" /\ lock' = lock
    BY <1>1, <2>2 DEF LockInv, SectionInv, InLock
  <2>3. CASE pc[t] \in InLock /\ pc'[t] \in InLock /\ lock' = lock
    BY <1>1, <2>3 DEF LockInv, SectionInv
  <2> QED
    BY <2>1, <2>2, <2>3, TaskMoves DEF SectionInv
<1>4. CopyInv'
  <2>1. CASE UNCHANGED <<status, refunded>>
    <3>1. ASSUME pc'[t] \in Holding \cup {"writeOwner"}
          PROVE  copy'[t].status = status /\ copy'[t].refunded = refunded
      <4>1. CASE RefundChecked(t)
        BY <4>1 DEF RefundChecked, SectionInv, TypeInv, TypeOK
      <4>2. CASE ReadOwner(t)
        BY <4>2 DEF ReadOwner, SectionInv, TypeInv, TypeOK
      <4>3. CASE ProviderAnswers(t) \/ (StoreRefund(t) /\ UNCHANGED copy)
        BY <4>3 DEF ProviderAnswers, StoreRefund, SectionInv, CopyInv, Holding
      <4>4. CASE pc'[t] = "idle" \/ ResultFound(t) \/ ResultAwaited(t) \/ WriteRefund(t)
        BY <3>1, <4>4 DEF ResultFound, ResultAwaited, WriteRefund, Goto, Holding, SectionInv, TypeInv, TypeOK
      <4>5. CASE End(t)
        BY <4>4, <4>5 DEF End, Goto, SectionInv, TypeInv, TypeOK
      <4> QED
        BY <4>1, <4>2, <4>3, <4>4, <4>5
        DEF IssueRefund, ApplyResult, Throw, RefundRefused, ProviderRefuses, StoreRefund,
            StoreDuplicate, Reserve, ResultUnknown, ResultIgnored, WriteOwner
    <3> QED
      BY <1>1, <2>1, <3>1 DEF CopyInv, SectionInv
  <2>2. CASE (Reserve(t) \/ WriteOwner(t)) /\ pc[t] \in InLock
    <3>1. pc'[t] = "idle"
      BY <2>2 DEF Reserve, WriteOwner, End, Goto, SectionInv, TypeInv, TypeOK
    <3>2. \A u \in Tasks : pc'[u] \notin InLock
      BY <1>1, <1>2, <2>2, <3>1 DEF InLock
    <3> QED
      BY <3>2 DEF CopyInv, Holding, InLock
  <2> QED
    BY <2>1, <2>2, TaskMoves DEF SectionInv
<1> QED
  BY <1>3, <1>4

LEMMA InitSection == Init => SectionInv
BY InitType DEF Init, SectionInv, LockInv, CopyInv, InLock, Holding

LEMMA NextSection ==
  ASSUME OneInstance
  PROVE  SectionInv /\ [Next]_vars => SectionInv'
<1> SUFFICES ASSUME SectionInv, [Next]_vars PROVE LockInv' /\ CopyInv'
  BY NextType DEF SectionInv
<1> USE DEF At
<1>0. TypeInv
  BY DEF SectionInv
<1>1. ASSUME NEW t \in Tasks, Acquire(t) PROVE LockInv' /\ CopyInv'
  <2>1. /\ pc'[t] \in {"readOrder", "readRefund"} /\ \A u \in Tasks \ {t} : pc'[u] = pc[u]
        /\ lock[InstanceOf[t]] = NoTask /\ lock'[InstanceOf[t]] = t
        /\ UNCHANGED <<status, refunded, copy>>
    BY <1>0, <1>1, RefundsAssumption DEF Acquire, Goto, TypeInv, TypeOK, dbVars
  <2>2. \A u \in Tasks : pc[u] \notin InLock
    BY <2>1, RefundsAssumption DEF SectionInv, LockInv, OneInstance
  <2> QED
    BY <2>1, <2>2 DEF LockInv, CopyInv, InLock, Holding
<1>2. ASSUME NEW t \in Tasks, IssueRefund(t) \/ ApplyResult(t) \/ Throw(t)
      PROVE  LockInv' /\ CopyInv'
  BY <1>2, SectionTask
<1>3. ASSUME NEW t \in Tasks, NEW n \in RefundNos,
             (\E a \in Asked : StartRefund(t, n, a)) \/ DeliverResult(t, n)
      PROVE  LockInv' /\ CopyInv'
  <2>1. /\ pc'[t] \in {"want", "findRefund"} /\ \A u \in Tasks \ {t} : pc'[u] = pc[u]
        /\ UNCHANGED <<status, refunded, lock, copy>>
    BY <1>0, <1>3 DEF StartRefund, DeliverResult, Begin, Goto, TypeInv, TypeOK, dbVars
  <2> QED
    BY <2>1 DEF SectionInv, LockInv, CopyInv, InLock, Holding
<1>4. ASSUME NEW i \in Instances, Crash(i) PROVE LockInv' /\ CopyInv'
  <2>1. \A u \in Tasks : pc'[u] \in InLock =>
          pc'[u] = pc[u] /\ copy'[u] = copy[u] /\ lock'[InstanceOf[u]] = lock[InstanceOf[u]]
    BY <1>0, <1>4, RefundsAssumption DEF Crash, InLock, TypeInv, TypeOK
  <2>2. UNCHANGED <<status, refunded>>
    BY <1>4 DEF Crash, dbVars
  <2> QED
    BY <2>1, <2>2 DEF SectionInv, LockInv, CopyInv, InLock, Holding
<1>5. CASE \/ \E n \in RefundNos : DeliverResultAgain(n) \/ ProviderSettles(n) \/ SweepResult(n)
           \/ UNCHANGED vars
  <2>1. UNCHANGED <<status, refunded, lock, pc, copy>>
    BY <1>5 DEF DeliverResultAgain, ProviderSettles, SweepResult, vars, dbVars, taskVars
  <2> QED
    BY <2>1 DEF SectionInv, LockInv, CopyInv
<1> QED
  BY <1>1, <1>2, <1>3, <1>4, <1>5 DEF Next

\* A step of Refunds is a step of the ledger, or leaves the order as it is.
LEMMA LedgerStep == SectionInv /\ [Next]_vars => [Ledger!Next]_(Ledger!rvars)
<1> SUFFICES ASSUME SectionInv, [Next]_vars PROVE [Ledger!Next]_(Ledger!rvars)
  OBVIOUS
<1>0. TypeInv /\ Amount \in Nat \ {0} /\ refunded \in 0..Amount
  BY RefundsAssumption DEF SectionInv, TypeInv, TypeOK
<1>1. ASSUME NEW t \in Tasks, Reserve(t) PROVE Ledger!Next
  <2> DEFINE a == req[t].amount
  <2>1. /\ copy[t].status = status /\ copy[t].refunded = refunded
        /\ status \in Open /\ a \in 1..(Amount - refunded)
    BY <1>1 DEF Reserve, At, SectionInv, CopyInv, TypeInv, TaskInv, Holding
  <2>2. Ledger!Reserve(a)
    BY <1>0, <1>1, <2>1 DEF Reserve, reserveRefund, Ledger!Reserve, Ledger!Open, Open
  <2>3. a \in 1..Amount
    BY <1>0, <2>1
  <2> QED
    BY <2>2, <2>3 DEF Ledger!Next
<1>2. ASSUME NEW t \in Tasks, WriteOwner(t) PROVE [Ledger!Next]_(Ledger!rvars)
  <2>1. copy[t].status = status /\ copy[t].refunded = refunded
    BY <1>2 DEF WriteOwner, At, SectionInv, CopyInv
  <2>2. No(t) \in RefundNos /\ rows[No(t)].amount \in 0..Amount
    BY <1>0, <1>2, Numbered DEF WriteOwner, At, TypeInv, TypeOK, Row
  <2>3. CASE provider[No(t)].status = "SUCCESS"
    <3>1. refunded' = refunded /\ status' = IF refunded >= Amount THEN "REFUNDED" ELSE status
      BY <1>2, <2>1, <2>3 DEF WriteOwner, reserveRefund
    <3> QED
      BY <1>0, <3>1 DEF Ledger!Next, Ledger!Close, Ledger!Open, Ledger!rvars, TypeInv, TypeOK
  <2>4. CASE provider[No(t)].status # "SUCCESS"
    <3> DEFINE freed == rows[No(t)].amount
               a == IF freed > refunded THEN refunded ELSE freed
    <3>1. refunded' = refunded - a /\ status' = status
      BY <1>0, <1>2, <2>1, <2>2, <2>4 DEF WriteOwner
    <3>2. a \in 0..Amount /\ a <= refunded
      BY <1>0, <2>2
    <3>3. CASE a = 0
      BY <1>0, <3>1, <3>3 DEF Ledger!rvars
    <3>4. CASE a # 0
      <4>1. a \in 1..Amount /\ Ledger!Release(a)
        BY <1>0, <3>1, <3>2, <3>4 DEF Ledger!Release
      <4> QED
        BY <4>1 DEF Ledger!Next
    <3> QED
      BY <3>3, <3>4
  <2> QED
    BY <2>3, <2>4
<1>3. ASSUME NEW t \in Tasks, IssueRefund(t) \/ ApplyResult(t) \/ Throw(t)
      PROVE  [Ledger!Next]_(Ledger!rvars)
  BY <1>0, <1>1, <1>2, <1>3, TaskMoves DEF Ledger!rvars
<1>4. ASSUME NEW t \in Tasks, Acquire(t) \/ \E n \in RefundNos :
               (\E a \in Asked : StartRefund(t, n, a)) \/ DeliverResult(t, n)
      PROVE  UNCHANGED Ledger!rvars
  BY <1>4 DEF Acquire, StartRefund, DeliverResult, dbVars, Ledger!rvars
<1>5. CASE \/ \E n \in RefundNos : DeliverResultAgain(n) \/ ProviderSettles(n) \/ SweepResult(n)
           \/ \E i \in Instances : Crash(i)
           \/ UNCHANGED vars
  BY <1>5 DEF DeliverResultAgain, ProviderSettles, SweepResult, Crash, vars, dbVars, Ledger!rvars
<1> QED
  BY <1>3, <1>4, <1>5 DEF Next

\* With one locker the handlers only reserve what is left, release what was
\* reserved and close the order when all of it is: no update is lost between an
\* order's read and its write, though any await may throw and the process die.
THEOREM RefundsImplementLedger ==
  ASSUME OneInstance
  PROVE  Spec => ImplementsRefundLedger
<1>1. Init => Ledger!Init
  BY DEF Init, Ledger!Init, Ledger!Open
<1> QED
  BY <1>1, InitSection, NextSection, LedgerStep, PTL DEF Spec, Ledger!Spec, ImplementsRefundLedger

-----------------------------------------------------------------------------
(* No interruption between an effect and its record: the sums *)

\* The awaits whose failure leaves nothing behind.
BeforeEffects == {"want", "readOrder", "refund", "findRefund", "readRefund", "writeRefund"}
Uninterrupted == Interruptible \subseteq BeforeEffects

\* What the task in the section has stored in its row and not yet in the order.
Unrecorded(t) ==
  IF pc[t] = "reserve" THEN req[t].amount
  ELSE IF pc[t] \in {"readOwner", "writeOwner"} /\ rows[No(t)].status = "FAILED"
  THEN 0 - rows[No(t)].amount
  ELSE 0

\* The order counts every refund that stands, but for what its handler is about
\* to record, and only a PENDING row is ever settled.
LedgerInv ==
  /\ Idle => Total(rows) = refunded
  /\ \A t \in Tasks : pc[t] \in InLock => Total(rows) = refunded + Unrecorded(t)
  /\ \A t \in Tasks : pc[t] = "writeRefund" => rows[No(t)].status = "PENDING"
  /\ \A t \in Tasks : pc[t] = "reserve" => req[t].answer # "FAILED"

\* What the provider has taken and not failed is in the table, or in the hands
\* of the task that is about to store it.
BackedInv ==
  \A n \in RefundNos : Standing(provider, n) =>
    Standing(rows, n) \/ \E t \in Tasks : pc[t] = "store" /\ No(t) = n

IInv == ProviderInv /\ SectionInv /\ LedgerInv /\ BackedInv

LEMMA CountedType ==
  ASSUME NEW table \in [RefundNos -> Row]
  PROVE  Counted(table) \in [RefundNos -> Nat] /\ Total(table) \in Nat
<1>1. Counted(table) \in [RefundNos -> Nat]
  BY RefundsAssumption DEF Counted, Row
<1> QED
  BY <1>1, RefundsAssumption, SumNatural DEF Total

\* Writing one row changes the total by what that row counts.
LEMMA TotalUpdate ==
  ASSUME NEW a \in [RefundNos -> Row], NEW b \in [RefundNos -> Row], NEW n \in RefundNos,
         \A m \in RefundNos \ {n} : a[m] = b[m]
  PROVE  Total(b) = Total(a) - Counted(a)[n] + Counted(b)[n]
<1>1. Counted(a) \in [RefundNos -> Int] /\ Counted(b) \in [RefundNos -> Int]
  BY CountedType
<1>2. \A m \in RefundNos \ {n} : Counted(a)[m] = Counted(b)[m]
  BY DEF Counted, Standing
<1> QED
  BY <1>1, <1>2, RefundsAssumption, SumUpdate DEF Total

\* A task's step that writes the refunds table, and how the total follows it.
LEMMA RowWrite ==
  ASSUME ProviderInv, ProviderInv', LedgerInv, NEW t \in Tasks, StoreRefund(t) \/ WriteRefund(t)
  PROVE  /\ UNCHANGED refunded
         /\ StoreRefund(t) /\ req[t].answer = "FAILED" => Total(rows)' = Total(rows)
         /\ StoreRefund(t) /\ req[t].answer # "FAILED" => Total(rows)' = Total(rows) + req[t].amount
         /\ WriteRefund(t) /\ rows'[No(t)].status = "SUCCESS" => Total(rows)' = Total(rows)
         /\ WriteRefund(t) /\ rows'[No(t)].status = "FAILED" =>
              Total(rows)' = Total(rows) - rows'[No(t)].amount
<1> DEFINE n == No(t)
<1> USE DEF At
<1>1. /\ n \in RefundNos /\ rows \in [RefundNos -> Row] /\ rows' \in [RefundNos -> Row]
      /\ CallInv(t)
  BY Numbered DEF StoreRefund, WriteRefund, ProviderInv, TypeInv, TypeOK
<1>2. \A m \in RefundNos \ {n} : rows[m] = rows'[m]
  BY <1>1 DEF StoreRefund, WriteRefund
<1>3. Total(rows)' = Total(rows) - Counted(rows)[n] + Counted(rows')[n]
  <2>1. Total(rows)' = Total(rows')
    BY DEF Total, Counted, Standing
  <2> QED
    BY <1>1, <1>2, <2>1, TotalUpdate
<1>4. Total(rows) \in Nat /\ rows[n].amount \in Nat /\ rows'[n].amount \in Nat
  BY <1>1, CountedType, RefundsAssumption DEF Row
<1>5. CASE StoreRefund(t)
  <2>1. rows[n] = NoRow /\ rows'[n].status = req[t].answer /\ rows'[n].amount = req[t].amount
    BY <1>1, <1>5 DEF StoreRefund
  <2>2. req[t].answer # "NONE"
    BY <1>1, <1>5 DEF StoreRefund, CallInv, RefundStatus
  <2>3. Counted(rows)[n] = 0
    BY <1>1, <2>1 DEF Counted, Standing, NoRow
  <2>4. Counted(rows')[n] = IF req[t].answer = "FAILED" THEN 0 ELSE req[t].amount
    BY <1>1, <2>1, <2>2 DEF Counted, Standing
  <2> QED
    BY <1>3, <1>4, <1>5, <2>1, <2>3, <2>4 DEF StoreRefund, WriteRefund
<1>6. CASE WriteRefund(t)
  <2>1. rows[n].status = "PENDING" /\ rows'[n].amount = rows[n].amount
    BY <1>1, <1>6 DEF WriteRefund, LedgerInv, Row
  <2>2. Counted(rows)[n] = rows[n].amount
    BY <1>1, <2>1 DEF Counted, Standing
  <2>3. Counted(rows')[n] = IF rows'[n].status \in {"NONE", "FAILED"} THEN 0 ELSE rows[n].amount
    BY <1>1, <2>1 DEF Counted, Standing
  <2> QED
    BY <1>3, <1>4, <1>6, <2>1, <2>2, <2>3 DEF StoreRefund, WriteRefund
<1> QED
  BY <1>5, <1>6

\* Outside the section nothing is written, and inside it the task is alone.
LEMMA LedgerTask ==
  ASSUME OneInstance, Uninterrupted, IInv, ProviderInv', NEW t \in Tasks,
         IssueRefund(t) \/ ApplyResult(t) \/ Throw(t)
  PROVE  LedgerInv'
<1> USE DEF At
<1>0. /\ ProviderInv /\ TypeInv /\ CallInv(t) /\ LedgerInv
      /\ refunded \in Nat /\ Total(rows) \in Nat
  BY RefundsAssumption, CountedType DEF IInv, ProviderInv, TypeInv, TypeOK
<1>1. /\ \A u \in Tasks \ {t} : pc'[u] = pc[u] /\ req'[u] = req[u] /\ No(u)' = No(u)
      /\ pc[t] # "idle" /\ No(t) \in RefundNos
  BY <1>0, TaskMoves, Numbered DEF No
<1>2. rows' # rows => StoreRefund(t) \/ WriteRefund(t)
  BY DEF IssueRefund, ApplyResult, Throw, RefundRefused, RefundChecked, ProviderAnswers,
         ProviderRefuses, StoreDuplicate, Reserve, ResultUnknown, ResultFound, ResultIgnored,
         ResultAwaited, ReadOwner, WriteOwner, dbVars
<1>3. rows' = rows => Total(rows)' = Total(rows)
  BY DEF Total, Counted, Standing
<1>4. CASE pc[t] \notin InLock
  <2>1. /\ rows' = rows /\ UNCHANGED <<status, refunded>>
        /\ pc'[t] \in {"idle", "want"}
    BY <1>0, <1>2, <1>4, TaskMoves DEF StoreRefund, WriteRefund, InLock
  <2>2. \A u \in Tasks : pc'[u] \in InLock =>
          pc[u] = pc'[u] /\ req'[u] = req[u] /\ Unrecorded(u)' = Unrecorded(u)
    BY <1>1, <2>1 DEF Unrecorded, InLock
  <2>3. Idle' => Idle
    BY <1>1, <1>4 DEF Idle
  <2> QED
    BY <1>0, <1>1, <1>3, <2>1, <2>2, <2>3 DEF LedgerInv, InLock
<1>5. CASE pc[t] \in InLock
  <2>1. \A u \in Tasks \ {t} : pc'[u] \notin InLock
    BY <1>1, <1>5, Exclusive DEF IInv, SectionInv
  <2>2. Total(rows) = refunded + Unrecorded(t)
    BY <1>0, <1>5 DEF LedgerInv
  <2>3. ~Idle'  <=> pc'[t] \in InLock
    BY <2>1 DEF Idle
  <2>4. SUFFICES /\ pc'[t] \notin InLock => (Total(rows) = refunded)'
                 /\ pc'[t] \in InLock => (Total(rows) = refunded + Unrecorded(t))'
                 /\ pc'[t] = "writeRefund" => (rows[No(t)].status = "PENDING")'
                 /\ pc'[t] = "reserve" => req'[t].answer # "FAILED"
    BY <2>1, <2>3 DEF LedgerInv, InLock
  <2>5. \A label \in PC : Goto(t, label) => pc'[t] = label
    BY <1>0 DEF Goto, TypeInv, TypeOK
  <2>6. End(t) => pc'[t] = "idle"
    BY <2>5 DEF End, PC
  <2>7. CASE \/ RefundRefused(t) \/ ProviderRefuses(t) \/ StoreDuplicate(t) \/ ResultUnknown(t)
             \/ ResultIgnored(t) \/ Throw(t)
    <3>1. /\ End(t) /\ UNCHANGED <<rows, refunded>>
          /\ pc[t] \in BeforeEffects \cup {"store"}
      BY <2>7 DEF RefundRefused, ProviderRefuses, StoreDuplicate, ResultUnknown, ResultIgnored,
                  Throw, dbVars, Uninterrupted, BeforeEffects
    <3>2. Unrecorded(t) = 0
      BY <3>1 DEF Unrecorded, BeforeEffects
    <3> QED
      BY <1>0, <1>3, <2>2, <2>6, <3>1, <3>2 DEF InLock
  <2>8. CASE Reserve(t)
    <3>1. refunded' = refunded + req[t].amount /\ rows' = rows /\ End(t)
      BY <2>8 DEF Reserve, reserveRefund, IInv, SectionInv, CopyInv, Holding
    <3>2. Unrecorded(t) = req[t].amount
      BY <2>8 DEF Reserve, Unrecorded
    <3> QED
      BY <1>0, <1>3, <2>2, <2>6, <3>1, <3>2 DEF InLock
  <2>9. CASE WriteOwner(t)
    <3>1. /\ rows' = rows /\ End(t) /\ copy[t].refunded = refunded
          /\ rows[No(t)].status = provider[No(t)].status
          /\ rows[No(t)].status \in {"SUCCESS", "FAILED"} /\ rows[No(t)].amount \in Nat
      BY <1>0, <1>1, <2>9, RefundsAssumption
      DEF WriteOwner, IInv, SectionInv, CopyInv, CallInv, RecordInv, ProviderInv, TypeInv, TypeOK, Row
    <3>2. Unrecorded(t) = IF rows[No(t)].status = "FAILED" THEN 0 - rows[No(t)].amount ELSE 0
      BY <2>9 DEF WriteOwner, Unrecorded
    <3>3. refunded' = Total(rows)
      BY <1>0, <2>2, <2>9, <3>1, <3>2 DEF WriteOwner, reserveRefund
    <3> QED
      BY <1>3, <2>6, <3>1, <3>3 DEF InLock
  <2>10. CASE StoreRefund(t)
    <3>1. Unrecorded(t) = 0 /\ UNCHANGED refunded
      BY <2>10 DEF StoreRefund, Unrecorded
    <3>2. CASE req[t].answer = "FAILED"
      <4>1. Total(rows)' = Total(rows)
        BY <1>0, <2>10, <3>2, RowWrite
      <4>2. pc'[t] = "idle"
        BY <2>6, <2>10, <3>2 DEF StoreRefund
      <4> QED
        BY <1>0, <2>2, <3>1, <4>1, <4>2 DEF InLock
    <3>3. CASE req[t].answer # "FAILED"
      <4>1. pc'[t] = "reserve" /\ req' = req
        BY <2>5, <2>10, <3>3 DEF StoreRefund, PC
      <4>2. Unrecorded(t)' = req[t].amount
        BY <4>1 DEF Unrecorded
      <4> QED
        BY <1>0, <2>2, <2>10, <3>1, <3>3, <4>1, <4>2, RowWrite DEF InLock
    <3> QED
      BY <3>2, <3>3
  <2>11. CASE WriteRefund(t)
    <3>1. /\ Unrecorded(t) = 0 /\ UNCHANGED refunded /\ pc'[t] = "readOwner"
          /\ No(t)' = No(t)
      BY <2>5, <2>11 DEF WriteRefund, Unrecorded, PC, No
    <3>2. rows'[No(t)].status \in {"SUCCESS", "FAILED"}
      BY <3>1 DEF ProviderInv, CallInv
    <3>3. Unrecorded(t)' = IF rows'[No(t)].status = "FAILED" THEN 0 - rows'[No(t)].amount ELSE 0
      BY <3>1 DEF Unrecorded
    <3>4. rows'[No(t)].amount \in Nat
      BY <1>1, RefundsAssumption DEF ProviderInv, TypeInv, TypeOK, Row
    <3> QED
      BY <1>0, <2>2, <2>11, <3>1, <3>2, <3>3, <3>4, RowWrite DEF InLock
  <2>12. CASE RefundChecked(t) \/ ProviderAnswers(t)
    <3>1. /\ UNCHANGED <<rows, refunded>> /\ pc'[t] \in {"refund", "store"}
          /\ pc[t] \in {"readOrder", "refund"}
      BY <2>5, <2>12 DEF RefundChecked, ProviderAnswers, PC, dbVars
    <3>2. Unrecorded(t) = 0 /\ Unrecorded(t)' = 0
      BY <3>1 DEF Unrecorded
    <3> QED
      BY <1>3, <2>2, <3>1, <3>2 DEF InLock
  <2>13. CASE ResultFound(t) \/ ResultAwaited(t) \/ ReadOwner(t)
    <3>1. /\ UNCHANGED <<rows, refunded, req>> /\ No(t)' = No(t) /\ pc[t] # "findRefund"
          /\ \/ pc[t] = "readRefund" /\ pc'[t] = "writeRefund" /\ rows[No(t)].status = "PENDING"
             \/ pc[t] = "readOwner" /\ pc'[t] = "writeOwner"
      BY <1>5, <2>5, <2>13 DEF ResultFound, ResultAwaited, ReadOwner, PC, dbVars, InLock, No
    <3>2. Unrecorded(t)' = Unrecorded(t)
      BY <3>1 DEF Unrecorded
    <3> QED
      BY <1>3, <2>2, <3>1, <3>2 DEF InLock
  <2> QED
    BY <2>7, <2>8, <2>9, <2>10, <2>11, <2>12, <2>13 DEF IssueRefund, ApplyResult
<1> QED
  BY <1>4, <1>5

LEMMA BackedTask ==
  ASSUME Uninterrupted, IInv, ProviderInv', NEW t \in Tasks,
         IssueRefund(t) \/ ApplyResult(t) \/ Throw(t)
  PROVE  BackedInv'
<1> USE DEF At
<1>0. /\ ProviderInv /\ TypeInv /\ CallInv(t) /\ BackedInv
      /\ \A u \in Tasks \ {t} : pc'[u] = pc[u] /\ No(u)' = No(u)
      /\ pc[t] # "idle" /\ No(t) \in RefundNos
  BY TaskMoves, Numbered DEF IInv, ProviderInv, No
<1>1. SUFFICES ASSUME NEW n \in RefundNos, Standing(provider', n)
               PROVE  \/ Standing(rows', n)
                      \/ \E u \in Tasks : pc'[u] = "store" /\ No(u)' = n
  BY DEF BackedInv, Standing
<1>2. CASE ProviderAnswers(t)
  <2>1. /\ rows' = rows /\ pc'[t] = "store"
        /\ \A m \in RefundNos \ {No(t)} : provider'[m] = provider[m]
        /\ No(t)' = No(t)
    BY <1>0, <1>2 DEF ProviderAnswers, Goto, dbVars, TypeInv, TypeOK, No, TaskInv, Holding, Request
  <2>2. CASE n = No(t)
    BY <2>1, <2>2
  <2>3. CASE n # No(t)
    BY <1>0, <1>1, <2>1, <2>3 DEF BackedInv, Standing
  <2> QED
    BY <2>2, <2>3
<1>3. CASE ~ProviderAnswers(t)
  <2>1. provider' = provider
    BY <1>3 DEF IssueRefund, ApplyResult, Throw, RefundRefused, RefundChecked, ProviderRefuses,
       StoreRefund, StoreDuplicate, Reserve, ResultUnknown, ResultFound, ResultIgnored,
       ResultAwaited, WriteRefund, ReadOwner, WriteOwner, envVars
  <2>2. Standing(rows, n) => Standing(rows', n)
    <3>1. rows'[n] # rows[n] => StoreRefund(t) \/ WriteRefund(t)
      BY DEF IssueRefund, ApplyResult, Throw, RefundRefused, RefundChecked, ProviderAnswers,
         ProviderRefuses, StoreDuplicate, Reserve, ResultUnknown, ResultFound, ResultIgnored,
         ResultAwaited, ReadOwner, WriteOwner, dbVars
    <3>2. StoreRefund(t) => rows'[n] = rows[n] \/ rows[n] = NoRow
      BY <1>0 DEF StoreRefund, TypeInv, TypeOK
    <3>3. WriteRefund(t) => rows'[n] = rows[n] \/ rows'[n].status = provider[n].status
      BY <1>0 DEF WriteRefund, TypeInv, TypeOK, Row
    <3> QED
      BY <1>1, <2>1, <3>1, <3>2, <3>3 DEF Standing, NoRow
  <2>3. CASE \E u \in Tasks \ {t} : pc[u] = "store" /\ No(u) = n
    BY <1>0, <2>3
  <2>4. CASE pc[t] = "store" /\ No(t) = n
    <3>1. StoreRefund(t) \/ StoreDuplicate(t)
      BY <2>4 DEF IssueRefund, ApplyResult, Throw, RefundRefused, RefundChecked, ProviderAnswers,
         ProviderRefuses, Reserve, ResultUnknown, ResultFound, ResultIgnored,
         ResultAwaited, WriteRefund, ReadOwner, WriteOwner, Uninterrupted, BeforeEffects
    <3>2. CASE StoreRefund(t)
      <4>1. rows'[n].status = req[t].answer
        BY <1>0, <2>4, <3>2 DEF StoreRefund, TypeInv, TypeOK
      <4>2. req[t].answer \notin {"NONE", "FAILED"}
        BY <1>0, <1>1, <2>1, <2>4 DEF CallInv, RefundStatus, Standing
      <4> QED
        BY <4>1, <4>2 DEF Standing
    <3>3. CASE StoreDuplicate(t)
      <4>1. rows' = rows /\ rows[n] # NoRow
        BY <2>4, <3>3 DEF StoreDuplicate, dbVars
      <4> QED
        BY <1>0, <1>1, <2>1, <4>1 DEF ProviderInv, RecordInv, Standing
    <3> QED
      BY <3>1, <3>2, <3>3
  <2> QED
    BY <1>0, <1>1, <2>1, <2>2, <2>3, <2>4 DEF BackedInv, Standing
<1> QED
  BY <1>2, <1>3

LEMMA InitInv == Init => IInv
<1> SUFFICES ASSUME Init PROVE LedgerInv /\ BackedInv
  BY InitProvider, InitSection DEF IInv
<1>1. Counted(rows) = [n \in RefundNos |-> 0]
  BY DEF Init, Counted, Standing, NoRow
<1>2. Total(rows) = 0
  BY <1>1, RefundsAssumption, SumZero DEF Total
<1> QED
  BY <1>2 DEF Init, LedgerInv, BackedInv, Standing, NoRow, InLock

LEMMA NextInv ==
  ASSUME OneInstance, Uninterrupted
  PROVE  IInv /\ [Next]_vars => IInv'
<1> SUFFICES ASSUME IInv, [Next]_vars PROVE LedgerInv' /\ BackedInv'
  BY NextProvider, NextSection DEF IInv
<1> USE DEF At
<1>0. /\ TypeInv /\ ProviderInv /\ ProviderInv' /\ LedgerInv /\ BackedInv
  BY NextProvider DEF IInv, ProviderInv
<1>1. ASSUME NEW t \in Tasks, IssueRefund(t) \/ ApplyResult(t) \/ Throw(t)
      PROVE  LedgerInv' /\ BackedInv'
  BY <1>0, <1>1, LedgerTask, BackedTask
<1>2. ASSUME NEW t \in Tasks, Acquire(t) PROVE LedgerInv' /\ BackedInv'
  <2>1. /\ pc'[t] \in {"readOrder", "readRefund"} /\ pc[t] = "want"
        /\ \A u \in Tasks \ {t} : pc'[u] = pc[u]
        /\ UNCHANGED <<refunded, rows, req, provider>>
        /\ lock[InstanceOf[t]] = NoTask
    BY <1>0, <1>2, RefundsAssumption DEF Acquire, Goto, TypeInv, TypeOK, dbVars, envVars
  <2>2. \A u \in Tasks : pc[u] \notin InLock
    BY <2>1, RefundsAssumption DEF IInv, SectionInv, LockInv, OneInstance
  <2>3. Total(rows)' = Total(rows) /\ Unrecorded(t)' = 0
    BY <2>1 DEF Total, Counted, Standing, Unrecorded
  <2>4. Total(rows) = refunded /\ refunded \in Nat
    BY <1>0, <2>2, RefundsAssumption DEF LedgerInv, Idle, TypeInv, TypeOK
  <2>5. LedgerInv'
    BY <2>1, <2>2, <2>3, <2>4 DEF LedgerInv, Idle, InLock
  <2>6. BackedInv'
    BY <1>0, <2>1 DEF BackedInv, Standing, No
  <2> QED
    BY <2>5, <2>6
<1>3. ASSUME NEW t \in Tasks, NEW n \in RefundNos,
             (\E a \in Asked : StartRefund(t, n, a)) \/ DeliverResult(t, n)
      PROVE  LedgerInv' /\ BackedInv'
  <2>1. /\ pc'[t] \in {"want", "findRefund"} /\ pc[t] = "idle"
        /\ \A u \in Tasks \ {t} : pc'[u] = pc[u] /\ req'[u] = req[u] /\ No(u)' = No(u)
        /\ UNCHANGED <<refunded, rows, provider>>
    BY <1>0, <1>3 DEF StartRefund, DeliverResult, Begin, Goto, TypeInv, TypeOK, dbVars, envVars, No
  <2>2. Total(rows)' = Total(rows) /\ \A u \in Tasks \ {t} : Unrecorded(u)' = Unrecorded(u)
    BY <2>1 DEF Total, Counted, Standing, Unrecorded
  <2>3. LedgerInv'
    BY <1>0, <2>1, <2>2 DEF LedgerInv, Idle, InLock
  <2>4. BackedInv'
    BY <1>0, <2>1 DEF BackedInv, Standing
  <2> QED
    BY <2>3, <2>4
<1>4. ASSUME NEW n \in RefundNos, ProviderSettles(n) PROVE LedgerInv' /\ BackedInv'
  <2>1. /\ UNCHANGED <<refunded, rows, pc, req>>
        /\ \A m \in RefundNos : provider'[m].status # provider[m].status => Standing(provider, m)
    BY <1>0, <1>4 DEF ProviderSettles, dbVars, taskVars, TypeInv, TypeOK, Standing
  <2>2. Total(rows)' = Total(rows) /\ \A u \in Tasks : Unrecorded(u)' = Unrecorded(u)
    BY <2>1 DEF Total, Counted, Standing, Unrecorded, No
  <2>3. LedgerInv'
    BY <1>0, <2>1, <2>2 DEF LedgerInv, Idle, No
  <2>4. BackedInv'
    BY <1>0, <2>1 DEF BackedInv, Standing, No
  <2> QED
    BY <2>3, <2>4
<1>5. ASSUME NEW i \in Instances, Crash(i) PROVE LedgerInv' /\ BackedInv'
  <2>1. /\ UNCHANGED <<refunded, rows, provider>>
        /\ \A u \in Tasks : pc'[u] = "idle" /\ pc[u] \in BeforeEffects \cup {"idle"}
    BY <1>0, <1>5 DEF Crash, dbVars, envVars, OneInstance, Uninterrupted, TypeInv, TypeOK
  <2>2. Total(rows) = refunded
    <3>1. \A u \in Tasks : Unrecorded(u) = 0
      BY <2>1 DEF Unrecorded, BeforeEffects
    <3>2. refunded \in Nat
      BY <1>0, RefundsAssumption DEF TypeInv, TypeOK
    <3> QED
      BY <1>0, <3>1, <3>2 DEF LedgerInv, Idle
  <2>3. Total(rows)' = Total(rows)
    BY <2>1 DEF Total, Counted, Standing
  <2>4. LedgerInv'
    BY <2>1, <2>2, <2>3 DEF LedgerInv, InLock
  <2>5. BackedInv'
    BY <1>0, <2>1 DEF BackedInv, Standing, BeforeEffects
  <2> QED
    BY <2>4, <2>5
<1>6. CASE (\E n \in RefundNos : DeliverResultAgain(n) \/ SweepResult(n)) \/ UNCHANGED vars
  <2>1. UNCHANGED <<refunded, rows, provider, pc, req>>
    BY <1>6 DEF DeliverResultAgain, SweepResult, vars, dbVars, taskVars, envVars
  <2>2. Total(rows)' = Total(rows) /\ \A u \in Tasks : Unrecorded(u)' = Unrecorded(u)
    BY <2>1 DEF Total, Counted, Standing, Unrecorded, No
  <2> QED
    BY <1>0, <2>1, <2>2 DEF LedgerInv, BackedInv, Standing, Idle, No
<1> QED
  BY <1>1, <1>2, <1>3, <1>4, <1>5, <1>6 DEF Next

LEMMA Invariant ==
  ASSUME OneInstance, Uninterrupted
  PROVE  Spec => []IInv
BY InitInv, NextInv, PTL DEF Spec

\* Between handlers the order's refundedAmount is the sum of its refunds that
\* have not failed, and reconciliation reports nothing about them.
THEOREM LedgerIsExact ==
  ASSUME OneInstance, Uninterrupted
  PROVE  Spec => []LedgerMatchesRefunds
<1>1. IInv => LedgerMatchesRefunds
  BY RefundsAssumption
  DEF IInv, LedgerInv, LedgerMatchesRefunds, checkOrder, ProviderInv, TypeInv, TypeOK
<1> QED
  BY <1>1, Invariant, PTL

\* What the provider holds is what the table holds, but for the refund a task is
\* about to store.
LEMMA ProviderTotal ==
  ASSUME OneInstance, IInv
  PROVE  Total(provider) <= Amount
<1>1. /\ ProviderInv /\ LedgerInv /\ BackedInv
      /\ rows \in [RefundNos -> Row] /\ provider \in [RefundNos -> Row]
      /\ refunded \in 0..Amount /\ Amount \in Nat
  BY RefundsAssumption DEF IInv, ProviderInv, TypeInv, TypeOK
<1>2. \A n \in RefundNos : Standing(provider, n) /\ Standing(rows, n) =>
        rows[n].amount = provider[n].amount
  <2> SUFFICES ASSUME NEW n \in RefundNos, Standing(provider, n), Standing(rows, n)
               PROVE  rows[n].amount = provider[n].amount
    OBVIOUS
  <2>1. RecordInv(n) /\ rows[n].status \in {"PENDING", "SUCCESS", "MANUAL"}
    BY <1>1 DEF ProviderInv, Standing, Row, RefundStatus
  <2> QED
    BY <2>1 DEF RecordInv, Standing
<1>3. /\ Counted(rows) \in [RefundNos -> Int] /\ Counted(provider) \in [RefundNos -> Int]
      /\ \A n \in RefundNos : Counted(rows)[n] >= 0
      /\ Total(rows) \in Nat /\ Total(provider) \in Nat
  BY <1>1, CountedType
<1>4. ASSUME NEW t \in Tasks, pc[t] = "store"
      PROVE  Total(provider) <= Amount
  <2> DEFINE n == No(t)
             a == req[t].amount
  <2>1. /\ n \in RefundNos /\ a \in 1..(Amount - refunded)
        /\ Total(rows) = refunded
    <3>1. Unrecorded(t) = 0
      BY <1>4 DEF Unrecorded
    <3> QED
      BY <1>1, <1>4, <3>1, Numbered
      DEF LedgerInv, InLock, ProviderInv, IInv, SectionInv, CopyInv, TypeInv, TaskInv, Holding
  <2>2. \A u \in Tasks : pc[u] = "store" => u = t
    BY <1>4, Exclusive DEF IInv, SectionInv, InLock
  <2>3. Standing(provider, n) => provider[n].amount = a
    <3>1. CallInv(t) /\ RecordInv(n)
      BY <1>1, <2>1 DEF ProviderInv
    <3> QED
      BY <1>4, <3>1 DEF CallInv, RecordInv, Standing
  \* The table with the refund already stored.
  <2> DEFINE sum == [m \in RefundNos |-> IF m = n /\ ~Standing(rows, n) THEN a ELSE Counted(rows)[m]]
  <2>4. sum \in [RefundNos -> Int] /\ \A m \in RefundNos \ {n} : Counted(rows)[m] = sum[m]
    BY <1>3, <2>1
  <2>5. SumFunction(sum) = Total(rows) - Counted(rows)[n] + sum[n]
    <3> HIDE DEF sum
    <3> QED
      BY <1>3, <2>1, <2>4, RefundsAssumption, SumUpdate DEF Total
  <2>6. SumFunction(sum) <= Amount
    <3>1. CASE Standing(rows, n)
      BY <1>1, <1>3, <2>1, <2>5, <3>1
    <3>2. CASE ~Standing(rows, n)
      BY <1>1, <1>3, <2>1, <2>5, <3>2 DEF Counted
    <3> QED
      BY <3>1, <3>2
  <2>7. \A m \in RefundNos : Counted(provider)[m] <= sum[m]
    <3> SUFFICES ASSUME NEW m \in RefundNos PROVE Counted(provider)[m] <= sum[m]
      OBVIOUS
    <3>1. CASE ~Standing(provider, m)
      BY <1>3, <2>1, <3>1 DEF Counted
    <3>2. CASE Standing(provider, m) /\ Standing(rows, m)
      BY <1>2, <1>3, <3>2 DEF Counted
    <3>3. CASE Standing(provider, m) /\ ~Standing(rows, m)
      <4>1. m = n
        BY <1>1, <2>2, <3>3 DEF BackedInv
      <4> QED
        BY <2>1, <2>3, <3>3, <4>1 DEF Counted
    <3> QED
      BY <3>1, <3>2, <3>3
  <2>8. /\ SumFunction(sum) = SumFunctionOnSet(sum, RefundNos)
        /\ Total(provider) = SumFunctionOnSet(Counted(provider), RefundNos)
    BY DEF SumFunction, Total, Counted
  <2> HIDE DEF sum
  <2>9. SumFunctionOnSet(Counted(provider), RefundNos) <= SumFunctionOnSet(sum, RefundNos)
    BY <1>3, <2>4, <2>7, RefundsAssumption, SumMonotone
  <2>10. SumFunctionOnSet(sum, RefundNos) \in Int
    BY <2>4, RefundsAssumption, SumRemove
  <2> QED
    BY <1>1, <1>3, <2>6, <2>8, <2>9, <2>10
<1>5. ASSUME \A t \in Tasks : pc[t] # "store"
      PROVE  Total(provider) <= Amount
  <2>1. \A n \in RefundNos : Counted(provider)[n] <= Counted(rows)[n]
    BY <1>1, <1>2, <1>3, <1>5 DEF BackedInv, Counted
  <2>2. /\ Total(rows) = SumFunctionOnSet(Counted(rows), RefundNos)
        /\ Total(provider) = SumFunctionOnSet(Counted(provider), RefundNos)
    BY DEF SumFunction, Total, Counted
  <2>3. Total(provider) <= Total(rows)
    BY <1>3, <2>1, <2>2, RefundsAssumption, SumMonotone
  <2>4. Total(rows) <= Amount
    <3>1. CASE Idle
      BY <1>1, <3>1 DEF LedgerInv
    <3>2. ASSUME NEW t \in Tasks, pc[t] \in InLock
          PROVE  Total(rows) <= Amount
      <4>1. Total(rows) = refunded + Unrecorded(t)
        BY <1>1, <3>2 DEF LedgerInv
      <4>2. CASE pc[t] = "reserve"
        <5>1. req[t].amount \in 1..(Amount - refunded)
          BY <4>2 DEF IInv, SectionInv, CopyInv, TypeInv, TaskInv, Holding
        <5> QED
          BY <1>1, <4>1, <4>2, <5>1 DEF Unrecorded
      <4>3. CASE pc[t] # "reserve"
        <5>1. rows[No(t)].amount \in Nat
          BY <1>1, <3>2, Numbered DEF ProviderInv, InLock, Row
        <5> QED
          BY <1>1, <4>1, <4>3, <5>1 DEF Unrecorded
      <4> QED
        BY <4>2, <4>3
    <3> QED
      BY <3>1, <3>2 DEF Idle
  <2> QED
    BY <1>1, <1>3, <2>3, <2>4
<1> QED
  BY <1>4, <1>5

\* However refunds and results interleave, repeat and fail, the provider is never
\* asked for more than the order's amount.
THEOREM NoOverRefund ==
  ASSUME OneInstance, Uninterrupted
  PROVE  Spec => []NeverOverRefunded
<1>1. IInv => NeverOverRefunded
  BY ProviderTotal DEF NeverOverRefunded
<1> QED
  BY <1>1, Invariant, PTL

=============================================================================
