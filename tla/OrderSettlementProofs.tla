------------------------ MODULE OrderSettlementProofs ------------------------
(***************************************************************************)
(* Proofs about OrderSettlement for every set of orders, users, notices    *)
(* and tasks.  The type invariant holds under any parameters.  Exactly-once *)
(* credit and settlement against a full payment hold on one instance when  *)
(* createPayment is prompt; both hypotheses are necessary (the README's    *)
(* table of refuted changes).  That an acknowledged payment is applied and *)
(* nothing stays half settled needs, besides, that no await fails.         *)
(***************************************************************************)
EXTENDS OrderSettlement, TLAPS

-----------------------------------------------------------------------------
(* Type correctness *)

\* A task's request is one while the task runs, and withLock's finally block
\* writes a well-typed lock.
TypeInv == TypeOK /\ \A t \in Tasks : pc[t] # "idle" => req[t] \in Request

LEMMA BeginType ==
  ASSUME TypeInv, NEW t \in Tasks, NEW o, NEW n, NEW kind,
         [kind |-> kind, ord |-> o, note |-> n] \in Request,
         NEW at \in PC, Begin(t, kind, o, n, at)
  PROVE  /\ lock' \in [Instances -> [Orders -> Tasks \cup {NoTask}]]
         /\ pc' \in [Tasks -> PC]
         /\ req' \in [Tasks -> Request \cup {NoReq}]
         /\ snap' \in [Tasks -> Snapshot \cup {NoSub}]
         /\ \A u \in Tasks : pc'[u] # "idle" => req'[u] \in Request
  BY DEF TypeInv, TypeOK, Begin

LEMMA EndType ==
  ASSUME TypeInv, NEW t \in Tasks, pc[t] # "idle", End(t)
  PROVE  /\ lock' \in [Instances -> [Orders -> Tasks \cup {NoTask}]]
         /\ pc' \in [Tasks -> PC]
         /\ req' \in [Tasks -> Request \cup {NoReq}]
         /\ snap' \in [Tasks -> Snapshot \cup {NoSub}]
         /\ \A u \in Tasks : pc'[u] # "idle" => req'[u] \in Request
<1>1. InstanceOf[t] \in Instances /\ Ord(t) \in Orders
  BY SettlementAssumption DEF TypeInv, Ord, Request
<1>2. lock' \in [Instances -> [Orders -> Tasks \cup {NoTask}]]
  BY <1>1 DEF TypeInv, TypeOK, End, Released
<1>3. pc' \in [Tasks -> PC] /\ snap' \in [Tasks -> Snapshot \cup {NoSub}]
  BY DEF TypeInv, TypeOK, End, Goto, PC
<1>4. req' \in [Tasks -> Request \cup {NoReq}]
  BY DEF TypeInv, TypeOK, End
<1>5. \A u \in Tasks : pc'[u] # "idle" => req'[u] \in Request
  BY DEF TypeInv, TypeOK, End, Goto
<1>6. QED
  BY <1>2, <1>3, <1>4, <1>5

\* What a running task may do to the database.
LEMMA StepType ==
  ASSUME TypeInv, NEW t \in Tasks, Step(t) \/ Acquire(t) \/ Throw(t)
  PROVE  TypeInv'
<1> DEFINE o == Ord(t)
<1> USE DEF At
<1>0. pc[t] # "idle" => InstanceOf[t] \in Instances /\ o \in Orders
                        /\ UserOf[o] \in Users
  BY SettlementAssumption DEF TypeInv, Ord, Request
<1>1. CASE CreateDone(t)
  BY <1>0, <1>1, EndType DEF TypeInv, TypeOK, CreateDone, seenVars, subVars, OrderStatus
<1>2. CASE CreateRejected(t)
  BY <1>0, <1>2, EndType DEF TypeInv, TypeOK, CreateRejected, seenVars, subVars, envVars, OrderStatus
<1>3. CASE QueryUnpaid(t)
  BY <1>0, <1>3, EndType DEF TypeInv, TypeOK, QueryUnpaid, dbVars, envVars
<1>4. CASE QueryPaid(t)
  BY <1>0, <1>4 DEF TypeInv, TypeOK, QueryPaid, Goto, PC, subVars, envVars
<1>5. CASE Settle(t)
  <2>1. CASE ApplyNothing(t)
    BY <1>0, <2>1, EndType DEF TypeInv, TypeOK, ApplyNothing, Applying, AckTrue, dbVars, Request
  <2>2. CASE ApplyRefused(t)
    BY <1>0, <2>2, EndType DEF TypeInv, TypeOK, ApplyRefused, Applying, dbVars, envVars
  <2>3. CASE ApplyAccept(t)
    BY <1>0, <2>3 DEF TypeInv, TypeOK, ApplyAccept, Applying, Goto, PC, dbVars, envVars
  <2>4. CASE MarkPaid(t)
    BY <1>0, <2>4 DEF TypeInv, TypeOK, MarkPaid, Goto, PC, seenVars, subVars, envVars, OrderStatus
  <2>5. CASE FindSubscription(t)
    BY <1>0, <2>5 DEF TypeInv, TypeOK, FindSubscription, InForce, Current, Goto, PC, dbVars, envVars, Snapshot
  <2>6. CASE ExtendSubscription(t)
    BY <1>0, <2>6 DEF TypeInv, TypeOK, ExtendSubscription, Grant, Goto, PC, seenVars, envVars, Snapshot
  <2>7. CASE CreateSubscription(t)
    BY <1>0, <2>7 DEF TypeInv, TypeOK, CreateSubscription, Grant, Goto, PC, seenVars, envVars
  <2>8. CASE CreateConflict(t)
    BY <1>0, <2>8, EndType DEF TypeInv, TypeOK, CreateConflict, dbVars, envVars
  <2>9. CASE MarkFulfilled(t)
    BY <1>0, <2>9 DEF TypeInv, TypeOK, MarkFulfilled, Goto, PC, seenVars, subVars, envVars, OrderStatus
  <2>10. CASE Announce(t)
    BY <1>0, <2>10, EndType DEF TypeInv, TypeOK, Announce, AckTrue, seenVars, subVars, Request
  <2> QED
    BY <1>5, <2>1, <2>2, <2>3, <2>4, <2>5, <2>6, <2>7, <2>8, <2>9, <2>10 DEF Settle
<1>6. CASE Expire(t)
  <2>1. CASE ExpireSkip(t)
    BY <1>0, <2>1, EndType DEF TypeInv, TypeOK, ExpireSkip, dbVars, envVars
  <2>2. CASE ExpireRead(t)
    BY <1>0, <2>2 DEF TypeInv, TypeOK, ExpireRead, Goto, PC, dbVars, envVars
  <2>3. CASE ExpireWrite(t)
    BY <1>0, <2>3, EndType DEF TypeInv, TypeOK, ExpireWrite, seenVars, subVars, envVars, OrderStatus
  <2> QED
    BY <1>6, <2>1, <2>2, <2>3 DEF Expire
<1>7. CASE Acquire(t)
  BY <1>0, <1>7 DEF TypeInv, TypeOK, Acquire, Goto, PC, dbVars, envVars
<1>8. CASE Throw(t)
  BY <1>8, EndType DEF TypeInv, TypeOK, Throw, dbVars, envVars
<1> QED
  BY <1>1, <1>2, <1>3, <1>4, <1>5, <1>6, <1>7, <1>8 DEF Step

LEMMA StartType ==
  ASSUME TypeInv, NEW t \in Tasks, NEW o \in Orders,
         StartCreate(t, o) \/ StartSync(t, o) \/ StartExpire(t, o)
  PROVE  TypeInv'
<1>1. CASE StartCreate(t, o)
  BY <1>1, BeginType DEF TypeInv, TypeOK, Request, StartCreate, PC, seenVars, subVars, envVars, OrderStatus
<1>2. CASE StartSync(t, o)
  BY <1>2, BeginType DEF TypeInv, TypeOK, Request, StartSync, PC, dbVars, envVars
<1>3. CASE StartExpire(t, o)
  BY <1>3, BeginType DEF TypeInv, TypeOK, Request, StartExpire, PC, dbVars, envVars
<1> QED
  BY <1>1, <1>2, <1>3

LEMMA NextType == TypeInv /\ [Next]_vars => TypeInv'
<1> SUFFICES ASSUME TypeInv, [Next]_vars PROVE TypeInv'
  OBVIOUS
<1>1. ASSUME NEW t \in Tasks, Step(t) \/ Acquire(t) \/ Throw(t) PROVE TypeInv'
  BY <1>1, StepType
<1>2. ASSUME NEW t \in Tasks, NEW o \in Orders,
             StartCreate(t, o) \/ StartSync(t, o) \/ StartExpire(t, o)
      PROVE  TypeInv'
  BY <1>2, StartType
<1>3. ASSUME NEW t \in Tasks, NEW n \in Notices, Deliver(t, n) PROVE TypeInv'
  <2>1. NoticeOf[n] \in Orders
    BY SettlementAssumption
  <2> QED
    BY <1>3, <2>1, BeginType DEF TypeInv, TypeOK, Request, Deliver, PC, subVars, envVars
<1>4. ASSUME NEW n \in Notices, DeliverDuplicate(n) \/ SweepNotice(n) PROVE TypeInv'
  BY <1>4 DEF TypeInv, TypeOK, DeliverDuplicate, SweepNotice, dbVars, taskVars, envVars, subVars
<1>5. ASSUME NEW o \in Orders, RepeatCreate(o) \/ Elapse(o) \/ Pay(o) \/ SweepTxn(o)
      PROVE  TypeInv'
  BY <1>5 DEF TypeInv, TypeOK, RepeatCreate, Elapse, Pay, SweepTxn, dbVars, taskVars, envVars, subVars
<1>6. ASSUME NEW u \in Users, Lapse(u) PROVE TypeInv'
  BY <1>6 DEF TypeInv, TypeOK, Lapse, taskVars, envVars, seenVars
<1>7. ASSUME NEW i \in Instances, Crash(i) PROVE TypeInv'
  BY <1>7 DEF TypeInv, TypeOK, Crash, dbVars, envVars, PC
<1>8. CASE UNCHANGED vars
  BY <1>8 DEF TypeInv, TypeOK, vars, dbVars, taskVars, envVars
<1> QED
  BY <1>1, <1>2, <1>3, <1>4, <1>5, <1>6, <1>7, <1>8 DEF Next

LEMMA InitType == Init => TypeInv
  BY DEF Init, TypeInv, TypeOK, PC

\* Whatever the parameters, no await leaves the database, the locks, the tasks
\* or the environment outside their types.
THEOREM TypeCorrect == Spec => []TypeOK
<1>1. TypeInv => TypeOK
  BY DEF TypeInv
<1> QED
  BY <1>1, InitType, NextType, PTL DEF Spec

-----------------------------------------------------------------------------
(* Exactly-once credit on one instance *)

SingleInstance == \A t, u \in Tasks : InstanceOf[t] = InstanceOf[u]

\* A task inside withLock is the one the instance's locker has admitted.
LockInv == \A t \in Tasks : Held(t) => lock[InstanceOf[t]][Ord(t)] = t

\* While createPayment is awaited nothing else can have touched the order: it
\* was never offered, so nobody can have paid it, and a poll finds it unpaid.
CreatingInv ==
  \A t \in Tasks : pc[t] = "creating" =>
    /\ status[Ord(t)] = "PENDING"
    /\ Ord(t) \notin offered /\ Ord(t) \notin due
    /\ \A u \in Tasks : u # t /\ pc[u] # "idle" /\ Ord(u) = Ord(t) => pc[u] = "query"

\* Nothing happens to an order before it is stored.
UnopenedInv ==
  \A o \in Orders :
    /\ status[o] = "NONE" => o \notin offered /\ o \notin due /\ Idle(o)
    /\ paid[o] # "no" => o \in offered

\* Credits follow the status ...
CreditInv ==
  \A o \in Orders :
    /\ status[o] \in {"NONE", "PENDING", "EXPIRED", "FAILED"} => credits[o] = 0
    /\ status[o] = "PAID" => credits[o] \in {0, 1}
    /\ status[o] = "FULFILLED" => credits[o] = 1
    /\ status[o] \notin {"CANCELLED", "REFUNDED"}
    /\ status[o] \in {"PAID", "FULFILLED"} => paid[o] = "full"

\* ... and a task in applyPayment or expireStaleOrders knows them for its order.
SectionInv ==
  \A t \in Tasks :
    /\ pc[t] = "markPaid" => status[Ord(t)] = "PENDING" /\ paid[Ord(t)] = "full"
    /\ pc[t] \in {"findSub", "writeSub"} => status[Ord(t)] = "PAID" /\ credits[Ord(t)] = 0
    /\ pc[t] = "fulfil" => status[Ord(t)] = "PAID" /\ credits[Ord(t)] = 1
    /\ pc[t] = "emit" => status[Ord(t)] = "FULFILLED"
    /\ pc[t] = "expire" => status[Ord(t)] = "PENDING"

IInv == TypeInv /\ LockInv /\ CreatingInv /\ UnopenedInv /\ CreditInv /\ SectionInv

LEMMA Running ==
  ASSUME TypeInv, NEW t \in Tasks, pc[t] # "idle"
  PROVE  Ord(t) \in Orders /\ InstanceOf[t] \in Instances /\ pc[t] \in PC
  BY SettlementAssumption DEF TypeInv, TypeOK, Ord, Request

\* Two tasks inside withLock for one order are one task.
LEMMA Exclusive ==
  ASSUME SingleInstance, LockInv, NEW t \in Tasks, NEW u \in Tasks,
         Held(t), Held(u), Ord(t) = Ord(u)
  PROVE  t = u
  BY DEF SingleInstance, LockInv

\* Ending a task frees its own lock only and leaves the other tasks alone.
LEMMA EndFacts ==
  ASSUME SingleInstance, TypeInv, LockInv, NEW t \in Tasks, pc[t] # "idle", End(t)
  PROVE  /\ LockInv'
         /\ pc'[t] = "idle"
         /\ \A u \in Tasks : u # t => pc'[u] = pc[u] /\ req'[u] = req[u]
<1>1. pc'[t] = "idle" /\ \A u \in Tasks : u # t => pc'[u] = pc[u] /\ req'[u] = req[u]
  BY DEF TypeInv, TypeOK, End, Goto
<1>2. ASSUME NEW u \in Tasks, Held(u)' PROVE lock'[InstanceOf[u]][Ord(u)'] = u
  <2>1. u # t /\ Held(u) /\ Ord(u)' = Ord(u)
    BY <1>1, <1>2 DEF Held, InLock, Ord
  <2>2. lock[InstanceOf[u]][Ord(u)] = u
    BY <2>1 DEF LockInv
  <2>3. Held(t) => Ord(u) # Ord(t)
    BY <2>1, Exclusive
  <2>4. Ord(u) \in Orders /\ InstanceOf[u] \in Instances
    BY <2>1, Running DEF Held, InLock
  <2>5. Ord(t) \in Orders /\ InstanceOf[t] \in Instances
    BY Running
  <2> QED
    BY <2>1, <2>2, <2>3, <2>4, <2>5 DEF End, Released, TypeInv, TypeOK
<1> QED
  BY <1>1, <1>2 DEF LockInv

\* Moving to the next await of the same critical section keeps the lock.
LEMMA GotoFacts ==
  ASSUME TypeInv, LockInv, NEW t \in Tasks, NEW label, Goto(t, label),
         UNCHANGED <<lock, req>>, label \in InLock => Held(t)
  PROVE  /\ LockInv'
         /\ pc'[t] = label
         /\ \A u \in Tasks : u # t => pc'[u] = pc[u]
  BY DEF TypeInv, TypeOK, LockInv, Goto, Held, Ord

\* Beginning a task outside any lock.
LEMMA BeginFacts ==
  ASSUME TypeInv, LockInv, NEW t \in Tasks, NEW o, NEW n, NEW kind,
         NEW at, at \notin InLock, Begin(t, kind, o, n, at)
  PROVE  /\ LockInv'
         /\ pc[t] = "idle" /\ pc'[t] = at /\ Ord(t)' = o
         /\ \A u \in Tasks : u # t => pc'[u] = pc[u] /\ req'[u] = req[u]
<1>1. /\ pc[t] = "idle" /\ pc'[t] = at /\ Ord(t)' = o
      /\ \A u \in Tasks : u # t => pc'[u] = pc[u] /\ req'[u] = req[u]
  BY DEF TypeInv, TypeOK, Begin, Ord
<1>2. UNCHANGED lock
  BY DEF Begin
<1>3. LockInv'
  BY <1>1, <1>2 DEF LockInv, Held, Ord
<1> QED
  BY <1>1, <1>3

StateInv == CreatingInv /\ UnopenedInv /\ CreditInv /\ SectionInv

\* A task that ends, or moves on without writing an order, keeps what the
\* invariant says of the orders.
LEMMA EndInv ==
  ASSUME SingleInstance, IInv, NEW t \in Tasks, pc[t] # "idle", End(t),
         UNCHANGED <<status, credits, offered, due, paid>>
  PROVE  LockInv' /\ StateInv'
<1>1. /\ LockInv' /\ pc'[t] = "idle"
      /\ \A u \in Tasks : u # t => pc'[u] = pc[u] /\ req'[u] = req[u]
  BY EndFacts DEF IInv
<1>2. CreatingInv'
  BY <1>1 DEF IInv, CreatingInv, Ord
<1>3. UnopenedInv'
  BY <1>1 DEF IInv, UnopenedInv, Idle, Ord
<1>4. CreditInv'
  BY DEF IInv, CreditInv
<1>5. SectionInv'
  BY <1>1 DEF IInv, SectionInv, Ord
<1> QED
  BY <1>1, <1>2, <1>3, <1>4, <1>5 DEF StateInv

\* What moving to label must know of the task's order.
Knows(o, label) ==
  /\ label # "creating"
  /\ label = "markPaid" => status[o] = "PENDING" /\ paid[o] = "full"
  /\ label \in {"findSub", "writeSub"} => status[o] = "PAID" /\ credits[o] = 0
  /\ label = "fulfil" => status[o] = "PAID" /\ credits[o] = 1
  /\ label = "emit" => status[o] = "FULFILLED"
  /\ label = "expire" => status[o] = "PENDING"

\* Nobody is creating the order of a task that is past the unpaid poll.
LEMMA NotCreating ==
  ASSUME IInv, NEW t \in Tasks, pc[t] \notin {"idle", "query", "creating"}
  PROVE  \A u \in Tasks : pc[u] = "creating" => Ord(u) # Ord(t)
  BY DEF IInv, CreatingInv

LEMMA GotoInv ==
  ASSUME IInv, NEW t \in Tasks, pc[t] \notin {"idle", "creating"}, NEW label,
         Goto(t, label), label # "idle", UNCHANGED req, LockInv',
         Knows(Ord(t), label),
         \A u \in Tasks : pc[u] = "creating" => Ord(u) # Ord(t),
         UNCHANGED <<status, credits, offered, due, paid>>
  PROVE  StateInv'
<1>1. /\ pc'[t] = label /\ \A u \in Tasks : Ord(u)' = Ord(u)
      /\ \A u \in Tasks : u # t => pc'[u] = pc[u]
  BY DEF IInv, TypeInv, TypeOK, Goto, Ord
<1>2. CreatingInv'
  BY <1>1 DEF IInv, CreatingInv, Knows
<1>3. UnopenedInv'
  BY <1>1 DEF IInv, UnopenedInv, Idle
<1>4. CreditInv'
  BY DEF IInv, CreditInv
<1>5. SectionInv'
  BY <1>1 DEF IInv, SectionInv, Knows
<1> QED
  BY <1>2, <1>3, <1>4, <1>5 DEF StateInv

\* The steps of a task that only read orders.
LEMMA ReadingStep ==
  ASSUME SingleInstance, IInv, NEW t \in Tasks,
         \/ QueryUnpaid(t) \/ QueryPaid(t) \/ Acquire(t) \/ Throw(t)
         \/ ApplyNothing(t) \/ ApplyRefused(t) \/ ApplyAccept(t)
         \/ FindSubscription(t) \/ CreateConflict(t) \/ Announce(t)
         \/ ExpireSkip(t) \/ ExpireRead(t)
  PROVE  LockInv' /\ StateInv'
<1> USE DEF At
<1>1. ASSUME QueryUnpaid(t) \/ Throw(t) \/ ApplyNothing(t) \/ ApplyRefused(t)
             \/ CreateConflict(t) \/ Announce(t) \/ ExpireSkip(t)
      PROVE  LockInv' /\ StateInv'
  <2>1. /\ pc[t] # "idle" /\ End(t)
        /\ UNCHANGED <<status, credits, offered, due, paid>>
    BY <1>1 DEF QueryUnpaid, Throw, ApplyNothing, ApplyRefused, Applying, CreateConflict,
                Announce, ExpireSkip, dbVars, envVars
  <2> QED
    BY <2>1, EndInv
<1>2. CASE QueryPaid(t)
  <2>1. LockInv'
    BY <1>2, GotoFacts DEF IInv, QueryPaid, InLock
  <2>2. \A u \in Tasks : pc[u] = "creating" => Ord(u) # Ord(t)
    BY <1>2, Running DEF IInv, QueryPaid, CreatingInv, UnopenedInv
  <2> QED
    BY <1>2, <2>1, <2>2, GotoInv DEF QueryPaid, Knows, envVars
<1>3. CASE Acquire(t)
  <2>1. Ord(t) \in Orders /\ InstanceOf[t] \in Instances
    BY <1>3, Running DEF IInv, Acquire
  <2>2. LockInv'
    <3> SUFFICES ASSUME NEW u \in Tasks, Held(u)' PROVE lock'[InstanceOf[u]][Ord(u)'] = u
      BY DEF LockInv
    <3>1. Ord(u)' = Ord(u)
      BY <1>3 DEF Acquire, Ord
    <3>2. CASE u = t
      BY <1>3, <2>1, <3>1, <3>2 DEF Acquire, IInv, TypeInv, TypeOK
    <3>3. CASE u # t
      <4>1. Held(u) /\ pc[u] # "idle"
        BY <1>3, <3>3 DEF Acquire, Goto, Held, InLock, IInv, TypeInv, TypeOK
      <4>2. lock[InstanceOf[u]][Ord(u)] = u
        BY <4>1 DEF IInv, LockInv
      <4>3. Ord(u) # Ord(t)
        BY <1>3, <4>2, SettlementAssumption DEF Acquire, SingleInstance
      <4>4. Ord(u) \in Orders /\ InstanceOf[u] \in Instances
        BY <4>1, Running DEF IInv
      <4> QED
        BY <1>3, <2>1, <3>1, <4>2, <4>3, <4>4 DEF Acquire, IInv, TypeInv, TypeOK
    <3> QED
      BY <3>2, <3>3
  <2> QED
    BY <1>3, <2>2, GotoInv, NotCreating DEF Acquire, Knows, dbVars, envVars
<1>4. CASE ApplyAccept(t)
  <2>1. LockInv'
    BY <1>4, GotoFacts DEF IInv, ApplyAccept, Applying, Held, InLock
  <2> QED
    BY <1>4, <2>1, GotoInv, NotCreating DEF ApplyAccept, Applying, Knows, dbVars, envVars
<1>5. CASE FindSubscription(t)
  <2>1. LockInv'
    BY <1>5, GotoFacts DEF IInv, FindSubscription, Held, InLock
  <2>2. Knows(Ord(t), "writeSub")
    BY <1>5 DEF FindSubscription, Knows, IInv, SectionInv
  <2> QED
    BY <1>5, <2>1, <2>2, GotoInv, NotCreating DEF FindSubscription, dbVars, envVars
<1>6. CASE ExpireRead(t)
  <2>1. LockInv'
    BY <1>6, GotoFacts DEF IInv, ExpireRead, Held, InLock
  <2> QED
    BY <1>6, <2>1, GotoInv, NotCreating DEF ExpireRead, Knows, dbVars, envVars
<1> QED
  BY <1>1, <1>2, <1>3, <1>4, <1>5, <1>6

\* A critical section that writes its own order: every other task that relies on
\* the order's status or credits is outside the section.
LEMMA Alone ==
  ASSUME SingleInstance, IInv, NEW t \in Tasks, Held(t)
  PROVE  /\ Ord(t) \in Orders /\ pc[t] # "idle"
         /\ \A u \in Tasks : u # t /\ Ord(u) = Ord(t) => ~Held(u) /\ pc[u] # "creating"
<1>1. pc[t] \notin {"idle", "query", "creating"}
  BY DEF Held, InLock
<1>2. \A u \in Tasks : pc[u] = "creating" => Ord(u) # Ord(t)
  BY <1>1, NotCreating
<1>3. \A u \in Tasks : u # t /\ Ord(u) = Ord(t) => ~Held(u)
  BY Exclusive DEF IInv
<1>4. Ord(t) \in Orders
  BY <1>1, Running DEF IInv
<1> QED
  BY <1>1, <1>2, <1>3, <1>4

\* The steps of applyPayment and fulfillOrder that write.
LEMMA WritingStep ==
  ASSUME SingleInstance, IInv, NEW t \in Tasks,
         \/ MarkPaid(t) \/ ExtendSubscription(t) \/ CreateSubscription(t)
         \/ MarkFulfilled(t)
  PROVE  LockInv' /\ StateInv'
<1> USE DEF At
<1> DEFINE o == Ord(t)
<1>1. /\ Held(t) /\ UNCHANGED <<lock, req, offered, due, paid>>
      /\ \E label \in {"findSub", "fulfil", "emit"} : Goto(t, label)
  BY DEF MarkPaid, ExtendSubscription, CreateSubscription, MarkFulfilled, Held, InLock, envVars
<1>2. /\ o \in Orders /\ pc[t] # "idle"
      /\ \A u \in Tasks : u # t /\ Ord(u) = o => ~Held(u) /\ pc[u] # "creating"
  BY <1>1, Alone
<1>3. /\ \A u \in Tasks : Ord(u)' = Ord(u)
      /\ \A u \in Tasks : u # t => pc'[u] = pc[u]
      /\ pc'[t] \in {"findSub", "fulfil", "emit"}
  BY <1>1 DEF Goto, Ord, IInv, TypeInv, TypeOK
<1>4. LockInv'
  BY <1>1, GotoFacts DEF IInv
<1>5. /\ \A p \in Orders : p # o => status'[p] = status[p] /\ credits'[p] = credits[p]
      /\ \/ /\ status[o] = "PENDING" /\ status'[o] = "PAID" /\ paid[o] = "full"
            /\ credits'[o] = credits[o] /\ pc'[t] = "findSub"
         \/ /\ status[o] = "PAID" /\ status'[o] = "PAID"
            /\ credits[o] = 0 /\ credits'[o] = 1 /\ pc'[t] = "fulfil"
         \/ /\ status[o] = "PAID" /\ status'[o] = "FULFILLED"
            /\ credits[o] = 1 /\ credits'[o] = 1 /\ pc'[t] = "emit"
  <2>1. CASE MarkPaid(t)
    BY <1>2, <2>1 DEF MarkPaid, Goto, IInv, TypeInv, TypeOK, SectionInv
  <2>2. CASE ExtendSubscription(t) \/ CreateSubscription(t)
    BY <1>2, <2>2 DEF ExtendSubscription, CreateSubscription, Grant, Goto, IInv, TypeInv, TypeOK, SectionInv
  <2>3. CASE MarkFulfilled(t)
    BY <1>2, <2>3 DEF MarkFulfilled, Goto, IInv, TypeInv, TypeOK, SectionInv
  <2> QED
    BY <2>1, <2>2, <2>3
<1>6. CreatingInv'
  BY <1>1, <1>2, <1>3, <1>5, Running DEF IInv, CreatingInv
<1>7. UnopenedInv'
  BY <1>1, <1>2, <1>3, <1>5 DEF IInv, UnopenedInv, Idle
<1>8. CreditInv'
  BY <1>1, <1>2, <1>5 DEF IInv, CreditInv
<1>9. SectionInv'
  <2> SUFFICES ASSUME NEW u \in Tasks, Held(u)'
               PROVE  /\ pc'[u] = "markPaid" => status'[Ord(u)'] = "PENDING" /\ paid'[Ord(u)'] = "full"
                      /\ pc'[u] \in {"findSub", "writeSub"} => status'[Ord(u)'] = "PAID" /\ credits'[Ord(u)'] = 0
                      /\ pc'[u] = "fulfil" => status'[Ord(u)'] = "PAID" /\ credits'[Ord(u)'] = 1
                      /\ pc'[u] = "emit" => status'[Ord(u)'] = "FULFILLED"
                      /\ pc'[u] = "expire" => status'[Ord(u)'] = "PENDING"
    BY DEF SectionInv, Held, InLock
  <2>1. CASE u = t
    BY <1>2, <1>3, <1>5, <2>1 DEF IInv, CreditInv
  <2>2. CASE u # t
    <3>1. Held(u) /\ Ord(u)' = Ord(u) /\ Ord(u) # o /\ Ord(u) \in Orders
      BY <1>2, <1>3, <2>2, Running DEF Held, InLock, IInv
    <3> QED
      BY <1>1, <1>3, <1>5, <2>2, <3>1 DEF IInv, SectionInv
  <2> QED
    BY <2>1, <2>2
<1> QED
  BY <1>4, <1>6, <1>7, <1>8, <1>9 DEF StateInv

LEMMA ExpireWriteInv ==
  ASSUME SingleInstance, IInv, NEW t \in Tasks, ExpireWrite(t)
  PROVE  LockInv' /\ StateInv'
<1> DEFINE o == Ord(t)
<1>1. pc[t] = "expire" /\ Held(t) /\ End(t) /\ UNCHANGED <<credits, offered, due, paid>>
  BY DEF ExpireWrite, At, Held, InLock, envVars
<1>2. /\ o \in Orders
      /\ \A u \in Tasks : u # t /\ Ord(u) = o => ~Held(u) /\ pc[u] # "creating"
  BY <1>1, Alone
<1>3. /\ LockInv' /\ pc'[t] = "idle"
      /\ \A u \in Tasks : u # t => pc'[u] = pc[u] /\ req'[u] = req[u]
  BY <1>1, EndFacts DEF IInv
<1>4. /\ status[o] = "PENDING" /\ status'[o] = "EXPIRED"
      /\ \A p \in Orders : p # o => status'[p] = status[p]
  BY <1>1, <1>2 DEF ExpireWrite, IInv, TypeInv, TypeOK, SectionInv
<1>5. CreatingInv'
  BY <1>1, <1>2, <1>3, <1>4, Running DEF IInv, CreatingInv, Ord
<1>6. UnopenedInv'
  BY <1>1, <1>3, <1>4 DEF IInv, UnopenedInv, Idle, Ord
<1>7. CreditInv'
  BY <1>1, <1>2, <1>4 DEF IInv, CreditInv
<1>8. SectionInv'
  <2> SUFFICES ASSUME NEW u \in Tasks, u # t, Held(u), Ord(u)' = Ord(u), pc'[u] = pc[u]
               PROVE  status'[Ord(u)] = status[Ord(u)]
    BY <1>1, <1>3 DEF IInv, SectionInv, Held, InLock, Ord
  <2> QED
    BY <1>2, <1>4, Running DEF Held, InLock, IInv
<1> QED
  BY <1>3, <1>5, <1>6, <1>7, <1>8 DEF StateInv

\* createOrder's unlocked last write: nothing else has touched the order, so
\* PENDING overwrites PENDING and FAILED closes an order nobody could pay.
LEMMA CreateEndInv ==
  ASSUME SingleInstance, IInv, NEW t \in Tasks, CreateDone(t) \/ CreateRejected(t)
  PROVE  LockInv' /\ StateInv'
<1> DEFINE o == Ord(t)
<1>1. pc[t] = "creating" /\ End(t) /\ UNCHANGED <<credits, due, paid>>
  BY DEF CreateDone, CreateRejected, At, envVars
<1>2. o \in Orders /\ status[o] = "PENDING"
  BY <1>1, Running DEF IInv, CreatingInv
<1>3. \A u \in Tasks : u # t /\ Ord(u) = o => pc[u] \in {"idle", "query"}
  BY <1>1 DEF IInv, CreatingInv
<1>4. /\ LockInv' /\ pc'[t] = "idle"
      /\ \A u \in Tasks : u # t => pc'[u] = pc[u] /\ req'[u] = req[u]
  BY <1>1, EndFacts DEF IInv
<1>5. /\ \A p \in Orders : p # o => status'[p] = status[p] /\ (p \in offered' <=> p \in offered)
      /\ status'[o] \in {"PENDING", "FAILED"} /\ offered \subseteq offered'
  BY <1>1, <1>2 DEF CreateDone, CreateRejected, IInv, TypeInv, TypeOK, envVars
<1>6. CreatingInv'
  <2> SUFFICES ASSUME NEW u \in Tasks, u # t, pc[u] = "creating", Ord(u)' = Ord(u), Ord(u) # o
               PROVE  status'[Ord(u)] = status[Ord(u)] /\ Ord(u) \notin offered' \ offered
    BY <1>1, <1>3, <1>4 DEF IInv, CreatingInv, Ord
  <2> QED
    BY <1>5, Running DEF IInv
<1>7. UnopenedInv'
  BY <1>1, <1>2, <1>4, <1>5 DEF IInv, UnopenedInv, Idle, Ord
<1>8. CreditInv'
  BY <1>1, <1>2, <1>5 DEF IInv, CreditInv
<1>9. SectionInv'
  <2> SUFFICES ASSUME NEW u \in Tasks, u # t, Held(u), Ord(u)' = Ord(u), pc'[u] = pc[u]
               PROVE  status'[Ord(u)] = status[Ord(u)]
    BY <1>1, <1>4 DEF IInv, SectionInv, Held, InLock, Ord
  <2> QED
    BY <1>3, <1>5, Running DEF Held, InLock, IInv
<1> QED
  BY <1>4, <1>6, <1>7, <1>8, <1>9 DEF StateInv

\* Beginning a task: an order is created only once, a poll may begin while its
\* order is being created, a callback or an expiry pass may not.
LEMMA BeginInv ==
  ASSUME IInv, NEW t \in Tasks,
         \/ \E o \in Orders : StartCreate(t, o) \/ StartSync(t, o) \/ StartExpire(t, o)
         \/ \E n \in Notices : Deliver(t, n)
  PROVE  LockInv' /\ StateInv'
<1>1. ASSUME NEW o \in Orders, StartCreate(t, o) PROVE LockInv' /\ StateInv'
  <2>1. /\ LockInv' /\ pc[t] = "idle" /\ pc'[t] = "creating" /\ Ord(t)' = o
        /\ \A u \in Tasks : u # t => pc'[u] = pc[u] /\ req'[u] = req[u]
    BY <1>1, BeginFacts DEF IInv, StartCreate, InLock
  <2>2. /\ status[o] = "NONE" /\ status'[o] = "PENDING"
        /\ \A p \in Orders : p # o => status'[p] = status[p]
        /\ UNCHANGED <<credits, offered, due, paid>>
    BY <1>1 DEF StartCreate, IInv, TypeInv, TypeOK, envVars
  <2>3. o \notin offered /\ o \notin due /\ Idle(o)
    BY <2>2 DEF IInv, UnopenedInv
  <2>4. CreatingInv'
    <3> SUFFICES ASSUME NEW u \in Tasks, u # t, pc[u] = "creating", Ord(u)' = Ord(u)
                 PROVE  status'[Ord(u)] = status[Ord(u)] /\ Ord(u) # o
      BY <2>1, <2>2, <2>3 DEF IInv, CreatingInv, Ord, Idle
    <3> QED
      BY <2>2, <2>3, Running DEF IInv, Idle
  <2>5. UnopenedInv'
    BY <2>1, <2>2 DEF IInv, UnopenedInv, Idle, Ord
  <2>6. CreditInv'
    BY <2>2 DEF IInv, CreditInv
  <2>7. SectionInv'
    <3> SUFFICES ASSUME NEW u \in Tasks, u # t, Held(u), Ord(u)' = Ord(u), pc'[u] = pc[u]
                 PROVE  status'[Ord(u)] = status[Ord(u)]
      BY <2>1, <2>2 DEF IInv, SectionInv, Held, InLock, Ord
    <3> QED
      BY <2>2, <2>3, Running DEF Held, InLock, IInv, Idle
  <2> QED
    BY <2>1, <2>4, <2>5, <2>6, <2>7 DEF StateInv
<1>2. ASSUME NEW o \in Orders, NEW n, NEW kind, NEW at \in {"query", "want"},
             Begin(t, kind, o, n, at), status[o] # "NONE",
             at = "want" => o \in offered \cup due,
             UNCHANGED <<status, credits, offered, due, paid>>
      PROVE  LockInv' /\ StateInv'
  <2>1. /\ LockInv' /\ pc[t] = "idle" /\ pc'[t] = at /\ Ord(t)' = o
        /\ \A u \in Tasks : u # t => pc'[u] = pc[u] /\ req'[u] = req[u]
    BY <1>2, BeginFacts DEF IInv, InLock
  <2>2. CreatingInv'
    BY <1>2, <2>1 DEF IInv, CreatingInv, Ord
  <2>3. UnopenedInv'
    BY <1>2, <2>1 DEF IInv, UnopenedInv, Idle, Ord
  <2>4. CreditInv' /\ SectionInv'
    BY <1>2, <2>1 DEF IInv, CreditInv, SectionInv, Ord
  <2> QED
    BY <2>1, <2>2, <2>3, <2>4 DEF StateInv
<1>3. ASSUME NEW o \in Orders, StartSync(t, o) PROVE LockInv' /\ StateInv'
  BY <1>2, <1>3 DEF StartSync, dbVars, envVars
<1>4. ASSUME NEW o \in Orders, StartExpire(t, o) PROVE LockInv' /\ StateInv'
  BY <1>2, <1>4 DEF StartExpire, dbVars, envVars
<1>5. ASSUME NEW n \in Notices, Deliver(t, n) PROVE LockInv' /\ StateInv'
  <2>1. NoticeOf[n] \in Orders
    BY SettlementAssumption
  <2>2. NoticeOf[n] \in offered /\ status[NoticeOf[n]] # "NONE"
    BY <1>5, <2>1 DEF Deliver, IInv, UnopenedInv
  <2> QED
    BY <1>2, <1>5, <2>1, <2>2 DEF Deliver, envVars
<1> QED
  BY <1>1, <1>3, <1>4, <1>5

LEMMA EnvInv ==
  ASSUME PromptCreate, IInv,
         \/ \E o \in Orders : RepeatCreate(o) \/ Elapse(o) \/ Pay(o) \/ SweepTxn(o)
         \/ \E n \in Notices : DeliverDuplicate(n) \/ SweepNotice(n)
         \/ \E u \in Users : Lapse(u)
  PROVE  LockInv' /\ StateInv'
<1>1. UNCHANGED <<status, credits, lock, pc, req>> /\ \A t \in Tasks : Ord(t)' = Ord(t)
  BY DEF RepeatCreate, Elapse, Pay, SweepTxn, DeliverDuplicate, SweepNotice, Lapse,
         dbVars, taskVars, Ord
<1>2. LockInv'
  BY <1>1 DEF IInv, LockInv, Held, Ord
<1>3. /\ offered \subseteq offered' /\ due \subseteq due'
      /\ \A o \in (offered' \cup due') \ (offered \cup due) : status[o] # "NONE"
      /\ \A o \in (offered' \ offered) \cup (due' \ due) : status[o] # "NONE" /\ ~Creating(o)
      /\ \A o \in Orders : paid'[o] # paid[o] => o \in offered /\ paid[o] = "no"
  BY DEF RepeatCreate, Elapse, Pay, SweepTxn, DeliverDuplicate, SweepNotice, Lapse,
         dbVars, taskVars, envVars, IInv, TypeInv, TypeOK
<1>4. CreatingInv'
  BY <1>1, <1>3 DEF IInv, CreatingInv, Creating
<1>5. UnopenedInv'
  BY <1>1, <1>3 DEF IInv, UnopenedInv, Idle
<1>6. CreditInv'
  BY <1>1, <1>3 DEF IInv, CreditInv
<1>7. SectionInv'
  <2> SUFFICES ASSUME NEW t \in Tasks, pc[t] = "markPaid" PROVE paid'[Ord(t)] = "full"
    BY <1>1 DEF IInv, SectionInv
  <2> QED
    BY <1>3, Running DEF IInv, SectionInv
<1> QED
  BY <1>2, <1>4, <1>5, <1>6, <1>7 DEF StateInv

LEMMA CrashInv ==
  ASSUME SingleInstance, IInv, NEW i \in Instances, Crash(i)
  PROVE  LockInv' /\ StateInv'
<1>1. /\ \A t \in Tasks :
           \/ pc'[t] = "idle"
           \/ InstanceOf[t] # i /\ pc'[t] = pc[t] /\ Ord(t)' = Ord(t)
      /\ UNCHANGED <<status, credits, offered, due, paid>>
  BY DEF Crash, dbVars, envVars, Ord
<1>2. LockInv'
  BY <1>1, SettlementAssumption DEF Crash, IInv, LockInv, Held, InLock, TypeInv, TypeOK
<1>3. StateInv'
  BY <1>1 DEF StateInv, IInv, CreatingInv, UnopenedInv, CreditInv, SectionInv, Idle
<1> QED
  BY <1>2, <1>3

LEMMA NextInv ==
  ASSUME SingleInstance, PromptCreate, IInv, [Next]_vars
  PROVE  IInv'
<1>1. TypeInv'
  BY NextType DEF IInv
<1>2. LockInv' /\ StateInv'
  <2>1. ASSUME NEW t \in Tasks, Step(t) \/ Acquire(t) \/ Throw(t)
        PROVE  LockInv' /\ StateInv'
    BY <2>1, ReadingStep, WritingStep, ExpireWriteInv, CreateEndInv DEF Step, Settle, Expire
  <2>2. CASE UNCHANGED vars
    BY <2>2 DEF vars, dbVars, taskVars, envVars, IInv, StateInv, LockInv, CreatingInv,
                UnopenedInv, CreditInv, SectionInv, Held, Idle, Ord
  <2> QED
    BY <2>1, <2>2, BeginInv, EnvInv, CrashInv DEF Next
<1> QED
  BY <1>1, <1>2 DEF IInv, StateInv

LEMMA InitInv == Init => IInv
<1> SUFFICES ASSUME Init PROVE IInv
  OBVIOUS
<1>1. TypeInv
  BY InitType
<1> QED
  BY <1>1 DEF Init, IInv, LockInv, CreatingInv, UnopenedInv, CreditInv, SectionInv, Held,
              InLock, Idle

LEMMA InductiveInv ==
  ASSUME SingleInstance, PromptCreate
  PROVE  Spec => []IInv
<1>1. IInv /\ [Next]_vars => IInv'
  BY NextInv
<1> QED
  BY <1>1, InitInv, PTL DEF Spec

\* However callbacks, polls, expiry passes, exceptions and crashes interleave on
\* one instance, an order's duration is granted at most once.
THEOREM ExactlyOnceCredit ==
  ASSUME SingleInstance, PromptCreate
  PROVE  Spec => []CreditedOnce
<1>1. IInv => CreditedOnce
  BY DEF IInv, TypeInv, TypeOK, CreditInv, CreditedOnce, OrderStatus
<1> QED
  BY <1>1, InductiveInv, PTL

\* No order is settled, and no access granted, without a payment in full.
THEOREM PaidBeforeAccess ==
  ASSUME SingleInstance, PromptCreate
  PROVE  Spec => []SettledIsPaidFor
<1>1. IInv => SettledIsPaidFor
  BY DEF IInv, TypeInv, TypeOK, CreditInv, SettledIsPaidFor, OrderStatus
<1> QED
  BY <1>1, InductiveInv, PTL

-----------------------------------------------------------------------------
(* OrderSettlement implements OrderLedger *)

\* An order the task works on moves in the ledger the way its await writes it.
LEMMA LedgerWrite ==
  ASSUME SingleInstance, IInv, NEW t \in Tasks,
         \/ CreateDone(t) \/ CreateRejected(t) \/ MarkPaid(t) \/ ExtendSubscription(t)
         \/ CreateSubscription(t) \/ MarkFulfilled(t) \/ ExpireWrite(t)
  PROVE  (\E o \in Orders : Ledger!TakePayment(o) \/ Ledger!Close(o)
                              \/ Ledger!Grant(o) \/ Ledger!Fulfil(o))
         \/ UNCHANGED <<status, credits>>
<1> USE DEF At, IInv, TypeInv, TypeOK
<1>1. Ord(t) \in Orders
  BY Running DEF CreateDone, CreateRejected, MarkPaid, ExtendSubscription,
                 CreateSubscription, MarkFulfilled, ExpireWrite
<1>2. CASE CreateDone(t)
  BY <1>1, <1>2 DEF CreateDone, CreatingInv
<1>3. CASE CreateRejected(t)
  BY <1>1, <1>3 DEF CreateRejected, CreatingInv, Ledger!Close, Ledger!Move
<1>4. CASE MarkPaid(t)
  BY <1>1, <1>4 DEF MarkPaid, SectionInv, Ledger!TakePayment, Ledger!Move
<1>5. CASE ExtendSubscription(t) \/ CreateSubscription(t)
  BY <1>1, <1>5 DEF ExtendSubscription, CreateSubscription, Grant, SectionInv, Ledger!Grant
<1>6. CASE MarkFulfilled(t)
  BY <1>1, <1>6 DEF MarkFulfilled, SectionInv, Ledger!Fulfil, Ledger!Move
<1>7. CASE ExpireWrite(t)
  BY <1>1, <1>7 DEF ExpireWrite, SectionInv, Ledger!Close, Ledger!Move
<1> QED
  BY <1>2, <1>3, <1>4, <1>5, <1>6, <1>7

LEMMA LedgerStep ==
  ASSUME SingleInstance, IInv, [Next]_vars
  PROVE  [Ledger!Next]_(Ledger!lvars)
<1>1. ASSUME NEW t \in Tasks, Step(t) \/ Acquire(t) \/ Throw(t)
      PROVE  [Ledger!Next]_(Ledger!lvars)
  <2>1. CASE \/ CreateDone(t) \/ CreateRejected(t) \/ MarkPaid(t) \/ ExtendSubscription(t)
             \/ CreateSubscription(t) \/ MarkFulfilled(t) \/ ExpireWrite(t)
    BY <2>1, LedgerWrite DEF Ledger!Next, Ledger!lvars
  <2>2. CASE \/ QueryUnpaid(t) \/ QueryPaid(t) \/ Acquire(t) \/ Throw(t) \/ ApplyNothing(t)
             \/ ApplyRefused(t) \/ ApplyAccept(t) \/ FindSubscription(t)
             \/ CreateConflict(t) \/ Announce(t) \/ ExpireSkip(t) \/ ExpireRead(t)
    BY <2>2 DEF QueryUnpaid, QueryPaid, Acquire, Throw, ApplyNothing, ApplyRefused, ApplyAccept,
                FindSubscription, CreateConflict, Announce, ExpireSkip, ExpireRead,
                dbVars, Ledger!lvars
  <2> QED
    BY <1>1, <2>1, <2>2 DEF Step, Settle, Expire
<1>2. ASSUME NEW t \in Tasks, NEW o \in Orders,
             StartCreate(t, o) \/ StartSync(t, o) \/ StartExpire(t, o)
      PROVE  [Ledger!Next]_(Ledger!lvars)
  BY <1>2 DEF StartCreate, StartSync, StartExpire, dbVars, Ledger!Next, Ledger!Open,
              Ledger!Move, Ledger!lvars
<1>3. ASSUME NEW t \in Tasks, NEW n \in Notices, Deliver(t, n)
      PROVE  [Ledger!Next]_(Ledger!lvars)
  BY <1>3 DEF Deliver, Ledger!lvars
<1>4. ASSUME NEW n \in Notices, DeliverDuplicate(n) \/ SweepNotice(n)
      PROVE  [Ledger!Next]_(Ledger!lvars)
  BY <1>4 DEF DeliverDuplicate, SweepNotice, dbVars, Ledger!lvars
<1>5. ASSUME NEW o \in Orders, RepeatCreate(o) \/ Elapse(o) \/ Pay(o) \/ SweepTxn(o)
      PROVE  [Ledger!Next]_(Ledger!lvars)
  BY <1>5 DEF RepeatCreate, Elapse, Pay, SweepTxn, dbVars, Ledger!lvars
<1>6. ASSUME (\E u \in Users : Lapse(u)) \/ (\E i \in Instances : Crash(i)) \/ UNCHANGED vars
      PROVE  [Ledger!Next]_(Ledger!lvars)
  BY <1>6 DEF Lapse, Crash, dbVars, vars, Ledger!lvars
<1> QED
  BY <1>1, <1>2, <1>3, <1>4, <1>5, <1>6 DEF Next

\* On one instance whose payment intents are prompt, the handlers can do to an
\* order only what the ledger allows: open it once, then either close it or take
\* its payment, grant the duration once, and fulfil it.
THEOREM SettlementImplementsLedger ==
  ASSUME SingleInstance, PromptCreate
  PROVE  Spec => ImplementsLedger
<1>1. Init => Ledger!Init
  BY DEF Init, Ledger!Init
<1>2. IInv /\ [Next]_vars => [Ledger!Next]_(Ledger!lvars)
  BY LedgerStep
<1> QED
  BY <1>1, <1>2, InductiveInv, PTL DEF Spec, Ledger!Spec, ImplementsLedger

-----------------------------------------------------------------------------
(* What a provider is told, when no await fails *)

\* A task that will apply the payment of its notice, if the order is pending.
Applies(t) == pc[t] \in {"want", "read", "markPaid"} /\ req[t].kind = "callback"

\* A callback's notice is of its order, and was sent for a payment ...
NoteInv ==
  \A t \in Tasks : pc[t] # "idle" /\ req[t].kind = "callback" =>
    NoticeOf[req[t].note] = Ord(t) /\ paid[Ord(t)] # "no"

\* ... and a notice that was marked or acknowledged is applied, or will be.
AckInv ==
  \A n \in seenNotices \cup acked : LET o == NoticeOf[n] IN
    /\ paid[o] # "no"
    /\ paid[o] = "full" /\ status[o] = "PENDING" => \E t \in Tasks : Applies(t) /\ Ord(t) = o

\* One step of a handler, as far as notices and pending orders are concerned.
LEMMA HandlerStep ==
  ASSUME IInv, NEW t \in Tasks, Step(t) \/ Acquire(t)
  PROVE  /\ pc[t] # "idle" /\ UNCHANGED <<seenNotices, paid>>
         /\ \A u \in Tasks \ {t} : pc'[u] = pc[u] /\ req'[u] = req[u]
         /\ pc'[t] = "idle" \/ req'[t] = req[t]
         /\ \A o \in Orders : status'[o] = "PENDING" => status[o] = "PENDING"
         /\ Applies(t) /\ paid[Ord(t)] = "full" /\ status'[Ord(t)] = "PENDING" => Applies(t)'
         /\ \A n \in acked' \ acked :
              /\ req[t].kind = "callback" /\ n = req[t].note
              /\ status'[Ord(t)] # "PENDING" \/ paid[Ord(t)] = "short"
<1> USE DEF At, IInv, TypeInv, TypeOK
<1>0. pc[t] # "idle" => Ord(t) \in Orders
  BY Running
<1>1. CASE CreateDone(t) \/ CreateRejected(t)
  BY <1>0, <1>1 DEF CreateDone, CreateRejected, End, Goto, CreatingInv, Applies, seenVars, envVars
<1>2. CASE QueryUnpaid(t)
  BY <1>2 DEF QueryUnpaid, End, Goto, Applies, dbVars, envVars
<1>3. CASE QueryPaid(t)
  BY <1>3 DEF QueryPaid, Goto, Applies, envVars
<1>4. CASE Acquire(t)
  BY <1>4 DEF Acquire, Goto, Applies, dbVars, envVars
<1>5. CASE ApplyNothing(t)
  BY <1>5 DEF ApplyNothing, Applying, AckTrue, End, Goto, Applies, dbVars
<1>6. CASE ApplyRefused(t)
  <2>1. ~ isTerminal("PENDING")
    BY DEF isTerminal, TRANSITIONS, OrderStatus
  <2> QED
    BY <1>6, <2>1 DEF ApplyRefused, Applying, End, Goto, Applies, dbVars, envVars
<1>7. CASE ApplyAccept(t)
  BY <1>7 DEF ApplyAccept, Applying, Goto, Applies, dbVars, envVars
<1>8. CASE MarkPaid(t)
  BY <1>0, <1>8 DEF MarkPaid, Goto, Applies, seenVars, envVars
<1>9. CASE FindSubscription(t)
  BY <1>9 DEF FindSubscription, Goto, Applies, dbVars, envVars
<1>10. CASE ExtendSubscription(t) \/ CreateSubscription(t)
  BY <1>10 DEF ExtendSubscription, CreateSubscription, Goto, Applies, seenVars, envVars
<1>11. CASE CreateConflict(t)
  BY <1>11 DEF CreateConflict, End, Goto, Applies, dbVars, envVars
<1>12. CASE MarkFulfilled(t)
  BY <1>0, <1>12 DEF MarkFulfilled, Goto, Applies, seenVars, envVars
<1>13. CASE Announce(t)
  BY <1>13 DEF Announce, AckTrue, End, Goto, Applies, SectionInv, seenVars
<1>14. CASE ExpireSkip(t)
  BY <1>14 DEF ExpireSkip, End, Goto, Applies, dbVars, envVars
<1>15. CASE ExpireRead(t)
  BY <1>15 DEF ExpireRead, Goto, Applies, dbVars, envVars
<1>16. CASE ExpireWrite(t)
  BY <1>0, <1>16 DEF ExpireWrite, End, Goto, Applies, seenVars, envVars
<1> QED
  BY <1>1, <1>2, <1>3, <1>4, <1>5, <1>6, <1>7, <1>8, <1>9, <1>10, <1>11, <1>12, <1>13, <1>14,
     <1>15, <1>16 DEF Step, Settle, Expire

LEMMA HandlerAck ==
  ASSUME IInv, NoteInv, AckInv, NEW t \in Tasks, Step(t) \/ Acquire(t)
  PROVE  NoteInv' /\ AckInv'
<1>1. NoteInv'
  BY HandlerStep DEF NoteInv, Ord
<1>2. ASSUME NEW n \in seenNotices \cup acked
      PROVE  /\ paid'[NoticeOf[n]] # "no"
             /\ paid'[NoticeOf[n]] = "full" /\ status'[NoticeOf[n]] = "PENDING" =>
                  \E u \in Tasks : Applies(u)' /\ Ord(u)' = NoticeOf[n]
  <2>1. NoticeOf[n] \in Orders /\ paid' = paid /\ paid[NoticeOf[n]] # "no"
    BY HandlerStep, SettlementAssumption DEF IInv, TypeInv, TypeOK, AckInv
  <2>2. ASSUME paid[NoticeOf[n]] = "full", status'[NoticeOf[n]] = "PENDING"
        PROVE  \E u \in Tasks : Applies(u)' /\ Ord(u)' = NoticeOf[n]
    <3>1. status[NoticeOf[n]] = "PENDING"
      BY <2>1, <2>2, HandlerStep
    <3>2. PICK u \in Tasks : Applies(u) /\ Ord(u) = NoticeOf[n]
      BY <2>2, <3>1 DEF AckInv
    <3>3. CASE u = t
      BY <2>2, <3>2, <3>3, HandlerStep DEF Applies, Ord
    <3>4. CASE u # t
      BY <3>2, <3>4, HandlerStep DEF Applies, Ord
    <3> QED
      BY <3>3, <3>4
  <2> QED
    BY <2>1, <2>2
<1>3. ASSUME NEW n \in acked' \ acked
      PROVE  paid'[NoticeOf[n]] = paid[Ord(t)] /\ paid[Ord(t)] # "no"
             /\ (paid[Ord(t)] = "full" => status'[NoticeOf[n]] # "PENDING")
  BY HandlerStep DEF NoteInv
<1>4. seenNotices' = seenNotices
  BY HandlerStep
<1> QED
  BY <1>1, <1>2, <1>3, <1>4 DEF AckInv

\* A handler that begins brings the notice it was sent.
LEMMA BeginAck ==
  ASSUME IInv, NoteInv, AckInv, NEW t \in Tasks,
         \/ \E o \in Orders : StartCreate(t, o) \/ StartSync(t, o) \/ StartExpire(t, o)
         \/ \E n \in Notices : Deliver(t, n)
  PROVE  NoteInv' /\ AckInv'
<1>0. pc \in [Tasks -> PC] /\ status \in [Orders -> OrderStatus \cup {"NONE"}]
      /\ seenNotices \cup acked \subseteq Notices /\ \A n \in Notices : NoticeOf[n] \in Orders
  BY SettlementAssumption DEF IInv, TypeInv, TypeOK
<1>1. ASSUME NEW kind, NEW o, NEW n, NEW at, Begin(t, kind, o, n, at)
      PROVE  /\ pc[t] = "idle" /\ pc'[t] = at
             /\ req'[t].kind = kind /\ req'[t].ord = o /\ req'[t].note = n
             /\ \A u \in Tasks \ {t} : pc'[u] = pc[u] /\ req'[u] = req[u]
  BY <1>1 DEF Begin, IInv, TypeInv, TypeOK
<1>2. ASSUME NEW kind, NEW o \in Orders, NEW n, NEW at, Begin(t, kind, o, n, at), paid' = paid,
             kind = "callback" => NoticeOf[n] = o /\ paid[o] # "no"
      PROVE  NoteInv'
  BY <1>1, <1>2 DEF NoteInv, Ord
<1>3. ASSUME NEW kind, NEW o, NEW n, NEW at, Begin(t, kind, o, n, at)
      PROVE  \A u \in Tasks : Applies(u) => Applies(u)' /\ Ord(u)' = Ord(u)
  BY <1>1, <1>3 DEF Applies, Ord
<1>4. ASSUME UNCHANGED <<acked, paid>>,
             \A u \in Tasks : Applies(u) => Applies(u)' /\ Ord(u)' = Ord(u),
             NEW n \in seenNotices \cup acked,
             status'[NoticeOf[n]] = "PENDING" => status[NoticeOf[n]] = "PENDING"
      PROVE  /\ paid'[NoticeOf[n]] # "no"
             /\ paid'[NoticeOf[n]] = "full" /\ status'[NoticeOf[n]] = "PENDING" =>
                  \E u \in Tasks : Applies(u)' /\ Ord(u)' = NoticeOf[n]
  BY <1>4 DEF AckInv
<1>5. ASSUME NEW o \in Orders, StartCreate(t, o)  PROVE NoteInv' /\ AckInv'
  <2>1. Begin(t, "create", o, NoNotice, "creating") /\ UNCHANGED <<seenNotices, acked, paid>>
    BY <1>5 DEF StartCreate, seenVars, envVars
  <2>2. status[o] = "NONE" /\ \A p \in Orders : p # o => status'[p] = status[p]
    BY <1>0, <1>5 DEF StartCreate
  <2>3. paid[o] = "no"
    BY <2>2 DEF IInv, UnopenedInv
  <2>4. \A n \in seenNotices \cup acked : NoticeOf[n] # o
    BY <2>3 DEF AckInv
  <2>5. \A n \in seenNotices \cup acked :
          status'[NoticeOf[n]] = "PENDING" => status[NoticeOf[n]] = "PENDING"
    BY <1>0, <2>2, <2>4
  <2>6. AckInv'
    BY <1>3, <1>4, <2>1, <2>5 DEF AckInv
  <2> QED
    BY <1>2, <2>1, <2>6
<1>6. ASSUME NEW o \in Orders, StartSync(t, o) \/ StartExpire(t, o)  PROVE NoteInv' /\ AckInv'
  <2>1. PICK kind \in {"sync", "expire"}, at \in {"query", "want"} : Begin(t, kind, o, NoNotice, at)
    BY <1>6 DEF StartSync, StartExpire
  <2>2. UNCHANGED <<status, seenNotices, acked, paid>>
    BY <1>6 DEF StartSync, StartExpire, dbVars, envVars
  <2>3. AckInv'
    BY <1>3, <1>4, <2>1, <2>2 DEF AckInv
  <2> QED
    BY <1>2, <2>1, <2>2, <2>3
<1>7. ASSUME NEW n \in Notices, Deliver(t, n)  PROVE NoteInv' /\ AckInv'
  <2>1. /\ Begin(t, "callback", NoticeOf[n], n, "want") /\ paid[NoticeOf[n]] # "no"
        /\ UNCHANGED <<status, acked, paid>> /\ seenNotices' = seenNotices \cup {n}
    BY <1>7 DEF Deliver, envVars
  <2>2. Applies(t)' /\ Ord(t)' = NoticeOf[n]
    BY <1>1, <2>1 DEF Applies, Ord
  <2>3. AckInv'
    BY <1>3, <1>4, <2>1, <2>2 DEF AckInv
  <2> QED
    BY <1>0, <1>2, <2>1, <2>3
<1> QED
  BY <1>5, <1>6, <1>7

LEMMA EnvAck ==
  ASSUME IInv, NoteInv, AckInv,
         \/ \E o \in Orders : RepeatCreate(o) \/ Elapse(o) \/ Pay(o) \/ SweepTxn(o)
         \/ \E n \in Notices : DeliverDuplicate(n) \/ SweepNotice(n)
         \/ \E u \in Users : Lapse(u)
         \/ UNCHANGED vars
  PROVE  NoteInv' /\ AckInv'
<1>1. UNCHANGED <<status, pc, req>> /\ seenNotices' \cup acked' \subseteq seenNotices \cup acked
  <2>1. ASSUME NEW n \in Notices, DeliverDuplicate(n) \/ SweepNotice(n)
        PROVE  UNCHANGED <<status, pc, req>> /\ seenNotices' \cup acked' \subseteq seenNotices \cup acked
    BY <2>1 DEF DeliverDuplicate, SweepNotice, dbVars, taskVars, envVars
  <2>2. ASSUME \/ \E o \in Orders : RepeatCreate(o) \/ Elapse(o) \/ Pay(o) \/ SweepTxn(o)
               \/ \E u \in Users : Lapse(u)
               \/ UNCHANGED vars
        PROVE  UNCHANGED <<status, pc, req, seenNotices, acked>>
    BY <2>2 DEF RepeatCreate, Elapse, Pay, SweepTxn, Lapse, dbVars, taskVars, envVars, vars, seenVars
  <2> QED
    BY <2>1, <2>2
<1>2. \A o \in Orders : paid[o] # "no" => paid'[o] = paid[o]
  BY DEF RepeatCreate, Elapse, Pay, SweepTxn, DeliverDuplicate, SweepNotice, Lapse,
         dbVars, taskVars, envVars, vars, IInv, TypeInv, TypeOK
<1>3. \A u \in Tasks : Applies(u)' = Applies(u) /\ Ord(u)' = Ord(u)
  BY <1>1 DEF Applies, Ord
<1>4. NoteInv'
  BY <1>1, <1>2, <1>3, Running DEF NoteInv, IInv
<1>5. \A n \in seenNotices \cup acked : NoticeOf[n] \in Orders
  BY SettlementAssumption DEF IInv, TypeInv, TypeOK
<1>6. AckInv'
  BY <1>1, <1>2, <1>3, <1>5 DEF AckInv
<1> QED
  BY <1>4, <1>6

LEMMA NextAck ==
  ASSUME ~Faults, IInv, NoteInv, AckInv, [Next]_vars
  PROVE  NoteInv' /\ AckInv'
<1>1. \A t \in Tasks : ~Throw(t)
  BY DEF Throw
<1>2. \A i \in Instances : ~Crash(i)
  BY DEF Crash
<1> QED
  BY <1>1, <1>2, HandlerAck, BeginAck, EnvAck DEF Next

\* On one instance with prompt payment intents, and while no await fails, a provider is told
\* to stop resending a full payment only when the payment was applied or the order had closed
\* (handleCallback marks the event before it applies it, so an exception in between refutes
\* this: the run settle_lost_callback).
THEOREM AcknowledgedIsApplied ==
  ASSUME SingleInstance, PromptCreate, ~Faults
  PROVE  Spec => []AckedMeansSettled
<1> DEFINE Inv == IInv /\ NoteInv /\ AckInv
<1>1. Init => Inv
  <2>1. Init => NoteInv /\ AckInv
    BY DEF Init, NoteInv, AckInv
  <2> QED
    BY <2>1, InitInv
<1>2. Inv /\ [Next]_vars => Inv'
  BY NextInv, NextAck
<1>3. Inv => AckedMeansSettled
  BY DEF AckInv, AckedMeansSettled, Idle, Applies
<1> HIDE DEF Inv
<1> QED
  BY <1>1, <1>2, <1>3, PTL DEF Spec

-----------------------------------------------------------------------------
(* Nothing is left half settled, when no await fails *)

\* No buyer orders twice.  One who does meets the unique index when a subscription of hers
\* has lapsed (the README's table of refuted changes).
OneOrderEach == \A o, p \in Orders : UserOf[o] = UserOf[p] => o = p

\* A task between the write of PAID and that of FULFILLED.
Grants(t) == pc[t] \in {"findSub", "writeSub", "fulfil"}

\* An order that is half settled is in the hands of a task.
ServedInv ==
  \A o \in Orders :
    /\ status[o] = "PAID" => \E t \in Tasks : Grants(t) /\ Ord(t) = o
    /\ status[o] = "FULFILLED" => o \in announced \/ \E t \in Tasks : pc[t] = "emit" /\ Ord(t) = o

\* A subscription is that of its buyer's one order, which was granted.
OwnInv ==
  /\ \A u \in Users : active[u] # NoSub => UserOf[active[u]] = u /\ credits[active[u]] > 0
  /\ \A t \in Tasks : snap[t] = NoSub
  /\ \A o \in Orders : credits[o] > 0 => o \in orderIds[o]

\* A task about to grant finds no subscription of its buyer.
LEMMA NoneYet ==
  ASSUME OneOrderEach, IInv, OwnInv, NEW t \in Tasks, pc[t] \in {"findSub", "writeSub"}
  PROVE  Current(Ord(t)) = NoSub /\ snap[t] = NoSub
<1>1. Ord(t) \in Orders /\ credits[Ord(t)] = 0 /\ UserOf[Ord(t)] \in Users
  BY Running, SettlementAssumption DEF IInv, SectionInv
<1>2. ASSUME Current(Ord(t)) # NoSub  PROVE FALSE
  <2>1. Current(Ord(t)) \in Orders
    BY <1>1, <1>2 DEF Current, IInv, TypeInv, TypeOK
  <2>2. Current(Ord(t)) = Ord(t)
    BY <1>1, <1>2, <2>1 DEF Current, OwnInv, OneOrderEach
  <2> QED
    BY <1>1, <1>2, <2>2 DEF Current, OwnInv
<1> QED
  BY <1>2 DEF OwnInv

LEMMA OwnKept ==
  ASSUME OwnInv, UNCHANGED <<credits, orderIds, active>>,
         \A t \in Tasks : snap'[t] \in {snap[t], NoSub}
  PROVE  OwnInv'
BY DEF OwnInv

\* One step of a handler, as far as half settled orders are concerned.
LEMMA GrantStep ==
  ASSUME OneOrderEach, IInv, OwnInv, NEW t \in Tasks, Step(t) \/ Acquire(t)
  PROVE  /\ OwnInv' /\ announced \subseteq announced'
         /\ \A o \in Orders :
              /\ status'[o] = "PAID" => status[o] = "PAID" \/ (o = Ord(t) /\ pc'[t] = "findSub")
              /\ status'[o] = "FULFILLED" => status[o] = "FULFILLED" \/ (o = Ord(t) /\ pc'[t] = "emit")
         /\ Grants(t) /\ status'[Ord(t)] = "PAID" => Grants(t)'
         /\ pc[t] = "emit" => Ord(t) \in announced'
<1> USE DEF At, IInv, TypeInv, TypeOK
<1>0. pc[t] # "idle" => Ord(t) \in Orders
  BY Running
<1>1. ASSUME pc[t] \notin {"findSub", "writeSub", "fulfil", "emit"}, announced' = announced,
             UNCHANGED <<credits, orderIds, active>>,
             \A u \in Tasks : snap'[u] \in {snap[u], NoSub},
             \A o \in Orders : status'[o] \notin {status[o], "PENDING", "FAILED", "EXPIRED"} =>
                                 o = Ord(t) /\ status'[o] = "PAID" /\ pc'[t] = "findSub"
      PROVE  /\ OwnInv' /\ announced \subseteq announced'
             /\ \A o \in Orders :
                  /\ status'[o] = "PAID" => status[o] = "PAID" \/ (o = Ord(t) /\ pc'[t] = "findSub")
                  /\ status'[o] = "FULFILLED" => status[o] = "FULFILLED" \/ (o = Ord(t) /\ pc'[t] = "emit")
             /\ Grants(t) /\ status'[Ord(t)] = "PAID" => Grants(t)'
             /\ pc[t] = "emit" => Ord(t) \in announced'
  BY <1>1, OwnKept DEF Grants
<1>2. CASE CreateDone(t) \/ CreateRejected(t)
  BY <1>0, <1>1, <1>2 DEF CreateDone, CreateRejected, End, subVars
<1>3. CASE QueryUnpaid(t) \/ QueryPaid(t) \/ Acquire(t)
  BY <1>1, <1>3 DEF QueryUnpaid, QueryPaid, Acquire, End, dbVars, subVars
<1>4. CASE ApplyNothing(t) \/ ApplyRefused(t) \/ ApplyAccept(t)
  BY <1>1, <1>4 DEF ApplyNothing, ApplyRefused, ApplyAccept, Applying, End, dbVars, subVars
<1>5. CASE MarkPaid(t)
  BY <1>0, <1>1, <1>5 DEF MarkPaid, Goto, subVars
<1>6. CASE FindSubscription(t)
  <2>1. Current(Ord(t)) = NoSub /\ Goto(t, "writeSub") /\ pc[t] = "findSub"
    BY <1>6, NoneYet DEF FindSubscription
  <2>2. snap' = [snap EXCEPT ![t] = NoSub] /\ UNCHANGED dbVars
    BY <1>6, <2>1 DEF FindSubscription, InForce
  <2>3. OwnInv'
    BY <2>2, OwnKept DEF dbVars, subVars
  <2> QED
    BY <1>0, <2>1, <2>2, <2>3 DEF Goto, Grants, dbVars
<1>7. CASE ExtendSubscription(t)
  BY <1>7, NoneYet DEF ExtendSubscription
<1>8. CASE CreateConflict(t)
  BY <1>8, NoneYet DEF CreateConflict
<1>9. CASE CreateSubscription(t)
  <2> DEFINE o == Ord(t)
  <2>1. /\ o \in Orders /\ UserOf[o] \in Users /\ credits[o] = 0
        /\ pc[t] = "writeSub" /\ Goto(t, "fulfil")
        /\ orderIds' = [orderIds EXCEPT ![o] = {o}]
        /\ active' = [active EXCEPT ![UserOf[o]] = o]
        /\ credits' = [credits EXCEPT ![o] = @ + 1]
        /\ UNCHANGED <<status, announced, snap>>
    BY <1>0, <1>9, SettlementAssumption DEF CreateSubscription, Grant, SectionInv
  <2>2. credits'[o] = 1 /\ \A p \in Orders \ {o} : credits'[p] = credits[p]
    BY <2>1
  <2>3. OwnInv'
    <3>1. ASSUME NEW u \in Users, active'[u] # NoSub
          PROVE  UserOf[active'[u]] = u /\ credits'[active'[u]] > 0
      <4>1. CASE u = UserOf[o]
        BY <2>1, <2>2, <4>1
      <4>2. CASE u # UserOf[o]
        <5>1. active'[u] = active[u] /\ active[u] \in Orders
          BY <2>1, <3>1, <4>2
        <5>2. UserOf[active[u]] = u /\ credits[active[u]] > 0
          BY <3>1, <5>1 DEF OwnInv
        <5>3. active[u] # o
          BY <4>2, <5>2
        <5> QED
          BY <2>2, <5>1, <5>2, <5>3
      <4> QED
        BY <4>1, <4>2
    <3>2. \A p \in Orders : credits'[p] > 0 => p \in orderIds'[p]
      BY <2>1, <2>2 DEF OwnInv
    <3> QED
      BY <2>1, <3>1, <3>2 DEF OwnInv
  <2> QED
    BY <2>1, <2>3 DEF Goto, Grants
<1>10. CASE MarkFulfilled(t)
  <2>1. /\ pc[t] = "fulfil" /\ Goto(t, "emit") /\ status' = [status EXCEPT ![Ord(t)] = "FULFILLED"]
        /\ UNCHANGED <<credits, orderIds, active, announced, snap>>
    BY <1>10 DEF MarkFulfilled, subVars
  <2>2. OwnInv'
    BY <2>1, OwnKept
  <2> QED
    BY <1>0, <2>1, <2>2 DEF Goto
<1>11. CASE Announce(t)
  <2>1. /\ pc[t] = "emit" /\ announced' = announced \cup {Ord(t)} /\ End(t)
        /\ UNCHANGED <<status, credits, orderIds, active>>
    BY <1>11 DEF Announce, subVars
  <2>2. OwnInv'
    BY <2>1, OwnKept DEF End
  <2> QED
    BY <2>1, <2>2 DEF Grants
<1>12. CASE Expire(t)
  BY <1>0, <1>1, <1>12 DEF Expire, ExpireSkip, ExpireRead, ExpireWrite, End, dbVars, subVars
<1> QED
  BY <1>2, <1>3, <1>4, <1>5, <1>6, <1>7, <1>8, <1>9, <1>10, <1>11, <1>12 DEF Step, Settle

LEMMA GrantNext ==
  ASSUME ~Faults, OneOrderEach, IInv, ServedInv, OwnInv, [Next]_vars
  PROVE  ServedInv' /\ OwnInv'
<1>1. ASSUME NEW t \in Tasks, Step(t) \/ Acquire(t)  PROVE ServedInv' /\ OwnInv'
  <2>1. ASSUME NEW o \in Orders, status'[o] = "PAID"
        PROVE  \E w \in Tasks : Grants(w)' /\ Ord(w)' = o
    <3>1. CASE status[o] = "PAID"
      <4>1. PICK w \in Tasks : Grants(w) /\ Ord(w) = o
        BY <3>1 DEF ServedInv
      <4> QED
        BY <1>1, <2>1, <4>1, HandlerStep, GrantStep DEF Grants, Ord
    <3>2. CASE o = Ord(t) /\ pc'[t] = "findSub"
      BY <1>1, <3>2, HandlerStep DEF Grants, Ord
    <3> QED
      BY <1>1, <2>1, <3>1, <3>2, GrantStep
  <2>2. ASSUME NEW o \in Orders, status'[o] = "FULFILLED"
        PROVE  o \in announced' \/ \E w \in Tasks : pc'[w] = "emit" /\ Ord(w)' = o
    <3>1. CASE status[o] = "FULFILLED" /\ o \notin announced
      <4>1. PICK w \in Tasks : pc[w] = "emit" /\ Ord(w) = o
        BY <3>1 DEF ServedInv
      <4> QED
        BY <1>1, <4>1, HandlerStep, GrantStep DEF Ord
    <3>2. CASE o = Ord(t) /\ pc'[t] = "emit"
      BY <1>1, <3>2, HandlerStep DEF Ord
    <3>3. CASE o \in announced
      BY <1>1, <3>3, GrantStep
    <3> QED
      BY <1>1, <2>2, <3>1, <3>2, <3>3, GrantStep
  <2> QED
    BY <1>1, <2>1, <2>2, GrantStep DEF ServedInv
<1>2. ASSUME UNCHANGED <<credits, orderIds, active, snap, announced>>,
             \A o \in Orders : status'[o] \in {"PAID", "FULFILLED"} => status'[o] = status[o],
             \A u \in Tasks : pc[u] # "idle" => pc'[u] = pc[u] /\ Ord(u)' = Ord(u)
      PROVE  ServedInv' /\ OwnInv'
  <2>1. OwnInv'
    BY <1>2, OwnKept
  <2>2. ServedInv'
    BY <1>2 DEF ServedInv, Grants
  <2> QED
    BY <2>1, <2>2
<1>3. ASSUME NEW t \in Tasks, NEW kind, NEW o, NEW n, NEW at, Begin(t, kind, o, n, at)
      PROVE  snap' = snap /\ \A u \in Tasks : pc[u] # "idle" => pc'[u] = pc[u] /\ Ord(u)' = Ord(u)
  BY <1>3 DEF Begin, Ord, IInv, TypeInv, TypeOK
<1>4. ASSUME NEW t \in Tasks, NEW o \in Orders, StartCreate(t, o)  PROVE ServedInv' /\ OwnInv'
  BY <1>2, <1>3, <1>4 DEF StartCreate, subVars, IInv, TypeInv, TypeOK
<1>5. ASSUME NEW t \in Tasks, NEW o \in Orders, StartSync(t, o) \/ StartExpire(t, o)
      PROVE  ServedInv' /\ OwnInv'
  BY <1>2, <1>3, <1>5 DEF StartSync, StartExpire, dbVars, subVars
<1>6. ASSUME NEW t \in Tasks, NEW n \in Notices, Deliver(t, n)  PROVE ServedInv' /\ OwnInv'
  BY <1>2, <1>3, <1>6 DEF Deliver, subVars
<1>7. ASSUME \/ \E o \in Orders : RepeatCreate(o) \/ Elapse(o) \/ Pay(o) \/ SweepTxn(o)
             \/ \E n \in Notices : DeliverDuplicate(n) \/ SweepNotice(n)
             \/ \E u \in Users : Lapse(u)
             \/ UNCHANGED vars
      PROVE  ServedInv' /\ OwnInv'
  <2>1. UNCHANGED <<status, credits, orderIds, active, snap, announced, pc, req>>
    BY <1>7 DEF RepeatCreate, Elapse, Pay, SweepTxn, DeliverDuplicate, SweepNotice, Lapse,
                dbVars, taskVars, subVars, vars
  <2> QED
    BY <1>2, <2>1 DEF Ord
<1>8. \A t \in Tasks : ~Throw(t)
  BY DEF Throw
<1>9. \A i \in Instances : ~Crash(i)
  BY DEF Crash
<1> QED
  BY <1>1, <1>4, <1>5, <1>6, <1>7, <1>8, <1>9 DEF Next

\* On one instance with prompt payment intents, while no await fails and no buyer orders
\* twice, an order nobody works on is not left half settled: a payment taken was granted, and
\* what was granted is on a subscription and was announced (applyPayment, fulfillOrder).
THEOREM NothingIsStranded ==
  ASSUME SingleInstance, PromptCreate, ~Faults, OneOrderEach
  PROVE  Spec => []NothingStranded
<1> DEFINE Inv == IInv /\ ServedInv /\ OwnInv
<1>1. Init => Inv
  <2>1. Init => ServedInv /\ OwnInv
    BY DEF Init, ServedInv, OwnInv
  <2> QED
    BY <2>1, InitInv
<1>2. Inv /\ [Next]_vars => Inv'
  BY NextInv, GrantNext
<1>3. Inv => NothingStranded
  <2> SUFFICES ASSUME Inv, NEW o \in Orders, Idle(o)
               PROVE  /\ status[o] # "PAID"
                      /\ status[o] = "FULFILLED" => Listed(o) /\ o \in announced
    BY DEF NothingStranded
  <2>1. \A t \in Tasks : Ord(t) = o => pc[t] = "idle"
    BY DEF Idle
  <2>2. status[o] # "PAID" /\ (status[o] = "FULFILLED" => o \in announced)
    BY <2>1 DEF ServedInv, Grants
  <2>3. status[o] = "FULFILLED" => o \in orderIds[o]
    BY DEF IInv, CreditInv, OwnInv
  <2> QED
    BY <2>2, <2>3 DEF Listed
<1> HIDE DEF Inv
<1> QED
  BY <1>1, <1>2, <1>3, PTL DEF Spec

=============================================================================
