----------------------------- MODULE IntakeProofs -----------------------------
(***************************************************************************)
(* Proofs about Intake for every number of calls, keys, transfers, prices  *)
(* and deltas, in both address modes and on both order repositories.  No   *)
(* theorem of this module has a hypothesis on the constants beyond         *)
(* IntakeAssumption.                                                       *)
(***************************************************************************)
EXTENDS Intake, FiniteSetTheorems, WellFoundedInduction, TLAPS

-----------------------------------------------------------------------------
(* Type correctness *)

Where == {"idle", "price", "index", "save", "store", "done"}
Creation == [at : Where, amount : Nat, index : Nat]
Poll == [at : {"idle", "mark", "apply"}, tx : Nat]
Transfer == [tx : Nat, to : Nat, value : Nat, at : Nat, by : Requests]

\* A call has a price once it has read one, stores its order as it ends, and only
\* a stored order is polled.
RequestInv(o) ==
  /\ orders[o] # None => creating[o].at = "done" /\ orders[o].amount >= price
  /\ creating[o].at \in {"index", "save", "store"} => creating[o].amount >= price
  /\ polling[o].at # "idle" => orders[o] # None

TypeInv ==
  /\ mode \in {"shared", "per-order"} /\ backend \in {"memory", "sql"} /\ oneByOne \in BOOLEAN
  /\ clock \in Nat /\ counter \in Nat
  /\ orders \in [Requests -> Row \cup {None}]
  /\ creating \in [Requests -> Creation]
  /\ polling \in [Requests -> Poll]
  /\ DOMAIN depositOf \subseteq Nat
  /\ IsFiniteSet(chain) /\ chain \subseteq Transfer
  /\ \A o \in Requests : RequestInv(o)

\* The constants, one by one.
LEMMA Constants ==
  /\ price \in Nat /\ maxDelta \in Nat /\ ttl \in Nat /\ tolerance \in Nat
  /\ hdStartIndex \in Nat /\ MaxTransfers \in Nat /\ price > 0
  /\ None \notin Nat /\ None \notin Row
BY IntakeAssumption

\* A set of numbers that is not empty has a least one.
LEMMA MinType ==
  ASSUME NEW S \in SUBSET Nat, S # {}
  PROVE  Min(S) \in S
<1>1. PICK x \in S : \A y \in S : ~ (<<y, x>> \in OpToRel(<, Nat))
  BY NatLessThanWellFounded, WFMin
<1>2. ASSUME NEW y \in S  PROVE x <= y
  <2>1. <<y, x>> \in Nat \X Nat /\ <<y, x>>[1] = y /\ <<y, x>>[2] = x
    OBVIOUS
  <2>2. ~(y < x)
    BY <1>1, <2>1 DEF OpToRel
  <2> QED
    BY <2>2
<1> QED
  BY <1>2 DEF Min

\* The amount chosen is a price, and no pending order asks for it.
LEMMA AmountType ==
  ASSUME NEW taken, NEW a \in allocateUniqueAmount(taken)
  PROVE  a \in Nat /\ a >= price /\ a \notin taken
<1> DEFINE free == {price + d : d \in 0..maxDelta} \ taken
<1>1. free \in SUBSET Nat /\ \A x \in free : x >= price /\ x \notin taken
  BY Constants
<1>2. free # {} /\ a = Min(free)
  BY DEF allocateUniqueAmount
<1> HIDE DEF free
<1>3. a \in free
  BY <1>1, <1>2, MinType
<1> QED
  BY <1>1, <1>3

\* Move changes where one call is.
LEMMA Moved ==
  ASSUME TypeInv, NEW o \in Requests, NEW at \in Where, Move(o, at)
  PROVE  /\ creating' \in [Requests -> Creation]
         /\ creating'[o].at = at /\ creating'[o].amount = creating[o].amount
         /\ creating'[o].index = creating[o].index
         /\ \A p \in Requests \ {o} : creating'[p] = creating[p]
BY DEF Move, TypeInv, Creation

\* A step of createOrder keeps the types.
LEMMA CreateType ==
  ASSUME TypeInv, NEW o \in Requests,
         StartCreate(o) \/ resolveAmount(o) \/ NextIndex(o) \/ SaveAddress(o) \/ StoreOrder(o)
  PROVE  TypeInv'
<1> USE Constants
<1>1. ASSUME UNCHANGED <<settings, clock, orders, chain, polling>>,
             counter' \in Nat, DOMAIN depositOf' \subseteq Nat,
             creating' \in [Requests -> Creation], orders[o] = None,
             \A p \in Requests \ {o} : creating'[p] = creating[p],
             creating'[o].at \in {"index", "save", "store"} => creating'[o].amount >= price
      PROVE  TypeInv'
  BY <1>1 DEF TypeInv, RequestInv, settings
<1>2. creating[o].at # "done" => orders[o] = None
  BY DEF TypeInv, RequestInv
<1>3. CASE StartCreate(o)
  <2>1. PICK at \in {"done", "price"} : Move(o, at)
    BY <1>3 DEF StartCreate
  <2> QED
    BY <1>1, <1>2, <1>3, <2>1, Moved DEF StartCreate, allocation, TypeInv, Where
<1>4. CASE resolveAmount(o)
  <2>1. UNCHANGED <<settings, clock, orders, allocation, chain, polling>> /\ creating[o].at = "price"
    BY <1>4 DEF resolveAmount
  <2>2. CASE Move(o, "done")
    BY <1>1, <1>2, <2>1, <2>2, Moved DEF allocation, TypeInv, Where
  <2>3. ASSUME NEW a \in Nat, a >= price,
               creating' = [creating EXCEPT ![o].amount = a,
                            ![o].at = IF mode = "per-order" THEN "index" ELSE "store"]
        PROVE  TypeInv'
    <3>1. PICK at \in {"index", "store"} : creating' = [creating EXCEPT ![o].amount = a, ![o].at = at]
      BY <2>3
    <3>2. /\ creating' \in [Requests -> Creation] /\ creating'[o].amount = a
          /\ \A p \in Requests \ {o} : creating'[p] = creating[p]
      BY <3>1 DEF TypeInv, Creation, Where
    <3> QED
      BY <1>1, <1>2, <2>1, <2>3, <3>2 DEF allocation, TypeInv
  <2>4. Move(o, "done") \/
        \E a \in Nat : /\ a >= price
                       /\ creating' = [creating EXCEPT ![o].amount = a,
                            ![o].at = IF mode = "per-order" THEN "index" ELSE "store"]
    <3>1. CASE mode = "per-order"
      BY <1>4, <3>1 DEF resolveAmount
    <3>2. CASE mode # "per-order"
      <4>1. PICK taken : \/ allocateUniqueAmount(taken) = {} /\ Move(o, "done")
                         \/ \E a \in allocateUniqueAmount(taken) :
                              creating' = [creating EXCEPT ![o].amount = a,
                                ![o].at = IF mode = "per-order" THEN "index" ELSE "store"]
        BY <1>4, <3>2 DEF resolveAmount
      <4> QED
        BY <4>1, AmountType
    <3> QED
      BY <3>1, <3>2
  <2> QED
    BY <2>2, <2>3, <2>4
<1>5. CASE NextIndex(o)
  <2>1. /\ creating' \in [Requests -> Creation] /\ creating'[o].amount = creating[o].amount
        /\ \A p \in Requests \ {o} : creating'[p] = creating[p]
        /\ creating[o].at = "index" /\ counter' \in Nat
    <3>1. PICK i : /\ i = hdStartIndex + counter'
                   /\ creating' = [creating EXCEPT ![o].at = "save", ![o].index = i]
      BY <1>5 DEF NextIndex
    <3>2. counter' \in Nat /\ i \in Nat /\ creating[o].at = "index"
      BY <1>5, <3>1 DEF NextIndex, TypeInv
    <3> QED
      BY <3>1, <3>2 DEF TypeInv, Creation, Where
  <2>2. creating[o].amount >= price
    BY <2>1 DEF TypeInv, RequestInv
  <2> QED
    BY <1>1, <1>2, <1>5, <2>1, <2>2 DEF NextIndex, TypeInv
<1>6. CASE SaveAddress(o)
  <2>1. PICK at \in {"done", "store"} : Move(o, at)
    BY <1>6 DEF SaveAddress
  <2>2. creating[o].at = "save" /\ creating[o].index \in Nat /\ creating[o].amount >= price
    BY <1>6 DEF SaveAddress, TypeInv, RequestInv, Creation
  <2>3. DOMAIN depositOf' \subseteq Nat
    BY <1>6, <2>2 DEF SaveAddress, TypeInv
  <2>4. /\ creating' \in [Requests -> Creation] /\ creating'[o].amount = creating[o].amount
        /\ \A p \in Requests \ {o} : creating'[p] = creating[p]
    BY <2>1, Moved DEF Where
  <2> QED
    BY <1>1, <1>2, <1>6, <2>2, <2>3, <2>4 DEF SaveAddress, TypeInv
<1>7. CASE StoreOrder(o)
  <2>1. creating[o].at = "store" /\ creating[o].amount \in Nat /\ creating[o].amount >= price
        /\ creating[o].index \in Nat
    BY <1>7 DEF StoreOrder, TypeInv, RequestInv, Creation
  <2>2. /\ creating' \in [Requests -> Creation] /\ creating'[o].at = "done"
        /\ \A p \in Requests \ {o} : creating'[p] = creating[p]
    BY <1>7, Moved DEF StoreOrder, Where
  <2> DEFINE row == [status |-> "PENDING", amount |-> creating[o].amount, createdAt |-> clock,
                     address |-> IF mode = "per-order" THEN creating[o].index ELSE receivingAddress,
                     txn |-> None]
  <2>3. row \in Row /\ row.amount = creating[o].amount
    BY <2>1 DEF Row, OrderStatus, receivingAddress, TypeInv
  <2>4. orders' = orders \/ orders' = [orders EXCEPT ![o] = row]
    BY <1>7 DEF StoreOrder
  <2> HIDE DEF row
  <2>5. /\ orders' \in [Requests -> Row \cup {None}]
        /\ orders'[o] # None => orders'[o].amount >= price
        /\ orders[o] = None /\ \A p \in Requests \ {o} : orders'[p] = orders[p]
    BY <1>2, <2>1, <2>3, <2>4 DEF TypeInv
  <2> QED
    BY <1>7, <2>2, <2>5 DEF StoreOrder, TypeInv, RequestInv, settings, allocation
<1> QED
  BY <1>3, <1>4, <1>5, <1>6, <1>7

\* Only orders are in a status.
LEMMA InStatus ==
  ASSUME TypeInv, NEW o \in Requests, NEW status, o \in inStatus(status)
  PROVE  orders[o] \in Row /\ orders[o] # None /\ orders[o].status = status
BY Constants DEF TypeInv, inStatus, stored

\* What applyPayment and expireStaleOrders make of a pending order's row.
LEMMA RowChange ==
  ASSUME TypeInv, NEW o \in Requests, o \in inStatus("PENDING"),
         \/ \E tx \in Nat : orders' = [orders EXCEPT ![o].status = "FULFILLED", ![o].txn = tx]
         \/ orders' = [orders EXCEPT ![o].status = "EXPIRED"]
  PROVE  /\ orders' \in [Requests -> Row \cup {None}] /\ orders'[o] \in Row
         /\ orders'[o].amount = orders[o].amount /\ orders'[o].createdAt = orders[o].createdAt
         /\ orders'[o].address = orders[o].address /\ orders'[o].status # "PENDING"
         /\ \A p \in Requests \ {o} : orders'[p] = orders[p]
<1>1. orders \in [Requests -> Row \cup {None}] /\ orders[o] \in Row
  BY InStatus DEF TypeInv
<1>2. CASE \E tx \in Nat : orders' = [orders EXCEPT ![o].status = "FULFILLED", ![o].txn = tx]
  <2>1. PICK tx \in Nat : orders' = [orders EXCEPT ![o].status = "FULFILLED", ![o].txn = tx]
    BY <1>2
  <2>2. PICK r : r = [orders[o] EXCEPT !.status = "FULFILLED", !.txn = tx]
    OBVIOUS
  <2>3. /\ r \in Row /\ r.status = "FULFILLED" /\ r.amount = orders[o].amount
        /\ r.createdAt = orders[o].createdAt /\ r.address = orders[o].address
    BY <1>1, <2>1, <2>2 DEF Row, OrderStatus
  <2>4. orders' = [orders EXCEPT ![o] = r]
    BY <1>1, <2>1, <2>2
  <2> QED
    BY <1>1, <2>3, <2>4
<1>3. CASE orders' = [orders EXCEPT ![o].status = "EXPIRED"]
  <2>1. PICK r : r = [orders[o] EXCEPT !.status = "EXPIRED"]
    OBVIOUS
  <2>2. /\ r \in Row /\ r.status = "EXPIRED" /\ r.amount = orders[o].amount
        /\ r.createdAt = orders[o].createdAt /\ r.address = orders[o].address
    BY <1>1, <2>1 DEF Row, OrderStatus
  <2>3. orders' = [orders EXCEPT ![o] = r]
    BY <1>1, <1>3, <2>1
  <2> QED
    BY <1>1, <2>2, <2>3
<1> QED
  BY <1>2, <1>3

\* A payment puts one transfer on the chain.
LEMMA Paid ==
  ASSUME TypeInv, NEW o \in Requests, Pay(o)
  PROVE  \E t \in Transfer :
           /\ chain' = chain \cup {t} /\ IsFiniteSet(chain') /\ orders[o] # None
           /\ t.tx = Cardinality(chain) + 1 /\ t.to = orders[o].address /\ t.by = o
<1>1. orders[o] \in Row /\ orders[o].amount >= price /\ orders[o] # None
  BY Constants DEF Pay, stored, TypeInv, RequestInv
<1>2. Cardinality(chain) \in Nat /\ clock \in Nat
  BY FS_CardinalityType DEF TypeInv
<1>3. PICK v \in {orders[o].amount - 1, orders[o].amount, orders[o].amount + 1} :
        chain' = chain \cup {[tx |-> Cardinality(chain) + 1, to |-> orders[o].address,
                              value |-> v, at |-> clock, by |-> o]}
  BY DEF Pay
<1>4. v \in Nat
  <2>1. orders[o].amount \in Nat
    BY <1>1 DEF Row
  <2> QED
    BY <1>1, <1>3, <2>1, Constants
<1> DEFINE t == [tx |-> Cardinality(chain) + 1, to |-> orders[o].address,
                 value |-> v, at |-> clock, by |-> o]
<1>5. t \in Transfer
  BY <1>1, <1>2, <1>4 DEF Transfer, Row
<1>6. IsFiniteSet(chain \cup {t})
  BY FS_AddElement DEF TypeInv
<1> QED
  BY <1>1, <1>3, <1>5, <1>6

\* Polling and the outside world keep the types.
LEMMA SettleType ==
  ASSUME TypeInv,
         \/ \E o \in Requests : \/ queryPayment(o) \/ MarkTransfer(o) \/ ApplyTransfer(o)
                                \/ ExpireOrder(o) \/ Pay(o)
         \/ ClockTicks \/ Restart \/ UNCHANGED vars
  PROVE  TypeInv'
<1>1. ASSUME NEW o \in Requests, queryPayment(o) PROVE TypeInv'
  <2>1. PICK t \in chain : polling' = [polling EXCEPT ![o] = [at |-> "mark", tx |-> t.tx]]
    BY <1>1 DEF queryPayment
  <2>2. [at |-> "mark", tx |-> t.tx] \in Poll /\ orders[o] # None
    BY <1>1 DEF TypeInv, Transfer, Poll, queryPayment, inStatus, stored
  <2>3. /\ polling' \in [Requests -> Poll]
        /\ \A p \in Requests \ {o} : polling'[p] = polling[p]
    BY <2>1, <2>2 DEF TypeInv
  <2> QED
    BY <1>1, <2>2, <2>3 DEF queryPayment, TypeInv, RequestInv, settings, allocation
<1>2. ASSUME NEW o \in Requests, MarkTransfer(o) PROVE TypeInv'
  <2>1. /\ polling' \in [Requests -> Poll] /\ polling[o].at = "mark"
        /\ \A p \in Requests \ {o} : polling'[p] = polling[p]
    BY <1>2 DEF MarkTransfer, TypeInv, Poll
  <2> QED
    BY <1>2, <2>1 DEF MarkTransfer, TypeInv, RequestInv, settings, allocation
<1>3. ASSUME NEW o \in Requests, ApplyTransfer(o) PROVE TypeInv'
  <2>1. polling' \in [Requests -> Poll] /\ \A p \in Requests : polling'[p] \in {polling[p], NoPoll}
    BY <1>3 DEF ApplyTransfer, TypeInv, Poll, NoPoll
  <2>2. CASE o \in inStatus("PENDING")
    <3>1. polling[o].tx \in Nat
      BY DEF TypeInv, Poll
    <3>2. /\ orders' \in [Requests -> Row \cup {None}] /\ orders'[o].amount = orders[o].amount
          /\ orders[o] # None /\ orders'[o] \in Row
          /\ \A p \in Requests \ {o} : orders'[p] = orders[p]
      BY <1>3, <2>2, <3>1, RowChange, InStatus DEF ApplyTransfer
    <3> QED
      BY <1>3, <2>1, <3>2, Constants DEF ApplyTransfer, TypeInv, RequestInv, NoPoll, settings, allocation
  <2>3. CASE o \notin inStatus("PENDING")
    BY <1>3, <2>1, <2>3 DEF ApplyTransfer, TypeInv, RequestInv, NoPoll, settings, allocation
  <2> QED
    BY <2>2, <2>3
<1>4. ASSUME NEW o \in Requests, ExpireOrder(o) PROVE TypeInv'
  <2>1. /\ orders' \in [Requests -> Row \cup {None}] /\ orders'[o].amount = orders[o].amount
        /\ orders[o] # None /\ orders'[o] \in Row
        /\ \A p \in Requests \ {o} : orders'[p] = orders[p]
    BY <1>4, RowChange, InStatus DEF ExpireOrder
  <2> QED
    BY <1>4, <2>1, Constants DEF ExpireOrder, TypeInv, RequestInv, settings, allocation
<1>5. ASSUME NEW o \in Requests, Pay(o) PROVE TypeInv'
  <2>1. IsFiniteSet(chain') /\ chain' \subseteq Transfer
    BY <1>5, Paid DEF TypeInv
  <2> QED
    BY <1>5, <2>1 DEF Pay, TypeInv, RequestInv, settings, allocation
<1>6. CASE ClockTicks
  BY <1>6 DEF ClockTicks, TypeInv, RequestInv, settings, allocation
<1>7. CASE Restart
  <2>1. /\ creating' \in [Requests -> Creation] /\ polling' \in [Requests -> Poll]
        /\ \A o \in Requests : /\ creating'[o].at \in {"idle", "done"}
                               /\ creating[o].at = "done" => creating'[o].at = "done"
                               /\ polling'[o] = NoPoll
    <3>1. \A o \in Requests : /\ creating[o] \in Creation
                              /\ [creating[o] EXCEPT !.at = "done"] \in Creation
                              /\ [creating[o] EXCEPT !.at = "done"].at = "done"
      BY DEF TypeInv, Creation, Where
    <3>2. NoPoll \in Poll
      BY DEF NoPoll, Poll
    <3> QED
      BY <1>7, <3>1, <3>2 DEF Restart
  <2> QED
    BY <1>7, <2>1 DEF Restart, TypeInv, RequestInv, NoPoll, settings, allocation
<1>8. CASE UNCHANGED vars
  BY <1>8 DEF vars, TypeInv, RequestInv, settings, allocation
<1> QED
  BY <1>1, <1>2, <1>3, <1>4, <1>5, <1>6, <1>7, <1>8

\* The initial states are well typed.
LEMMA InitType ==
  ASSUME Init  PROVE TypeInv
<1>1. IsFiniteSet(chain)
  BY FS_EmptySet DEF Init
<1>2. creating \in [Requests -> Creation] /\ polling \in [Requests -> Poll]
  BY DEF Init, Idle, NoPoll, Creation, Poll, Where
<1>3. \A o \in Requests : RequestInv(o)
  BY DEF Init, RequestInv, Idle, NoPoll
<1> QED
  BY <1>1, <1>2, <1>3 DEF Init, TypeInv

\* Every step keeps the types.
LEMMA NextType ==
  ASSUME TypeInv, [Next]_vars  PROVE TypeInv'
BY CreateType, SettleType DEF Next

\* Every variable keeps its type: an order is priced before it is stored, and only
\* a stored one is polled (PaymentService.createOrder and syncOrder).
THEOREM TypeCorrect == Spec => []TypeInv
<1>1. Init => TypeInv
  BY InitType
<1>2. TypeInv /\ [Next]_vars => TypeInv'
  BY NextType
<1> QED
  BY <1>1, <1>2, PTL DEF Spec

-----------------------------------------------------------------------------
(* A transfer settles one order *)

\* A transfer is known by its txId.
ChainInv == \A t, u \in chain : t.tx \in 1..Cardinality(chain) /\ (t.tx = u.tx => t = u)

\* A transfer on the chain pays the order in full, in time and, in per-order mode,
\* at its address.
Matches(o, tx) ==
  \E t \in chain :
    /\ t.tx = tx /\ t.value >= orders[o].amount /\ Recent(o, t)
    /\ mode = "per-order" => t.to = orders[o].address

\* A poll carries a match for an order not settled yet; once it has marked the
\* transfer, the transfer is its own.
PollInv(o) ==
  /\ polling[o].at # "idle" => Matches(o, polling[o].tx) /\ o \notin settled
  /\ polling[o].at = "apply" =>
       /\ polling[o].tx \in marked
       /\ \A p \in settled : orders[p].txn # polling[o].tx
       /\ \A p \in Requests : polling[p].at = "apply" /\ polling[p].tx = polling[o].tx => p = o

SettledInv(o) ==
  o \in settled =>
    /\ Matches(o, orders[o].txn) /\ orders[o].txn \in marked
    /\ \A p \in settled : orders[p].txn = orders[o].txn => p = o

TransferInv == TypeInv /\ ChainInv /\ \A o \in Requests : PollInv(o) /\ SettledInv(o)

\* A match stays one while the order's row keeps what it asks for.
LEMMA MatchKept ==
  ASSUME NEW o, NEW tx, Matches(o, tx), chain \subseteq chain', UNCHANGED mode,
         orders'[o].amount = orders[o].amount, orders'[o].createdAt = orders[o].createdAt,
         orders'[o].address = orders[o].address
  PROVE  Matches(o, tx)'
BY DEF Matches, Recent

\* The settled orders, spelled out.
LEMMA Settled ==
  \A o : o \in settled <=> o \in Requests /\ orders[o] # None /\ orders[o].status = "FULFILLED"
BY DEF settled, inStatus, stored

\* A step that settles nothing and moves no poll keeps the invariant.
LEMMA TransferFrame ==
  ASSUME TransferInv, chain \subseteq chain', UNCHANGED <<mode, marked>>,
         settled' = settled, \A p \in Requests : polling'[p] \in {polling[p], NoPoll},
         \A p \in Requests : orders[p] # None =>
           /\ orders'[p].amount = orders[p].amount /\ orders'[p].createdAt = orders[p].createdAt
           /\ orders'[p].address = orders[p].address
           /\ p \in settled => orders'[p].txn = orders[p].txn
  PROVE  \A o \in Requests : PollInv(o)' /\ SettledInv(o)'
<1> SUFFICES ASSUME NEW o \in Requests  PROVE PollInv(o)' /\ SettledInv(o)'
  OBVIOUS
<1>1. PollInv(o) /\ SettledInv(o) /\ RequestInv(o)
  BY DEF TransferInv, TypeInv
<1>2. orders[o] # None => \A tx : Matches(o, tx) => Matches(o, tx)'
  BY MatchKept
<1>3. SettledInv(o)'
  <2>1. o \in settled => orders[o] # None
    BY Settled
  <2> QED
    BY <1>1, <1>2, <2>1, Settled DEF SettledInv
<1>4. PollInv(o)'
  <2>1. CASE polling'[o] = NoPoll
    BY <2>1 DEF PollInv, NoPoll
  <2>2. CASE polling'[o] = polling[o]
    <3>1. \A p \in Requests : polling'[p].at = "apply" => polling'[p] = polling[p]
      BY DEF NoPoll
    <3>2. \A p \in settled : orders'[p].txn = orders[p].txn
      BY Settled
    <3> QED
      BY <1>1, <1>2, <2>2, <3>1, <3>2 DEF PollInv, RequestInv
  <2> QED
    BY <2>1, <2>2
<1> QED
  BY <1>3, <1>4

\* Steps that store, expire and pay settle nothing.
LEMMA OthersKeepTransfers ==
  ASSUME TransferInv, TypeInv',
         \/ \E o \in Requests :
              \/ StartCreate(o) \/ resolveAmount(o) \/ NextIndex(o) \/ SaveAddress(o)
              \/ StoreOrder(o) \/ ExpireOrder(o) \/ Pay(o)
         \/ ClockTicks \/ Restart \/ UNCHANGED vars
  PROVE  TransferInv'
<1>1. ASSUME UNCHANGED <<mode, orders, chain, marked>>,
             \A p \in Requests : polling'[p] \in {polling[p], NoPoll}
      PROVE  TransferInv'
  <2>1. settled' = settled
    BY <1>1 DEF settled, inStatus, stored
  <2>2. \A o \in Requests : PollInv(o)' /\ SettledInv(o)'
    BY <1>1, <2>1, TransferFrame
  <2> QED
    BY <1>1, <2>2 DEF TransferInv, ChainInv
<1>2. ASSUME NEW o \in Requests, StoreOrder(o) PROVE TransferInv'
  <2>1. /\ orders[o] = None /\ UNCHANGED <<mode, chain, marked, polling>>
        /\ \A p \in Requests \ {o} : orders'[p] = orders[p]
        /\ orders'[o] # None => orders'[o].status = "PENDING"
    BY <1>2 DEF StoreOrder, TransferInv, TypeInv, RequestInv, settings
  <2>2. settled' = settled
    BY <2>1 DEF settled, inStatus, stored
  <2>3. \A p \in Requests : PollInv(p)' /\ SettledInv(p)'
    BY <2>1, <2>2, TransferFrame
  <2> QED
    BY <2>1, <2>3 DEF TransferInv, ChainInv
<1>3. ASSUME NEW o \in Requests, ExpireOrder(o) PROVE TransferInv'
  <2>1. /\ UNCHANGED <<mode, chain, marked, polling>> /\ o \in inStatus("PENDING")
        /\ orders'[o].amount = orders[o].amount /\ orders'[o].createdAt = orders[o].createdAt
        /\ orders'[o].address = orders[o].address /\ orders'[o].status = "EXPIRED"
        /\ \A p \in Requests \ {o} : orders'[p] = orders[p]
    <3>1. orders'[o].status = "EXPIRED"
      <4>1. orders[o] \in Row /\ orders \in [Requests -> Row \cup {None}]
        BY <1>3, InStatus DEF ExpireOrder, TransferInv, TypeInv
      <4> QED
        BY <1>3, <4>1 DEF ExpireOrder, Row
    <3> QED
      BY <1>3, <3>1, RowChange DEF ExpireOrder, TransferInv, settings
  <2>2. settled' = settled
    BY <2>1, Constants DEF settled, inStatus, stored, TypeInv
  <2>3. o \notin settled
    BY <2>1 DEF settled, inStatus
  <2>4. \A p \in Requests : PollInv(p)' /\ SettledInv(p)'
    BY <2>1, <2>2, <2>3, TransferFrame
  <2> QED
    BY <2>1, <2>4 DEF TransferInv, ChainInv
<1>4. ASSUME NEW o \in Requests, Pay(o) PROVE TransferInv'
  <2>1. PICK t \in Transfer : chain' = chain \cup {t} /\ t.tx = Cardinality(chain) + 1
    BY <1>4, Paid DEF TransferInv
  <2>2. UNCHANGED <<mode, orders, marked, polling>> /\ settled' = settled
    BY <1>4 DEF Pay, settings, settled, inStatus, stored
  <2>3. \A p \in Requests : PollInv(p)' /\ SettledInv(p)'
    BY <2>1, <2>2, TransferFrame
  <2>4. Cardinality(chain) \in Nat /\ IsFiniteSet(chain)
    BY FS_CardinalityType DEF TransferInv, TypeInv
  <2>5. t \notin chain
    BY <2>1, <2>4 DEF TransferInv, ChainInv
  <2>6. Cardinality(chain') = Cardinality(chain) + 1
    BY <2>1, <2>4, <2>5, FS_AddElement
  <2>7. ChainInv'
    BY <2>1, <2>4, <2>6 DEF TransferInv, ChainInv
  <2> QED
    BY <2>3, <2>7 DEF TransferInv
<1>5. CASE Restart
  BY <1>1, <1>5 DEF Restart, settings
<1> QED
  BY <1>1, <1>2, <1>3, <1>4, <1>5
  DEF StartCreate, resolveAmount, NextIndex, SaveAddress, ClockTicks, vars, settings

\* A poll that finds, marks or applies a transfer keeps it one order's.
LEMMA PollKeepsTransfers ==
  ASSUME TransferInv, TypeInv', NEW o \in Requests,
         queryPayment(o) \/ MarkTransfer(o) \/ ApplyTransfer(o)
  PROVE  TransferInv'
<1>1. /\ TypeInv /\ ChainInv /\ PollInv(o) /\ RequestInv(o)
      /\ \A p \in Requests : PollInv(p) /\ SettledInv(p)
  BY DEF TransferInv, TypeInv
<1>2. UNCHANGED <<mode, chain>> /\ ChainInv'
  BY DEF queryPayment, MarkTransfer, ApplyTransfer, settings, TransferInv, ChainInv
<1>3. CASE queryPayment(o)
  <2>1. PICK t \in chain :
          /\ IF mode = "per-order" THEN matchByAddress(o, t) ELSE matchTransfer(o, t)
          /\ polling' = [polling EXCEPT ![o] = [at |-> "mark", tx |-> t.tx]]
    BY <1>3 DEF queryPayment
  <2>2. /\ polling'[o].at = "mark" /\ polling'[o].tx = t.tx
        /\ \A p \in Requests \ {o} : polling'[p] = polling[p]
    BY <1>1, <2>1 DEF TypeInv
  <2>3. Matches(o, t.tx)
    <3>1. t.value >= orders[o].amount /\ Recent(o, t) /\ (mode = "per-order" => t.to = orders[o].address)
      <4>1. orders[o].amount \in Nat
        BY <1>1, <1>3, InStatus DEF queryPayment, Row
      <4> QED
        BY <2>1, <4>1 DEF matchByAddress, matchTransfer
    <3> QED
      BY <3>1 DEF Matches
  <2>4. o \notin settled /\ orders' = orders /\ marked' = marked /\ settled' = settled
    BY <1>3 DEF queryPayment, settled, inStatus, stored
  <2>5. \A p, tx : Matches(p, tx)' <=> Matches(p, tx)
    BY <1>2, <2>4 DEF Matches, Recent
  <2>6. \A p \in Requests : SettledInv(p)'
    BY <1>1, <2>4, <2>5 DEF SettledInv
  <2>7. \A p \in Requests : PollInv(p)'
    BY <1>1, <2>2, <2>3, <2>4, <2>5 DEF PollInv
  <2> QED
    BY <1>2, <2>6, <2>7 DEF TransferInv
<1>4. CASE MarkTransfer(o)
  <2>1. /\ polling[o].at = "mark" /\ polling'[o].tx = polling[o].tx
        /\ polling'[o].at = IF polling[o].tx \in marked THEN "idle" ELSE "apply"
        /\ \A p \in Requests \ {o} : polling'[p] = polling[p]
    BY <1>1, <1>4 DEF MarkTransfer, TypeInv, Poll
  <2>2. orders' = orders /\ marked' = marked \cup {polling[o].tx} /\ settled' = settled
    BY <1>4 DEF MarkTransfer, settled, inStatus, stored
  <2>3. \A p, tx : Matches(p, tx)' <=> Matches(p, tx)
    BY <1>2, <2>2 DEF Matches, Recent
  <2>4. \A p \in Requests : SettledInv(p)'
    BY <1>1, <2>2, <2>3 DEF SettledInv
  <2>5. \A p \in settled : p \in Requests /\ orders[p].txn \in marked
    BY <1>1, Settled DEF SettledInv
  <2>6. ASSUME NEW p \in Requests, p # o PROVE PollInv(p)'
    BY <1>1, <2>1, <2>2, <2>3, <2>6 DEF PollInv
  <2>7. PollInv(o)'
    <3>1. CASE polling[o].tx \in marked
      BY <2>1, <3>1 DEF PollInv
    <3>2. CASE polling[o].tx \notin marked
      <4>1. \A p \in Requests \ {o} : polling[p].at = "apply" => polling[p].tx # polling[o].tx
        BY <1>1, <3>2 DEF PollInv
      <4>2. \A p \in settled : orders[p].txn # polling[o].tx
        BY <2>5, <3>2
      <4> QED
        BY <1>1, <2>1, <2>2, <2>3, <4>1, <4>2 DEF PollInv
    <3> QED
      BY <3>1, <3>2
  <2> QED
    BY <1>2, <2>4, <2>6, <2>7 DEF TransferInv
<1>5. CASE ApplyTransfer(o)
  <2>1. /\ polling[o].at = "apply" /\ polling'[o] = NoPoll /\ marked' = marked
        /\ \A p \in Requests \ {o} : polling'[p] = polling[p]
    BY <1>1, <1>5 DEF ApplyTransfer, TypeInv
  <2>2. CASE o \notin inStatus("PENDING")
    <3>1. orders' = orders /\ settled' = settled
      BY <1>5, <2>2 DEF ApplyTransfer, settled, inStatus, stored
    <3>2. \A p \in Requests : PollInv(p)' /\ SettledInv(p)'
      BY <1>2, <2>1, <3>1, TransferFrame
    <3> QED
      BY <1>2, <3>2 DEF TransferInv
  <2>3. CASE o \in inStatus("PENDING")
    <3>1. orders' = [orders EXCEPT ![o].status = "FULFILLED", ![o].txn = polling[o].tx]
      BY <1>5, <2>3 DEF ApplyTransfer
    <3>2. /\ orders \in [Requests -> Row \cup {None}] /\ orders[o] \in Row /\ polling[o].tx \in Nat
          /\ orders[o] # None
      BY <1>1, <2>3, InStatus DEF TypeInv, Poll
    <3>3. /\ orders'[o] \in Row /\ orders'[o].amount = orders[o].amount
          /\ orders'[o].createdAt = orders[o].createdAt /\ orders'[o].address = orders[o].address
          /\ \A p \in Requests \ {o} : orders'[p] = orders[p]
      BY <1>1, <2>3, <3>1, <3>2, RowChange
    <3>4. orders'[o].status = "FULFILLED" /\ orders'[o].txn = polling[o].tx
      BY <3>1, <3>2 DEF Row
    <3>5. settled' = settled \cup {o}
      BY <3>2, <3>3, <3>4, Constants DEF settled, inStatus, stored
    <3>6. \A p \in Requests : \A tx : Matches(p, tx) => Matches(p, tx)'
      BY <1>2, <3>3, MatchKept
    <3>7. /\ Matches(o, polling[o].tx) /\ polling[o].tx \in marked /\ o \notin settled
          /\ \A p \in settled : orders[p].txn # polling[o].tx
          /\ \A p \in Requests : polling[p].at = "apply" /\ polling[p].tx = polling[o].tx => p = o
      BY <1>1, <2>1 DEF PollInv
    <3>8. ASSUME NEW p \in Requests, p # o PROVE PollInv(p)' /\ SettledInv(p)'
      <4>1. PollInv(p)'
        <5> PICK x : x = polling[p].tx
          OBVIOUS
        <5>1. polling[p].at # "idle" => Matches(p, x)' /\ p \notin settled'
          BY <1>1, <3>5, <3>6, <3>8 DEF PollInv
        <5>2. polling[p].at = "apply" =>
                /\ polling[p].tx \in marked
                /\ \A q \in settled' : orders'[q].txn # polling[p].tx
          BY <1>1, <3>3, <3>4, <3>5, <3>7, <3>8, Settled DEF PollInv
        <5>3. polling[p].at = "apply" =>
                \A q \in Requests : polling'[q].at = "apply" /\ polling'[q].tx = polling[p].tx => q = p
          BY <1>1, <2>1 DEF PollInv, NoPoll
        <5>4. polling'[p] = polling[p]
          BY <2>1, <3>8
        <5>5. /\ polling'[p].at # "idle" => Matches(p, x)' /\ p \notin settled'
              /\ polling'[p].at = "apply" => polling'[p].tx \in marked'
          BY <2>1, <5>1, <5>2, <5>4
        <5> QED
          BY <2>1, <5>2, <5>3, <5>4, <5>5 DEF PollInv
      <4>2. SettledInv(p)'
        <5> PICK x : x = orders[p].txn
          OBVIOUS
        <5>1. p \in settled => Matches(p, x)' /\ x \in marked
          BY <1>1, <3>6, <3>8 DEF SettledInv
        <5>2. orders'[p] = orders[p]
          BY <3>3, <3>8
        <5>3. p \in settled => \A q \in settled \cup {o} : orders'[q].txn = orders[p].txn => q = p
          BY <1>1, <3>3, <3>4, <3>7, <3>8, Settled DEF SettledInv
        <5> QED
          BY <2>1, <3>5, <3>8, <5>1, <5>2, <5>3 DEF SettledInv
      <4> QED
        BY <4>1, <4>2
    <3>9. PollInv(o)'
      BY <2>1 DEF PollInv, NoPoll
    <3>10. SettledInv(o)'
      <4>1. \A p \in settled \cup {o} : orders'[p].txn = polling[o].tx => p = o
        BY <3>3, <3>7, Settled
      <4> PICK x : x = polling[o].tx
        OBVIOUS
      <4>2. Matches(o, x)'
        BY <3>6, <3>7
      <4> QED
        BY <2>1, <3>4, <3>5, <3>7, <4>1, <4>2 DEF SettledInv
    <3> QED
      BY <1>2, <3>8, <3>9, <3>10 DEF TransferInv
  <2> QED
    BY <2>2, <2>3
<1> QED
  BY <1>3, <1>4, <1>5

\* No transfer is claimed in the initial states.
LEMMA InitTransfers ==
  ASSUME Init  PROVE TransferInv
<1>1. \A o \in Requests : PollInv(o) /\ SettledInv(o)
  BY Settled DEF Init, PollInv, SettledInv, NoPoll
<1> QED
  BY <1>1, InitType DEF Init, TransferInv, ChainInv

\* Every step keeps a transfer one order's.
LEMMA NextTransfers ==
  ASSUME TransferInv, [Next]_vars  PROVE TransferInv'
<1>1. TypeInv'
  BY NextType DEF TransferInv
<1> QED
  BY <1>1, OthersKeepTransfers, PollKeepsTransfers DEF Next

\* The transfer of a txId on the chain.
LEMMA TransferOf ==
  ASSUME ChainInv, NEW t \in chain
  PROVE  transfer(t.tx) = t
<1>1. transfer(t.tx) \in chain /\ transfer(t.tx).tx = t.tx
  BY DEF transfer
<1> QED
  BY <1>1 DEF ChainInv

\* Whatever polls run at once, whatever orders ask for the same amount and whenever
\* the process restarts, markIfNew lets a transfer settle one order, in full, and
\* none that is younger than the tolerance allows.
THEOREM OneTransferOneOrder == Spec => []TransferSettlesOnce
<1>1. Init => TransferInv
  BY InitTransfers
<1>2. TransferInv /\ [Next]_vars => TransferInv'
  BY NextTransfers
<1>3. TransferInv => TransferSettlesOnce
  <2> SUFFICES ASSUME TransferInv  PROVE TransferSettlesOnce
    OBVIOUS
  <2>1. \A o \in settled : o \in Requests /\ SettledInv(o)
    BY Settled DEF TransferInv
  <2>2. ASSUME NEW o \in settled
        PROVE  LET t == transfer(orders[o].txn) IN t.value >= orders[o].amount /\ Recent(o, t)
    <3>1. PICK t \in chain : t.tx = orders[o].txn /\ t.value >= orders[o].amount /\ Recent(o, t)
      BY <2>1 DEF SettledInv, Matches
    <3>2. transfer(orders[o].txn) = t
      BY <3>1, TransferOf DEF TransferInv
    <3> QED
      BY <3>1, <3>2
  <2> QED
    BY <2>1, <2>2 DEF TransferSettlesOnce, SettledInv
<1> QED
  BY <1>1, <1>2, <1>3, PTL DEF Spec

-----------------------------------------------------------------------------
(* A deposit address is one order's *)

\* An address that a call goes on with, or that an order was stored with, is saved
\* as that order's, and transfers go to the address of their buyer's order.
AddressInv ==
  mode = "per-order" =>
    /\ \A o \in stored : orders[o].address \in DOMAIN depositOf /\ depositOf[orders[o].address] = o
    /\ \A o \in Requests : creating[o].at = "store" =>
         creating[o].index \in DOMAIN depositOf /\ depositOf[creating[o].index] = o
    /\ \A t \in chain : t.by \in stored /\ t.to = orders[t.by].address

\* Every step keeps it: a saved address is never given to another order.
LEMMA NextAddress ==
  ASSUME TypeInv, AddressInv, [Next]_vars  PROVE AddressInv'
<1>1. mode' = mode
  BY DEF Next, StartCreate, resolveAmount, NextIndex, SaveAddress, StoreOrder, queryPayment,
         MarkTransfer, ApplyTransfer, ExpireOrder, Pay, ClockTicks, Restart, vars, settings
<1> SUFFICES ASSUME mode = "per-order"
             PROVE  AddressInv'
  BY <1>1 DEF AddressInv
<1> USE DEF stored
<1>2. ASSUME UNCHANGED <<depositOf, chain>>,
             \A p \in Requests : orders[p] # None =>
               orders'[p] # None /\ orders'[p].address = orders[p].address,
             \A p \in Requests : orders'[p] # None => orders[p] # None,
             \A p \in Requests : creating'[p].at = "store" => creating'[p] = creating[p]
      PROVE  AddressInv'
  BY <1>2 DEF AddressInv
<1>3. ASSUME NEW o \in Requests, StartCreate(o) PROVE AddressInv'
  <2>1. PICK at \in {"done", "price"} : Move(o, at)
    BY <1>3 DEF StartCreate
  <2> QED
    BY <1>2, <1>3, <2>1, Moved DEF StartCreate, allocation, Where
<1>4. ASSUME NEW o \in Requests, resolveAmount(o) PROVE AddressInv'
  <2>1. /\ \A p \in Requests \ {o} : creating'[p] = creating[p]
        /\ creating'[o].at \in {"done", "index"}
    <3>1. CASE Move(o, "done")
      BY <3>1, Moved DEF Where
    <3>2. CASE \E a : creating' = [creating EXCEPT ![o].amount = a, ![o].at = "index"]
      BY <3>2 DEF TypeInv, Creation
    <3> QED
      BY <1>4, <3>1, <3>2 DEF resolveAmount
  <2> QED
    BY <1>2, <1>4, <2>1 DEF resolveAmount, allocation
<1>5. ASSUME NEW o \in Requests, NextIndex(o) PROVE AddressInv'
  <2>1. /\ \A p \in Requests \ {o} : creating'[p] = creating[p]
        /\ creating'[o].at = "save"
    BY <1>5 DEF NextIndex, TypeInv, Creation
  <2> QED
    BY <1>2, <1>5, <2>1 DEF NextIndex
<1>6. ASSUME NEW o \in Requests, SaveAddress(o) PROVE AddressInv'
  <2> DEFINE i == creating[o].index
  <2>1. CASE i \in DOMAIN depositOf
    BY <1>2, <1>6, <2>1, Moved DEF SaveAddress, Where
  <2>2. CASE i \notin DOMAIN depositOf
    <3>1. /\ DOMAIN depositOf' = DOMAIN depositOf \cup {i} /\ depositOf'[i] = o
          /\ \A j \in DOMAIN depositOf : depositOf'[j] = depositOf[j]
          /\ UNCHANGED <<orders, chain>>
      BY <1>6, <2>2 DEF SaveAddress
    <3>2. /\ creating'[o].index = i
          /\ \A p \in Requests \ {o} : creating'[p] = creating[p]
      BY <1>6, <2>2, Moved DEF SaveAddress, Where
    <3> HIDE DEF i
    <3> QED
      BY <1>1, <3>1, <3>2 DEF AddressInv
  <2> QED
    BY <2>1, <2>2
<1>7. ASSUME NEW o \in Requests, StoreOrder(o) PROVE AddressInv'
  <2>1. /\ creating[o].at = "store" /\ creating'[o].at = "done"
        /\ \A p \in Requests \ {o} : creating'[p] = creating[p]
    BY <1>7, Moved DEF StoreOrder, Where
  <2>2. orders[o] = None /\ UNCHANGED <<depositOf, chain>>
    BY <1>7, <2>1 DEF StoreOrder, TypeInv, RequestInv, allocation
  <2>3. /\ \A p \in Requests \ {o} : orders'[p] = orders[p]
        /\ orders'[o] # None => orders'[o].address = creating[o].index
    BY <1>7, <2>2 DEF StoreOrder, TypeInv
  <2> QED
    BY <1>1, <2>1, <2>2, <2>3 DEF AddressInv
<1>8. ASSUME NEW o \in Requests, ApplyTransfer(o) \/ ExpireOrder(o) PROVE AddressInv'
  <2>1. CASE o \in inStatus("PENDING") /\ orders' # orders
    <3>1. /\ orders'[o] \in Row /\ orders'[o].address = orders[o].address /\ orders[o] # None
          /\ \A p \in Requests \ {o} : orders'[p] = orders[p]
      <4>1. polling[o].tx \in Nat
        BY DEF TypeInv, Poll
      <4> QED
        BY <1>8, <2>1, <4>1, RowChange, InStatus DEF ApplyTransfer, ExpireOrder
    <3> QED
      BY <1>2, <1>8, <3>1, Constants DEF ApplyTransfer, ExpireOrder, allocation
  <2> QED
    BY <1>2, <1>8, <2>1 DEF ApplyTransfer, ExpireOrder, allocation
<1>9. ASSUME NEW o \in Requests, Pay(o) PROVE AddressInv'
  <2>1. PICK t \in Transfer : /\ chain' = chain \cup {t} /\ orders[o] # None
                             /\ t.to = orders[o].address /\ t.by = o
    BY <1>9, Paid
  <2> QED
    BY <1>1, <1>9, <2>1 DEF Pay, AddressInv, allocation
<1>10. CASE Restart
  <2>1. \A p \in Requests : creating'[p].at = "store" => creating'[p] = creating[p]
    BY <1>10 DEF Restart, TypeInv, Creation
  <2> QED
    BY <1>2, <1>10, <2>1 DEF Restart, allocation
<1> QED
  BY <1>2, <1>3, <1>4, <1>5, <1>6, <1>7, <1>8, <1>9, <1>10
  DEF Next, queryPayment, MarkTransfer, ClockTicks, vars, allocation

\* In per-order mode, however calls overlap and restarts cut them short, no two
\* orders share a deposit address and an order is settled only by a transfer its
\* own buyer sent (AddressAllocator.allocate saves the address as the order's).
THEOREM DepositIsOwnOrders == Spec => []DepositIsOwn
<1>1. Init => TransferInv /\ AddressInv
  BY InitTransfers DEF Init, AddressInv, stored, Idle
<1>2. TransferInv /\ AddressInv /\ [Next]_vars => (TransferInv /\ AddressInv)'
  BY NextTransfers, NextAddress DEF TransferInv
<1>3. TransferInv /\ AddressInv => DepositIsOwn
  <2> SUFFICES ASSUME TransferInv, AddressInv, mode = "per-order"  PROVE DepositIsOwn
    BY DEF DepositIsOwn
  <2>1. \A o \in stored : depositOf[orders[o].address] = o
    BY DEF AddressInv
  <2>2. ASSUME NEW o \in settled  PROVE transfer(orders[o].txn).by = o
    <3>1. PICK t \in chain : t.tx = orders[o].txn /\ t.to = orders[o].address
      BY Settled DEF TransferInv, SettledInv, Matches
    <3>2. transfer(orders[o].txn) = t
      BY <3>1, TransferOf DEF TransferInv
    <3>3. o \in stored /\ t.by \in stored /\ t.to = orders[t.by].address
      BY Settled DEF AddressInv, stored
    <3> QED
      BY <2>1, <3>1, <3>2, <3>3
  <2> QED
    BY <2>1, <2>2 DEF DepositIsOwn
<1> QED
  BY <1>1, <1>2, <1>3, PTL DEF Spec

-----------------------------------------------------------------------------
(* One order per key, one pending order per amount *)

\* A call that has found no order for its key and has not stored its own.
Underway(o) == creating[o].at \in {"price", "index", "save", "store"}

SameKey(o, p) == keyOf[o] = keyOf[p] /\ keyOf[o] # None

\* Calls that do not overlap are underway one at a time, and the orders of the
\* others stay as the call found them.
KeyInv ==
  /\ backend = "sql" \/ oneByOne => \A o, p \in stored : SameKey(o, p) => o = p
  /\ oneByOne => /\ \A o, p \in Requests : Underway(o) /\ Underway(p) => o = p
                 /\ \A o \in Requests, p \in stored : Underway(o) => ~SameKey(o, p)

AmountInv ==
  oneByOne /\ mode = "shared" =>
    /\ \A o, p \in inStatus("PENDING") : orders[o].amount = orders[p].amount => o = p
    /\ \A o \in Requests, p \in inStatus("PENDING") :
         creating[o].at = "store" => orders[p].amount # creating[o].amount
    /\ \A o \in Requests : creating[o].at \notin {"index", "save"}

\* The settings never change.
LEMMA SettingsKept ==
  ASSUME [Next]_vars  PROVE UNCHANGED <<mode, backend, oneByOne>>
BY DEF Next, StartCreate, resolveAmount, NextIndex, SaveAddress, StoreOrder, queryPayment,
       MarkTransfer, ApplyTransfer, ExpireOrder, Pay, ClockTicks, Restart, vars, settings

\* What a step of createOrder before the store does to the calls.
LEMMA CallStep ==
  ASSUME TypeInv, NEW o \in Requests,
         StartCreate(o) \/ resolveAmount(o) \/ NextIndex(o) \/ SaveAddress(o)
  PROVE  /\ orders' = orders
         /\ \A p \in Requests \ {o} : creating'[p] = creating[p]
         /\ Underway(o)' => Underway(o) \/ StartCreate(o)
<1>1. CASE StartCreate(o)
  BY <1>1, Moved DEF StartCreate, Where
<1>2. CASE resolveAmount(o)
  <2>1. \/ Move(o, "done")
        \/ \E a : creating' = [creating EXCEPT ![o].amount = a,
                   ![o].at = IF mode = "per-order" THEN "index" ELSE "store"]
    BY <1>2 DEF resolveAmount
  <2> QED
    BY <1>2, <2>1, Moved DEF resolveAmount, Where, Underway, TypeInv
<1>3. CASE NextIndex(o)
  BY <1>3 DEF NextIndex, Underway, TypeInv
<1>4. CASE SaveAddress(o)
  <2>1. PICK at \in {"done", "store"} : Move(o, at)
    BY <1>4 DEF SaveAddress
  <2> QED
    BY <1>4, <2>1, Moved DEF SaveAddress, Where, Underway
<1> QED
  BY <1>1, <1>2, <1>3, <1>4

\* A step that is not part of createOrder stores nothing, and none of a call is
\* underway after it that was not before.
LEMMA OtherStep ==
  ASSUME TypeInv,
         \/ \E o \in Requests : \/ queryPayment(o) \/ MarkTransfer(o) \/ ApplyTransfer(o)
                                \/ ExpireOrder(o) \/ Pay(o)
         \/ ClockTicks \/ Restart \/ UNCHANGED vars
  PROVE  /\ stored' = stored
         /\ \A p \in Requests : creating'[p] = creating[p] \/ creating'[p].at \in {"idle", "done"}
         /\ \A p \in inStatus("PENDING")' : p \in inStatus("PENDING") /\ orders'[p] = orders[p]
<1>1. ASSUME NEW o \in Requests, ApplyTransfer(o) \/ ExpireOrder(o), orders' # orders
      PROVE  /\ stored' = stored
             /\ \A p \in inStatus("PENDING")' : p \in inStatus("PENDING") /\ orders'[p] = orders[p]
  <2>1. polling[o].tx \in Nat /\ o \in inStatus("PENDING")
    BY <1>1 DEF ApplyTransfer, ExpireOrder, TypeInv, Poll
  <2>2. /\ orders'[o] \in Row /\ orders[o] # None /\ orders'[o].status # "PENDING"
        /\ \A p \in Requests \ {o} : orders'[p] = orders[p]
    BY <1>1, <2>1, RowChange, InStatus DEF ApplyTransfer, ExpireOrder
  <2> QED
    BY <2>2, Constants DEF stored, inStatus
<1>2. ASSUME orders' = orders
      PROVE  /\ stored' = stored
             /\ \A p \in inStatus("PENDING")' : p \in inStatus("PENDING") /\ orders'[p] = orders[p]
  BY <1>2 DEF stored, inStatus
<1>3. CASE Restart
  <2>1. \A p \in Requests : creating'[p] = creating[p] \/ creating'[p].at \in {"idle", "done"}
    BY <1>3 DEF Restart, TypeInv, Creation
  <2> QED
    BY <1>2, <1>3, <2>1 DEF Restart
<1> QED
  BY <1>1, <1>2, <1>3
  DEF queryPayment, MarkTransfer, ApplyTransfer, ExpireOrder, Pay, ClockTicks, vars

\* Every step keeps one order per key.
LEMMA NextKey ==
  ASSUME TypeInv, KeyInv, [Next]_vars  PROVE KeyInv'
<1>1. UNCHANGED <<mode, backend, oneByOne>>
  BY SettingsKept
<1>2. ASSUME NEW o \in Requests, StartCreate(o) PROVE KeyInv'
  <2>1. PICK at \in {"done", "price"} :
          /\ Move(o, at)
          /\ at = "price" => ~(keyOf[o] # None /\ \E p \in stored : keyOf[p] = keyOf[o])
    BY <1>2 DEF StartCreate
  <2>2. /\ creating'[o].at = at /\ \A p \in Requests \ {o} : creating'[p] = creating[p]
        /\ stored' = stored /\ (oneByOne => \A p \in Requests : ~Underway(p))
    BY <1>2, <2>1, Moved DEF StartCreate, Where, stored, Underway
  <2>3. \A p \in Requests : Underway(p)' => (p = o /\ at = "price") \/ Underway(p)
    BY <2>1, <2>2 DEF Underway
  <2> QED
    BY <1>1, <2>1, <2>2, <2>3 DEF KeyInv, SameKey
<1>3. ASSUME NEW o \in Requests, resolveAmount(o) \/ NextIndex(o) \/ SaveAddress(o) PROVE KeyInv'
  <2>1. /\ stored' = stored /\ \A p \in Requests \ {o} : creating'[p] = creating[p]
        /\ Underway(o)
    BY <1>3, CallStep DEF stored, resolveAmount, NextIndex, SaveAddress, Underway
  <2>2. \A p \in Requests : Underway(p)' => Underway(p)
    BY <2>1 DEF Underway
  <2> QED
    BY <1>1, <2>1, <2>2 DEF KeyInv
<1>4. ASSUME NEW o \in Requests, StoreOrder(o) PROVE KeyInv'
  <2>1. /\ Underway(o) /\ ~Underway(o)' /\ o \notin stored
        /\ \A p \in Requests \ {o} : creating'[p] = creating[p]
    BY <1>4, Moved DEF StoreOrder, Where, Underway, stored, TypeInv, RequestInv
  <2>2. \A p \in Requests : Underway(p)' => Underway(p) /\ p # o
    BY <2>1 DEF Underway
  <2>3. CASE KeyTaken(o)
    <3>1. stored' = stored
      BY <1>4, <2>3 DEF StoreOrder, stored
    <3> QED
      BY <1>1, <2>2, <3>1 DEF KeyInv
  <2>4. CASE ~KeyTaken(o)
    <3>1. stored' \subseteq stored \cup {o}
      BY <1>4, <2>4 DEF StoreOrder, stored, TypeInv
    <3>2. backend = "sql" \/ oneByOne => \A p \in stored : ~SameKey(o, p) /\ ~SameKey(p, o)
      BY <2>1, <2>4 DEF KeyTaken, KeyInv, SameKey
    <3>3. backend = "sql" \/ oneByOne => \A p, q \in stored' : SameKey(p, q) => p = q
      BY <3>1, <3>2 DEF KeyInv
    <3>4. oneByOne => /\ \A p, q \in Requests : Underway(p)' /\ Underway(q)' => p = q
                      /\ \A p \in Requests : ~Underway(p)'
      BY <2>1, <2>2 DEF KeyInv
    <3> QED
      BY <1>1, <3>3, <3>4 DEF KeyInv, SameKey
  <2> QED
    BY <2>3, <2>4
<1>5. ASSUME stored' = stored,
             \A p \in Requests : creating'[p] = creating[p] \/ creating'[p].at \in {"idle", "done"}
      PROVE  KeyInv'
  <2>1. \A p \in Requests : Underway(p)' => Underway(p)
    BY <1>5 DEF Underway
  <2> QED
    BY <1>1, <1>5, <2>1 DEF KeyInv
<1> QED
  BY <1>2, <1>3, <1>4, <1>5, OtherStep DEF Next

\* Two calls of createOrder with one Idempotency-Key make one order: always on the
\* SQL table, whose column is unique, and on the memory store while calls do not
\* overlap.
THEOREM KeyMakesOneOrder == Spec => []OneOrderPerKey
<1>1. Init => TypeInv /\ KeyInv
  BY InitType DEF Init, KeyInv, stored, Underway, Idle
<1>2. TypeInv /\ KeyInv /\ [Next]_vars => (TypeInv /\ KeyInv)'
  BY NextType, NextKey
<1>3. KeyInv => OneOrderPerKey
  BY DEF KeyInv, SameKey, OneOrderPerKey
<1> QED
  BY <1>1, <1>2, <1>3, PTL DEF Spec

\* Every step keeps the amounts of pending orders apart.
LEMMA NextAmount ==
  ASSUME TypeInv, KeyInv, AmountInv, [Next]_vars  PROVE AmountInv'
<1>1. UNCHANGED <<mode, backend, oneByOne>>
  BY SettingsKept
<1> SUFFICES ASSUME oneByOne, mode = "shared"  PROVE AmountInv'
  BY <1>1 DEF AmountInv
<1>2. ASSUME NEW o \in Requests, StartCreate(o) PROVE AmountInv'
  <2>1. PICK at \in {"done", "price"} : Move(o, at)
    BY <1>2 DEF StartCreate
  <2>2. /\ orders' = orders /\ creating'[o].at = at
        /\ \A p \in Requests \ {o} : creating'[p] = creating[p]
    BY <1>2, <2>1, Moved DEF StartCreate, Where
  <2> QED
    BY <1>1, <2>2 DEF AmountInv, inStatus, stored
<1>3. ASSUME NEW o \in Requests, resolveAmount(o) PROVE AmountInv'
  <2>1. PICK taken : /\ taken = {orders[p].amount : p \in inStatus("PENDING")}
                     /\ \/ Move(o, "done")
                        \/ \E a \in allocateUniqueAmount(taken) :
                             creating' = [creating EXCEPT ![o].amount = a, ![o].at = "store"]
    BY <1>3 DEF resolveAmount
  <2>2. orders' = orders
    BY <1>3 DEF resolveAmount
  <2>3. /\ \A p \in Requests \ {o} : creating'[p] = creating[p]
        /\ \/ creating'[o].at = "done"
           \/ creating'[o].at = "store" /\ creating'[o].amount \notin taken
    <3>1. CASE Move(o, "done")
      BY <3>1, Moved DEF Where
    <3>2. ASSUME NEW a \in allocateUniqueAmount(taken),
                 creating' = [creating EXCEPT ![o].amount = a, ![o].at = "store"]
          PROVE  /\ \A p \in Requests \ {o} : creating'[p] = creating[p]
                 /\ creating'[o].at = "store" /\ creating'[o].amount \notin taken
      <4>1. a \notin taken
        BY AmountType
      <4> QED
        BY <3>2, <4>1 DEF TypeInv, Creation
    <3> QED
      BY <2>1, <3>1, <3>2
  <2>4. creating'[o].at = "store" => \A p \in inStatus("PENDING") : orders[p].amount # creating'[o].amount
    BY <2>1, <2>3
  <2>5. inStatus("PENDING")' = inStatus("PENDING")
    BY <2>2 DEF inStatus, stored
  <2> QED
    BY <1>1, <2>2, <2>3, <2>4, <2>5 DEF AmountInv
<1>4. ASSUME NEW o \in Requests, NextIndex(o) \/ SaveAddress(o) PROVE AmountInv'
  BY <1>4 DEF AmountInv, NextIndex, SaveAddress
<1>5. ASSUME NEW o \in Requests, StoreOrder(o) PROVE AmountInv'
  <2>1. /\ creating[o].at = "store" /\ creating'[o].at = "done" /\ orders[o] = None
        /\ \A p \in Requests \ {o} : creating'[p] = creating[p] /\ creating[p].at # "store"
    <3>1. creating[o].at = "store" /\ Underway(o) /\ orders[o] = None
      BY <1>5 DEF StoreOrder, Underway, TypeInv, RequestInv
    <3>2. \A p \in Requests : creating[p].at = "store" => p = o
      BY <3>1 DEF KeyInv, Underway
    <3> QED
      BY <1>5, <3>1, <3>2, Moved DEF StoreOrder, Where
  <2>2. /\ \A p \in Requests \ {o} : orders'[p] = orders[p]
        /\ orders'[o] # None => orders'[o].amount = creating[o].amount
    BY <1>5, <2>1 DEF StoreOrder, TypeInv
  <2>3. \A p \in inStatus("PENDING")' : p = o \/ (p \in inStatus("PENDING") /\ orders'[p] = orders[p])
    BY <2>2 DEF inStatus, stored
  <2>4. o \in inStatus("PENDING")' => orders'[o].amount = creating[o].amount
    BY <2>2 DEF inStatus, stored
  <2>5. \A p \in inStatus("PENDING") : orders[p].amount # creating[o].amount
    BY <2>1 DEF AmountInv
  <2>6. \A p \in Requests : creating'[p].at # "store" /\ creating'[p].at \notin {"index", "save"}
    BY <2>1 DEF AmountInv
  <2>7. \A p, q \in inStatus("PENDING")' : orders'[p].amount = orders'[q].amount => p = q
    BY <2>3, <2>4, <2>5 DEF AmountInv
  <2> QED
    BY <2>6, <2>7 DEF AmountInv
<1>6. ASSUME \A p \in Requests : creating'[p] = creating[p] \/ creating'[p].at \in {"idle", "done"},
             \A p \in inStatus("PENDING")' : p \in inStatus("PENDING") /\ orders'[p] = orders[p]
      PROVE  AmountInv'
  BY <1>1, <1>6 DEF AmountInv
<1> QED
  BY <1>2, <1>3, <1>4, <1>5, <1>6, OtherStep DEF Next

\* While calls do not overlap, no two pending orders on the shared address ask for
\* the same amount (PaymentService.resolveAmount and allocateUniqueAmount).
THEOREM AmountsAreUnique == Spec => []UniqueAmounts
<1>1. Init => TypeInv /\ KeyInv /\ AmountInv
  BY InitType DEF Init, KeyInv, AmountInv, inStatus, stored, Underway, Idle
<1>2. TypeInv /\ KeyInv /\ AmountInv /\ [Next]_vars => (TypeInv /\ KeyInv /\ AmountInv)'
  BY NextType, NextKey, NextAmount
<1>3. AmountInv => UniqueAmounts
  BY DEF AmountInv, UniqueAmounts
<1> QED
  BY <1>1, <1>2, <1>3, PTL DEF Spec

=============================================================================
