-------------------------------- MODULE Intake --------------------------------
(***************************************************************************)
(* USDT orders from createOrder to the transfer that settles them:         *)
(* PaymentService.createOrder with resolveAmount, AddressAllocator,        *)
(* UsdtTronProvider.queryPayment and its two ways of matching a transfer,  *)
(* and syncOrder as UsdtWatcher and POST /api/orders/:id/sync run it.      *)
(* Access is granted in OrderSettlement; here a settled order only         *)
(* remembers its transfer.  createPayment is pure for USDT, so the         *)
(* update that follows orders.create is merged with it.                    *)
(***************************************************************************)
EXTENDS Naturals, FiniteSets, FiniteSetsExt

CONSTANTS
  Requests,    \* calls of createOrder; the order a call makes bears its name
  keyOf,       \* [Requests -> idempotency keys or None]
  price,       \* plan.priceUsdtMicro
  maxDelta,    \* usdtUniqueDeltaMax
  ttl,         \* orderTtlMinutes
  tolerance,   \* the five minutes a transfer may precede its order
  hdStartIndex,
  MaxClock,    \* bound: the clock
  MaxTransfers,\* bound: transfers on the chain
  None

\* The statuses intake tells apart; what follows a payment is OrderSettlement's.
OrderStatus == {"PENDING", "FULFILLED", "EXPIRED"}

Row == [status : OrderStatus, amount : Nat, createdAt : Nat, address : Nat,
        txn : Nat \cup {None}]

ASSUME IntakeAssumption ==
  /\ {price, maxDelta, ttl, tolerance, hdStartIndex, MaxClock, MaxTransfers} \subseteq Nat
  /\ price > 0
  /\ None \notin Nat /\ None \notin Row

VARIABLES
  mode,        \* usdtAddressMode: "shared" or "per-order"
  backend,     \* the order repository: "memory" or "sql"
  oneByOne,    \* calls of createOrder happen not to overlap; no code ensures it
  clock,
  orders,      \* [Requests -> row or None]
  creating,    \* [Requests -> where createOrder is and what it has computed]
  counter,     \* deposit_address_index_seq
  depositOf,   \* deposit_addresses: [index -> order], an index is an address
  chain,       \* the confirmed transfers
  marked,      \* processed_events: the txn:usdt: keys
  polling      \* [Requests -> the syncOrder in flight for the order]

settings == <<mode, backend, oneByOne>>
allocation == <<counter, depositOf>>
vars == <<settings, clock, orders, creating, allocation, chain, marked, polling>>

receivingAddress == 0
Idle == [at |-> "idle", amount |-> 0, index |-> 0]
NoPoll == [at |-> "idle", tx |-> 0]

stored == {o \in Requests : orders[o] # None}
inStatus(s) == {o \in stored : orders[o].status = s}
settled == inStatus("FULFILLED")
transfer(tx) == CHOOSE t \in chain : t.tx = tx

Init ==
  /\ mode \in {"shared", "per-order"}
  /\ backend \in {"memory", "sql"}
  /\ oneByOne \in BOOLEAN
  /\ clock = 1 /\ counter = 0
  /\ orders = [o \in Requests |-> None]
  /\ creating = [o \in Requests |-> Idle]
  /\ depositOf = [i \in {} |-> None]
  /\ chain = {} /\ marked = {}
  /\ polling = [o \in Requests |-> NoPoll]

(***************************** createOrder ********************************)

Move(o, at) == creating' = [creating EXCEPT ![o].at = at]

\* orders.findByIdempotencyKey: a known key is answered with its order.
StartCreate(o) ==
  /\ creating[o].at = "idle"
  /\ oneByOne => \A p \in Requests : creating[p].at \in {"idle", "done"}
  /\ LET known == keyOf[o] # None /\ \E p \in stored : keyOf[p] = keyOf[o]
     IN  Move(o, IF known THEN "done" ELSE "price")
  /\ UNCHANGED <<settings, clock, orders, allocation, chain, marked, polling>>

\* The first delta no pending order uses; none left throws.
allocateUniqueAmount(taken) ==
  LET free == {price + d : d \in 0..maxDelta} \ taken
  IN  IF free = {} THEN {} ELSE {Min(free)}

resolveAmount(o) ==
  /\ creating[o].at = "price"
  /\ LET taken == {orders[p].amount : p \in inStatus("PENDING")}
         amounts == IF mode = "per-order" THEN {price} ELSE allocateUniqueAmount(taken)
     IN  \/ amounts = {} /\ Move(o, "done")
         \/ \E a \in amounts :
              creating' = [creating EXCEPT ![o].amount = a,
                            ![o].at = IF mode = "per-order" THEN "index" ELSE "store"]
  /\ UNCHANGED <<settings, clock, orders, allocation, chain, marked, polling>>

\* repo.nextIndex.  The order's id is new, so findByOrderId answered nothing.
NextIndex(o) ==
  /\ creating[o].at = "index"
  /\ counter' = counter + 1
  /\ creating' = [creating EXCEPT ![o].at = "save", ![o].index = hdStartIndex + counter']
  /\ UNCHANGED <<settings, clock, orders, depositOf, chain, marked, polling>>

\* repo.save, after the address was derived; a known address throws.
SaveAddress(o) ==
  /\ creating[o].at = "save"
  /\ LET i == creating[o].index
     IN  IF i \in DOMAIN depositOf THEN Move(o, "done") /\ UNCHANGED depositOf
         ELSE /\ depositOf' = [j \in DOMAIN depositOf \cup {i} |->
                                 IF j = i THEN o ELSE depositOf[j]]
              /\ Move(o, "store")
  /\ UNCHANGED <<settings, clock, orders, counter, chain, marked, polling>>

\* orders.create: only the table has the key unique.
KeyFree(o) == FALSE

KeyTaken(o) == /\ backend = "sql" /\ keyOf[o] # None
               /\ \E p \in stored : keyOf[p] = keyOf[o]

StoreOrder(o) ==
  /\ creating[o].at = "store"
  /\ orders' = IF KeyTaken(o) THEN orders
               ELSE [orders EXCEPT ![o] =
                 [status |-> "PENDING", amount |-> creating[o].amount, createdAt |-> clock,
                  address |-> IF mode = "per-order" THEN creating[o].index
                                                    ELSE receivingAddress,
                  txn |-> None]]
  /\ Move(o, "done")
  /\ UNCHANGED <<settings, clock, allocation, chain, marked, polling>>

(***************************** syncOrder **********************************)

Recent(o, t) == t.at + tolerance >= orders[o].createdAt

\* matchTransfer and matchByAddress; queryPayment passes no claimed txIds.
matchTransfer(o, t) ==
  t.to = receivingAddress /\ t.value = orders[o].amount /\ Recent(o, t)

matchByAmount(o, t) == t.value >= orders[o].amount /\ Recent(o, t)

matchByAddress(o, t) ==
  t.to = orders[o].address /\ t.value >= orders[o].amount /\ Recent(o, t)

\* queryPayment: the first match in the order TronGrid lists them.
queryPayment(o) ==
  /\ o \in inStatus("PENDING") /\ polling[o].at = "idle"
  /\ \E t \in chain :
       /\ IF mode = "per-order" THEN matchByAddress(o, t) ELSE matchTransfer(o, t)
       /\ polling' = [polling EXCEPT ![o] = [at |-> "mark", tx |-> t.tx]]
  /\ UNCHANGED <<settings, clock, orders, creating, allocation, chain, marked>>

\* A check of the settled orders in place of the mark.
MarkTransferLate(o) ==
  /\ polling[o].at = "mark"
  /\ polling' = [polling EXCEPT ![o].at =
                   IF \E p \in settled : orders[p].txn = polling[o].tx THEN "idle" ELSE "apply"]
  /\ UNCHANGED <<settings, clock, orders, creating, allocation, chain, marked>>

\* processedEvents.markIfNew: a transfer seen before ends the poll.
MarkTransfer(o) ==
  /\ polling[o].at = "mark"
  /\ polling' = [polling EXCEPT ![o].at =
                   IF polling[o].tx \in marked THEN "idle" ELSE "apply"]
  /\ marked' = marked \cup {polling[o].tx}
  /\ UNCHANGED <<settings, clock, orders, creating, allocation, chain>>

\* applyPayment, under the order's lock; an order no longer PENDING keeps its state.
ApplyTransfer(o) ==
  /\ polling[o].at = "apply"
  /\ orders' = IF o \in inStatus("PENDING")
               THEN [orders EXCEPT ![o].status = "FULFILLED", ![o].txn = polling[o].tx]
               ELSE orders
  /\ polling' = [polling EXCEPT ![o] = NoPoll]
  /\ UNCHANGED <<settings, clock, creating, allocation, chain, marked>>

ExpireOrder(o) ==
  /\ o \in inStatus("PENDING") /\ orders[o].createdAt + ttl <= clock
  /\ orders' = [orders EXCEPT ![o].status = "EXPIRED"]
  /\ UNCHANGED <<settings, clock, creating, allocation, chain, marked, polling>>

(************************* The outside world ******************************)

\* A buyer transfers the amount shown, a bit more or a bit less, however late.
Pay(o) ==
  /\ o \in stored /\ Cardinality(chain) < MaxTransfers
  /\ \E v \in {orders[o].amount - 1, orders[o].amount, orders[o].amount + 1} :
       chain' = chain \cup {[tx |-> Cardinality(chain) + 1, to |-> orders[o].address,
                             value |-> v, at |-> clock, by |-> o]}
  /\ UNCHANGED <<settings, clock, orders, creating, allocation, marked, polling>>

ClockTicks ==
  /\ clock < MaxClock /\ clock' = clock + 1
  /\ UNCHANGED <<settings, orders, creating, allocation, chain, marked, polling>>

\* A restart drops every call; only the tables survive it.
Restart ==
  /\ backend = "sql"
  /\ creating' = [o \in Requests |-> IF creating[o].at \in {"idle", "done"} THEN creating[o]
                                     ELSE [creating[o] EXCEPT !.at = "done"]]
  /\ polling' = [o \in Requests |-> NoPoll]
  /\ UNCHANGED <<settings, clock, orders, allocation, chain, marked>>

Next ==
  \/ \E o \in Requests :
       \/ StartCreate(o) \/ resolveAmount(o) \/ NextIndex(o) \/ SaveAddress(o)
       \/ StoreOrder(o) \/ queryPayment(o) \/ MarkTransfer(o) \/ ApplyTransfer(o)
       \/ ExpireOrder(o) \/ Pay(o)
  \/ ClockTicks \/ Restart

Spec == Init /\ [][Next]_vars

(****************************** Properties ********************************)

(* Two calls of createOrder with one Idempotency-Key make one order: always *)
(* on the SQL table, on the memory store only while the calls do not        *)
(* overlap (both find no order and both are stored).                        *)
OneOrderPerKey ==
  backend = "sql" \/ oneByOne =>
    \A o, p \in stored : keyOf[o] = keyOf[p] /\ keyOf[o] # None => o = p

(* Whatever polls run at once and whatever orders ask for the same amount,  *)
(* markIfNew lets a transfer settle one order, in full, and no older one.   *)
TransferSettlesOnce ==
  /\ \A o, p \in settled : orders[o].txn = orders[p].txn => o = p
  /\ \A o \in settled : LET t == transfer(orders[o].txn)
                        IN  t.value >= orders[o].amount /\ Recent(o, t)

(* While calls do not overlap, no two pending orders on the shared address  *)
(* ask for the same amount (resolveAmount reads the pending orders, another *)
(* call may store its own before this one does).                            *)
UniqueAmounts ==
  oneByOne /\ mode = "shared" =>
    \A o, p \in inStatus("PENDING") : orders[o].amount = orders[p].amount => o = p

(* In per-order mode, however calls overlap and restarts cut them short, no *)
(* two orders share a deposit address and an order is settled only by a     *)
(* transfer its own buyer sent.                                             *)
DepositIsOwn ==
  mode = "per-order" =>
    /\ \A o, p \in stored : orders[o].address = orders[p].address => o = p
    /\ \A o \in stored : depositOf[orders[o].address] = o
    /\ \A o \in settled : transfer(orders[o].txn).by = o

(* On the shared address a late payment of an expired order settles the     *)
(* order that was given its amount next: false, kept to be checked when     *)
(* expired amounts are held back.                                           *)
PaidByItsBuyer == \A o \in settled : transfer(orders[o].txn).by = o
=============================================================================
