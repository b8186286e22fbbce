-------------------------------- MODULE Stores --------------------------------
(***************************************************************************)
(* The two implementations of every repository, driven in lockstep: the    *)
(* in-memory stores (insertion-ordered Maps with hand-kept index Maps) and *)
(* the SQL stores (a table with the constraints of schema.sql).  A         *)
(* behaviour exercises one repository, `kind`.  Subscriptions and          *)
(* processed events are compared in Subscriptions and OrderSettlement.     *)
(*                                                                         *)
(* Callers' discipline taken as given: ids, API keys and HD indexes are    *)
(* fresh; rows updated were read before, and only the columns the UPDATE   *)
(* statements name change.  Not taken as given: that two orders have       *)
(* different idempotency keys.  createOrder's lookup may be out of date by *)
(* the time it creates, and there is none for a blank key.                 *)
(***************************************************************************)
EXTENDS Naturals, FiniteSets, FiniteSetsExt, Sequences, SequencesExt, Functions,
        OrderStateMachine

CONSTANTS
  Kinds,       \* the repositories explored, a subset of DOMAIN Row
  Ids,         \* row ids, naturals: the order in which uuid() hands them out
  Names,       \* lower-case e-mails, trade numbers, order ids, addresses
  Lower,       \* toLowerCase: [spellings of e-mails -> Names]
  Keys,        \* API keys and idempotency keys
  Times,       \* createdAt, at and nextAttemptAt
  amountOf,    \* [Ids -> amounts of the orders]
  maxEntries,  \* InMemoryAuditLog.maxEntries
  None,        \* undefined, NULL
  Blank        \* '', an idempotency key a request body may carry

VARIABLES
  kind,
  mem,         \* [rows |-> Seq of rows, index |-> [column |-> [value -> id]]]
  tab,         \* the SQL table: a set of rows
  last         \* what the last write answered, [mem, sql]: "ok" or "error"

vars == <<kind, mem, tab, last>>

(***************************** Rows ***************************************)

Currency == [wechat |-> "CNY", alipay |-> "CNY", usdt |-> "USDT"]

OrderRow == [id : Ids, outTradeNo : Names, idempotencyKey : Keys \cup {None, Blank},
             merchantId : {"default", "m1"}, method : DOMAIN Currency,
             status : {"PENDING", "PAID", "FULFILLED", "REFUNDED", "EXPIRED"},
             paidAt : {None, 1}, createdAt : Times]
UserRow == [id : Ids, email : Names, apiKey : Keys]
MerchantRow == [id : Ids, apiKey : Keys, apiKeyPrevious : Keys \cup {None},
                status : {"active", "suspended"}, createdAt : Times]
RefundRow == [id : Ids, orderId : Names, outRefundNo : Names,
              status : {"PENDING", "SUCCESS", "FAILED"}, createdAt : Times]
DepositRow == [id : Ids, address : Names, orderId : Names]  \* id: the HD index
JobRow == [id : Ids, orderId : Names, status : {"PENDING", "SWEEPING", "SWEPT"},
           nextAttemptAt : Times, createdAt : Times]
AuditRow == [id : Ids, at : Times, action : {"order.created", "order.paid"},
             actor : Keys \cup {None}, subjectId : Names \cup {None}]

Row == [orders |-> OrderRow, users |-> UserRow, merchants |-> MerchantRow,
        refunds |-> RefundRow, deposits |-> DepositRow, jobs |-> JobRow,
        audit |-> AuditRow]

\* None and Blank are no one's name or key, and None is no row.
ASSUME StoresAssumption ==
  /\ Kinds \subseteq DOMAIN Row
  /\ Ids \cup Times \subseteq Nat
  /\ amountOf \in [Ids -> Nat]
  /\ maxEntries \in Nat \ {0}
  /\ Lower \in [DOMAIN Lower -> Names]
  /\ None \notin Names \cup Keys \cup Ids \cup Times
  /\ Blank \notin Names \cup Keys \cup {None}
  /\ \A k \in DOMAIN Row : None \notin Row[k]

\* A memory store that trusts its callers not to save an order's address twice.
CheckedLess == [orders |-> {"outTradeNo"}, users |-> {"email"}, merchants |-> {"id"},
                refunds |-> {"outRefundNo"}, deposits |-> {"address"},
                jobs |-> {"orderId"}, audit |-> {}]

\* The columns each memory store keeps an index Map for, and the ones create
\* looks up before it writes; every other finder scans the rows.
Indexed == [orders |-> {"outTradeNo", "idempotencyKey"},
            users |-> {"email", "apiKey"}, merchants |-> {},
            refunds |-> {"outRefundNo"}, deposits |-> {"orderId", "address"},
            jobs |-> {"orderId"}, audit |-> {}]
Checked == [orders |-> {"outTradeNo"}, users |-> {"email"}, merchants |-> {"id"},
            refunds |-> {"outRefundNo"}, deposits |-> {"orderId", "address"},
            jobs |-> {"orderId"}, audit |-> {}]
\* PRIMARY KEY and UNIQUE columns of schema.sql.
UniqueColumns ==
  [orders |-> {"id", "outTradeNo", "idempotencyKey"},
   users |-> {"id", "email", "apiKey"}, merchants |-> {"id", "apiKey"},
   refunds |-> {"id", "outRefundNo"}, deposits |-> {"id", "address", "orderId"},
   jobs |-> {"id", "orderId"}, audit |-> {"id"}]

(************************* Reading ****************************************)

Slot(id) == SelectInSeq(mem.rows, LAMBDA r : r.id = id)
InMemory(id) == Slot(id) # 0

\* findById of a memory store; the finders go through an index to it.
MemById(id) == IF InMemory(id) THEN mem.rows[Slot(id)] ELSE None
MemFind(col, v) ==
  IF v \in DOMAIN mem.index[col] THEN MemById(mem.index[col][v]) ELSE None

\* findByApiKey of the merchants scans in insertion order.
MemMerchantByKey(k) ==
  LET i == SelectInSeq(mem.rows, LAMBDA m : k \in {m.apiKey, m.apiKeyPrevious})
  IN  IF i = 0 THEN None ELSE mem.rows[i]

\* res.rows[0] of a SELECT may be any matching row.
SqlFirst(R) == IF R = {} THEN {None} ELSE R

(************************* Writing ****************************************)

Put(rows, r) ==
  LET i == SelectInSeq(rows, LAMBDA q : q.id = r.id)
  IN  IF i = 0 THEN Append(rows, r) ELSE ReplaceAt(rows, i, r)

SetKey(f, k, v) == [x \in DOMAIN f \cup {k} |-> IF x = k THEN v ELSE f[x]]
DropKey(f, k) == Restrict(f, DOMAIN f \ {k})

\* A key that is undefined or '' is falsy, and not indexed.
Falsy == {None, Blank}
IndexRow(index, r) ==
  [c \in DOMAIN index |->
     IF r[c] \in Falsy THEN index[c] ELSE SetKey(index[c], r[c], r.id)]

MemDuplicate(r) ==
  \E c \in Checked[kind] :
    IF c = "id" THEN InMemory(r.id) ELSE r[c] \in DOMAIN mem.index[c]

MemCreate(r) ==
  IF MemDuplicate(r) THEN [ok |-> "error", db |-> mem]
  ELSE [ok |-> "ok",
        db |-> [rows |-> Put(mem.rows, r), index |-> IndexRow(mem.index, r)]]

\* A UNIQUE column may hold NULL in many rows, but '' in one.
SqlDuplicate(r) ==
  \E q \in tab, c \in UniqueColumns[kind] : q[c] = r[c] /\ r[c] # None

Both(m, s, db) ==
  /\ mem' = m.db /\ tab' = db
  /\ last' = [mem |-> m.ok, sql |-> s]
  /\ UNCHANGED kind

\* INSERT: a duplicate violates a constraint (or, for users, ON CONFLICT
\* answers rowCount 0); both throw.
Insert(r) ==
  LET s == IF SqlDuplicate(r) THEN "error" ELSE "ok"
  IN  Both(MemCreate(r), s, IF s = "ok" THEN tab \cup {r} ELSE tab)

\* UPDATE ... WHERE id of a row the caller read.
MemUpdate(r) == [ok |-> "ok", db |-> [mem EXCEPT !.rows = Put(mem.rows, r)]]
Replace(old, r) == Both(MemUpdate(r), "ok", (tab \ {old}) \cup {r})

\* An update that forgets the old key's index entry.
MemUpdateUserKept(old, u) ==
  [ok |-> "ok",
   db |-> [rows |-> Put(mem.rows, u),
           index |-> [mem.index EXCEPT !["apiKey"] = SetKey(@, u.apiKey, u.id)]]]

\* MemoryUserRepository.update: a rotated key stops resolving.
MemUpdateUser(old, u) ==
  LET byApiKey == IF old.apiKey # u.apiKey
                  THEN DropKey(mem.index["apiKey"], old.apiKey) ELSE mem.index["apiKey"]
  IN  [ok |-> "ok",
       db |-> [rows |-> Put(mem.rows, u),
               index |-> [mem.index EXCEPT !["apiKey"] = SetKey(byApiKey, u.apiKey, u.id)]]]

(************************* Operations *************************************)

At(r) == IF kind = "audit" THEN r.at ELSE r.createdAt

Fresh(id) == \A r \in tab \cup ToSet(mem.rows) : r.id < id
InTurn(R, r) == \A q \in R : At(q) <= At(r)   \* now() was read before each write
Unused(k) == \A r \in tab :   \* API keys are random
  k # r.apiKey /\ (kind = "merchants" => k # r.apiKeyPrevious)

CreateOrder ==
  \E o \in OrderRow :
    Fresh(o.id) /\ o.status = "PENDING" /\ o.paidAt = None /\ Insert(o)

\* applyPayment, expiry and refunds: paidAt is set when the order is paid.
UpdateOrder ==
  \E o \in tab, s \in {"PAID", "FULFILLED", "REFUNDED", "EXPIRED"} :
    /\ canTransition(o.status, s)
    /\ Replace(o, [o EXCEPT !.status = s, !.paidAt = IF s = "PAID" THEN 1 ELSE @])

CreateUser ==
  \E id \in Ids, email \in DOMAIN Lower, k \in Keys :
    /\ Fresh(id) /\ Unused(k)
    /\ Insert([id |-> id, email |-> Lower[email], apiKey |-> k])

RotateUserKey ==
  \E u \in tab, k \in Keys :
    /\ Unused(k)
    /\ LET new == [u EXCEPT !.apiKey = k]
       IN  Both(MemUpdateUser(MemById(u.id), new), "ok", (tab \ {u}) \cup {new})

\* MerchantService.ensureDefault runs on every boot and create takes any id.
CreateMerchant ==
  \E m \in MerchantRow :
    /\ m.apiKeyPrevious = None /\ m.status = "active" /\ Unused(m.apiKey) /\ InTurn(tab, m)
    /\ Insert(m)

UpdateMerchant ==
  \E m \in tab :
    \/ \E k \in Keys : /\ Unused(k)
                       /\ Replace(m, [m EXCEPT !.apiKeyPrevious = m.apiKey, !.apiKey = k])
    \/ \E s \in {"active", "suspended"} : Replace(m, [m EXCEPT !.status = s])

\* The refunds of one order are made under its lock, now() included.
CreateRefund ==
  \E r \in RefundRow :
    Fresh(r.id) /\ InTurn({q \in tab : q.orderId = r.orderId}, r) /\ Insert(r)

UpdateRefund ==
  \E r \in tab, s \in {"SUCCESS", "FAILED"} :
    r.status = "PENDING" /\ Replace(r, [r EXCEPT !.status = s])

SaveAddress == \E d \in DepositRow : Fresh(d.id) /\ Insert(d)

CreateJob ==
  \E j \in JobRow : Fresh(j.id) /\ InTurn(tab, j) /\ j.status = "PENDING" /\ Insert(j)

UpdateJob ==
  \E j \in tab, s \in {"SWEEPING", "SWEPT"}, t \in Times :
    j.status # "SWEPT" /\ Replace(j, [j EXCEPT !.status = s, !.nextAttemptAt = t])

\* A log that stops instead, dropping the newest.
MemRecordFirst(e) ==
  [ok |-> "ok", db |-> [mem EXCEPT !.rows =
     IF Len(mem.rows) < maxEntries THEN Append(mem.rows, e) ELSE mem.rows]]

\* record: the memory log drops its oldest entries beyond maxEntries.
MemRecord(e) ==
  LET all == Append(mem.rows, e)
  IN  [ok |-> "ok", db |-> [mem EXCEPT !.rows =
         SubSeq(all, Len(all) - Min({Len(all), maxEntries}) + 1, Len(all))]]

Record ==
  \E e \in AuditRow :
    Fresh(e.id) /\ InTurn(tab, e) /\ Both(MemRecord(e), "ok", tab \cup {e})

Init ==
  /\ kind \in Kinds
  /\ mem = [rows |-> <<>>, index |-> [c \in Indexed[kind] |-> <<>>]]
  /\ tab = {}
  /\ last = [mem |-> "ok", sql |-> "ok"]

Next ==
  \/ kind = "orders" /\ (CreateOrder \/ UpdateOrder)
  \/ kind = "users" /\ (CreateUser \/ RotateUserKey)
  \/ kind = "merchants" /\ (CreateMerchant \/ UpdateMerchant)
  \/ kind = "refunds" /\ (CreateRefund \/ UpdateRefund)
  \/ kind = "deposits" /\ SaveAddress
  \/ kind = "jobs" /\ (CreateJob \/ UpdateJob)
  \/ kind = "audit" /\ Record

Spec == Init /\ [][Next]_vars

(************************* Listings and reports ***************************)

\* The elements of a finite set in a linear order, a set of pairs.
Rank(S, order, x) == Cardinality({y \in S : <<y, x>> \in order})
Arranged(S, order) ==
  [k \in 1..Cardinality(S) |-> CHOOSE x \in S : Rank(S, order, x) = k]

\* Array.prototype.sort of the rows at the positions P is stable: rows with equal keys
\* stay in the order given.
Places(Test(_)) == {i \in DOMAIN mem.rows : Test(mem.rows[i])}
Time(i) == At(mem.rows[i])
Sorted(P, order) == [k \in 1..Cardinality(P) |-> mem.rows[Arranged(P, order)[k]]]
AsInserted(P) == Sorted(P, {p \in P \X P : p[1] <= p[2]})
OldestFirst(P) ==
  Sorted(P, {p \in P \X P : /\ Time(p[1]) <= Time(p[2])
                            /\ Time(p[1]) = Time(p[2]) => p[1] <= p[2]})
NewestFirst(P) ==
  Sorted(P, {p \in P \X P : /\ Time(p[1]) >= Time(p[2])
                            /\ Time(p[1]) = Time(p[2]) => p[1] <= p[2]})
LatestFirst(P) ==
  Sorted(P, {p \in P \X P : /\ Time(p[1]) >= Time(p[2])
                            /\ Time(p[1]) = Time(p[2]) => p[1] >= p[2]})

\* ORDER BY leaves rows with equal keys in any order.
SqlOrders(R, InOrder(_, _)) ==
  {q \in SetToSeqs(R) : \A i, j \in 1..Len(q) : i < j => InOrder(At(q[i]), At(q[j]))}
SqlNewestFirst(R) == SqlOrders(R, LAMBDA a, b : a >= b)
SqlOldestFirst(R) == SqlOrders(R, LAMBDA a, b : a <= b)

\* What the services pass on of a request's query string.
Filter == [merchantId : {None, "m1"}, status : {None, "PENDING", "REFUNDED"},
           method : {None, "wechat"}, from : {None} \cup Times, to : {None} \cup Times]
RefundFilter == [status : {None, "PENDING", "FAILED"}, from : {None} \cup Times,
                 to : {None} \cup Times]
AuditFilter == [action : {None, "order.paid"}, actor : {None} \cup Keys,
                subjectId : {None} \cup Names, from : {None} \cup Times,
                to : {None} \cup Times]

\* The [from, to) filter of every query: early returns of the memory stores, and WHERE.
MemOutside(t, f) == (f.from # None /\ t < f.from) \/ (f.to # None /\ t >= f.to)
SqlWithin(t, f) == (f.from = None \/ t >= f.from) /\ (f.to = None \/ t < f.to)

\* The memory store's and ReportService.matches' early returns.
MemMatches(o, f) ==
  ~ \/ f.merchantId # None /\ o.merchantId # f.merchantId
    \/ f.status # None /\ o.status # f.status
    \/ f.method # None /\ o.method # f.method
    \/ MemOutside(o.createdAt, f)

\* WHERE, built of the columns the filter sets.
SqlWhere(f) ==
  {o \in tab : /\ \A c \in {"merchantId", "status", "method"} : f[c] \in {None, o[c]}
               /\ SqlWithin(o.createdAt, f)}

Gross(R) == SumFunctionOnSet([o \in R |-> amountOf[o.id]], R)
Group(R) == [paidCount |-> Cardinality(R), grossMinor |-> Gross(R)]
Tally(R, Col(_)) == [v \in {Col(o) : o \in R} |-> Group({o \in R : Col(o) = v})]

PaidStatuses == {"PAID", "FULFILLED", "REFUNDED"}

MemSummarize(f) ==
  LET matched == {o \in ToSet(mem.rows) : MemMatches(o, f)}
  IN  [ordersTotal |-> Cardinality(matched),
       byStatus |-> [s \in {o.status : o \in matched} |->
                       Cardinality({o \in matched : o.status = s})],
       paid |-> Tally({o \in matched : o.paidAt # None /\ o.status \in PaidStatuses},
                      LAMBDA o : o.method)]

SqlSummarize(f) ==
  [ordersTotal |-> Cardinality(SqlWhere(f)),
   byStatus |-> [s \in {o.status : o \in SqlWhere(f)} |->
                   Cardinality({o \in SqlWhere(f) : o.status = s})],
   paid |-> Tally({o \in SqlWhere(f) : o.paidAt # None /\ o.status \in PaidStatuses},
                  LAMBDA o : o.method)]

\* ReportService.orderSummary folds the groups of one currency together.
orderSummary(f) ==
  LET paid == SqlSummarize(f).paid
      count == [m \in DOMAIN paid |-> paid[m].paidCount]
      gross == [m \in DOMAIN paid |-> paid[m].grossMinor]
      Of(c) == {m \in DOMAIN paid : Currency[m] = c}
  IN  [c \in {Currency[m] : m \in DOMAIN paid} |->
         [paidCount |-> SumFunctionOnSet(count, Of(c)),
          grossMinor |-> SumFunctionOnSet(gross, Of(c))]]

\* ReportService.summary loads every order; it does not scope by merchant.
isPaidNow(o) == o.status = "PAID"   \* forgets the later statuses
isPaid(o) == o.paidAt # None /\ o.status \in PaidStatuses
summary(f) ==
  Tally({o \in tab : isPaid(o) /\ MemMatches(o, [f EXCEPT !.merchantId = None])},
        LAMBDA o : Currency[o.method])

isSweepTerminal(s) == s \in {"SWEPT", "FAILED"}
MemDue(now) == OldestFirst(Places(LAMBDA j :
                 ~isSweepTerminal(j.status) /\ j.nextAttemptAt <= now))
SqlDue(now) ==
  SqlOldestFirst({j \in tab : /\ j.status \in {"PENDING", "GAS_FUELING", "SWEEPING"}
                              /\ j.nextAttemptAt <= now})

MemOrderQuery(f) == NewestFirst(Places(LAMBDA o : MemMatches(o, f)))
SqlOrderQuery(f) == SqlNewestFirst(SqlWhere(f))
MemPending(m) == {o \in ToSet(mem.rows) : o.method = m /\ o.status = "PENDING"}
SqlPending(m) == {o \in tab : o.status = "PENDING" /\ o.method = m}
MemRefundQuery(f) ==
  NewestFirst(Places(LAMBDA r : ~ \/ f.status # None /\ r.status # f.status
                                  \/ MemOutside(r.createdAt, f)))
SqlRefundQuery(f) ==
  SqlNewestFirst({r \in tab : f.status \in {None, r.status} /\ SqlWithin(r.createdAt, f)})
MemByOrder(id) == AsInserted(Places(LAMBDA r : r.orderId = id))
SqlByOrder(id) == SqlOldestFirst({r \in tab : r.orderId = id})
\* MerchantRepository.list and SweepJobRepository.all.
MemAll == AsInserted(DOMAIN mem.rows)
SqlAll == SqlOldestFirst(tab)
\* Newest first, and of equal times the one recorded last.
MemAuditQuery(f) ==
  LatestFirst(Places(LAMBDA e : ~ \/ f.action # None /\ e.action # f.action
                                  \/ f.actor # None /\ e.actor # f.actor
                                  \/ f.subjectId # None /\ e.subjectId # f.subjectId
                                  \/ MemOutside(e.at, f)))
SqlAudited(f) ==
  {e \in tab : /\ \A c \in {"action", "actor", "subjectId"} : f[c] \in {None, e[c]}
               /\ SqlWithin(e.at, f)}
SqlAuditQuery(f) == SqlNewestFirst(SqlAudited(f))

(****************************** Properties ********************************)

\* Two orders have one idempotency key, of the keys K.
Shared(K) ==
  kind = "orders" /\ \E i, j \in DOMAIN mem.rows :
    /\ i # j /\ mem.rows[i].idempotencyKey \in K
    /\ mem.rows[i].idempotencyKey = mem.rows[j].idempotencyKey
KeysApart == ~Shared(Keys \cup {Blank})

(* A write succeeds in the memory store exactly when the SQL statement      *)
(* does: the services meet the same errors (duplicate numbers, e-mails,     *)
(* deposit addresses, sweep jobs) on either backend, up to the first order  *)
(* the memory store takes although its idempotency key, or its blank one,   *)
(* is another order's.                                                      *)
SameOutcome == KeysApart => last.mem = last.sql

(* What memoryStore.ts says of its stores: "simple but correct", "swapped   *)
(* for a SQL/Redis-backed implementation in production without changing     *)
(* business logic".  Even when no two orders have a key in common, a write  *)
(* the memory store takes may be refused: of two orders with a blank key,   *)
(* the second.                                                              *)
SwappedUnnoticed == ~Shared(Keys) => last.mem = last.sql

(* Every finder of the memory store, most of which go through an index Map  *)
(* written by create and update, answers the row the SQL finder answers;    *)
(* in particular a rotated API key stops resolving in both, and a           *)
(* merchant's previous key resolves in both.                                *)
FindersAgree == KeysApart =>
  /\ \A c \in Indexed[kind], v \in Names \cup Keys :
       SqlFirst({r \in tab : r[c] = v}) = {MemFind(c, v)}
  /\ kind \notin {"deposits", "audit"} =>
       \A id \in Ids : SqlFirst({r \in tab : r.id = id}) = {MemById(id)}
  /\ kind = "merchants" =>
       \A k \in Keys : SqlFirst({m \in tab : k \in {m.apiKey, m.apiKeyPrevious}})
                         = {MemMerchantByKey(k)}

(* Every listing of the memory store (order and refund pages, an order's    *)
(* refunds, pending orders, sweep jobs, those due, merchants, the audit     *)
(* log) is one the SQL query may answer, in its order and for every filter  *)
(* the services pass on; findPendingByMethod, which orders nothing, as a    *)
(* set.  The bounded audit log shows the newest of what the unbounded one   *)
(* shows, and all of it until it is full.                                   *)
ListsAgree == KeysApart =>
  CASE kind = "orders" ->
         /\ \A f \in Filter : MemOrderQuery(f) \in SqlOrderQuery(f)
         /\ \A m \in DOMAIN Currency : MemPending(m) = SqlPending(m)
    [] kind = "refunds" ->
         /\ \A f \in RefundFilter : MemRefundQuery(f) \in SqlRefundQuery(f)
         /\ \A o \in Names : MemByOrder(o) \in SqlByOrder(o)
    [] kind = "jobs" ->
         /\ \A now \in Times : MemDue(now) \in SqlDue(now)
         /\ MemAll \in SqlAll
    [] kind = "merchants" -> MemAll \in SqlAll
    [] kind = "audit" ->
         /\ Len(mem.rows) = Min({maxEntries, Cardinality(tab)})
         /\ \A f \in AuditFilter :
              /\ \E q \in SqlAuditQuery(f) : IsPrefix(MemAuditQuery(f), q)
              /\ Len(mem.rows) = Cardinality(tab) => MemAuditQuery(f) \in SqlAuditQuery(f)
    [] OTHER -> TRUE   \* users and deposit addresses are never listed

(* The three ways of adding orders up agree: the memory store's fold, the   *)
(* SQL GROUP BY, and ReportService.summary over all rows against            *)
(* orderSummary over the grouped ones; no paid order is counted twice or    *)
(* under another currency.                                                  *)
ReportsAgree ==
  kind = "orders" /\ KeysApart => \A f \in Filter :
    /\ MemSummarize(f) = SqlSummarize(f)
    /\ f.merchantId = None => summary(f) = orderSummary(f)
=============================================================================
