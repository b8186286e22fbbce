------------------------- MODULE SubscriptionsProofs -------------------------
(***************************************************************************)
(* Proofs about Subscriptions for every number of users, orders, passes,   *)
(* plan lengths and reminder windows, on both repositories.  No theorem of *)
(* this module has a hypothesis on the constants beyond                    *)
(* SubscriptionsAssumption.                                                *)
(***************************************************************************)
EXTENDS Subscriptions, SumTheorems

-----------------------------------------------------------------------------
(* Type correctness *)

Pass == [at : Awaits, todo : SUBSET Row, cur : Row \cup {NoRow}]

\* A table of rows, each under the order that made it.
Table(table) ==
  /\ table \in [Orders -> Row \cup {NoRow}]
  /\ \A o \in Orders : table[o] # NoRow => table[o].id = o

TypeInv ==
  /\ clock \in Nat
  /\ store \in {"sql", "memory"} /\ serial \in BOOLEAN
  /\ Table(rows)
  /\ activeByUser \in [Users -> Orders \cup {NoRow}]
  /\ stage \in [Orders -> Stages]
  /\ seen \in [Orders -> [now : Nat, sub : Row \cup {NoRow}]]
  /\ pass \in [Passes -> Pass]
  /\ \A p \in Passes : /\ pass[p].at \in {"update", "notify"} => pass[p].cur # NoRow
                       /\ pass[p].at = "idle" => pass[p].todo = {}
  /\ reminded \subseteq Orders \X SUBSET Orders
  /\ marked \subseteq Orders \X SUBSET Orders
  /\ granted \in [Users -> Nat]

\* The constants, one by one.
LEMMA Constants ==
  /\ IsFiniteSet(Orders)
  /\ UserOf \in [Orders -> Users] /\ Days \in [Orders -> Nat]
  /\ reminderWindow \in Nat /\ NoRow \notin Row /\ NoRow \notin Orders
BY SubscriptionsAssumption

\* A row as a record, and what setting one of its marks leaves.
LEMMA RowFields ==
  ASSUME NEW r \in Row
  PROVE  /\ r.id \in Orders /\ r.startsAt \in Nat /\ r.expiresAt \in Nat
         /\ r.active \in BOOLEAN /\ r.orderIds \in SUBSET Orders /\ r.notified \in BOOLEAN
         /\ r # NoRow /\ UserOf[r.id] \in Users
         /\ Period(r) \in Orders \X SUBSET Orders
BY Constants DEF Row, Period

LEMMA RowMarked ==
  ASSUME NEW r \in Row, NEW w, w = [r EXCEPT !.notified = TRUE]
  PROVE  /\ w \in Row /\ w.id = r.id /\ w.startsAt = r.startsAt /\ w.expiresAt = r.expiresAt
         /\ w.active = r.active /\ w.orderIds = r.orderIds /\ w.notified = TRUE
         /\ Period(w) = Period(r)
BY DEF Row, Period

LEMMA RowClosed ==
  ASSUME NEW r \in Row, NEW w, w = [r EXCEPT !.active = FALSE]
  PROVE  /\ w \in Row /\ w.id = r.id /\ w.startsAt = r.startsAt /\ w.expiresAt = r.expiresAt
         /\ w.active = FALSE /\ w.orderIds = r.orderIds /\ w.notified = r.notified
         /\ Period(w) = Period(r)
BY DEF Row, Period

\* What fulfillOrder writes: the row it read, extended from its expiry, or a row
\* of its own that starts at the time it read.
LEMMA GrantedRow ==
  ASSUME TypeInv, NEW o \in Orders
  PROVE  /\ Granted(o) \in Row
         /\ Granted(o).active = TRUE /\ Granted(o).notified = FALSE
         /\ \/ /\ seen[o].sub \in Row /\ seen[o].sub.expiresAt > seen[o].now
               /\ Granted(o).id = seen[o].sub.id
               /\ Granted(o).startsAt = seen[o].sub.startsAt
               /\ Granted(o).expiresAt = seen[o].sub.expiresAt + Days[o]
               /\ Granted(o).orderIds = seen[o].sub.orderIds \cup {o}
            \/ /\ ~ (seen[o].sub \in Row /\ seen[o].sub.expiresAt > seen[o].now)
               /\ Granted(o).id = o
               /\ Granted(o).startsAt = seen[o].now
               /\ Granted(o).expiresAt = seen[o].now + Days[o]
               /\ Granted(o).orderIds = {o}
<1> DEFINE now == seen[o].now
           sub == seen[o].sub
<1>1. now \in Nat /\ sub \in Row \cup {NoRow} /\ Days[o] \in Nat
  BY Constants DEF TypeInv
<1>2. CASE sub # NoRow /\ sub.expiresAt > now
  <2>1. sub \in Row
    BY <1>1, <1>2
  <2>2. PICK s \in Row : s = sub
    BY <2>1
  <2>3. PICK days \in Nat : days = Days[o]
    BY <1>1
  <2>4. Granted(o) = [s EXCEPT !.expiresAt = @ + days, !.orderIds = @ \cup {o},
                               !.active = TRUE, !.notified = FALSE]
    BY <1>2, <2>2, <2>3 DEF Granted
  <2>5. s.expiresAt + days \in Nat /\ s.orderIds \cup {o} \in SUBSET Orders
    BY RowFields
  <2>6. PICK e \in Nat, ids \in SUBSET Orders : e = s.expiresAt + days /\ ids = s.orderIds \cup {o}
    BY <2>5
  <2>7. Granted(o) = [s EXCEPT !.expiresAt = e, !.orderIds = ids, !.active = TRUE, !.notified = FALSE]
    BY <2>4, <2>6
  <2>8. /\ Granted(o) \in Row /\ Granted(o).id = s.id /\ Granted(o).startsAt = s.startsAt
        /\ Granted(o).expiresAt = e /\ Granted(o).orderIds = ids
        /\ Granted(o).active = TRUE /\ Granted(o).notified = FALSE
    BY <2>7 DEF Row
  <2> QED
    BY <1>2, <2>1, <2>2, <2>3, <2>6, <2>8
<1>3. CASE ~(sub # NoRow /\ sub.expiresAt > now)
  <2>1. Granted(o) = [id |-> o, startsAt |-> now, expiresAt |-> now + Days[o], active |-> TRUE,
                      orderIds |-> {o}, notified |-> FALSE]
    BY <1>3 DEF Granted
  <2>2. ~ (sub \in Row /\ sub.expiresAt > now)
    BY <1>3, Constants
  <2>3. now + Days[o] \in Nat
    BY <1>1
  <2> QED
    BY <1>1, <2>1, <2>2, <2>3 DEF Row
<1> QED
  BY <1>2, <1>3

\* A write keeps the table and the index typed.
LEMMA WriteType ==
  ASSUME TypeInv, NEW w \in Row, Write(w)
  PROVE  /\ Table(rows') /\ activeByUser' \in [Users -> Orders \cup {NoRow}]
         /\ rows'[w.id] = w /\ \A o \in Orders \ {w.id} : rows'[o] = rows[o]
<1>1. w.id \in Orders /\ UserOf[w.id] \in Users
  BY RowFields
<1>2. PICK i \in Orders \cup {NoRow} : activeByUser' = [activeByUser EXCEPT ![UserOf[w.id]] = i]
  BY <1>1 DEF Write, TypeInv
<1> QED
  BY <1>1, <1>2 DEF Write, TypeInv, Table

LEMMA StoredRows ==
  ASSUME TypeInv
  PROVE  /\ Stored \subseteq Row /\ ActiveRows \subseteq Stored
         /\ \A r \in Stored : rows[r.id] = r
         /\ \A o \in Orders : rows[o] # NoRow => rows[o] \in Stored
BY DEF TypeInv, Table, Stored, ActiveRows

LEMMA FindType ==
  ASSUME TypeInv, NEW u \in Users
  PROVE  findActiveByUser(u) \in Row \cup {NoRow}
<1>1. CASE \E r \in ActiveRows : UserOf[r.id] = u
  <2>1. (CHOOSE r \in ActiveRows : UserOf[r.id] = u) \in ActiveRows
    BY <1>1
  <2> QED
    BY <1>1, <2>1, StoredRows DEF findActiveByUser, TypeInv, Table
<1> QED
  BY <1>1 DEF findActiveByUser, TypeInv, Table

\* Where a step leaves pass p, the others standing still.
Became(p, at, todo, cur) ==
  /\ pass' \in [Passes -> Pass]
  /\ pass'[p].at = at /\ pass'[p].todo = todo /\ pass'[p].cur = cur
  /\ \A q \in Passes \ {p} : pass'[q] = pass[q]

LEMMA PassMoves ==
  ASSUME TypeInv, NEW p \in Passes, NEW at \in Awaits, NEW todo \in SUBSET Row,
         NEW cur \in Row \cup {NoRow},
         pass' = [pass EXCEPT ![p] = [at |-> at, todo |-> todo, cur |-> cur]]
  PROVE  Became(p, at, todo, cur)
<1>1. PICK v \in Pass : v = [at |-> at, todo |-> todo, cur |-> cur]
  BY DEF Pass
<1>2. pass' = [pass EXCEPT ![p] = v] /\ v.at = at /\ v.todo = todo /\ v.cur = cur
  BY <1>1
<1> QED
  BY <1>2 DEF TypeInv, Became

LEMMA PassSteps ==
  ASSUME TypeInv, NEW p \in Passes
  PROVE  /\ ListExpiring(p) =>
              Became(p, "remind", {r \in ActiveRows : dueForReminder(r, clock)}, NoRow)
         /\ NotifyExpiring(p) =>
              \E r \in pass[p].todo : /\ r \in Row /\ Became(p, "update", pass[p].todo \ {r}, r)
                                      /\ reminded' = reminded \cup {Period(r)}
         /\ MarkNotified(p) => Became(p, "remind", pass[p].todo, NoRow)
         /\ ListExpired(p) =>
              Became(p, "expire", {r \in ActiveRows : r.expiresAt <= clock}, NoRow)
         /\ Deactivate(p) =>
              \E r \in pass[p].todo : /\ r \in Row /\ Became(p, "notify", pass[p].todo \ {r}, r)
                                      /\ Write([r EXCEPT !.active = FALSE])
         /\ NotifyExpired(p) => Became(p, "expire", pass[p].todo, NoRow)
         /\ PassEnds(p) \/ PassFails(p) => Became(p, "idle", {}, NoRow)
<1>1. /\ {r \in ActiveRows : dueForReminder(r, clock)} \in SUBSET Row
      /\ {r \in ActiveRows : r.expiresAt <= clock} \in SUBSET Row
      /\ pass[p].todo \in SUBSET Row /\ {} \in SUBSET Row
      /\ NoRow \in Row \cup {NoRow}
  BY StoredRows DEF TypeInv, Pass
<1>2. {"idle", "remind", "update", "expire", "notify"} \subseteq Awaits
  BY DEF Awaits
<1>3. ASSUME NEW r \in pass[p].todo
      PROVE  r \in Row /\ pass[p].todo \ {r} \in SUBSET Row
  BY <1>1
<1>4. ListExpiring(p) => Became(p, "remind", {r \in ActiveRows : dueForReminder(r, clock)}, NoRow)
  <2> DEFINE due == {r \in ActiveRows : dueForReminder(r, clock)}
  <2>1. ListExpiring(p) => pass' = [pass EXCEPT ![p] = [at |-> "remind", todo |-> due, cur |-> NoRow]]
    BY DEF ListExpiring
  <2> HIDE DEF due
  <2> QED
    BY <1>1, <1>2, <2>1, PassMoves DEF due
<1>5. ASSUME NotifyExpiring(p)
      PROVE  \E r \in pass[p].todo : /\ r \in Row /\ Became(p, "update", pass[p].todo \ {r}, r)
                                     /\ reminded' = reminded \cup {Period(r)}
  <2>1. PICK r \in pass[p].todo :
          /\ pass' = [pass EXCEPT ![p] = [at |-> "update", todo |-> pass[p].todo \ {r}, cur |-> r]]
          /\ reminded' = reminded \cup {Period(r)}
    BY <1>5 DEF NotifyExpiring
  <2>2. Became(p, "update", pass[p].todo \ {r}, r)
    BY <1>2, <1>3, <2>1, PassMoves
  <2> QED
    BY <1>3, <2>1, <2>2
<1>6. MarkNotified(p) => Became(p, "remind", pass[p].todo, NoRow)
  BY <1>1, <1>2, PassMoves DEF MarkNotified
<1>7. ListExpired(p) => Became(p, "expire", {r \in ActiveRows : r.expiresAt <= clock}, NoRow)
  <2> DEFINE lapsed == {r \in ActiveRows : r.expiresAt <= clock}
  <2>1. ListExpired(p) => pass' = [pass EXCEPT ![p] = [at |-> "expire", todo |-> lapsed, cur |-> NoRow]]
    BY DEF ListExpired
  <2> HIDE DEF lapsed
  <2> QED
    BY <1>1, <1>2, <2>1, PassMoves DEF lapsed
<1>8. ASSUME Deactivate(p)
      PROVE  \E r \in pass[p].todo : /\ r \in Row /\ Became(p, "notify", pass[p].todo \ {r}, r)
                                     /\ Write([r EXCEPT !.active = FALSE])
  <2>1. PICK r \in pass[p].todo :
          /\ pass' = [pass EXCEPT ![p] = [at |-> "notify", todo |-> pass[p].todo \ {r}, cur |-> r]]
          /\ Write([r EXCEPT !.active = FALSE])
    BY <1>8 DEF Deactivate
  <2>2. Became(p, "notify", pass[p].todo \ {r}, r)
    BY <1>2, <1>3, <2>1, PassMoves
  <2> QED
    BY <1>3, <2>1, <2>2
<1>9. NotifyExpired(p) => Became(p, "expire", pass[p].todo, NoRow)
  BY <1>1, <1>2, PassMoves DEF NotifyExpired
<1>10. PassEnds(p) \/ PassFails(p) => Became(p, "idle", {}, NoRow)
  <2>1. PassEnds(p) \/ PassFails(p) =>
          pass' = [pass EXCEPT ![p] = [at |-> "idle", todo |-> {}, cur |-> NoRow]]
    BY DEF PassEnds, PassFails, NoPass
  <2> QED
    BY <1>1, <1>2, <2>1, PassMoves
<1> QED
  BY <1>4, <1>5, <1>6, <1>7, <1>8, <1>9, <1>10

\* A step of fulfillOrder keeps the types.
LEMMA OrderType ==
  ASSUME TypeInv, NEW o \in Orders, FindActive(o) \/ Fulfil(o) \/ FulfilThrows(o)
  PROVE  /\ TypeInv'
         /\ \A p \in Orders \ {o} : stage'[p] = stage[p] /\ seen'[p] = seen[p]
<1>1. ASSUME NEW st \in Stages, stage' = [stage EXCEPT ![o] = st],
             NEW got \in [now : Nat, sub : Row \cup {NoRow}], seen' = [seen EXCEPT ![o] = got],
             UNCHANGED <<clock, wiring, passVars>>,
             Table(rows'), activeByUser' \in [Users -> Orders \cup {NoRow}],
             granted' \in [Users -> Nat]
      PROVE  /\ TypeInv'
             /\ \A p \in Orders \ {o} : stage'[p] = stage[p] /\ seen'[p] = seen[p]
  <2>1. stage' \in [Orders -> Stages]
    BY <1>1 DEF TypeInv
  <2>2. seen' \in [Orders -> [now : Nat, sub : Row \cup {NoRow}]]
    BY <1>1 DEF TypeInv
  <2> QED
    BY <1>1, <2>1, <2>2 DEF TypeInv, Table, wiring, passVars
<1>2. /\ UserOf[o] \in Users /\ {"paid", "read", "done", "refused"} \subseteq Stages
      /\ Unread \in [now : Nat, sub : Row \cup {NoRow}]
  BY Constants DEF Unread, Stages
<1>3. CASE FindActive(o)
  <2>1. [now |-> clock, sub |-> findActiveByUser(UserOf[o])] \in [now : Nat, sub : Row \cup {NoRow}]
    BY <1>2, FindType DEF TypeInv
  <2> QED
    BY <1>1, <1>2, <1>3, <2>1 DEF FindActive, TypeInv, passVars
<1>4. CASE Fulfil(o)
  <2>1. Write(Granted(o)) /\ Granted(o) \in Row
    BY <1>4, GrantedRow DEF Fulfil
  <2>2. granted' \in [Users -> Nat]
    <3>1. Later(granted[UserOf[o]], seen[o].now) + Days[o] \in Nat
      BY <1>2, Constants DEF TypeInv, Later
    <3> QED
      BY <1>2, <1>4, <3>1 DEF Fulfil, TypeInv
  <2> QED
    BY <1>1, <1>2, <1>4, <2>1, <2>2, WriteType DEF Fulfil
<1>5. CASE FulfilThrows(o)
  BY <1>1, <1>2, <1>5 DEF FulfilThrows, TypeInv, passVars
<1> QED
  BY <1>3, <1>4, <1>5

\* A step of a pass keeps the types.
LEMMA PassType ==
  ASSUME TypeInv, NEW p \in Passes, PassStep(p)
  PROVE  TypeInv'
<1>1. ASSUME NEW at \in Awaits, NEW todo, NEW cur, Became(p, at, todo, cur),
             at \in {"update", "notify"} => cur # NoRow, at = "idle" => todo = {},
             UNCHANGED <<clock, wiring, stage, seen, granted>>,
             Table(rows'), activeByUser' \in [Users -> Orders \cup {NoRow}],
             reminded' \subseteq Orders \X SUBSET Orders, marked' \subseteq Orders \X SUBSET Orders
      PROVE  TypeInv'
  <2>1. /\ pass' \in [Passes -> Pass]
        /\ \A q \in Passes : /\ pass'[q].at \in {"update", "notify"} => pass'[q].cur # NoRow
                             /\ pass'[q].at = "idle" => pass'[q].todo = {}
    BY <1>1 DEF Became, TypeInv
  <2> QED
    BY <1>1, <2>1 DEF TypeInv, Table, wiring
<1>2. /\ {"idle", "remind", "update", "expire", "notify"} \subseteq Awaits
      /\ UNCHANGED <<clock, wiring, stage, seen, granted>>
  BY DEF Awaits, PassStep, ListExpiring, NotifyExpiring, MarkNotified, ListExpired, Deactivate,
         NotifyExpired, PassEnds, PassFails
<1>3. ASSUME UNCHANGED <<rows, activeByUser>>
      PROVE  Table(rows') /\ activeByUser' \in [Users -> Orders \cup {NoRow}]
  BY <1>3 DEF TypeInv, Table
<1>4. ASSUME UNCHANGED <<reminded, marked>>
      PROVE  reminded' \subseteq Orders \X SUBSET Orders /\ marked' \subseteq Orders \X SUBSET Orders
  BY <1>4 DEF TypeInv
<1>5. CASE ListExpiring(p)
  BY <1>1, <1>2, <1>3, <1>4, <1>5, PassSteps DEF ListExpiring
<1>6. CASE NotifyExpiring(p)
  <2>1. PICK r \in Row : /\ Became(p, "update", pass[p].todo \ {r}, r)
                         /\ reminded' = reminded \cup {Period(r)}
    BY <1>6, PassSteps
  <2>2. /\ reminded' \subseteq Orders \X SUBSET Orders /\ marked' \subseteq Orders \X SUBSET Orders
    BY <1>6, <2>1, RowFields DEF NotifyExpiring, TypeInv
  <2> QED
    BY <1>1, <1>2, <1>3, <1>6, <2>1, <2>2, Constants DEF NotifyExpiring
<1>7. CASE MarkNotified(p)
  <2>1. pass[p].cur \in Row
    BY <1>7 DEF MarkNotified, TypeInv, Pass
  <2>2. PICK w \in Row : w = [pass[p].cur EXCEPT !.notified = TRUE]
    BY <2>1, RowMarked
  <2>3. Write(w) /\ marked' = marked \cup {Period(w)} /\ reminded' = reminded
    BY <1>7, <2>2 DEF MarkNotified
  <2>4. Table(rows') /\ activeByUser' \in [Users -> Orders \cup {NoRow}]
    BY <2>3, WriteType
  <2>5. reminded' \subseteq Orders \X SUBSET Orders /\ marked' \subseteq Orders \X SUBSET Orders
    BY <2>3, RowFields DEF TypeInv
  <2> QED
    BY <1>1, <1>2, <1>7, <2>4, <2>5, PassSteps
<1>8. CASE ListExpired(p)
  BY <1>1, <1>2, <1>3, <1>4, <1>8, PassSteps DEF ListExpired
<1>9. CASE Deactivate(p)
  <2>1. PICK r \in Row : /\ Became(p, "notify", pass[p].todo \ {r}, r)
                         /\ Write([r EXCEPT !.active = FALSE])
    BY <1>9, PassSteps
  <2>2. [r EXCEPT !.active = FALSE] \in Row
    BY RowClosed
  <2>3. Table(rows') /\ activeByUser' \in [Users -> Orders \cup {NoRow}]
    BY <2>1, <2>2, WriteType
  <2> QED
    BY <1>1, <1>2, <1>4, <1>9, <2>1, <2>3, Constants DEF Deactivate
<1>10. CASE NotifyExpired(p)
  BY <1>1, <1>2, <1>3, <1>4, <1>10, PassSteps DEF NotifyExpired
<1>11. CASE PassEnds(p) \/ PassFails(p)
  BY <1>1, <1>2, <1>3, <1>4, <1>11, PassSteps DEF PassEnds, PassFails
<1> QED
  BY <1>5, <1>6, <1>7, <1>8, <1>9, <1>10, <1>11 DEF PassStep

LEMMA InitType ==
  Init => TypeInv
BY Constants DEF Init, TypeInv, Table, Unread, NoPass, Pass, Awaits, Stages

LEMMA NextType ==
  TypeInv /\ [Next]_vars => TypeInv'
<1> SUFFICES ASSUME TypeInv, [Next]_vars  PROVE TypeInv'
  OBVIOUS
<1>1. CASE UNCHANGED vars
  BY <1>1 DEF vars, TypeInv, Table
<1>2. CASE Tick
  BY <1>2 DEF Tick, TypeInv, Table, wiring, passVars
<1> QED
  BY <1>1, <1>2, OrderType, PassType DEF Next

\* Every value stays of its type: the table holds each row under its own order, and
\* a pass has a row in hand when it marks or announces one (ExpiryService).
THEOREM TypeCorrect == Spec => []TypeInv
BY InitType, NextType, PTL DEF Spec

-----------------------------------------------------------------------------
(* Copies of rows.  A row lives in the table, in what a fulfilment has read   *)
(* and in what a pass has listed, and any copy may be written back over any   *)
(* other.                                                                     *)

Done(o) == stage[o] = "done"

\* A copy of a row: it lasts as long as its orders, which are fulfilled, and its
\* mark is about them.
RowInv(r) ==
  /\ r.expiresAt = r.startsAt + SumFunctionOnSet(Days, r.orderIds)
  /\ \A o \in r.orderIds : Done(o)
  /\ r.notified => Period(r) \in reminded

Held(r) ==
  \/ r \in Stored
  \/ \E p \in Passes : r \in pass[p].todo \/ r = pass[p].cur
  \/ \E o \in Orders : r = seen[o].sub

CopyInv ==
  /\ \A r \in Row : Held(r) => RowInv(r)
  /\ \A p \in Passes : pass[p].at = "update" => Period(pass[p].cur) \in reminded

\* What findActiveByUser returns is a stored row.
LEMMA FoundStored ==
  ASSUME TypeInv, NEW u \in Users, findActiveByUser(u) # NoRow
  PROVE  findActiveByUser(u) \in Stored
<1>1. CASE \E r \in ActiveRows : UserOf[r.id] = u
  <2>1. (CHOOSE r \in ActiveRows : UserOf[r.id] = u) \in ActiveRows
    BY <1>1
  <2> QED
    BY <1>1, <2>1, StoredRows DEF findActiveByUser, TypeInv, Table
<1> QED
  BY <1>1, StoredRows DEF findActiveByUser, TypeInv, Table

\* A write leaves the row written and rows that were there.
LEMMA WriteStored ==
  ASSUME TypeInv, NEW w \in Row, Write(w)
  PROVE  \A r \in Stored' : r = w \/ r \in Stored
BY WriteType, StoredRows, Constants DEF Stored, TypeInv, Table

\* The time bought by one order more.
LEMMA DaysAdded ==
  ASSUME NEW S \in SUBSET Orders, NEW o \in Orders, o \notin S
  PROVE  /\ SumFunctionOnSet(Days, S \cup {o}) = SumFunctionOnSet(Days, S) + Days[o]
         /\ SumFunctionOnSet(Days, S) \in Int
         /\ SumFunctionOnSet(Days, {o}) = Days[o]
<1>1. IsFiniteSet(Orders) /\ Days \in [Orders -> Int]
  BY Constants
<1>2. \A U \in SUBSET Orders :
        /\ SumFunctionOnSet(Days, U) \in Int
        /\ \A x \in U : SumFunctionOnSet(Days, U) = Days[x] + SumFunctionOnSet(Days, U \ {x})
  BY <1>1, SumRemove
<1>3. SumFunctionOnSet(Days, {}) = 0
  BY <1>1, SumUnfold
<1>4. (S \cup {o}) \ {o} = S /\ {o} \ {o} = {} /\ Days[o] \in Int
  BY <1>1
<1>5. SumFunctionOnSet(Days, S \cup {o}) = Days[o] + SumFunctionOnSet(Days, S)
  BY <1>2, <1>4
<1>6. SumFunctionOnSet(Days, {o}) = Days[o] + 0
  BY <1>2, <1>3, <1>4
<1> QED
  BY <1>2, <1>4, <1>5, <1>6

\* What the orders of a copy are cannot be taken back.
LEMMA RowKept ==
  ASSUME \A o \in Orders : Done(o) => Done(o)', reminded \subseteq reminded',
         NEW r \in Row, RowInv(r)
  PROVE  RowInv(r)'
BY RowFields DEF RowInv

\* A step keeps CopyInv when each copy it makes is right.
LEMMA CopiesKept ==
  ASSUME \A o \in Orders : Done(o) => Done(o)', reminded \subseteq reminded', CopyInv,
         \A r \in Row : Held(r)' => Held(r) \/ RowInv(r)',
         \A p \in Passes : pass'[p].at = "update" => Period(pass'[p].cur) \in reminded'
  PROVE  CopyInv'
<1>1. ASSUME NEW r \in Row, Held(r)'  PROVE RowInv(r)'
  <2>1. CASE Held(r)
    <3>1. RowInv(r)
      BY <2>1 DEF CopyInv
    <3> QED
      BY <3>1, RowKept
  <2> QED
    BY <1>1, <2>1
<1> QED
  BY <1>1 DEF CopyInv

\* Every step of a pass: it fulfils nothing.
LEMMA CopyPass ==
  ASSUME TypeInv, CopyInv, NEW p \in Passes, PassStep(p)
  PROVE  CopyInv'
<1>1. ASSUME NEW at, NEW todo, NEW cur, Became(p, at, todo, cur),
             UNCHANGED <<stage, seen>>, reminded \subseteq reminded',
             \A r \in Row : r \in Stored' => Held(r) \/ RowInv(r)',
             \A r \in todo : r \in pass[p].todo \/ r \in Stored,
             cur # NoRow => cur \in pass[p].todo,
             at = "update" => Period(cur) \in reminded'
      PROVE  CopyInv'
  <2>1. \A q \in Passes : q = p \/ pass'[q] = pass[q]
    BY <1>1 DEF Became
  <2>2. \A r \in Row : Held(r)' => Held(r) \/ RowInv(r)'
    BY <1>1, <2>1, Constants DEF Held, Became
  <2>3. \A o \in Orders : Done(o) => Done(o)'
    BY <1>1 DEF Done
  <2>4. \A q \in Passes : pass'[q].at = "update" => Period(pass'[q].cur) \in reminded'
    BY <1>1, <2>1 DEF Became, CopyInv
  <2> QED
    BY <1>1, <2>2, <2>3, <2>4, CopiesKept
<1>2. /\ UNCHANGED <<stage, seen>>
      /\ ~ NotifyExpiring(p) => UNCHANGED reminded
  BY DEF PassStep, ListExpiring, NotifyExpiring, MarkNotified, ListExpired, Deactivate,
         NotifyExpired, PassEnds, PassFails
\* The steps that write no row.
<1>3. ASSUME UNCHANGED rows
      PROVE  \A r \in Row : r \in Stored' => Held(r) \/ RowInv(r)'
  BY <1>3 DEF Stored, Held
<1>4. CASE ListExpiring(p)
  <2>1. UNCHANGED <<rows, reminded>>
    BY <1>4 DEF ListExpiring
  <2>2. PICK todo : todo = {r \in ActiveRows : dueForReminder(r, clock)}
    OBVIOUS
  <2>3. Became(p, "remind", todo, NoRow) /\ \A r \in todo : r \in Stored
    BY <1>4, <2>2, PassSteps, StoredRows
  <2> QED
    BY <1>1, <1>2, <1>3, <2>1, <2>3
<1>5. CASE NotifyExpiring(p)
  <2>1. PICK r \in pass[p].todo : /\ Became(p, "update", pass[p].todo \ {r}, r)
                                  /\ reminded' = reminded \cup {Period(r)}
    BY <1>5, PassSteps
  <2>2. UNCHANGED rows
    BY <1>5 DEF NotifyExpiring
  <2>3. Period(r) \in reminded' /\ reminded \subseteq reminded'
    BY <2>1
  <2> QED
    BY <1>1, <1>2, <1>3, <2>1, <2>2, <2>3
<1>6. CASE MarkNotified(p)
  <2>1. /\ pass[p].cur \in Row /\ pass[p].at = "update"
        /\ Write([pass[p].cur EXCEPT !.notified = TRUE]) /\ UNCHANGED reminded
    BY <1>6 DEF MarkNotified, TypeInv, Pass
  <2>2. PICK c \in Row : c = pass[p].cur
    BY <2>1
  <2>3. PICK w : w = [c EXCEPT !.notified = TRUE]
    OBVIOUS
  <2>4. /\ w \in Row /\ w.startsAt = c.startsAt /\ w.expiresAt = c.expiresAt
        /\ w.orderIds = c.orderIds /\ Period(w) = Period(c)
    BY <2>3, RowMarked
  <2> Write(w)
    BY <2>1, <2>2, <2>3
  <2>5. RowInv(c) /\ Period(c) \in reminded
    BY <2>1, <2>2 DEF CopyInv, Held
  <2>6. RowInv(w)'
    BY <1>2, <2>1, <2>4, <2>5 DEF RowInv, Done
  <2>7. \A r \in Row : r \in Stored' => Held(r) \/ RowInv(r)'
    BY <2>4, <2>6, WriteStored DEF Held
  <2>8. reminded \subseteq reminded'
    BY <2>1
  <2> QED
    BY <1>1, <1>2, <1>6, <2>7, <2>8, PassSteps
<1>7. CASE ListExpired(p)
  <2>1. UNCHANGED <<rows, reminded>>
    BY <1>7 DEF ListExpired
  <2>2. PICK todo : todo = {r \in ActiveRows : r.expiresAt <= clock}
    OBVIOUS
  <2>3. Became(p, "expire", todo, NoRow) /\ \A r \in todo : r \in Stored
    BY <1>7, <2>2, PassSteps, StoredRows
  <2> QED
    BY <1>1, <1>2, <1>3, <2>1, <2>3
<1>8. CASE Deactivate(p)
  <2>1. PICK r \in pass[p].todo : /\ r \in Row /\ Became(p, "notify", pass[p].todo \ {r}, r)
                                  /\ Write([r EXCEPT !.active = FALSE])
    BY <1>8, PassSteps
  <2>2. RowInv(r)
    BY <2>1 DEF CopyInv, Held
  <2>3. PICK w \in Row : w = [r EXCEPT !.active = FALSE]
    BY <2>1, RowClosed
  <2>4. UNCHANGED reminded
    BY <1>8 DEF Deactivate
  <2>5. RowInv(w)'
    BY <1>2, <2>1, <2>2, <2>3, <2>4, RowClosed DEF RowInv, Done
  <2>6. \A q \in Row : q \in Stored' => Held(q) \/ RowInv(q)'
    BY <2>1, <2>3, <2>5, WriteStored DEF Held
  <2>7. reminded \subseteq reminded'
    BY <2>4
  <2> QED
    BY <1>1, <1>2, <2>1, <2>6, <2>7
<1>9. CASE NotifyExpired(p) \/ PassEnds(p) \/ PassFails(p)
  <2>1. UNCHANGED <<rows, reminded>>
    BY <1>9 DEF NotifyExpired, PassEnds, PassFails
  <2>2. \/ Became(p, "expire", pass[p].todo, NoRow)
        \/ Became(p, "idle", {}, NoRow)
    BY <1>9, PassSteps
  <2> QED
    BY <1>1, <1>2, <1>3, <2>1, <2>2
<1> QED
  BY <1>4, <1>5, <1>6, <1>7, <1>8, <1>9 DEF PassStep

LEMMA CopyStep ==
  ASSUME TypeInv, CopyInv, [Next]_vars
  PROVE  CopyInv'
<1>1. ASSUME UNCHANGED <<rows, stage, seen, pass, reminded>>  PROVE CopyInv'
  BY <1>1 DEF CopyInv, Held, Stored, RowInv, Done
<1>2. ASSUME NEW o \in Orders, FindActive(o)  PROVE CopyInv'
  <2>1. /\ UNCHANGED <<rows, pass, reminded>> /\ stage[o] = "paid"
        /\ stage' = [stage EXCEPT ![o] = "read"]
        /\ seen' = [seen EXCEPT ![o] = [now |-> clock, sub |-> findActiveByUser(UserOf[o])]]
    BY <1>2 DEF FindActive, passVars
  <2>2. \A p \in Orders : Done(p) => Done(p)'
    BY <2>1 DEF Done, TypeInv
  <2>3. findActiveByUser(UserOf[o]) # NoRow => findActiveByUser(UserOf[o]) \in Stored
    BY FoundStored, Constants
  <2>4. \A p \in Orders : seen'[p] = IF p = o THEN [now |-> clock, sub |-> findActiveByUser(UserOf[o])]
                                              ELSE seen[p]
    BY <2>1 DEF TypeInv
  <2>5. \A r \in Row : Held(r)' => Held(r)
    BY <2>1, <2>3, <2>4, Constants DEF Held, Stored
  <2> QED
    BY <2>1, <2>2, <2>5, CopiesKept DEF CopyInv
<1>3. ASSUME NEW o \in Orders, Fulfil(o)  PROVE CopyInv'
  <2>1. /\ UNCHANGED <<pass, reminded>> /\ stage[o] = "read" /\ Write(Granted(o))
        /\ stage' = [stage EXCEPT ![o] = "done"]
        /\ seen' = [seen EXCEPT ![o] = Unread]
    BY <1>3 DEF Fulfil, passVars
  <2>2. \A p \in Orders : Done(p)' <=> (p = o \/ Done(p))
    BY <2>1 DEF Done, TypeInv
  <2>3. PICK w \in Row : w = Granted(o)
    BY GrantedRow
  <2>4. RowInv(w)'
    <3>1. CASE /\ seen[o].sub \in Row
               /\ w.startsAt = seen[o].sub.startsAt
               /\ w.expiresAt = seen[o].sub.expiresAt + Days[o]
               /\ w.orderIds = seen[o].sub.orderIds \cup {o}
      <4>1. PICK s \in Row : s = seen[o].sub
        BY <3>1
      <4>2. RowInv(s)
        BY <4>1 DEF CopyInv, Held
      <4>3. o \notin s.orderIds /\ s.orderIds \in SUBSET Orders
        BY <2>1, <4>2, RowFields DEF RowInv, Done
      <4>4. /\ SumFunctionOnSet(Days, w.orderIds) = SumFunctionOnSet(Days, s.orderIds) + Days[o]
            /\ SumFunctionOnSet(Days, s.orderIds) \in Int
        BY <3>1, <4>1, <4>3, DaysAdded
      <4>5. w.expiresAt = w.startsAt + SumFunctionOnSet(Days, w.orderIds)
        <5>1. /\ w.expiresAt = s.expiresAt + Days[o] /\ w.startsAt = s.startsAt
              /\ s.expiresAt = s.startsAt + SumFunctionOnSet(Days, s.orderIds)
              /\ s.startsAt \in Nat /\ Days[o] \in Nat
          BY <3>1, <4>1, <4>2, RowFields, Constants DEF RowInv
        <5> QED
          BY <4>4, <5>1
      <4>6. \A p \in w.orderIds : Done(p)'
        BY <2>2, <3>1, <4>1, <4>2, <4>3 DEF RowInv
      <4>7. ~ w.notified
        BY <2>3, GrantedRow
      <4> QED
        BY <4>5, <4>6, <4>7 DEF RowInv
    <3>2. CASE /\ w.startsAt = seen[o].now
               /\ w.expiresAt = seen[o].now + Days[o]
               /\ w.orderIds = {o}
      <4>1. SumFunctionOnSet(Days, w.orderIds) = Days[o]
        <5>1. PICK S \in SUBSET Orders : S = {}
          OBVIOUS
        <5>2. SumFunctionOnSet(Days, {o}) = Days[o]
          BY <5>1, DaysAdded
        <5> QED
          BY <3>2, <5>2
      <4>2. ~ w.notified
        BY <2>3, GrantedRow
      <4> QED
        BY <2>2, <3>2, <4>1, <4>2 DEF RowInv
    <3> QED
      BY <2>3, <3>1, <3>2, GrantedRow
  <2>5. \A p \in Orders : seen'[p].sub = IF p = o THEN NoRow ELSE seen[p].sub
    BY <2>1 DEF TypeInv, Unread
  <2>6. \A r \in Row : Held(r)' => Held(r) \/ r = w
    BY <2>1, <2>3, <2>5, WriteStored, Constants DEF Held
  <2> QED
    BY <2>1, <2>2, <2>4, <2>6, CopiesKept DEF CopyInv
<1>4. ASSUME NEW o \in Orders, FulfilThrows(o)  PROVE CopyInv'
  <2>1. /\ UNCHANGED <<rows, pass, reminded>>
        /\ stage[o] = "read" /\ stage' = [stage EXCEPT ![o] = "refused"]
        /\ seen' = [seen EXCEPT ![o] = Unread]
    BY <1>4 DEF FulfilThrows, passVars
  <2>2. \A p \in Orders : Done(p) => Done(p)'
    BY <2>1 DEF Done, TypeInv
  <2>3. \A p \in Orders : seen'[p].sub = IF p = o THEN NoRow ELSE seen[p].sub
    BY <2>1 DEF TypeInv, Unread
  <2>4. \A r \in Row : Held(r)' => Held(r)
    BY <2>1, <2>3, Constants DEF Held, Stored
  <2> QED
    BY <2>1, <2>2, <2>4, CopiesKept DEF CopyInv
<1>5. ASSUME NEW p \in Passes, PassStep(p)  PROVE CopyInv'
  BY <1>5, CopyPass
<1>6. CASE Tick
  BY <1>1, <1>6 DEF Tick, passVars
<1>7. CASE UNCHANGED vars
  BY <1>1, <1>7 DEF vars
<1> QED
  BY <1>2, <1>3, <1>4, <1>5, <1>6, <1>7 DEF Next

LEMMA CopyInvariant ==
  Spec => [](TypeInv /\ CopyInv)
<1>1. Init => TypeInv /\ CopyInv
  <2> SUFFICES ASSUME Init  PROVE TypeInv /\ CopyInv
    OBVIOUS
  <2>1. \A r \in Row : ~ Held(r)
    BY Constants DEF Init, Held, Stored, NoPass, Unread
  <2>2. \A p \in Passes : pass[p].at = "idle"
    BY DEF Init, NoPass
  <2> QED
    BY <2>1, <2>2, InitType DEF CopyInv
<1>2. TypeInv /\ CopyInv /\ [Next]_vars => (TypeInv /\ CopyInv)'
  BY NextType, CopyStep
<1> QED
  BY <1>1, <1>2, PTL DEF Spec

\* No interleaving of fulfilments with one another or with a pass, on either
\* repository, gives a subscription time its orders did not buy or lists an order
\* without its time (fulfillOrder writes expiresAt and orderIds together).
THEOREM OrdersAndTimeAgree == Spec => []LastsAsListed
<1>1. TypeInv /\ CopyInv => LastsAsListed
  BY StoredRows DEF CopyInv, Held, RowInv, LastsAsListed
<1> QED
  BY <1>1, CopyInvariant, PTL

\* A row is marked as reminded only with the orders a reminder went out for: a
\* renewal clears expiryNotifiedAt, and the pass marks the row it reminded of.
THEOREM NoUnearnedMark == Spec => []MarkIsOfPeriod
<1>1. TypeInv /\ CopyInv => MarkIsOfPeriod
  BY StoredRows DEF CopyInv, Held, RowInv, MarkIsOfPeriod
<1> QED
  BY <1>1, CopyInvariant, PTL

-----------------------------------------------------------------------------
(* Reminders *)

Unmarked(o) == rows[o] # NoRow /\ rows[o].active /\ ~ rows[o].notified

\* What fulfillOrder alone can undo: a period whose mark was written is marked in
\* the table, or no active row is of that period.
MarkInv ==
  /\ \A x \in marked : \A o \in x[2] : Done(o)
  /\ \A o \in Orders : Unmarked(o) => Period(rows[o]) \notin marked

LEMMA MarkStep ==
  ASSUME TypeInv, CopyInv, MarkInv, [Next]_vars
  PROVE  MarkInv'
\* Every step that marks nothing.
<1>1. ASSUME UNCHANGED marked, \A o \in Orders : Done(o) => Done(o)',
             \A o \in Orders : Unmarked(o)' /\ Period(rows'[o]) \in marked => rows'[o] = rows[o]
      PROVE  MarkInv'
  <2>1. marked \subseteq Orders \X SUBSET Orders
    BY DEF TypeInv
  <2>2. \A x \in marked : \A o \in x[2] : Done(o)'
    BY <1>1, <2>1 DEF MarkInv
  <2>3. ASSUME NEW o \in Orders, Unmarked(o)'  PROVE Period(rows'[o]) \notin marked
    BY <1>1, <2>3 DEF MarkInv, Unmarked
  <2> QED
    BY <1>1, <2>2, <2>3 DEF MarkInv
<1>2. ASSUME NEW o \in Orders, FindActive(o) \/ FulfilThrows(o)  PROVE MarkInv'
  <2>1. \A q \in Orders : Done(q) => Done(q)'
    BY <1>2 DEF FindActive, FulfilThrows, Done, TypeInv
  <2> QED
    BY <1>1, <1>2, <2>1 DEF FindActive, FulfilThrows, passVars
\* A grant lists an order that was not fulfilled: its period is new.
<1>3. ASSUME NEW o \in Orders, Fulfil(o)  PROVE MarkInv'
  <2>1. /\ UNCHANGED marked /\ stage[o] = "read" /\ Write(Granted(o))
        /\ stage' = [stage EXCEPT ![o] = "done"]
    BY <1>3 DEF Fulfil, passVars
  <2>2. PICK w \in Row : w = Granted(o) /\ o \in w.orderIds
    BY GrantedRow
  <2>3. /\ rows'[w.id] = w /\ \A q \in Orders \ {w.id} : rows'[q] = rows[q]
    BY <2>1, <2>2, WriteType
  <2>4. Period(w) \notin marked
    <3>1. ~ Done(o)
      BY <2>1 DEF Done
    <3>2. Period(w)[2] = w.orderIds
      BY DEF Period
    <3> QED
      BY <2>2, <3>1, <3>2 DEF MarkInv
  <2>5. \A q \in Orders : Done(q) => Done(q)'
    BY <2>1 DEF Done, TypeInv
  <2> QED
    BY <1>1, <2>1, <2>3, <2>4, <2>5
<1>4. ASSUME NEW p \in Passes, PassStep(p), ~ MarkNotified(p)  PROVE MarkInv'
  <2>1. UNCHANGED <<stage, marked>>
    BY <1>4 DEF PassStep, ListExpiring, NotifyExpiring, ListExpired, Deactivate,
               NotifyExpired, PassEnds, PassFails
  <2>2. CASE Deactivate(p)
    <3>1. PICK r \in Row : Write([r EXCEPT !.active = FALSE])
      BY <2>2, PassSteps
    <3>2. PICK w \in Row : w = [r EXCEPT !.active = FALSE] /\ w.active = FALSE
      BY RowClosed
    <3>3. rows'[w.id] = w /\ \A o \in Orders \ {w.id} : rows'[o] = rows[o]
      BY <3>1, <3>2, WriteType
    <3>4. \A o \in Orders : Unmarked(o)' => rows'[o] = rows[o]
      BY <3>2, <3>3 DEF Unmarked
    <3> QED
      BY <1>1, <2>1, <3>4 DEF Done
  <2>3. CASE UNCHANGED rows
    BY <1>1, <2>1, <2>3 DEF Done
  <2> QED
    BY <1>4, <2>2, <2>3 DEF PassStep, ListExpiring, NotifyExpiring, ListExpired,
                            NotifyExpired, PassEnds, PassFails
<1>5. ASSUME NEW p \in Passes, MarkNotified(p)  PROVE MarkInv'
  <2>1. /\ pass[p].cur \in Row /\ UNCHANGED stage
        /\ Write([pass[p].cur EXCEPT !.notified = TRUE])
        /\ marked' = marked \cup {Period([pass[p].cur EXCEPT !.notified = TRUE])}
    BY <1>5 DEF MarkNotified, TypeInv, Pass
  <2>2. PICK c \in Row, w \in Row : /\ c = pass[p].cur /\ w = [c EXCEPT !.notified = TRUE]
                                    /\ w.id = c.id /\ w.orderIds = c.orderIds /\ w.notified
    BY <2>1, RowMarked
  <2>3. rows'[w.id] = w /\ \A o \in Orders \ {w.id} : rows'[o] = rows[o]
    BY <2>1, <2>2, WriteType
  <2>4. marked' = marked \cup {Period(w)} /\ Period(w)[1] = w.id /\ Period(w)[2] = w.orderIds
    BY <2>1, <2>2 DEF Period
  <2>5. \A o \in w.orderIds : Done(o)
    BY <2>2 DEF CopyInv, Held, RowInv
  <2>6. ASSUME NEW o \in Orders, Unmarked(o)'  PROVE Period(rows'[o]) \notin marked'
    <3>1. o # w.id
      BY <2>2, <2>3, <2>6 DEF Unmarked
    <3>2. rows'[o] = rows[o] /\ Unmarked(o)
      BY <2>3, <2>6, <3>1 DEF Unmarked
    <3>3. Period(rows[o])[1] = o
      BY <3>2 DEF Period, Unmarked, TypeInv, Table
    <3> QED
      BY <2>4, <3>1, <3>2, <3>3 DEF MarkInv
  <2> QED
    BY <2>1, <2>4, <2>5, <2>6 DEF MarkInv, Done
<1>6. CASE Tick \/ UNCHANGED vars
  BY <1>1, <1>6 DEF Tick, passVars, vars, Done
<1> QED
  BY <1>2, <1>3, <1>4, <1>5, <1>6 DEF Next, PassStep

LEMMA MarkInvariant ==
  Spec => [](TypeInv /\ CopyInv /\ MarkInv)
<1>1. Init => MarkInv
  BY DEF Init, MarkInv, Unmarked
<1>2. TypeInv /\ CopyInv /\ MarkInv /\ [Next]_vars => MarkInv'
  BY MarkStep
<1> QED
  BY <1>1, <1>2, CopyInvariant, PTL DEF Spec

\* Once the mark of a period was written no pass that begins later reminds of it,
\* however many passes overlap, whatever stale rows they and fulfillOrder write and
\* wherever they fail (sendExpiryReminders).
THEOREM MarkedPeriodsRest == Spec => MarkEndsReminders
<1>1. TypeInv /\ MarkInv /\ [Next]_vars =>
        [ \A p \in Passes : pass[p].at = "idle"
            => \A r \in pass'[p].todo : Period(r) \notin marked ]_vars
  <2> SUFFICES ASSUME TypeInv, MarkInv, Next, NEW p \in Passes, pass[p].at = "idle",
                      NEW r \in pass'[p].todo
               PROVE  Period(r) \notin marked
    OBVIOUS
  <2>1. pass[p].todo = {}
    BY DEF TypeInv
  <2>2. CASE ListExpiring(p)
    <3>1. r \in ActiveRows /\ ~ r.notified
      BY <2>2, PassSteps DEF Became, dueForReminder
    <3>2. r \in Row /\ rows[r.id] = r /\ r.active
      BY <3>1, StoredRows DEF ActiveRows
    <3> QED
      BY <3>1, <3>2, RowFields DEF MarkInv, Unmarked
  <2>3. CASE pass'[p] = pass[p]
    BY <2>1, <2>3
  <2>4. ASSUME NEW q \in Passes, PassStep(q), q # p  PROVE pass'[p] = pass[p]
    BY <2>4, PassSteps DEF Became, PassStep
  <2>5. PassStep(p) => ListExpiring(p) \/ PassEnds(p) \/ PassFails(p)
    BY DEF PassStep, NotifyExpiring, MarkNotified, ListExpired, Deactivate, NotifyExpired
  <2>6. ~ PassEnds(p) /\ ~ PassFails(p)
    BY DEF PassEnds, PassFails
  <2>7. ASSUME NEW o \in Orders, FindActive(o) \/ Fulfil(o) \/ FulfilThrows(o)
        PROVE  pass' = pass
    BY <2>7 DEF FindActive, Fulfil, FulfilThrows, passVars
  <2>8. Tick => pass' = pass
    BY DEF Tick, passVars
  <2> QED
    BY <2>2, <2>3, <2>4, <2>5, <2>6, <2>7, <2>8 DEF Next
<1> QED
  BY <1>1, MarkInvariant, PTL DEF Spec, MarkEndsReminders

-----------------------------------------------------------------------------
(* What a write does to findActiveByUser, on a table, an index and either     *)
(* repository.                                                                *)

ActiveOf(table) == {r \in {table[o] : o \in Orders} \ {NoRow} : r.active}

Find(st, table, index, u) ==
  IF st = "memory"
  THEN IF index[u] = NoRow THEN NoRow ELSE table[index[u]]
  ELSE IF \E r \in ActiveOf(table) : UserOf[r.id] = u
       THEN CHOOSE r \in ActiveOf(table) : UserOf[r.id] = u
       ELSE NoRow

\* The map names an active row of the user, and the index admits one of each.
Indexed(st, table, index) ==
  /\ st = "memory" => \A u \in Users : index[u] # NoRow =>
       /\ table[index[u]] # NoRow /\ table[index[u]].active
       /\ UserOf[index[u]] = u
  /\ st = "sql" => \A r, q \in ActiveOf(table) : UserOf[r.id] = UserOf[q.id] => r = q

LEMMA ActiveType ==
  ASSUME NEW table, Table(table)
  PROVE  \A r : r \in ActiveOf(table) <=> r \in Row /\ r.active /\ table[r.id] = r
BY RowFields, Constants DEF Table, ActiveOf

\* A write of w, as Write makes it.
Put(w, table, index, table2, index2) ==
  /\ table2 = [table EXCEPT ![w.id] = w]
  /\ index2 = [index EXCEPT ![UserOf[w.id]] =
                 IF w.active THEN w.id ELSE IF @ = w.id THEN NoRow ELSE @]

\* No other row of w's user is active.
Sole(w, table) == \A q \in ActiveOf(table) : UserOf[q.id] = UserOf[w.id] => q.id = w.id

LEMMA PutTable ==
  ASSUME NEW w \in Row, NEW table, Table(table), NEW index, NEW table2, NEW index2,
         Put(w, table, index, table2, index2)
  PROVE  /\ Table(table2) /\ table2[w.id] = w
         /\ \A o \in Orders \ {w.id} : table2[o] = table[o]
BY RowFields DEF Put, Table

\* Under SQL the row found is the one active row of the user.
LEMMA FindSql ==
  ASSUME NEW table, Table(table), NEW index, Indexed("sql", table, index), NEW u \in Users
  PROVE  /\ \A r \in ActiveOf(table) : UserOf[r.id] = u => Find("sql", table, index, u) = r
         /\ (\A r \in ActiveOf(table) : UserOf[r.id] # u) => Find("sql", table, index, u) = NoRow
<1>1. ASSUME NEW r \in ActiveOf(table), UserOf[r.id] = u
      PROVE  Find("sql", table, index, u) = r
  <2>1. PICK c : c = CHOOSE q \in ActiveOf(table) : UserOf[q.id] = u
    OBVIOUS
  <2>2. c \in ActiveOf(table) /\ UserOf[c.id] = u
    BY <1>1, <2>1
  <2>3. c = r
    BY <1>1, <2>2 DEF Indexed
  <2> QED
    BY <1>1, <2>1, <2>3 DEF Find
<1> QED
  BY <1>1 DEF Find

\* On both repositories a row found is an active row of the user.
LEMMA FindIsActive ==
  ASSUME NEW st \in {"sql", "memory"}, NEW table, Table(table), NEW u \in Users,
         NEW index \in [Users -> Orders \cup {NoRow}], Indexed(st, table, index),
         Find(st, table, index, u) # NoRow
  PROVE  /\ Find(st, table, index, u) \in ActiveOf(table)
         /\ UserOf[Find(st, table, index, u).id] = u
<1>1. CASE st = "sql"
  BY <1>1, FindSql
<1>2. CASE st = "memory"
  <2>1. /\ index[u] \in Orders /\ Find(st, table, index, u) = table[index[u]]
        /\ table[index[u]] # NoRow /\ table[index[u]].active /\ UserOf[index[u]] = u
    BY <1>2 DEF Find, Indexed
  <2>2. table[index[u]] \in Row /\ table[index[u]].id = index[u]
    BY <2>1 DEF Table
  <2> QED
    BY <2>1, <2>2, ActiveType
<1> QED
  BY <1>1, <1>2

\* An active row written over the user's only one, or beside none, is found; the
\* rows of other users are found as before.
LEMMA WriteActive ==
  ASSUME NEW st \in {"sql", "memory"}, NEW table, Table(table),
         NEW index \in [Users -> Orders \cup {NoRow}], Indexed(st, table, index),
         NEW w \in Row, w.active, st = "sql" => Sole(w, table),
         NEW table2, NEW index2, Put(w, table, index, table2, index2)
  PROVE  /\ Indexed(st, table2, index2)
         /\ \A q : q \in ActiveOf(table2) <=> q = w \/ (q \in ActiveOf(table) /\ q.id # w.id)
         /\ Find(st, table2, index2, UserOf[w.id]) = w
         /\ \A v \in Users : v # UserOf[w.id] => Find(st, table2, index2, v) = Find(st, table, index, v)
<1>0. /\ Table(table2) /\ table2[w.id] = w
      /\ \A o \in Orders \ {w.id} : table2[o] = table[o]
  BY PutTable
<1>1. w.id \in Orders /\ UserOf[w.id] \in Users /\ w # NoRow
  BY RowFields
<1>2. \A q : q \in ActiveOf(table2) <=> q = w \/ (q \in ActiveOf(table) /\ q.id # w.id)
  BY <1>0, <1>1, ActiveType, RowFields
<1>3. CASE st = "sql"
  <2>1. \A r, q \in ActiveOf(table2) : UserOf[r.id] = UserOf[q.id] => r = q
    BY <1>2, <1>3 DEF Indexed, Sole
  <2>2. Indexed("sql", table2, index2)
    BY <2>1 DEF Indexed
  <2>3. Find("sql", table2, index2, UserOf[w.id]) = w
    BY <1>0, <1>1, <1>2, <2>2, FindSql
  <2>4. ASSUME NEW v \in Users, v # UserOf[w.id]
        PROVE  Find("sql", table2, index2, v) = Find("sql", table, index, v)
    <3>1. CASE \E r \in ActiveOf(table) : UserOf[r.id] = v
      <4>1. PICK r \in ActiveOf(table) : UserOf[r.id] = v
        BY <3>1
      <4>2. r \in ActiveOf(table2)
        BY <1>2, <2>4, <4>1
      <4> QED
        BY <1>0, <1>3, <2>2, <4>1, <4>2, FindSql
    <3>2. CASE \A r \in ActiveOf(table) : UserOf[r.id] # v
      <4>1. \A r \in ActiveOf(table2) : UserOf[r.id] # v
        BY <1>2, <2>4, <3>2
      <4> QED
        BY <1>0, <1>3, <2>2, <3>2, <4>1, FindSql
    <3> QED
      BY <3>1, <3>2
  <2> QED
    BY <1>2, <1>3, <2>2, <2>3, <2>4
<1>4. CASE st = "memory"
  <2>1. index2[UserOf[w.id]] = w.id /\ \A v \in Users : v # UserOf[w.id] => index2[v] = index[v]
    BY <1>1 DEF Put
  <2>2. \A v \in Users : index[v] # NoRow => /\ index[v] \in Orders /\ UserOf[index[v]] = v
                                             /\ table[index[v]] # NoRow /\ table[index[v]].active
    BY <1>4 DEF Indexed
  <2>3. \A v \in Users : v # UserOf[w.id] /\ index[v] # NoRow => table2[index[v]] = table[index[v]]
    BY <1>0, <2>2
  <2>4. Indexed("memory", table2, index2)
    BY <1>0, <1>1, <2>1, <2>2, <2>3 DEF Indexed
  <2>5. Find("memory", table2, index2, UserOf[w.id]) = w
    BY <1>0, <1>1, <2>1, Constants DEF Find
  <2>6. \A v \in Users : v # UserOf[w.id] => Find("memory", table2, index2, v) = Find("memory", table, index, v)
    BY <2>1, <2>3 DEF Find
  <2> QED
    BY <1>2, <1>4, <2>4, <2>5, <2>6
<1> QED
  BY <1>3, <1>4

\* Closing an active row leaves its user without one only if it was the one found.
LEMMA WriteClosed ==
  ASSUME NEW st \in {"sql", "memory"}, NEW table, Table(table),
         NEW index \in [Users -> Orders \cup {NoRow}], Indexed(st, table, index),
         NEW r \in ActiveOf(table), NEW w \in Row, w.id = r.id, ~ w.active,
         NEW table2, NEW index2, Put(w, table, index, table2, index2)
  PROVE  /\ Indexed(st, table2, index2)
         /\ \A q : q \in ActiveOf(table2) <=> q \in ActiveOf(table) /\ q # r
         /\ \A v \in Users : Find(st, table2, index2, v) =
              IF Find(st, table, index, v) = r THEN NoRow ELSE Find(st, table, index, v)
<1>0. /\ Table(table2) /\ table2[w.id] = w
      /\ \A o \in Orders \ {w.id} : table2[o] = table[o]
  BY PutTable
<1>1. w.id \in Orders /\ UserOf[w.id] \in Users /\ w # NoRow /\ r \in Row /\ r # NoRow
  BY RowFields, ActiveType
<1>2. \A q : q \in ActiveOf(table2) <=> q \in ActiveOf(table) /\ q # r
  BY <1>0, <1>1, ActiveType, RowFields
<1>3. CASE st = "sql"
  <2>1. Indexed("sql", table2, index2)
    BY <1>2, <1>3 DEF Indexed
  <2>2. ASSUME NEW v \in Users
        PROVE  Find("sql", table2, index2, v) =
                 IF Find("sql", table, index, v) = r THEN NoRow ELSE Find("sql", table, index, v)
    <3>1. CASE \E q \in ActiveOf(table2) : UserOf[q.id] = v
      <4>1. PICK q \in ActiveOf(table2) : UserOf[q.id] = v
        BY <3>1
      <4>2. q \in ActiveOf(table) /\ q # r
        BY <1>2
      <4> QED
        BY <1>0, <1>3, <2>1, <4>1, <4>2, FindSql
    <3>2. CASE \A q \in ActiveOf(table2) : UserOf[q.id] # v
      <4>1. Find("sql", table2, index2, v) = NoRow
        BY <1>0, <2>1, <3>2, FindSql
      <4>2. Find("sql", table, index, v) \in {NoRow, r}
        <5>1. CASE UserOf[r.id] = v
          BY <1>3, <5>1, FindSql
        <5>2. CASE UserOf[r.id] # v
          <6>1. \A q \in ActiveOf(table) : UserOf[q.id] # v
            BY <1>2, <3>2, <5>2
          <6> QED
            BY <1>3, <6>1, FindSql
        <5> QED
          BY <5>1, <5>2
      <4> QED
        BY <1>1, <4>1, <4>2
    <3> QED
      BY <3>1, <3>2
  <2> QED
    BY <1>2, <1>3, <2>1, <2>2
<1>4. CASE st = "memory"
  <2>1. \A v \in Users : index2[v] = IF v = UserOf[w.id] /\ index[v] = w.id THEN NoRow ELSE index[v]
    BY <1>1 DEF Put
  <2>2. \A v \in Users : index[v] # NoRow => /\ index[v] \in Orders /\ UserOf[index[v]] = v
                                             /\ table[index[v]] # NoRow /\ table[index[v]].active
                                             /\ table[index[v]].id = index[v]
    BY <1>4 DEF Indexed, Table
  <2>3. \A v \in Users : index2[v] # NoRow =>
          /\ index2[v] = index[v] /\ index[v] # w.id /\ table2[index[v]] = table[index[v]]
    BY <1>0, <2>1, <2>2
  <2>4. Indexed("memory", table2, index2)
    BY <1>0, <2>2, <2>3 DEF Indexed
  <2>5. ASSUME NEW v \in Users
        PROVE  Find("memory", table2, index2, v) =
                 IF Find("memory", table, index, v) = r THEN NoRow ELSE Find("memory", table, index, v)
    <3>1. CASE index2[v] # NoRow
      <4>1. /\ Find("memory", table2, index2, v) = table[index[v]]
            /\ Find("memory", table, index, v) = table[index[v]]
        BY <2>3, <3>1 DEF Find
      <4>2. table[index[v]] # r
        BY <2>2, <2>3, <3>1
      <4> QED
        BY <4>1, <4>2
    <3>2. CASE index2[v] = NoRow /\ index[v] = NoRow
      BY <1>1, <3>2 DEF Find
    <3>3. CASE index2[v] = NoRow /\ index[v] # NoRow
      <4>1. index[v] = w.id /\ table[w.id] = r
        BY <2>1, <3>3, ActiveType
      <4> QED
        BY <3>3, <4>1 DEF Find
    <3> QED
      BY <3>1, <3>2, <3>3
  <2> QED
    BY <1>2, <1>4, <2>4, <2>5
<1> QED
  BY <1>3, <1>4

-----------------------------------------------------------------------------
(* Purchases, when fulfilments and passes do not overlap *)

Reading(o) == stage[o] = "read"

OneAtATime ==
  /\ \A o, p \in Orders : Reading(o) /\ Reading(p) => o = p
  /\ \A p \in Passes : pass[p].at # "idle" =>
       /\ \A o \in Orders : ~ Reading(o)
       /\ \A q \in Passes \ {p} : pass[q].at = "idle"

IndexInv == Indexed(store, rows, activeByUser)

\* The row found was granted until its end; every other active row has lapsed.
GrantedInv ==
  /\ \A r \in ActiveRows : r = findActiveByUser(UserOf[r.id]) \/ r.expiresAt <= clock
  /\ \A u \in Users :
       /\ findActiveByUser(u) # NoRow => findActiveByUser(u).expiresAt = granted[u]
       /\ granted[u] > clock => findActiveByUser(u) # NoRow

\* What a fulfilment has read is still so.
ReadInv ==
  \A o \in Orders : Reading(o) =>
    /\ seen[o].sub = findActiveByUser(UserOf[o]) /\ seen[o].now <= clock
    /\ granted[UserOf[o]] > seen[o].now => seen[o].sub # NoRow

\* What a pass has listed is still so.
PassInv ==
  \A p \in Passes :
    /\ pass[p].at \in {"remind", "update"} =>
         \A r \in pass[p].todo : r = findActiveByUser(UserOf[r.id])
    /\ pass[p].at = "update" => /\ pass[p].cur = findActiveByUser(UserOf[pass[p].cur.id])
                                /\ pass[p].cur \notin pass[p].todo
    /\ pass[p].at \in {"expire", "notify"} =>
         \A r \in pass[p].todo : r \in ActiveRows /\ r.expiresAt <= clock

SerialInv == OneAtATime /\ IndexInv /\ GrantedInv /\ ReadInv /\ PassInv

LEMMA FindAgrees ==
  /\ ActiveRows = ActiveOf(rows) /\ ActiveRows' = ActiveOf(rows')
  /\ \A u : findActiveByUser(u) = Find(store, rows, activeByUser, u)
  /\ \A u : findActiveByUser(u)' = Find(store', rows', activeByUser', u)
BY DEF ActiveRows, ActiveOf, Stored, findActiveByUser, Find

LEMMA FoundActive ==
  ASSUME TypeInv, IndexInv, NEW u \in Users, findActiveByUser(u) # NoRow
  PROVE  /\ findActiveByUser(u) \in ActiveRows
         /\ UserOf[findActiveByUser(u).id] = u
BY FindAgrees, FindIsActive DEF IndexInv, TypeInv

\* A grant, or a reminder mark.
LEMMA ActiveWritten ==
  ASSUME TypeInv, IndexInv, store' = store, NEW w \in Row, w.active, Write(w),
         store = "sql" => Sole(w, rows)
  PROVE  /\ IndexInv'
         /\ \A q : q \in ActiveRows' <=> q = w \/ (q \in ActiveRows /\ q.id # w.id)
         /\ findActiveByUser(UserOf[w.id])' = w
         /\ \A v \in Users : v # UserOf[w.id] => findActiveByUser(v)' = findActiveByUser(v)
<1>1. Put(w, rows, activeByUser, rows', activeByUser')
  BY DEF Write, Put
<1>2. /\ store \in {"sql", "memory"} /\ Table(rows)
      /\ activeByUser \in [Users -> Orders \cup {NoRow}]
      /\ Indexed(store, rows, activeByUser)
  BY DEF TypeInv, IndexInv
<1>3. /\ Indexed(store, rows', activeByUser')
      /\ \A q : q \in ActiveOf(rows') <=> q = w \/ (q \in ActiveOf(rows) /\ q.id # w.id)
      /\ Find(store, rows', activeByUser', UserOf[w.id]) = w
      /\ \A v \in Users : v # UserOf[w.id] =>
           Find(store, rows', activeByUser', v) = Find(store, rows, activeByUser, v)
  BY <1>1, <1>2, WriteActive
<1>4. IndexInv'
  BY <1>3 DEF IndexInv
<1> QED
  BY <1>3, <1>4, FindAgrees

\* A deactivation.
LEMMA ClosedWritten ==
  ASSUME TypeInv, IndexInv, store' = store, NEW r \in ActiveRows,
         NEW w \in Row, w.id = r.id, ~ w.active, Write(w)
  PROVE  /\ IndexInv'
         /\ \A q : q \in ActiveRows' <=> q \in ActiveRows /\ q # r
         /\ \A v \in Users : findActiveByUser(v)' =
              IF findActiveByUser(v) = r THEN NoRow ELSE findActiveByUser(v)
<1>1. Put(w, rows, activeByUser, rows', activeByUser')
  BY DEF Write, Put
<1>2. /\ store \in {"sql", "memory"} /\ Table(rows)
      /\ activeByUser \in [Users -> Orders \cup {NoRow}]
      /\ Indexed(store, rows, activeByUser)
  BY DEF TypeInv, IndexInv
<1>3. r \in ActiveOf(rows)
  BY FindAgrees
<1>4. /\ Indexed(store, rows', activeByUser')
      /\ \A q : q \in ActiveOf(rows') <=> q \in ActiveOf(rows) /\ q # r
      /\ \A v \in Users : Find(store, rows', activeByUser', v) =
           IF Find(store, rows, activeByUser, v) = r THEN NoRow ELSE Find(store, rows, activeByUser, v)
  BY <1>1, <1>2, <1>3, WriteClosed
<1>5. IndexInv'
  BY <1>4 DEF IndexInv
<1> QED
  BY <1>4, <1>5, FindAgrees

\* fulfillOrder begins, writes or throws.
LEMMA SerialOrder ==
  ASSUME TypeInv, TypeInv', serial, SerialInv, NEW o \in Orders,
         FindActive(o) \/ Fulfil(o) \/ FulfilThrows(o)
  PROVE  SerialInv'
<1> DEFINE u == UserOf[o]
<1>1. u \in Users /\ \A p \in Orders \ {o} : stage'[p] = stage[p] /\ seen'[p] = seen[p]
  BY Constants, OrderType
<1>2. CASE FindActive(o)
  <2>1. /\ UNCHANGED <<clock, store, rows, activeByUser, pass, granted>> /\ Quiet
        /\ stage'[o] = "read" /\ seen'[o].now = clock /\ seen'[o].sub = findActiveByUser(u)
    BY <1>2 DEF FindActive, passVars, wiring, TypeInv
  <2>2. ActiveRows' = ActiveRows /\ \A v : findActiveByUser(v)' = findActiveByUser(v)
    BY <2>1, FindAgrees
  <2>3. OneAtATime' /\ PassInv'
    BY <1>1, <2>1 DEF OneAtATime, PassInv, Quiet, Reading
  <2>4. IndexInv' /\ GrantedInv'
    BY <2>1, <2>2 DEF SerialInv, IndexInv, GrantedInv
  <2>5. ReadInv'
    <3>1. ASSUME NEW p \in Orders, Reading(p)'  PROVE p = o
      BY <1>1, <2>1, <3>1 DEF Quiet, Reading
    <3>2. /\ seen'[o].sub = findActiveByUser(u)' /\ seen'[o].now <= clock'
          /\ granted'[u] > seen'[o].now => seen'[o].sub # NoRow
      BY <1>1, <2>1, <2>2 DEF SerialInv, GrantedInv, TypeInv
    <3> QED
      BY <3>1, <3>2 DEF ReadInv
  <2> QED
    BY <2>3, <2>4, <2>5 DEF SerialInv
\* What follows ends the one fulfilment there is: nothing is read or listed.
<1>3. ASSUME Fulfil(o) \/ FulfilThrows(o)
      PROVE  /\ UNCHANGED <<clock, store, pass>>
             /\ OneAtATime' /\ ReadInv' /\ PassInv'
  <2>1. /\ UNCHANGED <<clock, store, pass>> /\ Reading(o) /\ stage'[o] # "read"
    BY <1>3 DEF Fulfil, FulfilThrows, passVars, wiring, Reading, TypeInv
  <2>2. /\ \A p \in Passes : pass[p].at = "idle"
        /\ \A p \in Orders : ~ Reading(p)'
    BY <1>1, <2>1 DEF SerialInv, OneAtATime, Reading
  <2> QED
    BY <2>1, <2>2 DEF OneAtATime, ReadInv, PassInv
<1>4. CASE FulfilThrows(o)
  <2>1. UNCHANGED <<clock, store, rows, activeByUser, granted>>
    BY <1>4 DEF FulfilThrows, wiring
  <2>2. ActiveRows' = ActiveRows /\ \A v : findActiveByUser(v)' = findActiveByUser(v)
    BY <2>1, FindAgrees
  <2>3. IndexInv' /\ GrantedInv'
    BY <2>1, <2>2 DEF SerialInv, IndexInv, GrantedInv
  <2> QED
    BY <1>3, <1>4, <2>3 DEF SerialInv
<1>5. CASE Fulfil(o)
  <2>1. /\ stage[o] = "read" /\ ~ Refused(Granted(o)) /\ Write(Granted(o))
        /\ granted' = [granted EXCEPT ![u] = Later(@, seen[o].now) + Days[o]]
    BY <1>5 DEF Fulfil
  <2>2. PICK now \in Nat, sub \in Row \cup {NoRow}, days \in Nat :
          now = seen[o].now /\ sub = seen[o].sub /\ days = Days[o]
    BY Constants DEF TypeInv
  <2>3. sub = findActiveByUser(u) /\ now <= clock /\ (granted[u] > now => sub # NoRow)
    BY <2>1, <2>2 DEF SerialInv, ReadInv, Reading
  <2>4. sub # NoRow => sub \in ActiveRows /\ UserOf[sub.id] = u /\ sub.expiresAt = granted[u]
    BY <1>1, <2>3, FoundActive DEF SerialInv, GrantedInv
  <2>5. PICK w \in Row : w = Granted(o)
    BY GrantedRow
  <2>6. /\ w.active
        /\ \/ sub # NoRow /\ sub.expiresAt > now /\ w.id = sub.id /\ w.expiresAt = sub.expiresAt + days
           \/ ~(sub # NoRow /\ sub.expiresAt > now) /\ w.id = o /\ w.expiresAt = now + days
    BY <2>2, <2>5, GrantedRow, Constants
  <2>7. UserOf[w.id] = u
    BY <2>4, <2>6
  <2>8. store = "sql" => Sole(w, rows)
    BY <2>1, <2>5, <2>6, FindAgrees DEF Refused, Sole
  <2>9. /\ IndexInv' /\ findActiveByUser(u)' = w
        /\ \A q : q \in ActiveRows' <=> q = w \/ (q \in ActiveRows /\ q.id # w.id)
        /\ \A v \in Users : v # u => findActiveByUser(v)' = findActiveByUser(v)
    BY <1>3, <1>5, <2>1, <2>5, <2>6, <2>7, <2>8, ActiveWritten DEF SerialInv
  <2>10. /\ granted[u] \in Nat /\ w.expiresAt = granted'[u]
         /\ \A v \in Users : v # u => granted'[v] = granted[v]
    <3>1. granted[u] \in Nat /\ granted'[u] = Later(granted[u], now) + days
      BY <1>1, <2>1, <2>2 DEF TypeInv
    <3>2. w.expiresAt = Later(granted[u], now) + days
      BY <2>3, <2>4, <2>6, <3>1 DEF Later
    <3> QED
      BY <1>1, <2>1, <3>1, <3>2 DEF TypeInv
  <2>11. ASSUME NEW q \in ActiveRows'
         PROVE  q = findActiveByUser(UserOf[q.id])' \/ q.expiresAt <= clock'
    <3>1. q = w \/ (q \in ActiveRows /\ q.id # w.id)
      BY <2>9
    <3>2. CASE q = w
      BY <2>7, <2>9, <3>2
    <3>3. CASE q \in ActiveRows /\ q.id # w.id /\ UserOf[q.id] # u
      <4>1. UserOf[q.id] \in Users
        BY <3>3, StoredRows, RowFields
      <4> QED
        BY <1>3, <1>5, <2>9, <3>3, <4>1 DEF SerialInv, GrantedInv
    <3>4. CASE q \in ActiveRows /\ q.id # w.id /\ UserOf[q.id] = u
      <4>1. q = sub \/ q.expiresAt <= clock
        BY <2>3, <3>4 DEF SerialInv, GrantedInv
      <4>2. q = sub => q.expiresAt <= now
        BY <2>4, <2>6, <3>4, StoredRows, RowFields, Constants
      <4>3. q.expiresAt \in Nat /\ clock \in Nat
        BY <3>4, StoredRows, RowFields DEF TypeInv
      <4> QED
        BY <1>3, <1>5, <2>3, <4>1, <4>2, <4>3
    <3> QED
      BY <3>1, <3>2, <3>3, <3>4
  <2>12. ASSUME NEW v \in Users
         PROVE  /\ findActiveByUser(v)' # NoRow => findActiveByUser(v)'.expiresAt = granted'[v]
                /\ granted'[v] > clock' => findActiveByUser(v)' # NoRow
    <3>1. CASE v = u
      BY <2>9, <2>10, <3>1, RowFields
    <3>2. CASE v # u
      BY <1>3, <1>5, <2>9, <2>10, <3>2 DEF SerialInv, GrantedInv
    <3> QED
      BY <3>1, <3>2
  <2>13. GrantedInv'
    BY <2>11, <2>12 DEF GrantedInv
  <2> QED
    BY <1>3, <1>5, <2>9, <2>13 DEF SerialInv
<1> QED
  BY <1>2, <1>4, <1>5

\* A pass reminds and closes.
LEMMA SerialPass ==
  ASSUME TypeInv, TypeInv', serial, SerialInv, NEW p \in Passes, PassStep(p)
  PROVE  SerialInv'
<1>0. /\ UNCHANGED <<clock, store, stage, seen, granted>>
      /\ pass[p].at = "idle" => ListExpiring(p) /\ Quiet
  BY DEF PassStep, ListExpiring, NotifyExpiring, MarkNotified, ListExpired, Deactivate,
         NotifyExpired, PassEnds, PassFails, wiring
\* A pass begins when nothing is being read and no other pass is on its way.
<1>1. /\ \A o \in Orders : ~ Reading(o)
      /\ \A q \in Passes \ {p} : pass[q].at = "idle"
  BY <1>0 DEF Quiet, SerialInv, OneAtATime, Reading
<1>2. \A q \in Passes \ {p} : pass'[q] = pass[q]
  BY PassSteps DEF PassStep, Became
<1>3. OneAtATime' /\ ReadInv'
  BY <1>0, <1>1, <1>2 DEF OneAtATime, ReadInv, Reading
\* What p lists is all that PassInv asks about.
<1>4. ASSUME NEW at, NEW todo, NEW cur, Became(p, at, todo, cur),
             at \in {"remind", "update"} => \A r \in todo : r = findActiveByUser(UserOf[r.id])',
             at = "update" => cur = findActiveByUser(UserOf[cur.id])' /\ cur \notin todo,
             at \in {"expire", "notify"} => \A r \in todo : r \in ActiveRows' /\ r.expiresAt <= clock
      PROVE  PassInv'
  <2>1. ASSUME NEW q \in Passes \ {p}  PROVE pass'[q].at = "idle"
    BY <1>1, <1>2
  <2>2. pass'[p].at = at /\ pass'[p].todo = todo /\ pass'[p].cur = cur
    BY <1>4 DEF Became
  <2> QED
    BY <1>0, <1>4, <2>1, <2>2 DEF PassInv
\* The steps that write nothing.
<1>5. ASSUME UNCHANGED <<rows, activeByUser>>
      PROVE  /\ IndexInv' /\ GrantedInv' /\ ActiveRows' = ActiveRows
             /\ \A u : findActiveByUser(u)' = findActiveByUser(u)
  BY <1>0, <1>5, FindAgrees DEF SerialInv, IndexInv, GrantedInv
<1>6. CASE ListExpiring(p)
  <2>1. UNCHANGED <<rows, activeByUser>>
    BY <1>6 DEF ListExpiring
  <2>2. PICK todo : todo = {r \in ActiveRows : dueForReminder(r, clock)}
    OBVIOUS
  <2>3. Became(p, "remind", todo, NoRow)
    BY <1>6, <2>2, PassSteps
  <2>4. \A r \in todo : r \in ActiveRows /\ ~(r.expiresAt <= clock)
    BY <2>2, StoredRows, RowFields DEF dueForReminder, TypeInv
  <2>5. \A r \in todo : r = findActiveByUser(UserOf[r.id])'
    BY <1>5, <2>1, <2>4 DEF SerialInv, GrantedInv
  <2>6. PassInv'
    BY <1>4, <2>3, <2>5
  <2> QED
    BY <1>3, <1>5, <2>1, <2>6 DEF SerialInv
<1>7. CASE NotifyExpiring(p)
  <2>1. PICK r \in pass[p].todo : Became(p, "update", pass[p].todo \ {r}, r)
    BY <1>7, PassSteps
  <2>2. UNCHANGED <<rows, activeByUser>> /\ pass[p].at = "remind"
    BY <1>7 DEF NotifyExpiring
  <2>3. \A q \in pass[p].todo : q = findActiveByUser(UserOf[q.id])'
    BY <1>5, <2>2 DEF SerialInv, PassInv
  <2>4. PassInv'
    BY <1>4, <2>1, <2>3
  <2> QED
    BY <1>3, <1>5, <2>2, <2>4 DEF SerialInv
<1>8. CASE MarkNotified(p)
  <2>0. /\ pass[p].cur \in Row /\ pass[p].at = "update"
        /\ Write([pass[p].cur EXCEPT !.notified = TRUE])
        /\ Became(p, "remind", pass[p].todo, NoRow)
    BY <1>8, PassSteps DEF MarkNotified, TypeInv, Pass
  <2>1. PICK c \in Row : c = pass[p].cur
    BY <2>0
  <2>2. PICK w : w = [c EXCEPT !.notified = TRUE]
    OBVIOUS
  <2>3. /\ w \in Row /\ w.id = c.id /\ w.active = c.active /\ w.expiresAt = c.expiresAt
    BY <2>2, RowMarked
  <2> Write(w)
    BY <2>0, <2>1, <2>2
  <2>4. PICK u \in Users : u = UserOf[c.id]
    BY RowFields
  <2>5. c = findActiveByUser(u) /\ c \in ActiveRows
    BY <2>0, <2>1, <2>4, FoundActive, Constants DEF SerialInv, PassInv
  <2>6. w.active /\ (store = "sql" => Sole(w, rows))
    BY <2>3, <2>5, FindAgrees DEF SerialInv, IndexInv, Indexed, Sole, ActiveRows
  <2>7. /\ IndexInv' /\ findActiveByUser(u)' = w
        /\ \A q : q \in ActiveRows' <=> q = w \/ (q \in ActiveRows /\ q.id # c.id)
        /\ \A v \in Users : v # u => findActiveByUser(v)' = findActiveByUser(v)
    <3>1. store' = store /\ Write(w) /\ UserOf[w.id] = u /\ IndexInv
      BY <1>0, <2>3, <2>4 DEF SerialInv
    <3> QED
      BY <2>3, <2>6, <3>1, ActiveWritten
  <2>8. ASSUME NEW q \in ActiveRows'
        PROVE  q = findActiveByUser(UserOf[q.id])' \/ q.expiresAt <= clock'
    <3>1. CASE q = w
      BY <2>3, <2>4, <2>7, <3>1
    <3>2. CASE q \in ActiveRows /\ q.id # c.id
      <4>1. q = findActiveByUser(UserOf[q.id]) \/ q.expiresAt <= clock
        BY <3>2 DEF SerialInv, GrantedInv
      <4>2. UserOf[q.id] \in Users /\ (UserOf[q.id] = u => q # findActiveByUser(UserOf[q.id]))
        BY <2>5, <3>2, StoredRows, RowFields
      <4> QED
        BY <1>0, <2>7, <4>1, <4>2
    <3> QED
      BY <2>7, <3>1, <3>2
  <2>9. ASSUME NEW v \in Users
        PROVE  /\ findActiveByUser(v)' # NoRow => findActiveByUser(v)'.expiresAt = granted'[v]
               /\ granted'[v] > clock' => findActiveByUser(v)' # NoRow
    <3>1. CASE v = u
      BY <1>0, <2>3, <2>5, <2>7, <3>1, RowFields DEF SerialInv, GrantedInv
    <3>2. CASE v # u
      BY <1>0, <2>7, <3>2 DEF SerialInv, GrantedInv
    <3> QED
      BY <3>1, <3>2
  <2>10. ASSUME NEW q \in pass[p].todo
         PROVE  q = findActiveByUser(UserOf[q.id])'
    <3>1. q \in Row /\ q # c /\ q = findActiveByUser(UserOf[q.id])
      BY <2>0, <2>1, <2>10 DEF SerialInv, PassInv, TypeInv, Pass
    <3>2. UserOf[q.id] \in Users /\ UserOf[q.id] # u
      BY <2>5, <3>1, RowFields
    <3> QED
      BY <2>7, <3>1, <3>2
  <2>11. GrantedInv'
    BY <2>8, <2>9 DEF GrantedInv
  <2>12. PassInv'
    BY <1>4, <2>0, <2>10
  <2> QED
    BY <1>3, <2>7, <2>11, <2>12 DEF SerialInv
<1>9. CASE ListExpired(p)
  <2>1. UNCHANGED <<rows, activeByUser>>
    BY <1>9 DEF ListExpired
  <2>2. PICK todo : todo = {r \in ActiveRows : r.expiresAt <= clock}
    OBVIOUS
  <2>3. Became(p, "expire", todo, NoRow)
    BY <1>9, <2>2, PassSteps
  <2>4. \A r \in todo : r \in ActiveRows' /\ r.expiresAt <= clock
    BY <1>5, <2>1, <2>2
  <2>5. PassInv'
    BY <1>4, <2>3, <2>4
  <2> QED
    BY <1>3, <1>5, <2>1, <2>5 DEF SerialInv
<1>10. CASE Deactivate(p)
  <2>1. PICK r \in pass[p].todo :
          /\ r \in Row /\ Became(p, "notify", pass[p].todo \ {r}, r)
          /\ Write([r EXCEPT !.active = FALSE])
    BY <1>10, PassSteps
  <2>2. /\ pass[p].at = "expire" /\ r \in ActiveRows /\ r.expiresAt <= clock
        /\ \A q \in pass[p].todo : q \in ActiveRows /\ q.expiresAt <= clock
    BY <1>10, <2>1 DEF Deactivate, SerialInv, PassInv
  <2>3. PICK w \in Row : w = [r EXCEPT !.active = FALSE] /\ w.id = r.id /\ ~ w.active
    BY <2>1, RowClosed
  <2>4. /\ IndexInv'
        /\ \A q : q \in ActiveRows' <=> q \in ActiveRows /\ q # r
        /\ \A v \in Users : findActiveByUser(v)' =
             IF findActiveByUser(v) = r THEN NoRow ELSE findActiveByUser(v)
    BY <1>0, <2>1, <2>2, <2>3, ClosedWritten DEF SerialInv
  <2>5. ASSUME NEW q \in ActiveRows'
        PROVE  q = findActiveByUser(UserOf[q.id])' \/ q.expiresAt <= clock'
    <3>1. q \in ActiveRows /\ q # r /\ UserOf[q.id] \in Users
      BY <2>4, StoredRows, RowFields
    <3> QED
      BY <1>0, <2>4, <3>1 DEF SerialInv, GrantedInv
  <2>6. ASSUME NEW v \in Users
        PROVE  /\ findActiveByUser(v)' # NoRow => findActiveByUser(v)'.expiresAt = granted'[v]
               /\ granted'[v] > clock' => findActiveByUser(v)' # NoRow
    <3>1. CASE findActiveByUser(v) = r
      <4>1. granted[v] = r.expiresAt /\ r.expiresAt \in Nat /\ clock \in Nat
        BY <2>1, <2>2, <3>1, RowFields DEF SerialInv, GrantedInv, TypeInv
      <4>2. ~ (granted'[v] > clock') /\ findActiveByUser(v)' = NoRow
        BY <1>0, <2>2, <2>4, <3>1, <4>1
      <4> QED
        BY <4>2
    <3>2. CASE findActiveByUser(v) # r
      BY <1>0, <2>4, <3>2 DEF SerialInv, GrantedInv
    <3> QED
      BY <3>1, <3>2
  <2>7. GrantedInv'
    BY <2>5, <2>6 DEF GrantedInv
  <2>8. PassInv'
    BY <1>4, <2>1, <2>2, <2>4
  <2> QED
    BY <1>3, <2>4, <2>7, <2>8 DEF SerialInv
<1>11. CASE NotifyExpired(p)
  <2>1. /\ UNCHANGED <<rows, activeByUser>> /\ pass[p].at = "notify"
        /\ Became(p, "expire", pass[p].todo, NoRow)
    BY <1>11, PassSteps DEF NotifyExpired
  <2>2. \A r \in pass[p].todo : r \in ActiveRows' /\ r.expiresAt <= clock
    BY <1>5, <2>1 DEF SerialInv, PassInv
  <2>3. PassInv'
    BY <1>4, <2>1, <2>2
  <2> QED
    BY <1>3, <1>5, <2>1, <2>3 DEF SerialInv
<1>12. CASE PassEnds(p) \/ PassFails(p)
  <2>1. UNCHANGED <<rows, activeByUser>> /\ Became(p, "idle", {}, NoRow)
    BY <1>12, PassSteps DEF PassEnds, PassFails
  <2>2. PassInv'
    BY <1>4, <2>1
  <2> QED
    BY <1>3, <1>5, <2>1, <2>2 DEF SerialInv
<1> QED
  BY <1>6, <1>7, <1>8, <1>9, <1>10, <1>11, <1>12 DEF PassStep

\* Time passes: what has lapsed stays lapsed.
LEMMA SerialTick ==
  ASSUME TypeInv, serial, SerialInv, Tick
  PROVE  SerialInv'
<1>1. /\ UNCHANGED <<store, rows, activeByUser, stage, seen, pass, granted>>
      /\ clock \in Nat /\ clock' = clock + 1
  BY DEF Tick, wiring, passVars, TypeInv
<1>2. ActiveRows' = ActiveRows /\ \A u : findActiveByUser(u)' = findActiveByUser(u)
  BY <1>1, FindAgrees
<1>3. \A r \in ActiveRows : r.expiresAt <= clock => r.expiresAt <= clock'
  BY <1>1, StoredRows, RowFields
<1>4. \A u \in Users : granted[u] > clock' => granted[u] > clock
  BY <1>1 DEF TypeInv
<1>5. \A o \in Orders : seen[o].now <= clock => seen[o].now <= clock'
  BY <1>1 DEF TypeInv
<1>6. OneAtATime' /\ IndexInv'
  BY <1>1 DEF SerialInv, OneAtATime, IndexInv, Reading
<1>7. GrantedInv'
  BY <1>1, <1>2, <1>3, <1>4 DEF SerialInv, GrantedInv
<1>8. ReadInv' /\ PassInv'
  BY <1>1, <1>2, <1>3, <1>5 DEF SerialInv, ReadInv, PassInv, Reading
<1> QED
  BY <1>6, <1>7, <1>8 DEF SerialInv

LEMMA SerialInvariant ==
  Spec => [](TypeInv /\ (serial => SerialInv))
<1>1. Init => (serial => SerialInv)
  <2> SUFFICES ASSUME Init  PROVE SerialInv
    OBVIOUS
  <2>1. /\ \A p \in Passes : pass[p].at = "idle"
        /\ \A o \in Orders : ~ Reading(o)
        /\ \A o \in Orders : rows[o] = NoRow
        /\ \A u \in Users : activeByUser[u] = NoRow /\ granted[u] = 0
        /\ clock = 0
    BY DEF Init, NoPass, Reading
  <2>2. ActiveRows = {} /\ ActiveOf(rows) = {}
    BY <2>1 DEF ActiveRows, Stored, ActiveOf
  <2>3. \A u \in Users : findActiveByUser(u) = NoRow
    BY <2>1, <2>2 DEF findActiveByUser
  <2> QED
    BY <2>1, <2>2, <2>3 DEF SerialInv, OneAtATime, IndexInv, Indexed, GrantedInv, ReadInv, PassInv
<1>2. TypeInv /\ TypeInv' /\ (serial => SerialInv) /\ [Next]_vars => (serial => SerialInv)'
  <2> SUFFICES ASSUME TypeInv, TypeInv', serial => SerialInv, [Next]_vars, serial'  PROVE SerialInv'
    OBVIOUS
  <2>1. serial
    <3>1. ASSUME NEW o \in Orders, FindActive(o) \/ Fulfil(o) \/ FulfilThrows(o)  PROVE serial' = serial
      BY <3>1 DEF FindActive, Fulfil, FulfilThrows, wiring
    <3>2. ASSUME NEW p \in Passes, PassStep(p)  PROVE serial' = serial
      BY <3>2 DEF PassStep, ListExpiring, NotifyExpiring, MarkNotified, ListExpired, Deactivate,
                  NotifyExpired, PassEnds, PassFails, wiring
    <3> QED
      BY <3>1, <3>2 DEF Next, Tick, vars, wiring
  <2>2. CASE UNCHANGED vars
    <3>1. UNCHANGED <<clock, store, rows, activeByUser, stage, seen, pass, granted>>
      BY <2>2 DEF vars
    <3>2. ActiveRows' = ActiveRows /\ \A u : findActiveByUser(u)' = findActiveByUser(u)
      BY <3>1, FindAgrees
    <3> QED
      BY <2>1, <3>1, <3>2 DEF SerialInv, OneAtATime, IndexInv, GrantedInv, ReadInv, PassInv, Reading
  <2> QED
    BY <2>1, <2>2, SerialOrder, SerialPass, SerialTick DEF Next
<1> QED
  BY <1>1, <1>2, InitType, NextType, PTL DEF Spec

\* As long as nothing overlaps, passes failing anywhere: until the time the orders
\* fulfilled entitle a buyer to, the subscription found reaches exactly that far, on
\* both repositories. A lapsed row that is still active neither hides the new one
\* from findActiveByUser nor takes it along when deactivateExpired closes it.
THEOREM SerialPurchasesStack == Spec => []PurchasesStackSerially
<1>1. TypeInv /\ (serial => SerialInv) => PurchasesStackSerially
  BY DEF SerialInv, GrantedInv, PurchasesStackSerially, PurchasesStack
<1> QED
  BY <1>1, SerialInvariant, PTL

\* As long as nothing overlaps, every paid order is fulfilled but the one that SQL
\* refuses beside a lapsed row of the buyer that is still active: the memory store
\* refuses none, and no renewal in time is refused.
THEOREM RenewalsInTimeAreFulfilled == Spec => RefusedOnlyOverLapsed
<1>1. TypeInv /\ (serial => SerialInv) /\ [Next]_vars =>
        [ \A o \in Orders : serial /\ stage'[o] = "refused" /\ stage[o] # "refused" =>
            /\ store = "sql"
            /\ \E r \in ActiveRows : UserOf[r.id] = UserOf[o] /\ r.expiresAt <= clock ]_vars
  <2> SUFFICES ASSUME TypeInv, SerialInv, Next, NEW o \in Orders,
                      stage'[o] = "refused", stage[o] # "refused"
               PROVE  /\ store = "sql"
                      /\ \E r \in ActiveRows : UserOf[r.id] = UserOf[o] /\ r.expiresAt <= clock
    OBVIOUS
  <2>1. FulfilThrows(o)
    <3>1. ASSUME NEW q \in Orders, FindActive(q) \/ Fulfil(q)  PROVE FALSE
      BY <3>1 DEF FindActive, Fulfil, TypeInv
    <3>2. ASSUME NEW q \in Orders, FulfilThrows(q)  PROVE q = o
      BY <3>2 DEF FulfilThrows, TypeInv
    <3>3. ASSUME NEW p \in Passes, PassStep(p)  PROVE FALSE
      BY <3>3 DEF PassStep, ListExpiring, NotifyExpiring, MarkNotified, ListExpired, Deactivate,
                  NotifyExpired, PassEnds, PassFails
    <3> QED
      BY <3>1, <3>2, <3>3 DEF Next, Tick
  <2>2. store = "sql" /\ Reading(o)
    BY <2>1 DEF FulfilThrows, Refused, Reading
  <2>3. PICK w : w = Granted(o)
    OBVIOUS
  <2>4. PICK r \in ActiveRows : r.id # w.id /\ UserOf[r.id] = UserOf[w.id]
    BY <2>1, <2>3 DEF FulfilThrows, Refused
  <2>5. PICK sub : sub = findActiveByUser(UserOf[o])
    OBVIOUS
  <2>6. seen[o].sub = sub /\ seen[o].now <= clock
    BY <2>2, <2>5 DEF SerialInv, ReadInv
  <2>7. sub # NoRow => sub \in ActiveRows /\ UserOf[sub.id] = UserOf[o]
    BY <2>5, FoundActive, Constants DEF SerialInv
  <2>8. \/ sub \in Row /\ sub.expiresAt > seen[o].now /\ w.id = sub.id
        \/ ~(sub \in Row /\ sub.expiresAt > seen[o].now) /\ w.id = o
    BY <2>3, <2>6, GrantedRow
  <2>9. UserOf[w.id] = UserOf[o]
    BY <2>7, <2>8, Constants
  <2>10. \A q \in ActiveRows : UserOf[q.id] = UserOf[r.id] => q = r
    BY <2>2, <2>4, FindAgrees DEF SerialInv, IndexInv, Indexed
  <2>11. r = sub
    <3>1. sub # NoRow
      <4>1. Find("sql", rows, activeByUser, UserOf[o]) = r
        BY <2>2, <2>4, <2>9, Constants, FindSql, FindAgrees DEF SerialInv, IndexInv, TypeInv
      <4> QED
        BY <2>2, <2>4, <2>5, <4>1, FindAgrees, StoredRows, Constants
    <3> QED
      BY <2>4, <2>7, <2>9, <2>10, <3>1
  <2>12. r \in Row /\ ~(r.expiresAt > seen[o].now)
    BY <2>4, <2>8, <2>11, StoredRows
  <2>13. r.expiresAt \in Nat /\ seen[o].now \in Nat /\ clock \in Nat
    BY <2>12, RowFields DEF TypeInv
  <2>14. r.expiresAt <= clock
    BY <2>6, <2>12, <2>13
  <2> QED
    BY <2>2, <2>4, <2>9, <2>14
<1> QED
  BY <1>1, SerialInvariant, PTL DEF Spec, RefusedOnlyOverLapsed

=============================================================================
