----------------------------- MODULE StoresProofs -----------------------------
(***************************************************************************)
(* Proofs about Stores for every set of ids, names, keys and times: the    *)
(* two implementations of a repository accept the same writes and answer   *)
(* every finder, listing and report alike, after any number of writes, up  *)
(* to the first order that the memory store takes with another one's key.  *)
(***************************************************************************)
EXTENDS Stores, SumTheorems, SequenceTheorems

-----------------------------------------------------------------------------
(* The invariants *)

TypeInv ==
  /\ kind \in DOMAIN Row
  /\ mem = [rows |-> mem.rows, index |-> mem.index]
  /\ DOMAIN mem.index = Indexed[kind]
  /\ mem.rows \in Seq(Row[kind])
  /\ tab \subseteq Row[kind] /\ IsFiniteSet(tab)

\* A row is in the Map once, and in the table once.
IdsInv ==
  /\ \A i, j \in 1..Len(mem.rows) : mem.rows[i].id = mem.rows[j].id => i = j
  /\ \A q, r \in tab : q.id = r.id => q = r

\* The Map holds the rows of the table; only the audit log forgets.
RowsInv == kind # "audit" => ToSet(mem.rows) = tab

\* No two rows share a value of an indexed column, and its index Map leads from each value
\* in use to its row, and from nothing else.
IndexInv ==
  \A c \in Indexed[kind] :
    /\ \A q, r \in tab : q[c] = r[c] /\ r[c] # None => q = r
    /\ DOMAIN mem.index[c] = {r[c] : r \in tab} \ Falsy
    /\ \A r \in tab : r[c] \notin Falsy => mem.index[c][r[c]] = r.id

\* An API key, current or previous, is one merchant's.
KeysOf(m) == {m.apiKey, m.apiKeyPrevious} \ {None}
KeysInv ==
  kind = "merchants" => \A m, n \in tab : KeysOf(m) \cap KeysOf(n) # {} => m = n

\* The memory log holds the newest events, in the order of the table's ids; time does not
\* run backwards.
AuditInv ==
  kind = "audit" =>
    /\ ToSet(mem.rows) \subseteq tab
    /\ Len(mem.rows) = Min({maxEntries, Cardinality(tab)})
    /\ \A i, j \in 1..Len(mem.rows) : i < j => mem.rows[i].id < mem.rows[j].id
    /\ \A e \in tab \ ToSet(mem.rows), i \in 1..Len(mem.rows) : e.id < mem.rows[i].id
    /\ \A e, g \in tab : e.id < g.id => e.at <= g.at

\* The rows of a Map that is listed as inserted were made in that order.
Turns == {"refunds", "jobs", "merchants"}
Together(q, r) == kind = "refunds" => q.orderId = r.orderId
TurnsInv ==
  kind \in Turns =>
    \A i, j \in 1..Len(mem.rows) :
      i < j /\ Together(mem.rows[i], mem.rows[j]) => At(mem.rows[i]) <= At(mem.rows[j])

Agreed == last.mem = last.sql

Inv == /\ TypeInv /\ IdsInv /\ RowsInv /\ IndexInv /\ KeysInv /\ AuditInv /\ TurnsInv
       /\ Agreed

\* Whatever keys the orders have, a row of the Map and one of the table with one id have one
\* key.
SameKeys ==
  kind = "orders" =>
    /\ mem.rows \in Seq(OrderRow) /\ tab \subseteq OrderRow
    /\ \A i, j \in 1..Len(mem.rows) : mem.rows[i].id = mem.rows[j].id => i = j
    /\ \A q, r \in tab : q.id = r.id => q = r
    /\ \A i \in 1..Len(mem.rows), q \in tab :
         mem.rows[i].id = q.id => mem.rows[i].idempotencyKey = q.idempotencyKey

-----------------------------------------------------------------------------
(* Columns and slots *)

LEMMA Columns ==
  ASSUME kind \in DOMAIN Row
  PROVE  /\ Indexed[kind] \subseteq UniqueColumns[kind]
         /\ Checked[kind] \subseteq Indexed[kind] \cup {"id"}
         /\ "id" \in UniqueColumns[kind] /\ "id" \notin Indexed[kind]
         /\ Checked[kind] \subseteq UniqueColumns[kind]
         /\ \A r \in Row[kind] : r.id \in Ids
         /\ \A r \in Row[kind], c \in Checked[kind] : c # "id" => r[c] \notin Falsy
<1>0. kind \in {"orders", "users", "merchants", "refunds", "deposits", "jobs", "audit"}
  BY DEF Row
<1>1. CASE kind = "orders"
  BY <1>1, StoresAssumption DEF Row, Indexed, UniqueColumns, Checked, OrderRow, Falsy
<1>2. CASE kind = "users"
  BY <1>2, StoresAssumption DEF Row, Indexed, UniqueColumns, Checked, UserRow, Falsy
<1>3. CASE kind = "merchants"
  BY <1>3, StoresAssumption DEF Row, Indexed, UniqueColumns, Checked, MerchantRow, Falsy
<1>4. CASE kind = "refunds"
  BY <1>4, StoresAssumption DEF Row, Indexed, UniqueColumns, Checked, RefundRow, Falsy
<1>5. CASE kind = "deposits"
  BY <1>5, StoresAssumption DEF Row, Indexed, UniqueColumns, Checked, DepositRow, Falsy
<1>6. CASE kind = "jobs"
  BY <1>6, StoresAssumption DEF Row, Indexed, UniqueColumns, Checked, JobRow, Falsy
<1>7. CASE kind = "audit"
  BY <1>7, StoresAssumption DEF Row, Indexed, UniqueColumns, Checked, AuditRow, Falsy
<1> QED
  BY <1>0, <1>1, <1>2, <1>3, <1>4, <1>5, <1>6, <1>7

LEMMA Rows ==
  ASSUME TypeInv
  PROVE  /\ mem.rows \in Seq(Row[kind]) /\ Len(mem.rows) \in Nat
         /\ DOMAIN mem.rows = 1..Len(mem.rows)
         /\ \A i \in 1..Len(mem.rows) : mem.rows[i] \in Row[kind]
         /\ ToSet(mem.rows) = {mem.rows[i] : i \in 1..Len(mem.rows)}
BY DEF TypeInv, ToSet

\* Where a row is in the Map.
LEMMA SlotIs ==
  ASSUME TypeInv, IdsInv, NEW id
  PROVE  /\ Slot(id) \in 0..Len(mem.rows)
         /\ Slot(id) # 0 => mem.rows[Slot(id)].id = id
         /\ \A i \in 1..Len(mem.rows) : mem.rows[i].id = id => Slot(id) = i
<1> DEFINE I == {i \in 1..Len(mem.rows) : mem.rows[i].id = id}
<1>0. Len(mem.rows) \in Nat
  BY Rows
<1>1. Slot(id) = IF I # {} THEN Min(I) ELSE 0
  BY DEF Slot, SelectInSeq
<1>2. ASSUME NEW i \in I  PROVE Min(I) = i
  <2>1. I = {i}
    BY <1>2 DEF IdsInv
  <2> QED
    BY <1>0, <1>2, <2>1 DEF Min
<1> QED
  BY <1>0, <1>1, <1>2

LEMMA PutIs ==
  ASSUME TypeInv, IdsInv, NEW r \in Row[kind]
  PROVE  /\ Slot(r.id) = 0 => Put(mem.rows, r) = Append(mem.rows, r)
         /\ Slot(r.id) # 0 => Put(mem.rows, r) = [mem.rows EXCEPT ![Slot(r.id)] = r]
BY DEF Put, Slot, ReplaceAt

\* What the Map holds is found by its id, and nothing else is.
LEMMA ByIdIs ==
  ASSUME TypeInv, IdsInv, RowsInv, kind # "audit"
  PROVE  /\ \A r \in tab : InMemory(r.id) /\ MemById(r.id) = r
         /\ \A id : InMemory(id) => \E r \in tab : r.id = id
         /\ \A id : ~InMemory(id) => MemById(id) = None
<1>1. ASSUME NEW r \in tab  PROVE InMemory(r.id) /\ MemById(r.id) = r
  <2>1. PICK i \in 1..Len(mem.rows) : mem.rows[i] = r
    BY Rows DEF RowsInv
  <2>2. Slot(r.id) = i
    BY <2>1, SlotIs
  <2> QED
    BY <2>1, <2>2, Rows DEF InMemory, MemById
<1>2. ASSUME NEW id, InMemory(id)  PROVE \E r \in tab : r.id = id
  BY <1>2, SlotIs, Rows DEF InMemory, RowsInv
<1> QED
  BY <1>1, <1>2 DEF MemById

-----------------------------------------------------------------------------
(* Creating a row *)

\* What a caller takes care of: a unique column that create does not look up has a value of
\* its own.
Careful(r) ==
  \A c \in UniqueColumns[kind] \ Checked[kind], q \in tab : q[c] = r[c] => r[c] = None

LEMMA DuplicateIs ==
  ASSUME Inv, kind # "audit", NEW r \in Row[kind]
  PROVE  /\ MemDuplicate(r) => SqlDuplicate(r)
         /\ Careful(r) => (MemDuplicate(r) <=> SqlDuplicate(r))
<1>0. kind \in DOMAIN Row
  BY DEF Inv, TypeInv
<1>1. r.id # None /\ r["id"] = r.id
  BY <1>0, Columns, StoresAssumption
<1>2. InMemory(r.id) <=> \E q \in tab : q["id"] = r["id"]
  BY <1>1, ByIdIs DEF Inv
<1>3. ASSUME NEW c \in Checked[kind], c # "id"
      PROVE  r[c] \in DOMAIN mem.index[c] <=> \E q \in tab : q[c] = r[c] /\ r[c] # None
  <2>1. c \in Indexed[kind] /\ r[c] \notin Falsy
    BY <1>0, <1>3, Columns
  <2>2. DOMAIN mem.index[c] = {q[c] : q \in tab} \ Falsy
    BY <2>1 DEF Inv, IndexInv
  <2> QED
    BY <2>1, <2>2 DEF Falsy
<1>4. MemDuplicate(r) <=> \E c \in Checked[kind], q \in tab : q[c] = r[c] /\ r[c] # None
  <2> DEFINE Hit(c) == IF c = "id" THEN InMemory(r.id) ELSE r[c] \in DOMAIN mem.index[c]
             Same(c) == \E q \in tab : q[c] = r[c] /\ r[c] # None
  <2>1. ASSUME NEW c \in Checked[kind]  PROVE Hit(c) <=> Same(c)
    BY <1>1, <1>2, <1>3
  <2>2. MemDuplicate(r) <=> \E c \in Checked[kind] : Hit(c)
    BY DEF MemDuplicate
  <2> HIDE DEF Hit
  <2> QED
    BY <2>1, <2>2
<1>5. MemDuplicate(r) => SqlDuplicate(r)
  BY <1>0, <1>4, Columns DEF SqlDuplicate
<1>6. Careful(r) /\ SqlDuplicate(r) => MemDuplicate(r)
  BY <1>4 DEF SqlDuplicate, Careful
<1> QED
  BY <1>5, <1>6

\* An indexed value leads to the row that has it.
LEMMA IndexedRow ==
  ASSUME NEW c \in Indexed[kind], Inv, NEW v, v \in DOMAIN mem.index[c]
  PROVE  \E r \in tab : r[c] = v /\ v \notin Falsy /\ mem.index[c][v] = r.id
BY DEF Inv, IndexInv

LEMMA CreateInv ==
  ASSUME Inv, kind # "audit", NEW r \in Row[kind], MemDuplicate(r) \/ Careful(r), Insert(r),
         kind = "merchants" => \A m \in tab : KeysOf(m) \cap KeysOf(r) = {},
         kind \in Turns => InTurn({q \in tab : Together(q, r)}, r)
  PROVE  Inv'
<1>0. kind \in DOMAIN Row /\ r.id \in Ids /\ r.id # None
  BY Columns, StoresAssumption DEF Inv, TypeInv
<1>1. CASE SqlDuplicate(r)
  <2>1. MemDuplicate(r)
    BY <1>1, DuplicateIs
  <2>2. UNCHANGED <<kind, mem, tab>> /\ Agreed'
    BY <1>1, <2>1 DEF Insert, Both, MemCreate, Agreed
  <2> QED
    BY <2>2 DEF Inv, TypeInv, IdsInv, RowsInv, IndexInv, KeysInv, AuditInv, TurnsInv,
                Together, At
<1>2. CASE ~SqlDuplicate(r)
  <2>0. ~MemDuplicate(r)
    BY <1>2, DuplicateIs
  <2>1. /\ kind' = kind /\ tab' = tab \cup {r} /\ Agreed'
        /\ mem' = [rows |-> Put(mem.rows, r), index |-> IndexRow(mem.index, r)]
    BY <1>2, <2>0 DEF Insert, Both, MemCreate, Agreed
  <2>2. \A q \in tab : q.id # r.id
    BY <1>0, <1>2, Columns DEF SqlDuplicate
  <2>3. Slot(r.id) = 0
    BY <2>2, ByIdIs DEF InMemory, Inv
  <2>4. mem'.rows = Append(mem.rows, r)
    BY <2>1, <2>3, PutIs DEF Inv
  <2>5. mem'.index = [c \in Indexed[kind] |->
                        IF r[c] \in Falsy THEN mem.index[c]
                        ELSE SetKey(mem.index[c], r[c], r.id)]
    BY <2>1 DEF IndexRow, Inv, TypeInv
  <2>6. TypeInv'
    <3>1. IsFiniteSet(tab')
      BY <2>1, FS_AddElement DEF Inv, TypeInv
    <3>2. mem' = [rows |-> mem'.rows, index |-> mem'.index] /\ DOMAIN mem'.index = Indexed[kind]
      BY <2>1, <2>5
    <3>3. mem'.rows \in Seq(Row[kind])
      <4>1. mem.rows \in Seq(Row[kind])
        BY Rows DEF Inv
      <4>2. Append(mem.rows, r) \in Seq(Row[kind])
        BY <4>1, AppendProperties
      <4> QED
        BY <2>4, <4>2
    <3> QED
      BY <1>0, <2>1, <3>1, <3>2, <3>3 DEF Inv, TypeInv
  <2>7. /\ Len(mem'.rows) = Len(mem.rows) + 1 /\ Len(mem.rows) \in Nat
        /\ mem'.rows[Len(mem.rows) + 1] = r
        /\ \A i \in 1..Len(mem.rows) : mem'.rows[i] = mem.rows[i]
    BY <2>4, Rows DEF Inv
  <2>8. ToSet(mem'.rows) = ToSet(mem.rows) \cup {r}
    <3>1. ToSet(mem'.rows) = {mem'.rows[i] : i \in 1..Len(mem'.rows)}
      BY <2>6, Rows DEF TypeInv, ToSet
    <3> QED
      BY <3>1, <2>7, Rows DEF Inv
  <2>9. IdsInv'
    <3>1. \A i \in 1..Len(mem.rows) : mem.rows[i].id # r.id
      BY <2>2, Rows DEF Inv, RowsInv
    <3>2. \A i, j \in 1..Len(mem'.rows) : mem'.rows[i].id = mem'.rows[j].id => i = j
      <4> SUFFICES ASSUME NEW i \in 1..Len(mem'.rows), NEW j \in 1..Len(mem'.rows),
                          mem'.rows[i].id = mem'.rows[j].id
                   PROVE  i = j
        OBVIOUS
      <4>1. \A k \in 1..Len(mem'.rows) : k \in 1..Len(mem.rows) \/ k = Len(mem.rows) + 1
        BY <2>7
      <4>2. CASE i \in 1..Len(mem.rows) /\ j \in 1..Len(mem.rows)
        BY <2>7, <4>2 DEF Inv, IdsInv
      <4>3. i \in 1..Len(mem.rows) => j # Len(mem.rows) + 1
        BY <2>7, <3>1
      <4>4. j \in 1..Len(mem.rows) => i # Len(mem.rows) + 1
        BY <2>7, <3>1
      <4> QED
        BY <4>1, <4>2, <4>3, <4>4
    <3> QED
      BY <2>1, <2>2, <3>2 DEF Inv, IdsInv
  <2>10. RowsInv'
    BY <2>1, <2>8 DEF Inv, RowsInv
  <2>11. IndexInv'
    <3> SUFFICES ASSUME NEW c \in Indexed[kind]
                 PROVE  /\ \A q, s \in tab' : q[c] = s[c] /\ s[c] # None => q = s
                        /\ DOMAIN mem'.index[c] = {q[c] : q \in tab'} \ Falsy
                        /\ \A q \in tab' : q[c] \notin Falsy => mem'.index[c][q[c]] = q.id
      BY <2>1 DEF IndexInv
    <3>0. /\ \A q, s \in tab : q[c] = s[c] /\ s[c] # None => q = s
          /\ DOMAIN mem.index[c] = {q[c] : q \in tab} \ Falsy
          /\ \A q \in tab : q[c] \notin Falsy => mem.index[c][q[c]] = q.id
      BY DEF Inv, IndexInv
    <3>1. \A q \in tab : r[c] # None => q[c] # r[c]
      BY <1>0, <1>2, Columns DEF SqlDuplicate
    <3>2. \A q, s \in tab' : q[c] = s[c] /\ s[c] # None => q = s
      BY <2>1, <3>0, <3>1
    <3>3. CASE r[c] \in Falsy
      <4>1. mem'.index[c] = mem.index[c]
        BY <2>5, <3>3
      <4> QED
        BY <2>1, <3>0, <3>2, <3>3, <4>1
    <3>4. CASE r[c] \notin Falsy
      <4>1. mem'.index[c] = SetKey(mem.index[c], r[c], r.id) /\ r[c] # None
        BY <2>5, <3>4 DEF Falsy
      <4>2. /\ DOMAIN mem'.index[c] = DOMAIN mem.index[c] \cup {r[c]}
            /\ mem'.index[c][r[c]] = r.id
            /\ \A v \in DOMAIN mem.index[c] : v # r[c] => mem'.index[c][v] = mem.index[c][v]
        BY <4>1 DEF SetKey
      <4>3. DOMAIN mem'.index[c] = {q[c] : q \in tab'} \ Falsy
        BY <2>1, <3>0, <3>4, <4>2
      <4>4. \A q \in tab : q[c] \notin Falsy => mem'.index[c][q[c]] = q.id
        BY <3>0, <3>1, <4>1, <4>2
      <4> QED
        BY <2>1, <3>2, <4>2, <4>3, <4>4
    <3> QED
      BY <3>3, <3>4
  <2>12. KeysInv'
    BY <2>1 DEF Inv, KeysInv, KeysOf
  <2>13. AuditInv'
    BY <2>1 DEF AuditInv
  <2>14. TurnsInv'
    <3> SUFFICES ASSUME kind \in Turns, NEW i \in 1..Len(mem'.rows),
                        NEW j \in 1..Len(mem'.rows), i < j,
                        Together(mem'.rows[i], mem'.rows[j])
                 PROVE  At(mem'.rows[i]) <= At(mem'.rows[j])
      BY <2>1 DEF TurnsInv, Together, At
    <3>1. i \in 1..Len(mem.rows) /\ mem'.rows[i] = mem.rows[i] /\ mem.rows[i] \in tab
      BY <2>7, Rows DEF Inv, RowsInv
    <3>2. CASE j \in 1..Len(mem.rows)
      BY <2>7, <3>1, <3>2 DEF Inv, TurnsInv
    <3>3. CASE j = Len(mem.rows) + 1
      BY <2>7, <3>1, <3>3 DEF InTurn
    <3> QED
      BY <2>7, <3>2, <3>3
  <2> QED
    BY <2>1, <2>6, <2>9, <2>10, <2>11, <2>12, <2>13, <2>14 DEF Inv
<1> QED
  BY <1>1, <1>2

-----------------------------------------------------------------------------
(* Updating a row *)

\* Map.set of a key that is there replaces the row and keeps its place.
LEMMA PutRows ==
  ASSUME Inv, kind # "audit", NEW old \in tab, NEW new \in Row[kind], new.id = old.id,
         mem'.rows = Put(mem.rows, new)
  PROVE  /\ mem'.rows \in Seq(Row[kind])
         /\ \A i, j \in 1..Len(mem'.rows) : mem'.rows[i].id = mem'.rows[j].id => i = j
         /\ {mem'.rows[i] : i \in 1..Len(mem'.rows)} = (tab \ {old}) \cup {new}
         /\ \A q, r \in (tab \ {old}) \cup {new} : q.id = r.id => q = r
         /\ Len(mem'.rows) = Len(mem.rows)
         /\ \A i \in 1..Len(mem.rows) : \/ mem'.rows[i] = mem.rows[i]
                                        \/ mem.rows[i] = old /\ mem'.rows[i] = new
<1>1. PICK k \in 1..Len(mem.rows) : mem.rows[k] = old
  BY Rows DEF Inv, RowsInv
<1>2. Slot(new.id) = k /\ k # 0
  BY <1>1, SlotIs, Rows DEF Inv
<1>3. mem'.rows = [mem.rows EXCEPT ![k] = new]
  BY <1>2, PutIs DEF Inv
<1>4. mem.rows \in Seq(Row[kind]) /\ Len(mem.rows) \in Nat
  BY Rows DEF Inv
<1>5. mem'.rows \in Seq(Row[kind]) /\ Len(mem'.rows) = Len(mem.rows)
  BY <1>3, <1>4, ExceptSeq
<1>6. \A i \in 1..Len(mem.rows) : mem'.rows[i] = IF i = k THEN new ELSE mem.rows[i]
  BY <1>3, <1>4
<1>7. \A i, j \in 1..Len(mem.rows) : mem.rows[i].id = mem.rows[j].id => i = j
  BY DEF Inv, IdsInv
<1>8. \A i \in 1..Len(mem.rows) : mem'.rows[i].id = mem.rows[i].id
  BY <1>1, <1>6
<1>9. {mem'.rows[i] : i \in 1..Len(mem.rows)} = (tab \ {old}) \cup {new}
  <2>1. tab = {mem.rows[i] : i \in 1..Len(mem.rows)}
    BY Rows DEF Inv, RowsInv
  <2>2. \A i \in 1..Len(mem.rows) : mem.rows[i] = old => i = k
    BY <1>1, <1>7
  <2> QED
    BY <1>1, <1>6, <2>1, <2>2
<1>10. \A q, r \in (tab \ {old}) \cup {new} : q.id = r.id => q = r
  BY DEF Inv, IdsInv
<1> QED
  BY <1>1, <1>5, <1>6, <1>7, <1>8, <1>9, <1>10

\* What an update leaves to show, once its rows are in place.
LEMMA PutInv ==
  ASSUME Inv, kind # "audit", NEW old \in tab, NEW new \in Row[kind], new.id = old.id,
         kind' = kind, mem'.rows = Put(mem.rows, new), tab' = (tab \ {old}) \cup {new},
         mem' = [rows |-> mem'.rows, index |-> mem'.index], DOMAIN mem'.index = Indexed[kind],
         kind \in Turns => At(new) = At(old),
         kind = "refunds" => new.orderId = old.orderId
  PROVE  TypeInv' /\ IdsInv' /\ RowsInv' /\ AuditInv' /\ TurnsInv'
<1>1. /\ mem'.rows \in Seq(Row[kind])
      /\ \A i, j \in 1..Len(mem'.rows) : mem'.rows[i].id = mem'.rows[j].id => i = j
      /\ {mem'.rows[i] : i \in 1..Len(mem'.rows)} = (tab \ {old}) \cup {new}
      /\ \A q, r \in (tab \ {old}) \cup {new} : q.id = r.id => q = r
      /\ Len(mem'.rows) = Len(mem.rows)
      /\ \A i \in 1..Len(mem.rows) : \/ mem'.rows[i] = mem.rows[i]
                                     \/ mem.rows[i] = old /\ mem'.rows[i] = new
  BY PutRows
<1>2. IsFiniteSet(tab')
  BY FS_AddElement, FS_RemoveElement DEF Inv, TypeInv
<1>3. TypeInv'
  BY <1>1, <1>2 DEF Inv, TypeInv
<1>4. IdsInv'
  BY <1>1 DEF IdsInv
<1>5. ToSet(mem'.rows) = tab'
  <2>1. DOMAIN mem'.rows = 1..Len(mem'.rows)
    BY <1>1
  <2> QED
    BY <1>1, <2>1 DEF ToSet
<1>6. TurnsInv'
  <2> SUFFICES ASSUME kind \in Turns, NEW i \in 1..Len(mem.rows), NEW j \in 1..Len(mem.rows),
                      i < j, Together(mem'.rows[i], mem'.rows[j])
               PROVE  At(mem'.rows[i]) <= At(mem'.rows[j])
    BY <1>1 DEF TurnsInv, Together, At
  <2>1. \A k \in 1..Len(mem.rows) :
          /\ At(mem'.rows[k]) = At(mem.rows[k])
          /\ kind = "refunds" => mem'.rows[k].orderId = mem.rows[k].orderId
    BY <1>1
  <2>2. Together(mem.rows[i], mem.rows[j])
    BY <2>1 DEF Together
  <2> QED
    BY <2>1, <2>2 DEF Inv, TurnsInv
<1> QED
  BY <1>3, <1>4, <1>5, <1>6 DEF RowsInv, AuditInv

LEMMA UpdateInv ==
  ASSUME Inv, kind # "audit", NEW old \in tab, NEW new \in Row[kind], new.id = old.id,
         \A c \in Indexed[kind] : new[c] = old[c], Replace(old, new),
         kind \in Turns => At(new) = At(old),
         kind = "refunds" => new.orderId = old.orderId,
         kind = "merchants" => \A m \in tab \ {old} : KeysOf(m) \cap KeysOf(new) = {}
  PROVE  Inv'
<1>1. /\ kind' = kind /\ tab' = (tab \ {old}) \cup {new} /\ Agreed'
      /\ mem' = [mem EXCEPT !.rows = Put(mem.rows, new)]
  BY DEF Replace, Both, MemUpdate, Agreed
<1>2. /\ mem'.rows = Put(mem.rows, new) /\ mem'.index = mem.index
      /\ mem' = [rows |-> mem'.rows, index |-> mem'.index]
      /\ DOMAIN mem'.index = Indexed[kind]
  <2>1. mem = [rows |-> mem.rows, index |-> mem.index] /\ DOMAIN mem.index = Indexed[kind]
    BY DEF Inv, TypeInv
  <2> QED
    BY <1>1, <2>1
<1>3. TypeInv' /\ IdsInv' /\ RowsInv' /\ AuditInv' /\ TurnsInv'
  BY <1>1, <1>2, PutInv
<1>4. IndexInv'
  <2> SUFFICES ASSUME NEW c \in Indexed[kind]
               PROVE  /\ \A q, s \in tab' : q[c] = s[c] /\ s[c] # None => q = s
                      /\ DOMAIN mem.index[c] = {q[c] : q \in tab'} \ Falsy
                      /\ \A q \in tab' : q[c] \notin Falsy => mem.index[c][q[c]] = q.id
    BY <1>1, <1>2 DEF IndexInv
  <2>1. /\ \A q, s \in tab : q[c] = s[c] /\ s[c] # None => q = s
        /\ DOMAIN mem.index[c] = {q[c] : q \in tab} \ Falsy
        /\ \A q \in tab : q[c] \notin Falsy => mem.index[c][q[c]] = q.id
    BY DEF Inv, IndexInv
  <2>2. new[c] = old[c]
    OBVIOUS
  <2>3. {q[c] : q \in tab'} = {q[c] : q \in tab}
    BY <1>1, <2>2
  <2> QED
    BY <1>1, <2>1, <2>2, <2>3
<1>5. KeysInv'
  BY <1>1 DEF Inv, KeysInv
<1> QED
  BY <1>1, <1>3, <1>4, <1>5 DEF Inv

\* A rotated key's entry goes, the new one's comes, and the other users' stay.
LEMMA RotateInv ==
  ASSUME Inv, kind = "users", RotateUserKey
  PROVE  Inv'
<1>1. PICK u \in tab, k \in Keys :
        /\ Unused(k)
        /\ Both(MemUpdateUser(MemById(u.id), [u EXCEPT !.apiKey = k]), "ok",
                (tab \ {u}) \cup {[u EXCEPT !.apiKey = k]})
  BY DEF RotateUserKey
<1> DEFINE new == [u EXCEPT !.apiKey = k]
           byApiKey == IF u.apiKey # k
                       THEN DropKey(mem.index["apiKey"], u.apiKey) ELSE mem.index["apiKey"]
<1>0. /\ Row[kind] = UserRow /\ Indexed[kind] = {"email", "apiKey"} /\ k \notin Falsy
      /\ tab \subseteq UserRow /\ u \in UserRow
  BY StoresAssumption DEF Row, Indexed, Inv, TypeInv, Falsy
<1>2. /\ new \in UserRow /\ new.id = u.id /\ new["apiKey"] = k /\ new["email"] = u["email"]
      /\ new.apiKey = k /\ u.apiKey = u["apiKey"] /\ u.apiKey \notin Falsy
  BY <1>0, StoresAssumption DEF UserRow, Falsy
<1>3. MemById(u.id) = u
  BY ByIdIs DEF Inv
<1>4. /\ kind' = kind /\ tab' = (tab \ {u}) \cup {new} /\ Agreed'
      /\ mem' = [rows |-> Put(mem.rows, new),
                 index |-> [mem.index EXCEPT !["apiKey"] = SetKey(byApiKey, k, u.id)]]
  BY <1>1, <1>2, <1>3 DEF Both, MemUpdateUser, Agreed
<1>5. /\ mem'.rows = Put(mem.rows, new)
      /\ mem'.index = [mem.index EXCEPT !["apiKey"] = SetKey(byApiKey, k, u.id)]
      /\ DOMAIN mem.index = Indexed[kind]
  BY <1>4 DEF Inv, TypeInv
<1> HIDE DEF new
<1>6. TypeInv' /\ IdsInv' /\ RowsInv' /\ AuditInv' /\ TurnsInv'
  <2>1. mem' = [rows |-> mem'.rows, index |-> mem'.index] /\ DOMAIN mem'.index = Indexed[kind]
    BY <1>4, <1>5
  <2> QED
    BY <1>0, <1>2, <1>4, <1>5, <2>1, PutInv DEF Turns
<1>7. \A q \in tab : q["apiKey"] # k
  BY <1>0, <1>1 DEF Unused, UserRow
<1>8. IndexInv'
  <2>1. \A c \in Indexed[kind] :
          /\ \A q, s \in tab : q[c] = s[c] /\ s[c] # None => q = s
          /\ DOMAIN mem.index[c] = {q[c] : q \in tab} \ Falsy
          /\ \A q \in tab : q[c] \notin Falsy => mem.index[c][q[c]] = q.id
    BY DEF Inv, IndexInv
  <2>2. /\ mem'.index["email"] = mem.index["email"]
        /\ mem'.index["apiKey"] = SetKey(byApiKey, k, u.id)
    BY <1>0, <1>5
  <2>3. LET c == "email" IN
          /\ \A q, s \in tab' : q[c] = s[c] /\ s[c] # None => q = s
          /\ DOMAIN mem'.index[c] = {q[c] : q \in tab'} \ Falsy
          /\ \A q \in tab' : q[c] \notin Falsy => mem'.index[c][q[c]] = q.id
    <3> DEFINE c == "email"
    <3>1. /\ \A q, s \in tab : q[c] = s[c] /\ s[c] # None => q = s
          /\ DOMAIN mem.index[c] = {q[c] : q \in tab} \ Falsy
          /\ \A q \in tab : q[c] \notin Falsy => mem.index[c][q[c]] = q.id
      BY <1>0, <2>1
    <3>2. {q[c] : q \in tab'} = {q[c] : q \in tab}
      BY <1>2, <1>4
    <3>3. \A q, s \in tab' : q[c] = s[c] /\ s[c] # None => q = s
      BY <1>2, <1>4, <3>1
    <3>4. \A q \in tab' : q[c] \notin Falsy => mem'.index[c][q[c]] = q.id
      BY <1>2, <1>4, <2>2, <3>1
    <3> QED
      BY <2>2, <3>1, <3>2, <3>3, <3>4
  <2>4. LET c == "apiKey" IN
          /\ \A q, s \in tab' : q[c] = s[c] /\ s[c] # None => q = s
          /\ DOMAIN mem'.index[c] = {q[c] : q \in tab'} \ Falsy
          /\ \A q \in tab' : q[c] \notin Falsy => mem'.index[c][q[c]] = q.id
    <3> DEFINE c == "apiKey"
    <3>1. /\ \A q, s \in tab : q[c] = s[c] /\ s[c] # None => q = s
          /\ DOMAIN mem.index[c] = {q[c] : q \in tab} \ Falsy
          /\ \A q \in tab : q[c] \notin Falsy => mem.index[c][q[c]] = q.id
      BY <1>0, <2>1
    <3>2. u.apiKey # k
      BY <1>2, <1>7
    <3>3. /\ DOMAIN mem'.index[c] = (DOMAIN mem.index[c] \ {u[c]}) \cup {k}
          /\ mem'.index[c][k] = u.id
          /\ \A v \in DOMAIN mem.index[c] \ {u[c], k} : mem'.index[c][v] = mem.index[c][v]
      BY <1>2, <2>2, <3>2 DEF SetKey, DropKey, Restrict
    <3>4. \A q \in tab \ {u} : q[c] # u[c]
      BY <1>2, <3>1 DEF Falsy
    <3>5. DOMAIN mem'.index[c] = {q[c] : q \in tab'} \ Falsy
      <4>1. {q[c] : q \in tab'} = ({q[c] : q \in tab} \ {u[c]}) \cup {k}
        <5>1. \A q \in tab' : q = new \/ (q \in tab /\ q[c] # u[c])
          BY <1>4, <3>4
        <5>2. \A q \in tab : q[c] # u[c] => q \in tab'
          BY <1>4
        <5>3. new \in tab' /\ new[c] = k
          BY <1>2, <1>4
        <5> QED
          BY <5>1, <5>2, <5>3
      <4> QED
        BY <1>0, <3>1, <3>3, <4>1
    <3>6. \A q, s \in tab' : q[c] = s[c] /\ s[c] # None => q = s
      <4>1. \A q \in tab' : q = new \/ (q \in tab /\ q[c] # k)
        BY <1>4, <1>7
      <4>2. new[c] = k
        BY <1>2
      <4> QED
        BY <3>1, <4>1, <4>2
    <3>7. \A q \in tab' : q[c] \notin Falsy => mem'.index[c][q[c]] = q.id
      <4>1. ASSUME NEW q \in tab \ {u}, q[c] \notin Falsy  PROVE mem'.index[c][q[c]] = q.id
        BY <1>7, <3>1, <3>3, <3>4, <4>1
      <4> QED
        BY <1>2, <1>4, <3>3, <4>1
    <3> QED
      BY <3>5, <3>6, <3>7
  <2> QED
    BY <1>0, <1>4, <2>3, <2>4 DEF IndexInv
<1> QED
  BY <1>4, <1>6, <1>8 DEF Inv, KeysInv

-----------------------------------------------------------------------------
(* Recording an event *)

LEMMA MinIs ==
  ASSUME NEW a \in Nat, NEW b \in Nat
  PROVE  Min({a, b}) = IF a <= b THEN a ELSE b
BY DEF Min

LEMMA Slice ==
  ASSUME NEW S, NEW s \in Seq(S), NEW a \in Int, NEW b \in Int, 1 <= a, b <= Len(s)
  PROVE  /\ SubSeq(s, a, b) \in Seq(S)
         /\ Len(SubSeq(s, a, b)) = IF a <= b THEN b - a + 1 ELSE 0
         /\ \A i \in 1..b - a + 1 : SubSeq(s, a, b)[i] = s[a + i - 1]
OBVIOUS

\* The bounded log takes the event at its end and drops its first at the bound.
LEMMA Dropped ==
  ASSUME NEW S, NEW s \in Seq(S), NEW e \in S, NEW n \in Nat, n = Len(s),
         NEW d \in {0, 1}, d <= n, NEW all, all = Append(s, e),
         NEW low, low = d + 1, NEW high, high = n + 1, NEW t, t = SubSeq(all, low, high)
  PROVE  /\ t \in Seq(S) /\ Len(t) = n + 1 - d
         /\ t[n + 1 - d] = e
         /\ \A i \in 1..n - d : t[i] = s[i + d]
<1>1. /\ all \in Seq(S) /\ Len(all) = n + 1
      /\ \A i \in 1..n : all[i] = s[i]
      /\ all[n + 1] = e
  BY AppendProperties
<1>2. low \in Int /\ high \in Int /\ 1 <= low /\ high <= Len(all) /\ low <= high
  BY <1>1
<1>3. /\ t \in Seq(S) /\ Len(t) = n + 1 - d
      /\ \A i \in 1..n + 1 - d : t[i] = all[i + d]
  <2>1. /\ SubSeq(all, low, high) \in Seq(S)
        /\ Len(SubSeq(all, low, high)) = IF low <= high THEN high - low + 1 ELSE 0
        /\ \A i \in 1..high - low + 1 : SubSeq(all, low, high)[i] = all[low + i - 1]
    BY ONLY <1>1, <1>2, Slice
  <2>2. high - low + 1 = n + 1 - d
    OBVIOUS
  <2>3. \A i \in 1..n + 1 - d : low + i - 1 = i + d
    OBVIOUS
  <2> QED
    BY <1>2, <2>1, <2>2, <2>3
<1>4. t[n + 1 - d] = e
  <2>1. n + 1 - d \in 1..n + 1 - d /\ (n + 1 - d) + d = n + 1
    OBVIOUS
  <2> QED
    BY <1>1, <1>3, <2>1
<1>5. ASSUME NEW i \in 1..n - d  PROVE t[i] = s[i + d]
  <2>1. i \in 1..n + 1 - d /\ i + d \in 1..n
    OBVIOUS
  <2> QED
    BY <1>1, <1>3, <2>1
<1> QED
  BY <1>3, <1>4, <1>5

LEMMA RecordInv ==
  ASSUME Inv, kind = "audit", Record
  PROVE  Inv'
<1>1. PICK e \in AuditRow : /\ Fresh(e.id) /\ InTurn(tab, e)
                            /\ Both(MemRecord(e), "ok", tab \cup {e})
  BY DEF Record
<1>0. /\ Row[kind] = AuditRow /\ Indexed[kind] = {} /\ maxEntries \in Nat \ {0}
      /\ \A r \in AuditRow : r.id \in Nat /\ r.at \in Nat
      /\ IsFiniteSet(tab) /\ Cardinality(tab) \in Nat /\ tab \subseteq AuditRow
  BY StoresAssumption, FS_CardinalityType DEF Row, Indexed, AuditRow, Inv, TypeInv
<1> DEFINE n == Len(mem.rows)
<1>2. /\ kind' = kind /\ tab' = tab \cup {e} /\ Agreed'
      /\ mem' = MemRecord(e).db
  BY <1>1 DEF Both, MemRecord, Agreed
<1>3. /\ mem' = [rows |-> mem'.rows, index |-> mem'.index] /\ DOMAIN mem'.index = Indexed[kind]
  BY <1>2 DEF MemRecord, Inv, TypeInv
<1>4. n \in Nat /\ n = Min({maxEntries, Cardinality(tab)}) /\ n <= maxEntries
  <2>1. n = Min({maxEntries, Cardinality(tab)}) /\ n \in Nat
    BY Rows DEF Inv, AuditInv
  <2> QED
    BY <1>0, <2>1, MinIs
<1>5. PICK d \in {0, 1} :
        /\ d = 1 <=> n = maxEntries
        /\ d <= n
        /\ mem'.rows \in Seq(Row[kind]) /\ Len(mem'.rows) = n + 1 - d
        /\ mem'.rows[n + 1 - d] = e
        /\ \A i \in 1..n - d : mem'.rows[i] = mem.rows[i + d]
  <2>1. mem.rows \in Seq(Row[kind]) /\ e \in Row[kind]
    BY <1>0, Rows DEF Inv
  <2>2. PICK d \in {0, 1} : d = 1 <=> n = maxEntries
    OBVIOUS
  <2>3. Len(Append(mem.rows, e)) = n + 1
    BY <2>1
  <2>4. Min({n + 1, maxEntries}) = IF n + 1 <= maxEntries THEN n + 1 ELSE maxEntries
    BY <1>0, <1>4, MinIs
  <2>5. n + 1 - Min({n + 1, maxEntries}) = d /\ d <= n
    <3> HIDE DEF n
    <3> QED
      BY <1>0, <1>4, <2>2, <2>4
  <2>6. PICK all : all = Append(mem.rows, e)
    OBVIOUS
  <2>7. PICK low, high : low = d + 1 /\ high = n + 1
    OBVIOUS
  <2>8. mem'.rows = SubSeq(all, low, high)
    <3>1. mem = [rows |-> mem.rows, index |-> mem.index]
      BY DEF Inv, TypeInv
    <3>2. mem'.rows = SubSeq(all, Len(all) - Min({Len(all), maxEntries}) + 1, Len(all))
      BY <1>2, <2>6, <3>1 DEF MemRecord
    <3>3. Len(all) = high
      BY <2>3, <2>6, <2>7
    <3>4. high - Min({high, maxEntries}) + 1 = low
      <4>1. Min({high, maxEntries}) = IF high <= maxEntries THEN high ELSE maxEntries
        BY <1>0, <1>4, <2>7, MinIs
      <4> HIDE DEF n
      <4> QED
        BY <1>0, <1>4, <2>2, <2>7, <4>1
    <3> QED
      BY ONLY <3>2, <3>3, <3>4, Zenon
  <2>9. PICK S, s, l, t : S = Row[kind] /\ s = mem.rows /\ l = n /\ t = mem'.rows
    OBVIOUS
  <2>10. /\ s \in Seq(S) /\ e \in S /\ l \in Nat /\ l = Len(s) /\ d <= l
         /\ all = Append(s, e) /\ t = SubSeq(all, low, high) /\ low = d + 1 /\ high = l + 1
    BY <1>4, <2>1, <2>5, <2>6, <2>7, <2>8, <2>9
  <2>11. /\ t \in Seq(S) /\ Len(t) = l + 1 - d
         /\ t[l + 1 - d] = e
         /\ \A i \in 1..l - d : t[i] = s[i + d]
    BY ONLY <2>10, d \in {0, 1}, Dropped
  <2> QED
    BY <2>2, <2>5, <2>9, <2>11
<1>6. e \notin tab /\ \A q \in tab : q.id < e.id
  BY <1>0, <1>1 DEF Fresh
<1>7. IsFiniteSet(tab') /\ Cardinality(tab') = Cardinality(tab) + 1
  BY <1>0, <1>2, <1>6, FS_AddElement
<1>8. TypeInv'
  BY <1>0, <1>2, <1>3, <1>5, <1>7 DEF Inv, TypeInv
<1>9. /\ \A i \in 1..n : mem.rows[i] \in tab
      /\ \A i, j \in 1..n : i < j => mem.rows[i].id < mem.rows[j].id
      /\ \A q \in tab, i \in 1..n : (\A j \in 1..n : mem.rows[j] # q) => q.id < mem.rows[i].id
  BY Rows DEF Inv, AuditInv
<1> DEFINE m == n + 1 - d
<1>10. /\ m \in Nat /\ \A i \in 1..m : i = m \/ (i \in 1..n - d /\ i + d \in 1..n)
       /\ Len(mem'.rows) = m
  <2>1. n \in Int /\ (d = 0 \/ d = 1) /\ d <= n /\ Len(mem'.rows) = n + 1 - d
    BY <1>4, <1>5
  <2> HIDE DEF n
  <2> QED
    BY <2>1
<1>11. \A i \in 1..m : i # m => mem'.rows[i] = mem.rows[i + d] /\ mem'.rows[i] \in tab
  BY <1>5, <1>9, <1>10
<1>12. \A i, j \in 1..m : i < j => mem'.rows[i].id < mem'.rows[j].id
  <2> SUFFICES ASSUME NEW i \in 1..m, NEW j \in 1..m, i < j
               PROVE  mem'.rows[i].id < mem'.rows[j].id
    OBVIOUS
  <2>1. i # m /\ i + d \in 1..n
    BY <1>10
  <2>2. CASE j = m
    BY <1>5, <1>6, <1>10, <1>11, <2>1, <2>2
  <2>3. CASE j # m
    <3>1. j + d \in 1..n /\ i + d < j + d
      BY <1>4, <1>10, <2>3
    <3> QED
      BY <1>9, <1>11, <2>1, <2>3, <3>1
  <2> QED
    BY <2>2, <2>3
<1>13. IdsInv'
  <2>1. \A i \in 1..m : mem'.rows[i].id \in Nat
    BY <1>0, <1>2, <1>5, <1>10, <1>11
  <2>2. \A i, j \in 1..m : mem'.rows[i].id = mem'.rows[j].id => i = j
    <3> SUFFICES ASSUME NEW i \in 1..m, NEW j \in 1..m, mem'.rows[i].id = mem'.rows[j].id,
                        i # j
                 PROVE  FALSE
      OBVIOUS
    <3>1. i < j \/ j < i
      BY <1>10
    <3> QED
      BY <1>12, <2>1, <3>1
  <2>3. \A q, r \in tab' : q.id = r.id => q = r
    BY <1>0, <1>2, <1>6 DEF Inv, IdsInv
  <2> QED
    BY <1>10, <2>2, <2>3 DEF IdsInv
<1>14. DOMAIN mem'.rows = 1..m /\ ToSet(mem'.rows) = {mem'.rows[i] : i \in 1..m}
  <2> PICK rows : rows = mem'.rows
    OBVIOUS
  <2>1. rows \in Seq(Row[kind]) /\ Len(rows) = m
    BY <1>5, <1>10
  <2>2. DOMAIN rows = 1..m
    BY ONLY <2>1
  <2>3. ToSet(rows) = {rows[i] : i \in DOMAIN rows}
    BY ONLY DEF ToSet
  <2> QED
    BY ONLY <2>2, <2>3, rows = mem'.rows
<1>15. ToSet(mem'.rows) \subseteq tab'
  BY <1>2, <1>5, <1>10, <1>11, <1>14
<1>16. m = Min({maxEntries, Cardinality(tab')})
  <2>1. n = IF maxEntries <= Cardinality(tab) THEN maxEntries ELSE Cardinality(tab)
    BY <1>0, <1>4, MinIs
  <2>2. Min({maxEntries, Cardinality(tab')}) =
          IF maxEntries <= Cardinality(tab') THEN maxEntries ELSE Cardinality(tab')
    BY <1>0, <1>7, MinIs
  <2> QED
    BY <1>0, <1>5, <1>7, <2>1, <2>2
<1>17. \A q \in tab' \ ToSet(mem'.rows), i \in 1..m : q.id < mem'.rows[i].id
  <2> SUFFICES ASSUME NEW q \in tab' \ ToSet(mem'.rows), NEW i \in 1..m
               PROVE  q.id < mem'.rows[i].id
    OBVIOUS
  <2>1. q \in tab
    <3>1. m \in 1..m /\ mem'.rows[m] = e
      BY <1>5, <1>10
    <3> QED
      BY <1>2, <1>14, <3>1
  <2>2. CASE i = m
    BY <1>5, <1>6, <1>10, <2>1, <2>2
  <2>3. CASE i # m
    <3>1. i + d \in 1..n /\ mem'.rows[i] = mem.rows[i + d]
      BY <1>10, <1>11, <2>3
    <3>2. CASE \A j \in 1..n : mem.rows[j] # q
      BY <1>9, <2>1, <3>1, <3>2
    <3>3. ASSUME NEW j \in 1..n, mem.rows[j] = q  PROVE q.id < mem'.rows[i].id
      <4>1. CASE j < i + d
        BY <1>9, <3>1, <3>3, <4>1
      <4>2. CASE ~(j < i + d)
        <5>1. j - d \in 1..m - 1
          BY <1>4, <1>10, <2>3, <3>1, <3>3, <4>2
        <5>2. mem'.rows[j - d] = mem.rows[(j - d) + d] /\ (j - d) + d = j
          BY <1>5, <1>10, <5>1
        <5>3. q = mem'.rows[j - d] /\ j - d \in 1..m
          BY <1>10, <3>3, <5>1, <5>2
        <5> QED
          BY <1>14, <5>3
      <4> QED
        BY <4>1, <4>2
    <3> QED
      BY <3>2, <3>3
  <2> QED
    BY <2>2, <2>3
<1>18. \A q, g \in tab' : q.id < g.id => q.at <= g.at
  BY <1>0, <1>1, <1>2, <1>6 DEF Inv, AuditInv, InTurn, At
<1>19. AuditInv'
  BY <1>10, <1>12, <1>15, <1>16, <1>17, <1>18 DEF AuditInv
<1> QED
  BY <1>0, <1>2, <1>8, <1>13, <1>19 DEF Inv, RowsInv, IndexInv, KeysInv, TurnsInv, Turns

-----------------------------------------------------------------------------
(* Every write keeps the invariants *)

LEMMA InitInv == Init => Inv /\ SameKeys
<1> SUFFICES ASSUME Init  PROVE Inv /\ SameKeys
  OBVIOUS
<1>1. /\ kind \in DOMAIN Row /\ tab = {} /\ mem.rows = <<>> /\ Agreed
      /\ mem = [rows |-> mem.rows, index |-> mem.index]
      /\ mem.index = [c \in Indexed[kind] |-> <<>>]
  BY StoresAssumption DEF Init, Agreed
<1>2. TypeInv
  BY <1>1, FS_EmptySet DEF TypeInv
<1>3. Len(mem.rows) = 0 /\ ToSet(mem.rows) = {}
  BY <1>1 DEF ToSet
<1>4. AuditInv
  <2>1. Min({maxEntries, Cardinality(tab)}) = 0
    <3>1. Cardinality(tab) = 0 /\ maxEntries \in Nat \ {0}
      BY <1>1, FS_EmptySet, StoresAssumption
    <3>2. Min({maxEntries, Cardinality(tab)}) =
            IF maxEntries <= Cardinality(tab) THEN maxEntries ELSE Cardinality(tab)
      BY <3>1, MinIs
    <3> QED
      BY <3>1, <3>2
  <2> QED
    BY <1>1, <1>3, <2>1 DEF AuditInv
<1> QED
  BY <1>1, <1>2, <1>3, <1>4 DEF Inv, IdsInv, RowsInv, IndexInv, KeysInv, TurnsInv, SameKeys

LEMMA FreshId ==
  ASSUME Inv, NEW id \in Ids, Fresh(id), NEW q \in tab
  PROVE  q.id # id
<1>1. q.id \in Nat /\ q.id < id /\ id \in Nat
  BY Columns, StoresAssumption DEF Fresh, Inv, TypeInv
<1> QED
  BY <1>1

\* A row given a new id is put at the end, whatever is in the Map.
LEMMA PutFresh ==
  ASSUME NEW S, mem.rows \in Seq(S), NEW r, \A i \in 1..Len(mem.rows) : mem.rows[i].id # r.id
  PROVE  Put(mem.rows, r) = Append(mem.rows, r)
<1>1. {i \in 1..Len(mem.rows) : mem.rows[i].id = r.id} = {}
  OBVIOUS
<1> QED
  BY <1>1 DEF Put, SelectInSeq

\* And another one in the place of its id.
LEMMA PutAt ==
  ASSUME kind = "orders", SameKeys, NEW r
  PROVE  \/ /\ Put(mem.rows, r) = Append(mem.rows, r)
            /\ \A i \in 1..Len(mem.rows) : mem.rows[i].id # r.id
         \/ \E k \in 1..Len(mem.rows) : /\ mem.rows[k].id = r.id
                                       /\ Put(mem.rows, r) = [mem.rows EXCEPT ![k] = r]
<1> DEFINE I == {i \in 1..Len(mem.rows) : mem.rows[i].id = r.id}
<1>0. Len(mem.rows) \in Nat /\ mem.rows \in Seq(OrderRow)
  BY DEF SameKeys
<1>1. CASE I = {}
  BY <1>0, <1>1, PutFresh
<1>2. ASSUME NEW k \in I
      PROVE  Put(mem.rows, r) = [mem.rows EXCEPT ![k] = r]
  <2>1. I = {k} /\ Min({k}) = k /\ k # 0
    BY <1>0, <1>2 DEF SameKeys, Min
  <2> QED
    BY <2>1 DEF Put, SelectInSeq, ReplaceAt
<1> QED
  BY <1>1, <1>2

\* The orders keep their places and keys, so two that share one always will.
LEMMA KeysStay ==
  ASSUME kind = "orders", SameKeys, CreateOrder \/ UpdateOrder
  PROVE  kind' = kind /\ SameKeys' /\ (KeysApart' => KeysApart)
<1>0. /\ Len(mem.rows) \in Nat /\ mem.rows \in Seq(OrderRow) /\ tab \subseteq OrderRow
      /\ \A i \in 1..Len(mem.rows) : mem.rows[i] \in OrderRow
      /\ \A i, j \in 1..Len(mem.rows) : mem.rows[i].id = mem.rows[j].id => i = j
      /\ \A q, r \in tab : q.id = r.id => q = r
      /\ \A i \in 1..Len(mem.rows), q \in tab :
           mem.rows[i].id = q.id => mem.rows[i].idempotencyKey = q.idempotencyKey
  BY DEF SameKeys
<1>1. kind' = kind
  BY DEF CreateOrder, UpdateOrder, Insert, Replace, Both
\* What a write does: at most one row, of a new id or with the key of its id.
<1>2. PICK r \in OrderRow :
        /\ \/ mem'.rows = mem.rows
           \/ /\ mem'.rows = Append(mem.rows, r)
              /\ \A i \in 1..Len(mem.rows) : mem.rows[i].id # r.id
           \/ \E k \in 1..Len(mem.rows) :
                /\ mem.rows[k].id = r.id /\ mem.rows[k].idempotencyKey = r.idempotencyKey
                /\ mem'.rows = [mem.rows EXCEPT ![k] = r]
        /\ tab' \subseteq tab \cup {r}
        /\ \A q \in tab' : q.id = r.id => q = r
        /\ \A i \in 1..Len(mem.rows) :
             mem.rows[i].id = r.id => mem.rows[i].idempotencyKey = r.idempotencyKey
  <2>1. CASE CreateOrder
    <3>1. PICK r \in OrderRow : Fresh(r.id) /\ Insert(r)
      BY <2>1 DEF CreateOrder
    <3>2. /\ \A q \in tab : q.id # r.id
          /\ \A i \in 1..Len(mem.rows) : mem.rows[i].id # r.id
      <4>1. \A o \in OrderRow : o.id \in Nat
        BY StoresAssumption DEF OrderRow
      <4>2. \A i \in 1..Len(mem.rows) : mem.rows[i] \in ToSet(mem.rows)
        BY <1>0 DEF ToSet
      <4>3. \A q \in tab \cup ToSet(mem.rows) : q.id < r.id
        BY <3>1 DEF Fresh
      <4>4. \A q \in tab : q.id # r.id
        BY <1>0, <4>1, <4>3
      <4>5. \A i \in 1..Len(mem.rows) : mem.rows[i].id # r.id
        BY <1>0, <4>1, <4>2, <4>3
      <4> QED
        BY <4>4, <4>5
    <3>3. Put(mem.rows, r) = Append(mem.rows, r)
      BY <1>0, <3>2, PutFresh
    <3>4. mem'.rows = mem.rows \/ mem'.rows = Append(mem.rows, r)
      BY <3>1, <3>3 DEF Insert, Both, MemCreate
    <3>5. tab' = tab \/ tab' = tab \cup {r}
      BY <3>1 DEF Insert, Both
    <3> QED
      BY <3>2, <3>4, <3>5
  <2>2. CASE UpdateOrder
    <3>1. PICK o \in tab, r \in OrderRow :
            r.id = o.id /\ r.idempotencyKey = o.idempotencyKey /\ Replace(o, r)
      <4>1. PICK o \in tab, s \in {"PAID", "FULFILLED", "REFUNDED", "EXPIRED"} :
              Replace(o, [o EXCEPT !.status = s, !.paidAt = IF s = "PAID" THEN 1 ELSE @])
        BY <2>2 DEF UpdateOrder
      <4> DEFINE r == [o EXCEPT !.status = s, !.paidAt = IF s = "PAID" THEN 1 ELSE @]
      <4>2. r \in OrderRow /\ r.id = o.id /\ r.idempotencyKey = o.idempotencyKey
        BY <1>0 DEF OrderRow
      <4> HIDE DEF r
      <4> QED
        BY <4>1, <4>2 DEF r
    <3>2. tab' = (tab \ {o}) \cup {r}
      BY <3>1 DEF Replace, Both
    <3>3. mem'.rows = Put(mem.rows, r)
      <4>1. mem' = [mem EXCEPT !.rows = Put(mem.rows, r)]
        BY <3>1 DEF Replace, Both, MemUpdate
      <4> QED
        BY <4>1
    <3>4. \A i \in 1..Len(mem.rows) :
            mem.rows[i].id = r.id => mem.rows[i].idempotencyKey = r.idempotencyKey
      BY <1>0, <3>1
    <3>5. \A q \in tab' : q.id = r.id => q = r
      BY <1>0, <3>1, <3>2
    <3>6. \/ /\ mem'.rows = Append(mem.rows, r)
             /\ \A i \in 1..Len(mem.rows) : mem.rows[i].id # r.id
          \/ \E k \in 1..Len(mem.rows) : /\ mem.rows[k].id = r.id
                                        /\ mem'.rows = [mem.rows EXCEPT ![k] = r]
      BY <3>3, PutAt
    <3> QED
      BY <3>2, <3>4, <3>5, <3>6
  <2> QED
    BY <2>1, <2>2
<1>3. /\ mem'.rows \in Seq(OrderRow) /\ Len(mem.rows) <= Len(mem'.rows)
      /\ \A i, j \in 1..Len(mem'.rows) : mem'.rows[i].id = mem'.rows[j].id => i = j
      /\ \A i \in 1..Len(mem.rows) : mem'.rows[i].idempotencyKey = mem.rows[i].idempotencyKey
      /\ \A i \in 1..Len(mem'.rows) :
           \/ mem'.rows[i] = r
           \/ i \in 1..Len(mem.rows) /\ mem'.rows[i] = mem.rows[i]
  <2>1. CASE mem'.rows = mem.rows
    BY <1>0, <2>1
  <2>2. CASE /\ mem'.rows = Append(mem.rows, r)
             /\ \A i \in 1..Len(mem.rows) : mem.rows[i].id # r.id
    <3>1. /\ mem'.rows \in Seq(OrderRow) /\ Len(mem'.rows) = Len(mem.rows) + 1
          /\ mem'.rows[Len(mem.rows) + 1] = r
          /\ \A i \in 1..Len(mem.rows) : mem'.rows[i] = mem.rows[i]
      BY <1>0, <2>2, AppendProperties
    <3>2. \A i \in 1..Len(mem'.rows) : i \in 1..Len(mem.rows) \/ i = Len(mem.rows) + 1
      BY <1>0, <3>1
    <3>3. \A i, j \in 1..Len(mem'.rows) : mem'.rows[i].id = mem'.rows[j].id => i = j
      BY <1>0, <2>2, <3>1, <3>2
    <3> QED
      BY <1>0, <3>1, <3>2, <3>3
  <2>3. ASSUME NEW k \in 1..Len(mem.rows), mem.rows[k].id = r.id,
               mem.rows[k].idempotencyKey = r.idempotencyKey,
               mem'.rows = [mem.rows EXCEPT ![k] = r]
        PROVE  /\ mem'.rows \in Seq(OrderRow) /\ Len(mem.rows) <= Len(mem'.rows)
               /\ \A i, j \in 1..Len(mem'.rows) : mem'.rows[i].id = mem'.rows[j].id => i = j
               /\ \A i \in 1..Len(mem.rows) :
                    mem'.rows[i].idempotencyKey = mem.rows[i].idempotencyKey
               /\ \A i \in 1..Len(mem'.rows) :
                    \/ mem'.rows[i] = r
                    \/ i \in 1..Len(mem.rows) /\ mem'.rows[i] = mem.rows[i]
    <3>1. mem'.rows \in Seq(OrderRow) /\ Len(mem'.rows) = Len(mem.rows)
      BY <1>0, <2>3, ExceptSeq
    <3>2. \A i \in 1..Len(mem.rows) : mem'.rows[i] = IF i = k THEN r ELSE mem.rows[i]
      BY <1>0, <2>3
    <3>3. \A i \in 1..Len(mem.rows) : /\ mem'.rows[i].id = mem.rows[i].id
                                     /\ mem'.rows[i].idempotencyKey = mem.rows[i].idempotencyKey
      BY <2>3, <3>2
    <3>4. \A i, j \in 1..Len(mem'.rows) : mem'.rows[i].id = mem'.rows[j].id => i = j
      BY <1>0, <3>1, <3>3
    <3>5. Len(mem.rows) <= Len(mem'.rows)
      BY <1>0, <3>1
    <3> QED
      BY <3>1, <3>2, <3>3, <3>4, <3>5
  <2> QED
    BY <1>2, <2>1, <2>2, <2>3
<1>4. SameKeys'
  <2>1. tab' \subseteq OrderRow /\ \A q, s \in tab' : q.id = s.id => q = s
    BY <1>0, <1>2
  <2>2. ASSUME NEW i \in 1..Len(mem'.rows), NEW q \in tab', mem'.rows[i].id = q.id
        PROVE  mem'.rows[i].idempotencyKey = q.idempotencyKey
    <3>1. CASE mem'.rows[i] = r
      BY <1>2, <2>2, <3>1
    <3>2. CASE i \in 1..Len(mem.rows) /\ mem'.rows[i] = mem.rows[i]
      BY <1>0, <1>2, <2>2, <3>2
    <3> QED
      BY <1>3, <3>1, <3>2
  <2> QED
    BY <1>3, <2>1, <2>2 DEF SameKeys
<1>5. ASSUME ~KeysApart  PROVE ~KeysApart'
  <2>1. PICK i, j \in 1..Len(mem.rows) :
          /\ i # j /\ mem.rows[i].idempotencyKey \in Keys \cup {Blank}
          /\ mem.rows[i].idempotencyKey = mem.rows[j].idempotencyKey
    BY <1>0, <1>5 DEF KeysApart, Shared
  <2>2. DOMAIN mem'.rows = 1..Len(mem'.rows) /\ i \in 1..Len(mem'.rows) /\ j \in 1..Len(mem'.rows)
    BY <1>0, <1>3
  <2> QED
    BY <1>1, <1>3, <2>1, <2>2 DEF KeysApart, Shared
<1> QED
  BY <1>1, <1>4, <1>5

LEMMA CreateOrderInv ==
  ASSUME Inv, kind = "orders", CreateOrder, KeysApart'
  PROVE  Inv'
<1>0. /\ Row[kind] = OrderRow /\ UniqueColumns[kind] \ Checked[kind] = {"id", "idempotencyKey"}
      /\ tab \subseteq OrderRow /\ kind \notin Turns
  BY DEF Row, UniqueColumns, Checked, Turns, Inv, TypeInv
<1>1. PICK o \in OrderRow : Fresh(o.id) /\ Insert(o)
  BY DEF CreateOrder
<1>2. o.id \in Ids /\ o["id"] = o.id /\ o["idempotencyKey"] = o.idempotencyKey
  BY DEF OrderRow
<1>3. \A q \in tab : q.id # o.id /\ q["id"] = q.id /\ q["idempotencyKey"] = q.idempotencyKey
  BY <1>0, <1>1, <1>2, FreshId DEF OrderRow
<1>4. ASSUME ~MemDuplicate(o)  PROVE Careful(o)
  <2>1. mem'.rows = Put(mem.rows, o) /\ kind' = kind
    BY <1>1, <1>4 DEF Insert, Both, MemCreate
  <2>2. Slot(o.id) = 0
    BY <1>3, ByIdIs DEF InMemory, Inv
  <2>3. mem'.rows = Append(mem.rows, o)
    BY <1>0, <2>1, <2>2, PutIs DEF Inv
  <2>4. /\ DOMAIN mem'.rows = 1..Len(mem.rows) + 1 /\ mem'.rows[Len(mem.rows) + 1] = o
        /\ \A i \in 1..Len(mem.rows) : mem'.rows[i] = mem.rows[i]
        /\ Len(mem.rows) \in Nat
    BY <1>0, <2>3, Rows DEF Inv
  <2>5. ASSUME NEW q \in tab, q.idempotencyKey = o.idempotencyKey
        PROVE  o.idempotencyKey = None
    <3>1. PICK i \in 1..Len(mem.rows) : mem.rows[i] = q
      BY Rows DEF Inv, RowsInv
    <3>2. i \in DOMAIN mem'.rows /\ Len(mem.rows) + 1 \in DOMAIN mem'.rows /\ i # Len(mem.rows) + 1
      BY <2>4
    <3>3. o.idempotencyKey \notin Keys \cup {Blank}
      BY <2>1, <2>4, <2>5, <3>1, <3>2 DEF KeysApart, Shared
    <3> QED
      BY <3>3 DEF OrderRow
  <2> QED
    BY <1>0, <1>2, <1>3, <2>5 DEF Careful
<1> QED
  BY <1>0, <1>1, <1>4, CreateInv

LEMMA OrdersInv ==
  ASSUME Inv, kind = "orders", CreateOrder \/ UpdateOrder, KeysApart'
  PROVE  Inv'
<1>0. /\ Row[kind] = OrderRow /\ Indexed[kind] = {"outTradeNo", "idempotencyKey"}
      /\ tab \subseteq OrderRow /\ kind \notin Turns
  BY DEF Row, Indexed, Turns, Inv, TypeInv
<1>1. CASE CreateOrder
  BY <1>1, CreateOrderInv
<1>2. CASE UpdateOrder
  <2>1. PICK o \in tab, new \in OrderRow :
          /\ new.id = o.id /\ Replace(o, new)
          /\ new["outTradeNo"] = o["outTradeNo"]
          /\ new["idempotencyKey"] = o["idempotencyKey"]
    <3>1. PICK o \in tab, s \in {"PAID", "FULFILLED", "REFUNDED", "EXPIRED"} :
            Replace(o, [o EXCEPT !.status = s, !.paidAt = IF s = "PAID" THEN 1 ELSE @])
      BY <1>2 DEF UpdateOrder
    <3> DEFINE a == [o EXCEPT !.status = s, !.paidAt = IF s = "PAID" THEN 1 ELSE @]
    <3>2. /\ a \in OrderRow /\ a.id = o.id /\ a["outTradeNo"] = o["outTradeNo"]
          /\ a["idempotencyKey"] = o["idempotencyKey"]
      BY <1>0 DEF OrderRow
    <3> HIDE DEF a
    <3> QED
      BY <3>1, <3>2 DEF a
  <2> QED
    BY <1>0, <2>1, UpdateInv
<1> QED
  BY <1>1, <1>2

LEMMA UsersInv ==
  ASSUME Inv, kind = "users", CreateUser \/ RotateUserKey
  PROVE  Inv'
<1>0. /\ Row[kind] = UserRow /\ tab \subseteq UserRow
      /\ UniqueColumns[kind] \ Checked[kind] = {"id", "apiKey"} /\ kind \notin Turns
  BY DEF Row, UniqueColumns, Checked, Turns, Inv, TypeInv
<1>1. CASE CreateUser
  <2>1. PICK id \in Ids, email \in DOMAIN Lower, k \in Keys :
          /\ Fresh(id) /\ Unused(k)
          /\ Insert([id |-> id, email |-> Lower[email], apiKey |-> k])
    BY <1>1 DEF CreateUser
  <2> DEFINE u == [id |-> id, email |-> Lower[email], apiKey |-> k]
  <2>2. u \in UserRow
    BY StoresAssumption DEF UserRow
  <2>3. \A q \in tab : q["id"] # u["id"] /\ q["apiKey"] # u["apiKey"]
    BY <1>0, <2>1, FreshId DEF Unused, UserRow
  <2>4. Careful(u)
    BY <1>0, <2>3 DEF Careful
  <2> QED
    BY <1>0, <2>1, <2>2, <2>4, CreateInv
<1>2. CASE RotateUserKey
  BY <1>2, RotateInv
<1> QED
  BY <1>1, <1>2

LEMMA MerchantsInv ==
  ASSUME Inv, kind = "merchants", CreateMerchant \/ UpdateMerchant
  PROVE  Inv'
<1>0. /\ Row[kind] = MerchantRow /\ Indexed[kind] = {} /\ tab \subseteq MerchantRow
      /\ UniqueColumns[kind] \ Checked[kind] = {"apiKey"}
  BY DEF Row, Indexed, UniqueColumns, Checked, Inv, TypeInv
<1>1. CASE CreateMerchant
  <2>1. PICK m \in MerchantRow : /\ m.apiKeyPrevious = None /\ Unused(m.apiKey)
                                /\ InTurn(tab, m) /\ Insert(m)
    BY <1>1 DEF CreateMerchant
  <2>2. \A q \in tab : q["apiKey"] # m["apiKey"] /\ KeysOf(q) \cap KeysOf(m) = {}
    BY <1>0, <2>1 DEF Unused, KeysOf, MerchantRow
  <2>3. Careful(m)
    BY <1>0, <2>2 DEF Careful
  <2>4. InTurn({q \in tab : Together(q, m)}, m)
    BY <2>1 DEF InTurn
  <2> QED
    BY <1>0, <2>1, <2>2, <2>3, <2>4, CreateInv
<1>2. CASE UpdateMerchant
  <2>1. PICK m \in tab :
          \/ \E k \in Keys : /\ Unused(k)
                             /\ Replace(m, [m EXCEPT !.apiKeyPrevious = m.apiKey, !.apiKey = k])
          \/ \E s \in {"active", "suspended"} : Replace(m, [m EXCEPT !.status = s])
    BY <1>2 DEF UpdateMerchant
  <2>2. \A q \in tab \ {m} : KeysOf(q) \cap KeysOf(m) = {}
    BY DEF Inv, KeysInv
  <2>3. PICK new \in MerchantRow :
          /\ new.id = m.id /\ Replace(m, new) /\ new.createdAt = m.createdAt
          /\ \A q \in tab \ {m} : KeysOf(q) \cap KeysOf(new) = {}
    <3>1. ASSUME NEW k \in Keys, Unused(k),
                 Replace(m, [m EXCEPT !.apiKeyPrevious = m.apiKey, !.apiKey = k])
          PROVE  \E new \in MerchantRow :
                   /\ new.id = m.id /\ Replace(m, new) /\ new.createdAt = m.createdAt
                   /\ \A q \in tab \ {m} : KeysOf(q) \cap KeysOf(new) = {}
      <4> DEFINE new == [m EXCEPT !.apiKeyPrevious = m.apiKey, !.apiKey = k]
      <4>1. /\ new \in MerchantRow /\ new.id = m.id /\ new.createdAt = m.createdAt
            /\ new.apiKey = k /\ new.apiKeyPrevious = m.apiKey
        BY <1>0 DEF MerchantRow
      <4>2. KeysOf(new) \subseteq {k} \cup KeysOf(m)
        BY <4>1 DEF KeysOf
      <4>3. \A q \in tab : k \notin KeysOf(q)
        BY <3>1 DEF Unused, KeysOf
      <4>4. \A q \in tab \ {m} : KeysOf(q) \cap KeysOf(new) = {}
        BY <2>2, <4>2, <4>3
      <4>5. Replace(m, new)
        BY <3>1
      <4> HIDE DEF new
      <4> QED
        BY <4>1, <4>4, <4>5
    <3>2. ASSUME NEW s \in {"active", "suspended"}, Replace(m, [m EXCEPT !.status = s])
          PROVE  \E new \in MerchantRow :
                   /\ new.id = m.id /\ Replace(m, new) /\ new.createdAt = m.createdAt
                   /\ \A q \in tab \ {m} : KeysOf(q) \cap KeysOf(new) = {}
      <4> DEFINE new == [m EXCEPT !.status = s]
      <4>1. /\ new \in MerchantRow /\ new.id = m.id /\ KeysOf(new) = KeysOf(m)
            /\ new.createdAt = m.createdAt
        BY <1>0 DEF MerchantRow, KeysOf
      <4>2. Replace(m, new)
        BY <3>2
      <4> HIDE DEF new
      <4> QED
        BY <2>2, <4>1, <4>2
    <3> QED
      BY <2>1, <3>1, <3>2
  <2> QED
    BY <1>0, <2>3, UpdateInv DEF At
<1> QED
  BY <1>1, <1>2

LEMMA RefundsInv ==
  ASSUME Inv, kind = "refunds", CreateRefund \/ UpdateRefund
  PROVE  Inv'
<1>0. /\ Row[kind] = RefundRow /\ Indexed[kind] = {"outRefundNo"} /\ tab \subseteq RefundRow
      /\ UniqueColumns[kind] \ Checked[kind] = {"id"}
  BY DEF Row, Indexed, UniqueColumns, Checked, Inv, TypeInv
<1>1. CASE CreateRefund
  <2>1. PICK r \in RefundRow :
          Fresh(r.id) /\ InTurn({q \in tab : q.orderId = r.orderId}, r) /\ Insert(r)
    BY <1>1 DEF CreateRefund
  <2>2. \A q \in tab : q["id"] # r["id"]
    BY <1>0, <2>1, FreshId DEF RefundRow
  <2>3. Careful(r)
    BY <1>0, <2>2 DEF Careful
  <2>4. InTurn({q \in tab : Together(q, r)}, r)
    BY <2>1 DEF Together
  <2> QED
    BY <1>0, <2>1, <2>3, <2>4, CreateInv
<1>2. CASE UpdateRefund
  <2>1. PICK r \in tab, new \in RefundRow :
          /\ new.id = r.id /\ Replace(r, new) /\ new["outRefundNo"] = r["outRefundNo"]
          /\ new.orderId = r.orderId /\ new.createdAt = r.createdAt
    <3>1. PICK r \in tab, s \in {"SUCCESS", "FAILED"} : Replace(r, [r EXCEPT !.status = s])
      BY <1>2 DEF UpdateRefund
    <3> DEFINE new == [r EXCEPT !.status = s]
    <3>2. /\ new \in RefundRow /\ new.id = r.id /\ new["outRefundNo"] = r["outRefundNo"]
          /\ new.orderId = r.orderId /\ new.createdAt = r.createdAt
      BY <1>0 DEF RefundRow
    <3> QED
      BY <3>1, <3>2
  <2> QED
    BY <1>0, <2>1, UpdateInv DEF At
<1> QED
  BY <1>1, <1>2

LEMMA DepositsInv ==
  ASSUME Inv, kind = "deposits", SaveAddress
  PROVE  Inv'
<1>0. /\ Row[kind] = DepositRow /\ tab \subseteq DepositRow
      /\ UniqueColumns[kind] \ Checked[kind] = {"id"} /\ kind \notin Turns
  BY DEF Row, UniqueColumns, Checked, Turns, Inv, TypeInv
<1>1. PICK r \in DepositRow : Fresh(r.id) /\ Insert(r)
  BY DEF SaveAddress
<1>2. \A q \in tab : q["id"] # r["id"]
  BY <1>0, <1>1, FreshId DEF DepositRow
<1>3. Careful(r)
  BY <1>0, <1>2 DEF Careful
<1> QED
  BY <1>0, <1>1, <1>3, CreateInv

LEMMA JobsInv ==
  ASSUME Inv, kind = "jobs", CreateJob \/ UpdateJob
  PROVE  Inv'
<1>0. /\ Row[kind] = JobRow /\ Indexed[kind] = {"orderId"} /\ tab \subseteq JobRow
      /\ UniqueColumns[kind] \ Checked[kind] = {"id"}
  BY DEF Row, Indexed, UniqueColumns, Checked, Inv, TypeInv
<1>1. CASE CreateJob
  <2>1. PICK r \in JobRow : Fresh(r.id) /\ InTurn(tab, r) /\ Insert(r)
    BY <1>1 DEF CreateJob
  <2>2. \A q \in tab : q["id"] # r["id"]
    BY <1>0, <2>1, FreshId DEF JobRow
  <2>3. Careful(r)
    BY <1>0, <2>2 DEF Careful
  <2>4. InTurn({q \in tab : Together(q, r)}, r)
    BY <2>1 DEF InTurn
  <2> QED
    BY <1>0, <2>1, <2>3, <2>4, CreateInv
<1>2. CASE UpdateJob
  <2>1. PICK r \in tab, new \in JobRow :
          /\ new.id = r.id /\ Replace(r, new) /\ new["orderId"] = r["orderId"]
          /\ new.createdAt = r.createdAt
    <3>1. PICK r \in tab, s \in {"SWEEPING", "SWEPT"}, t \in Times :
            Replace(r, [r EXCEPT !.status = s, !.nextAttemptAt = t])
      BY <1>2 DEF UpdateJob
    <3> DEFINE new == [r EXCEPT !.status = s, !.nextAttemptAt = t]
    <3>2. /\ new \in JobRow /\ new.id = r.id /\ new["orderId"] = r["orderId"]
          /\ new.createdAt = r.createdAt
      BY <1>0 DEF JobRow
    <3> QED
      BY <3>1, <3>2
  <2> QED
    BY <1>0, <2>1, UpdateInv DEF At
<1> QED
  BY <1>1, <1>2

LEMMA NextInv ==
  ASSUME SameKeys, KeysApart => Inv, [Next]_vars
  PROVE  SameKeys' /\ (KeysApart' => Inv')
<1>1. CASE kind = "orders" /\ (CreateOrder \/ UpdateOrder)
  BY <1>1, KeysStay, OrdersInv
<1>2. CASE kind # "orders" /\ Next
  <2>1. Inv
    BY <1>2 DEF KeysApart, Shared
  <2>2. Inv'
    BY <1>2, <2>1, UsersInv, MerchantsInv, RefundsInv, DepositsInv, JobsInv, RecordInv DEF Next
  <2>3. kind' = kind
    BY <1>2 DEF Next, CreateUser, RotateUserKey, CreateMerchant, UpdateMerchant, CreateRefund,
                UpdateRefund, SaveAddress, CreateJob, UpdateJob, Record, Insert, Replace, Both
  <2> QED
    BY <1>2, <2>2, <2>3 DEF SameKeys
<1>3. CASE UNCHANGED vars
  BY <1>3 DEF vars, Inv, TypeInv, IdsInv, RowsInv, IndexInv, KeysInv, AuditInv, TurnsInv,
              Together, At, Agreed, SameKeys, KeysApart, Shared
<1> QED
  BY <1>1, <1>2, <1>3 DEF Next

\* Both backends stay in step, the memory store's index Maps included, until an order comes
\* to have another one's key.
THEOREM InductiveInv == Spec => [](KeysApart => Inv)
<1>1. Init => SameKeys /\ (KeysApart => Inv)
  BY InitInv
<1>2. SameKeys /\ (KeysApart => Inv) /\ [Next]_vars
        => (SameKeys /\ (KeysApart => Inv))'
  BY NextInv
<1> QED
  BY <1>1, <1>2, PTL DEF Spec

-----------------------------------------------------------------------------
(* Outcomes *)

\* A write that throws on one backend throws on the other: what create looks up, with what
\* its callers take care of, is what the constraints of schema.sql enforce.  The one write
\* on which they differ is the order the memory store takes with the idempotency key, or
\* the blank one, of another.
THEOREM SameOutcomes == Spec => []SameOutcome
<1>1. (KeysApart => Inv) => SameOutcome
  BY DEF Inv, Agreed, SameOutcome
<1> QED
  BY <1>1, InductiveInv, PTL

-----------------------------------------------------------------------------
(* Finders *)

LEMMA FindIs ==
  ASSUME Inv, NEW c \in Indexed[kind], NEW v, v \notin Falsy
  PROVE  SqlFirst({r \in tab : r[c] = v}) = {MemFind(c, v)}
<1>0. /\ kind # "audit"
      /\ \A q, r \in tab : q[c] = r[c] /\ r[c] # None => q = r
      /\ DOMAIN mem.index[c] = {r[c] : r \in tab} \ Falsy
      /\ \A r \in tab : r[c] \notin Falsy => mem.index[c][r[c]] = r.id
      /\ v # None
  BY DEF Inv, IndexInv, Indexed, Falsy
<1>1. ASSUME NEW r \in tab, r[c] = v  PROVE SqlFirst({q \in tab : q[c] = v}) = {MemFind(c, v)}
  <2>1. MemFind(c, v) = r
    <3>1. v \in DOMAIN mem.index[c] /\ mem.index[c][v] = r.id
      BY <1>0, <1>1
    <3>2. MemById(r.id) = r
      BY <1>0, <1>1, ByIdIs DEF Inv
    <3> QED
      BY <3>1, <3>2 DEF MemFind
  <2>2. {q \in tab : q[c] = v} = {r}
    BY <1>0, <1>1
  <2> QED
    BY <2>1, <2>2 DEF SqlFirst
<1>2. ASSUME \A r \in tab : r[c] # v
      PROVE  SqlFirst({q \in tab : q[c] = v}) = {MemFind(c, v)}
  <2>1. {q \in tab : q[c] = v} = {}
    BY <1>2
  <2>2. v \notin DOMAIN mem.index[c]
    BY <1>0, <1>2
  <2> QED
    BY <2>1, <2>2 DEF SqlFirst, MemFind
<1> QED
  BY <1>1, <1>2

LEMMA ByIdAgrees ==
  ASSUME Inv, kind # "audit", NEW id
  PROVE  SqlFirst({r \in tab : r.id = id}) = {MemById(id)}
<1>1. ASSUME NEW r \in tab, r.id = id  PROVE SqlFirst({q \in tab : q.id = id}) = {MemById(id)}
  <2>1. MemById(id) = r
    BY <1>1, ByIdIs DEF Inv
  <2>2. {q \in tab : q.id = id} = {r}
    BY <1>1 DEF Inv, IdsInv
  <2> QED
    BY <2>1, <2>2 DEF SqlFirst
<1>2. ASSUME \A r \in tab : r.id # id  PROVE SqlFirst({q \in tab : q.id = id}) = {MemById(id)}
  <2>1. {q \in tab : q.id = id} = {}
    BY <1>2
  <2>2. MemById(id) = None
    BY <1>2, ByIdIs DEF Inv
  <2> QED
    BY <2>1, <2>2 DEF SqlFirst
<1> QED
  BY <1>1, <1>2

\* The scan of the merchants stops at the one that has the key.
LEMMA ByKeyAgrees ==
  ASSUME Inv, kind = "merchants", NEW k \in Keys
  PROVE  SqlFirst({m \in tab : k \in {m.apiKey, m.apiKeyPrevious}}) = {MemMerchantByKey(k)}
<1> DEFINE I == {i \in 1..Len(mem.rows) : k \in {mem.rows[i].apiKey, mem.rows[i].apiKeyPrevious}}
           slot == SelectInSeq(mem.rows, LAMBDA m : k \in {m.apiKey, m.apiKeyPrevious})
<1>0. k # None /\ Len(mem.rows) \in Nat /\ tab = {mem.rows[i] : i \in 1..Len(mem.rows)}
  BY StoresAssumption, Rows DEF Inv, RowsInv
<1>1. slot = IF I # {} THEN Min(I) ELSE 0
  BY DEF SelectInSeq
<1>2. MemMerchantByKey(k) = IF slot = 0 THEN None ELSE mem.rows[slot]
  BY DEF MemMerchantByKey
<1>3. CASE I = {}
  <2>1. {m \in tab : k \in {m.apiKey, m.apiKeyPrevious}} = {}
    BY <1>0, <1>3
  <2>2. slot = 0
    BY <1>1, <1>3
  <2> QED
    BY <1>2, <2>1, <2>2 DEF SqlFirst
<1>4. ASSUME NEW i \in I
      PROVE  SqlFirst({m \in tab : k \in {m.apiKey, m.apiKeyPrevious}}) = {MemMerchantByKey(k)}
  <2>1. \A m \in tab : k \in {m.apiKey, m.apiKeyPrevious} => k \in KeysOf(m)
    BY <1>0 DEF KeysOf
  <2>2. \A m \in tab : k \in {m.apiKey, m.apiKeyPrevious} => m = mem.rows[i]
    BY <1>0, <1>4, <2>1 DEF Inv, KeysInv
  <2>3. {m \in tab : k \in {m.apiKey, m.apiKeyPrevious}} = {mem.rows[i]}
    BY <1>0, <1>4, <2>2
  <2>4. I = {i}
    <3>1. \A j \in I : mem.rows[j] = mem.rows[i]
      BY <1>0, <2>2
    <3> QED
      BY <1>4, <3>1 DEF Inv, IdsInv
  <2>5. slot = i /\ i # 0
    <3>1. Min({i}) = i
      BY <1>0, <1>4 DEF Min
    <3>2. i # 0
      BY <1>0, <1>4
    <3> HIDE DEF I, slot
    <3> QED
      BY <1>1, <2>4, <3>1, <3>2
  <2> QED
    BY <1>2, <2>3, <2>5 DEF SqlFirst
<1> QED
  BY <1>3, <1>4

LEMMA FindersInv == Inv => FindersAgree
<1> SUFFICES ASSUME Inv  PROVE FindersAgree
  OBVIOUS
<1>1. \A c \in Indexed[kind], v \in Names \cup Keys :
        SqlFirst({r \in tab : r[c] = v}) = {MemFind(c, v)}
  BY FindIs, StoresAssumption DEF Falsy
<1>2. kind \notin {"deposits", "audit"} =>
        \A id \in Ids : SqlFirst({r \in tab : r.id = id}) = {MemById(id)}
  BY ByIdAgrees
<1>3. kind = "merchants" =>
        \A k \in Keys : SqlFirst({m \in tab : k \in {m.apiKey, m.apiKeyPrevious}})
                          = {MemMerchantByKey(k)}
  BY ByKeyAgrees
<1> QED
  BY <1>1, <1>2, <1>3 DEF FindersAgree

\* Every finder answers alike: an index Map that update and create keep by hand leads where
\* the table's indexes lead, so a rotated key stops resolving on both backends.
THEOREM Finders == Spec => []FindersAgree
<1>1. (KeysApart => Inv) => FindersAgree
  BY FindersInv DEF FindersAgree
<1> QED
  BY <1>1, InductiveInv, PTL

-----------------------------------------------------------------------------
(* Reports *)

LEMMA OrderFacts ==
  ASSUME Inv, kind = "orders"
  PROVE  /\ IsFiniteSet(tab) /\ tab \subseteq OrderRow /\ ToSet(mem.rows) = tab
         /\ \A o \in tab : /\ o.id \in Ids /\ o.createdAt \in Nat /\ o.method \in DOMAIN Currency
                           /\ o["merchantId"] = o.merchantId /\ o["status"] = o.status
                           /\ o["method"] = o.method
<1>1. IsFiniteSet(tab) /\ tab \subseteq OrderRow /\ ToSet(mem.rows) = tab
  BY DEF Inv, TypeInv, RowsInv, Row
<1>2. \A o \in OrderRow :
        /\ o.id \in Ids /\ o.createdAt \in Times /\ o.method \in DOMAIN Currency
        /\ o["merchantId"] = o.merchantId /\ o["status"] = o.status /\ o["method"] = o.method
  BY DEF OrderRow
<1> QED
  BY <1>1, <1>2, StoresAssumption

\* The two ways to ask for [from, to) are one.
LEMMA WithinIs ==
  ASSUME NEW t \in Nat, NEW f, f.from \in {None} \cup Nat, f.to \in {None} \cup Nat
  PROVE  ~MemOutside(t, f) <=> SqlWithin(t, f)
<1>1. f.from = None \/ (f.from \in Nat /\ (~(t < f.from) <=> t >= f.from))
  OBVIOUS
<1>2. f.to = None \/ (f.to \in Nat /\ (~(t >= f.to) <=> t < f.to))
  OBVIOUS
<1> QED
  BY <1>1, <1>2 DEF MemOutside, SqlWithin

\* The early returns of the memory store are the WHERE clause of the SQL one.
LEMMA WhereIs ==
  ASSUME Inv, kind = "orders", NEW f \in Filter
  PROVE  /\ {o \in ToSet(mem.rows) : MemMatches(o, f)} = SqlWhere(f)
         /\ {o \in tab : MemMatches(o, f)} = SqlWhere(f)
<1>1. f.from \in {None} \cup Nat /\ f.to \in {None} \cup Nat
  BY StoresAssumption DEF Filter
<1>2. ASSUME NEW o \in tab
      PROVE  MemMatches(o, f) <=>
               /\ \A c \in {"merchantId", "status", "method"} : f[c] \in {None, o[c]}
               /\ SqlWithin(o.createdAt, f)
  <2>1. o.createdAt \in Nat
    BY OrderFacts
  <2>2. ~MemOutside(o.createdAt, f) <=> SqlWithin(o.createdAt, f)
    BY <1>1, <2>1, WithinIs
  <2>4. /\ f["merchantId"] = f.merchantId /\ f["status"] = f.status /\ f["method"] = f.method
        /\ o["merchantId"] = o.merchantId /\ o["status"] = o.status /\ o["method"] = o.method
    BY OrderFacts DEF Filter
  <2> QED
    BY <2>2, <2>4 DEF MemMatches
<1>3. {o \in tab : MemMatches(o, f)} = SqlWhere(f)
  BY <1>2 DEF SqlWhere
<1> QED
  BY <1>3, OrderFacts

\* The groups by method of some orders, added up over some methods.
Methods(P) == {o.method : o \in P}
AddUp(P, T) ==
  /\ SumFunctionOnSet([m \in Methods(P) |-> Cardinality({o \in P : o.method = m})], T)
       = Cardinality({o \in P : o.method \in T})
  /\ SumFunctionOnSet([m \in Methods(P) |-> Gross({o \in P : o.method = m})], T)
       = Gross({o \in P : o.method \in T})

LEMMA GroupsAddUp ==
  ASSUME NEW P, IsFiniteSet(P), P \subseteq OrderRow, NEW T, T \subseteq Methods(P)
  PROVE  AddUp(P, T)
<1> DEFINE D == {o.method : o \in P}
<1> D = Methods(P) /\ T \in SUBSET D
  BY DEF Methods
<1> DEFINE group == [m \in D |-> {o \in P : o.method = m}]
           amount == [o \in P |-> amountOf[o.id]]
           count == [R \in SUBSET P |-> Cardinality(R)]
           gross == [R \in SUBSET P |-> SumFunctionOnSet(amount, R)]
<1>1. IsFiniteSet(D)
  <2> DEFINE methodOf == [o \in P |-> o.method]
  <2>1. methodOf \in Surjection(P, D)
    BY DEF Surjection
  <2> QED
    BY <2>1, FS_Surjection
<1>2. Groups(group, D, P)
  BY DEF Groups
<1>3. UNION {group[m] : m \in T} = {o \in P : o.method \in T}
  <2>1. \A m \in T : group[m] = {o \in P : o.method = m}
    OBVIOUS
  <2> HIDE DEF group
  <2> QED
    BY <2>1
<1>4. \A R \in SUBSET P : IsFiniteSet(R) /\ Cardinality(R) \in Int
  BY FS_Subset, FS_CardinalityType
<1>5. \A o \in P : amountOf[o.id] \in Int
  BY StoresAssumption DEF OrderRow
<1>6. amount \in [P -> Int]
  BY <1>5
<1>7. ASSUME NEW R \in SUBSET P
      PROVE  Gross(R) = SumFunctionOnSet(amount, R) /\ SumFunctionOnSet(amount, R) \in Int
  <2> DEFINE g == [o \in R |-> amountOf[o.id]]
  <2>1. g \in [R -> Int] /\ \A o \in R : amount[o] = g[o]
    BY <1>5
  <2>2. SumFunctionOnSet(amount, R) \in Int
    BY <1>6, SumRemove
  <2> HIDE DEF amount, g
  <2>3. SumFunctionOnSet(amount, R) = SumFunctionOnSet(g, R)
    BY <1>4, <1>6, <2>1, SumRestrict
  <2> QED
    BY <2>2, <2>3 DEF Gross, g
<1>8. Additive(count, P)
  <2>1. count[{}] = 0
    BY FS_EmptySet
  <2>2. ASSUME NEW A \in SUBSET P, NEW B \in SUBSET P, A \cap B = {}
        PROVE  count[A \cup B] = count[A] + count[B]
    <3>1. Cardinality(A \cup B) = Cardinality(A) + Cardinality(B) - Cardinality({})
      BY <1>4, <2>2, FS_Union
    <3> QED
      BY <1>4, <3>1, FS_EmptySet
  <2> QED
    BY <1>4, <2>1, <2>2 DEF Additive
<1>9. Additive(gross, P)
  <2> HIDE DEF amount
  <2>1. gross[{}] = 0
    BY SumUnfold
  <2>2. ASSUME NEW A \in SUBSET P, NEW B \in SUBSET P, A \cap B = {}
        PROVE  gross[A \cup B] = gross[A] + gross[B]
    BY <1>6, <2>2, SumUnion
  <2> QED
    BY <1>7, <2>1, <2>2 DEF Additive
<1>10. SumFunctionOnSet([m \in D |-> Cardinality({o \in P : o.method = m})], T)
         = Cardinality({o \in P : o.method \in T})
  <2> DEFINE c == [m \in D |-> Cardinality({o \in P : o.method = m})]
  <2>1. c \in [D -> Int] /\ \A m \in D : c[m] = count[group[m]]
    BY <1>4
  <2>2. count[{o \in P : o.method \in T}] = Cardinality({o \in P : o.method \in T})
    OBVIOUS
  <2> HIDE DEF c, count, group, D
  <2>3. SumFunctionOnSet(c, T) = count[UNION {group[m] : m \in T}]
    BY <1>1, <1>2, <1>8, <2>1, SumGroups
  <2> QED
    BY <1>3, <2>2, <2>3 DEF c
<1>11. SumFunctionOnSet([m \in D |-> Gross({o \in P : o.method = m})], T)
         = Gross({o \in P : o.method \in T})
  <2> DEFINE c == [m \in D |-> Gross({o \in P : o.method = m})]
  <2> HIDE DEF amount
  <2>1. c \in [D -> Int] /\ \A m \in D : c[m] = gross[group[m]]
    BY <1>7
  <2>2. gross[{o \in P : o.method \in T}] = Gross({o \in P : o.method \in T})
    BY <1>7
  <2> HIDE DEF c, gross, count, group, D
  <2>3. SumFunctionOnSet(c, T) = gross[UNION {group[m] : m \in T}]
    BY <1>1, <1>2, <1>9, <2>1, SumGroups
  <2> QED
    BY <1>3, <2>2, <2>3 DEF c
<1> QED
  BY <1>10, <1>11 DEF AddUp, Methods

LEMMA SameSummary ==
  ASSUME Inv, kind = "orders", NEW f \in Filter, f.merchantId = None
  PROVE  summary(f) = orderSummary(f)
<1> DEFINE P == {o \in SqlWhere(f) : o.paidAt # None /\ o.status \in PaidStatuses}
           D == {o.method : o \in P}
           Of(c) == {m \in D : Currency[m] = c}
           paid == SqlSummarize(f).paid
<1>1. paid = [m \in D |-> Group({o \in P : o.method = m})]
  BY DEF SqlSummarize, Tally
<1>2. [f EXCEPT !.merchantId = None] = f
  BY DEF Filter
<1>3. {o \in tab : isPaid(o) /\ MemMatches(o, f)} = P
  <2>1. {o \in tab : MemMatches(o, f)} = SqlWhere(f)
    BY WhereIs
  <2> QED
    BY <2>1 DEF isPaid
<1>4. IsFiniteSet(P) /\ P \subseteq OrderRow
  <2>1. P \subseteq tab
    BY DEF SqlWhere
  <2> QED
    BY <2>1, OrderFacts, FS_Subset
<1> HIDE DEF P
<1>5. summary(f) = [v \in {Currency[o.method] : o \in P} |->
                      Group({o \in P : Currency[o.method] = v})]
  BY <1>2, <1>3 DEF summary, Tally
<1>6. {Currency[m] : m \in D} = {Currency[o.method] : o \in P}
  OBVIOUS
<1>7. DOMAIN paid = D
  BY <1>1
<1>8. orderSummary(f) =
        [c \in {Currency[m] : m \in D} |->
           [paidCount |-> SumFunctionOnSet([m \in D |-> paid[m].paidCount], Of(c)),
            grossMinor |-> SumFunctionOnSet([m \in D |-> paid[m].grossMinor], Of(c))]]
  BY <1>7 DEF orderSummary
<1>9. ASSUME NEW c
      PROVE  [paidCount |-> SumFunctionOnSet([m \in D |-> paid[m].paidCount], Of(c)),
              grossMinor |-> SumFunctionOnSet([m \in D |-> paid[m].grossMinor], Of(c))]
                = Group({o \in P : Currency[o.method] = c})
  <2>1. PICK R : R = {o \in P : Currency[o.method] = c} /\ R = {o \in P : o.method \in Of(c)}
    OBVIOUS
  <2>2. /\ [m \in D |-> paid[m].paidCount] = [m \in D |-> Cardinality({o \in P : o.method = m})]
        /\ [m \in D |-> paid[m].grossMinor] = [m \in D |-> Gross({o \in P : o.method = m})]
    BY <1>1 DEF Group
  <2>3. AddUp(P, Of(c))
    <3>1. Of(c) \subseteq Methods(P)
      BY DEF Methods
    <3> QED
      BY <1>4, <3>1, GroupsAddUp
  <2>4. PICK x, y : /\ x = SumFunctionOnSet([m \in D |-> paid[m].paidCount], Of(c))
                    /\ y = SumFunctionOnSet([m \in D |-> paid[m].grossMinor], Of(c))
    OBVIOUS
  <2>5. D = Methods(P)
    BY DEF Methods
  <2>6. x = Cardinality(R) /\ y = Gross(R)
    <3> HIDE DEF D, Of, paid
    <3> QED
      BY <2>1, <2>2, <2>3, <2>4, <2>5 DEF AddUp
  <2>7. [paidCount |-> x, grossMinor |-> y] = Group(R)
    BY <2>6 DEF Group
  <2> HIDE DEF D, Of, paid
  <2> QED
    BY <2>1, <2>4, <2>7
<1>10. orderSummary(f) = [c \in {Currency[m] : m \in D} |->
                            Group({o \in P : Currency[o.method] = c})]
  <2> HIDE DEF D, Of, paid
  <2> QED
    BY <1>8, <1>9
<1> QED
  BY <1>5, <1>6, <1>10

LEMMA ReportsInv == Inv => ReportsAgree
<1> SUFFICES ASSUME Inv, kind = "orders", NEW f \in Filter
             PROVE  /\ MemSummarize(f) = SqlSummarize(f)
                    /\ f.merchantId = None => summary(f) = orderSummary(f)
  BY DEF ReportsAgree
<1>1. {o \in ToSet(mem.rows) : MemMatches(o, f)} = SqlWhere(f)
  BY WhereIs
<1>2. MemSummarize(f) = SqlSummarize(f)
  BY <1>1 DEF MemSummarize, SqlSummarize
<1> QED
  BY <1>2, SameSummary

\* The memory store's fold and the SQL GROUP BY report the same totals, and the report that
\* loads every order adds up what the grouped one does, for every filter and any amounts.
THEOREM Reports == Spec => []ReportsAgree
<1>1. (KeysApart => Inv) => ReportsAgree
  BY ReportsInv DEF ReportsAgree
<1> QED
  BY <1>1, InductiveInv, PTL

-----------------------------------------------------------------------------
(* Sorting *)

Linear(order, S) ==
  /\ \A x \in S : <<x, x>> \in order
  /\ \A x, y \in S : <<x, y>> \in order \/ <<y, x>> \in order
  /\ \A x, y \in S : <<x, y>> \in order /\ <<y, x>> \in order => x = y
  /\ \A x, y, z \in S : <<x, y>> \in order /\ <<y, z>> \in order => <<x, z>> \in order

LEMMA RankIs ==
  ASSUME NEW S, IsFiniteSet(S), NEW order, Linear(order, S)
  PROVE  /\ \A x \in S : Rank(S, order, x) \in 1..Cardinality(S)
         /\ \A x, y \in S : <<x, y>> \in order /\ x # y
                              => Rank(S, order, x) < Rank(S, order, y)
<1> DEFINE Below(x) == {y \in S : <<y, x>> \in order}
<1>1. ASSUME NEW x \in S
      PROVE  /\ IsFiniteSet(Below(x)) /\ Cardinality(Below(x)) \in Nat
             /\ Cardinality(Below(x)) <= Cardinality(S) /\ Cardinality(Below(x)) # 0
  <2>1. IsFiniteSet(Below(x)) /\ Cardinality(Below(x)) <= Cardinality(S)
    BY FS_Subset
  <2>2. x \in Below(x)
    BY DEF Linear
  <2> HIDE DEF Below
  <2> QED
    BY <2>1, <2>2, FS_CardinalityType, FS_EmptySet
<1>2. ASSUME NEW x \in S, NEW y \in S, <<x, y>> \in order, x # y
      PROVE  Cardinality(Below(x)) < Cardinality(Below(y))
  <2>1. Below(x) \in SUBSET Below(y)
    BY <1>2 DEF Linear
  <2>2. y \in Below(y) /\ y \notin Below(x)
    BY <1>2 DEF Linear
  <2> HIDE DEF Below
  <2>3. Cardinality(Below(x)) <= Cardinality(Below(y))
    BY <1>1, <2>1, FS_Subset
  <2>4. Cardinality(Below(y)) # Cardinality(Below(x))
    BY <1>1, <2>1, <2>2, FS_Subset
  <2> QED
    BY <1>1, <2>3, <2>4
<1>3. \A x \in S : Rank(S, order, x) = Cardinality(Below(x))
  BY DEF Rank
<1>4. Cardinality(S) \in Nat
  BY FS_CardinalityType
<1> HIDE DEF Below
<1> QED
  BY <1>1, <1>2, <1>3, <1>4

\* Every element has a place, and the places follow the order.
LEMMA ArrangedIs ==
  ASSUME NEW S, IsFiniteSet(S), NEW order, Linear(order, S)
  PROVE  /\ Cardinality(S) \in Nat /\ Arranged(S, order) \in [1..Cardinality(S) -> S]
         /\ \A x \in S : \E k \in 1..Cardinality(S) : Arranged(S, order)[k] = x
         /\ \A j, k \in 1..Cardinality(S) : j < k =>
              /\ Arranged(S, order)[j] # Arranged(S, order)[k]
              /\ <<Arranged(S, order)[j], Arranged(S, order)[k]>> \in order
<1> DEFINE n == Cardinality(S)
           rank == [x \in S |-> Rank(S, order, x)]
           A == Arranged(S, order)
<1>0. n \in Nat
  BY FS_CardinalityType
<1>1. /\ rank \in [S -> 1..n]
      /\ \A x, y \in S : <<x, y>> \in order /\ x # y => rank[x] < rank[y]
  BY RankIs
<1>2. \A x, y \in S : rank[x] = rank[y] => x = y
  <2> SUFFICES ASSUME NEW x \in S, NEW y \in S, rank[x] = rank[y], x # y  PROVE FALSE
    OBVIOUS
  <2> HIDE DEF rank, n
  <2>1. rank[x] \in Int /\ rank[y] \in Int
    BY <1>0, <1>1
  <2>2. <<x, y>> \in order \/ <<y, x>> \in order
    BY DEF Linear
  <2>3. rank[x] < rank[y] \/ rank[y] < rank[x]
    BY <1>1, <2>2
  <2> QED
    BY <2>1, <2>3
<1>3. \A k \in 1..n : \E x \in S : rank[x] = k
  <2> DEFINE T == {rank[x] : x \in S}
  <2>1. rank \in Bijection(S, T)
    <3> HIDE DEF rank
    <3> QED
      BY <1>1, <1>2 DEF Bijection, Injection, Surjection, IsInjective
  <2>2. IsFiniteSet(T) /\ Cardinality(T) = n
    BY <2>1, FS_Bijection DEF ExistsBijection
  <2>3. T \in SUBSET (1..n)
    BY <1>1
  <2>4. IsFiniteSet(1..n) /\ Cardinality(1..n) = n
    BY <1>0, FS_Interval
  <2>5. T = 1..n
    <3> HIDE DEF T, n
    <3> QED
      BY <2>2, <2>3, <2>4, FS_Subset
  <2> QED
    BY <2>5
<1>4. \A k \in 1..n : A[k] \in S /\ rank[A[k]] = k
  <2> SUFFICES ASSUME NEW k \in 1..n  PROVE A[k] \in S /\ rank[A[k]] = k
    OBVIOUS
  <2>1. A[k] = CHOOSE x \in S : Rank(S, order, x) = k
    BY DEF Arranged
  <2>2. \E x \in S : Rank(S, order, x) = k
    BY <1>3
  <2>3. A[k] \in S /\ Rank(S, order, A[k]) = k
    BY <2>1, <2>2
  <2> QED
    BY <2>3
<1>5. A \in [1..n -> S]
  BY <1>4 DEF Arranged
<1> HIDE DEF A, n, rank
<1>6. \A x \in S : \E k \in 1..n : A[k] = x
  BY <1>1, <1>2, <1>4
<1>7. ASSUME NEW j \in 1..n, NEW k \in 1..n, j < k  PROVE A[j] # A[k] /\ <<A[j], A[k]>> \in order
  <2>1. A[j] # A[k]
    BY <1>4, <1>7
  <2>2. CASE <<A[k], A[j]>> \in order
    BY <1>0, <1>1, <1>4, <1>7, <2>1, <2>2
  <2>3. <<A[j], A[k]>> \in order \/ <<A[k], A[j]>> \in order
    BY <1>4 DEF Linear
  <2> QED
    BY <2>1, <2>2, <2>3
<1> QED
  BY <1>0, <1>5, <1>6, <1>7 DEF A, n

\* The rows at some positions, each once, in the order of their positions.
RowsAt(P) == {mem.rows[i] : i \in P}
Follows(q, P, order) ==
  \A j, k \in 1..Len(q) : j < k =>
    \E a, b \in P : q[j] = mem.rows[a] /\ q[k] = mem.rows[b] /\ <<a, b>> \in order

LEMMA SortedIs ==
  ASSUME TypeInv, IdsInv, NEW P, P \subseteq 1..Len(mem.rows), NEW order, Linear(order, P)
  PROVE  /\ IsFiniteSet(RowsAt(P)) /\ Cardinality(RowsAt(P)) \in Nat
         /\ Len(Sorted(P, order)) = Cardinality(RowsAt(P))
         /\ Cardinality(RowsAt(P)) = Cardinality(P)
         /\ Sorted(P, order) \in SetToSeqs(RowsAt(P))
         /\ Follows(Sorted(P, order), P, order)
<1> DEFINE n == Cardinality(P)
           A == Arranged(P, order)
           q == Sorted(P, order)
           rowAt == [i \in P |-> mem.rows[i]]
           R == {mem.rows[i] : i \in P}
<1>0. \A i, j \in P : mem.rows[i] = mem.rows[j] => i = j
  BY DEF IdsInv
<1>1. IsFiniteSet(P)
  <2>1. Len(mem.rows) \in Nat /\ IsFiniteSet(1..Len(mem.rows))
    BY Rows, FS_Interval
  <2> QED
    BY <2>1, FS_Subset
<1>2. /\ n \in Nat /\ A \in [1..n -> P]
      /\ \A x \in P : \E k \in 1..n : A[k] = x
      /\ \A j, k \in 1..n : j < k => A[j] # A[k] /\ <<A[j], A[k]>> \in order
  BY <1>1, ArrangedIs
<1> HIDE DEF A
<1>3. q = [k \in 1..n |-> mem.rows[A[k]]]
  BY DEF Sorted, A
<1>4. IsFiniteSet(R) /\ Cardinality(R) = n
  <2>1. rowAt \in Bijection(P, R)
    BY <1>0 DEF Bijection, Injection, Surjection, IsInjective
  <2> QED
    BY <1>1, <2>1, FS_Bijection DEF ExistsBijection
<1> HIDE DEF n, q
<1>5. Len(q) = n
  BY <1>2, <1>3
<1>6. \A j, k \in 1..n : j # k => q[j] # q[k]
  <2> SUFFICES ASSUME NEW j \in 1..n, NEW k \in 1..n, j # k  PROVE q[j] # q[k]
    OBVIOUS
  <2>1. j < k \/ k < j
    BY <1>2
  <2>2. A[j] # A[k] /\ A[j] \in P /\ A[k] \in P
    BY <1>2, <2>1
  <2> QED
    BY <1>0, <1>3, <2>2
<1>7. q \in [1..n -> R]
  BY <1>2, <1>3
<1>8. q \in SetToSeqs(R)
  BY <1>4, <1>6, <1>7 DEF SetToSeqs
<1>9. \A j, k \in 1..n : j < k =>
        \E a, b \in P : q[j] = mem.rows[a] /\ q[k] = mem.rows[b] /\ <<a, b>> \in order
  BY <1>2, <1>3
<1>10. /\ IsFiniteSet(R) /\ Len(q) = Cardinality(R) /\ Cardinality(R) \in Nat
       /\ Cardinality(R) = n /\ q \in SetToSeqs(R)
  BY <1>2, <1>4, <1>5, <1>8
<1>11. \A j, k \in 1..Len(q) : j < k =>
         \E a, b \in P : q[j] = mem.rows[a] /\ q[k] = mem.rows[b] /\ <<a, b>> \in order
  BY ONLY <1>5, <1>9, Zenon
<1> QED
  BY <1>10, <1>11, Zenon DEF q, n, RowsAt, Follows

\* A stable sort by time, oldest first, answers what ORDER BY may.
LEMMA OldestIs ==
  ASSUME TypeInv, IdsInv, NEW P, P \subseteq 1..Len(mem.rows), \A i \in P : Time(i) \in Nat
  PROVE  OldestFirst(P) \in SqlOldestFirst(RowsAt(P))
<1> DEFINE order == {p \in P \X P : /\ Time(p[1]) <= Time(p[2])
                                    /\ Time(p[1]) = Time(p[2]) => p[1] <= p[2]}
           q == Sorted(P, order)
<1>1. \A a, b \in P : <<a, b>> \in order <=> /\ Time(a) <= Time(b)
                                             /\ Time(a) = Time(b) => a <= b
  OBVIOUS
<1>2. \A a \in P : a \in Int /\ Time(a) \in Int
  BY Rows
<1>3. OldestFirst(P) = q
  BY DEF OldestFirst
<1> HIDE DEF order
<1>4. Linear(order, P)
  BY <1>1, <1>2 DEF Linear
<1>5. q \in SetToSeqs(RowsAt(P)) /\ Follows(q, P, order)
  BY <1>4, SortedIs
<1>6. \A j, k \in 1..Len(q) : j < k => At(q[j]) <= At(q[k])
  <2> SUFFICES ASSUME NEW j \in 1..Len(q), NEW k \in 1..Len(q), j < k
               PROVE  At(q[j]) <= At(q[k])
    OBVIOUS
  <2>1. PICK a, b \in P : q[j] = mem.rows[a] /\ q[k] = mem.rows[b] /\ <<a, b>> \in order
    BY <1>5 DEF Follows
  <2>2. At(q[j]) = Time(a) /\ At(q[k]) = Time(b)
    BY <2>1 DEF Time
  <2> QED
    BY <1>1, <2>1, <2>2
<1>7. SqlOldestFirst(RowsAt(P)) = {s \in SetToSeqs(RowsAt(P)) :
        \A j, k \in 1..Len(s) : j < k => At(s[j]) <= At(s[k])}
  BY DEF SqlOldestFirst, SqlOrders
<1> QED
  BY <1>3, <1>5, <1>6, <1>7

\* The same, newest first.
LEMMA NewestIs ==
  ASSUME TypeInv, IdsInv, NEW P, P \subseteq 1..Len(mem.rows), \A i \in P : Time(i) \in Nat
  PROVE  NewestFirst(P) \in SqlNewestFirst(RowsAt(P))
<1> DEFINE order == {p \in P \X P : /\ Time(p[1]) >= Time(p[2])
                                    /\ Time(p[1]) = Time(p[2]) => p[1] <= p[2]}
           q == Sorted(P, order)
<1>1. \A a, b \in P : <<a, b>> \in order <=> /\ Time(a) >= Time(b)
                                             /\ Time(a) = Time(b) => a <= b
  OBVIOUS
<1>2. \A a \in P : a \in Int /\ Time(a) \in Int
  BY Rows
<1>3. NewestFirst(P) = q
  BY DEF NewestFirst
<1> HIDE DEF order
<1>4. Linear(order, P)
  BY <1>1, <1>2 DEF Linear
<1>5. q \in SetToSeqs(RowsAt(P)) /\ Follows(q, P, order)
  BY <1>4, SortedIs
<1>6. \A j, k \in 1..Len(q) : j < k => At(q[j]) >= At(q[k])
  <2> SUFFICES ASSUME NEW j \in 1..Len(q), NEW k \in 1..Len(q), j < k
               PROVE  At(q[j]) >= At(q[k])
    OBVIOUS
  <2>1. PICK a, b \in P : q[j] = mem.rows[a] /\ q[k] = mem.rows[b] /\ <<a, b>> \in order
    BY <1>5 DEF Follows
  <2>2. At(q[j]) = Time(a) /\ At(q[k]) = Time(b)
    BY <2>1 DEF Time
  <2> QED
    BY <1>1, <2>1, <2>2
<1>7. SqlNewestFirst(RowsAt(P)) = {s \in SetToSeqs(RowsAt(P)) :
        \A j, k \in 1..Len(s) : j < k => At(s[j]) >= At(s[k])}
  BY DEF SqlNewestFirst, SqlOrders
<1> QED
  BY <1>3, <1>5, <1>6, <1>7

\* The same, of equal times the last.
LEMMA LatestIs ==
  ASSUME TypeInv, IdsInv, NEW P, P \subseteq 1..Len(mem.rows), \A i \in P : Time(i) \in Nat
  PROVE  /\ LatestFirst(P) \in SqlNewestFirst(RowsAt(P))
         /\ Len(LatestFirst(P)) = Cardinality(P)
<1> DEFINE order == {p \in P \X P : /\ Time(p[1]) >= Time(p[2])
                                    /\ Time(p[1]) = Time(p[2]) => p[1] >= p[2]}
           q == Sorted(P, order)
<1>1. \A a, b \in P : <<a, b>> \in order <=> /\ Time(a) >= Time(b)
                                             /\ Time(a) = Time(b) => a >= b
  OBVIOUS
<1>2. \A a \in P : a \in Int /\ Time(a) \in Int
  BY Rows
<1>3. LatestFirst(P) = q
  BY DEF LatestFirst
<1> HIDE DEF order
<1>4. Linear(order, P)
  BY <1>1, <1>2 DEF Linear
<1>5. q \in SetToSeqs(RowsAt(P)) /\ Follows(q, P, order) /\ Len(q) = Cardinality(P)
  BY <1>4, SortedIs
<1>6. \A j, k \in 1..Len(q) : j < k => At(q[j]) >= At(q[k])
  <2> SUFFICES ASSUME NEW j \in 1..Len(q), NEW k \in 1..Len(q), j < k
               PROVE  At(q[j]) >= At(q[k])
    OBVIOUS
  <2>1. PICK a, b \in P : q[j] = mem.rows[a] /\ q[k] = mem.rows[b] /\ <<a, b>> \in order
    BY <1>5 DEF Follows
  <2>2. At(q[j]) = Time(a) /\ At(q[k]) = Time(b)
    BY <2>1 DEF Time
  <2> QED
    BY <1>1, <2>1, <2>2
<1>7. SqlNewestFirst(RowsAt(P)) = {s \in SetToSeqs(RowsAt(P)) :
        \A j, k \in 1..Len(s) : j < k => At(s[j]) >= At(s[k])}
  BY DEF SqlNewestFirst, SqlOrders
<1> QED
  BY <1>3, <1>5, <1>6, <1>7

\* Rows made one after the other, as they were inserted.
LEMMA InsertedIs ==
  ASSUME TypeInv, IdsInv, NEW P, P \subseteq 1..Len(mem.rows), \A i \in P : Time(i) \in Nat,
         \A i, j \in P : i < j => Time(i) <= Time(j)
  PROVE  AsInserted(P) \in SqlOldestFirst(RowsAt(P))
<1> DEFINE order == {p \in P \X P : p[1] <= p[2]}
           q == Sorted(P, order)
<1>1. \A a, b \in P : <<a, b>> \in order <=> a <= b
  OBVIOUS
<1>2. \A a \in P : a \in Int /\ Time(a) \in Int
  BY Rows
<1>3. AsInserted(P) = q
  BY DEF AsInserted
<1> HIDE DEF order
<1>4. Linear(order, P)
  BY <1>1, <1>2 DEF Linear
<1>5. q \in SetToSeqs(RowsAt(P)) /\ Follows(q, P, order)
  BY <1>4, SortedIs
<1>6. \A j, k \in 1..Len(q) : j < k => At(q[j]) <= At(q[k])
  <2> SUFFICES ASSUME NEW j \in 1..Len(q), NEW k \in 1..Len(q), j < k
               PROVE  At(q[j]) <= At(q[k])
    OBVIOUS
  <2>1. PICK a, b \in P : q[j] = mem.rows[a] /\ q[k] = mem.rows[b] /\ <<a, b>> \in order
    BY <1>5 DEF Follows
  <2>2. At(q[j]) = Time(a) /\ At(q[k]) = Time(b)
    BY <2>1 DEF Time
  <2>3. Time(a) <= Time(b)
    <3>1. a <= b /\ a \in Int /\ b \in Int
      BY <1>1, <1>2, <2>1
    <3> QED
      BY <1>2, <3>1
  <2> QED
    BY <2>2, <2>3
<1>7. SqlOldestFirst(RowsAt(P)) = {s \in SetToSeqs(RowsAt(P)) :
        \A j, k \in 1..Len(s) : j < k => At(s[j]) <= At(s[k])}
  BY DEF SqlOldestFirst, SqlOrders
<1> QED
  BY <1>3, <1>5, <1>6, <1>7

-----------------------------------------------------------------------------
(* Listings *)

LEMMA PlacesIs ==
  ASSUME TypeInv, NEW P \in SUBSET (1..Len(mem.rows)),
         kind \in {"orders", "refunds", "jobs", "merchants", "audit"}
  PROVE  \A i \in P : Time(i) \in Nat
<1>1. \A i \in P : mem.rows[i] \in Row[kind]
  BY Rows
<1>2. \A r \in OrderRow : r.createdAt \in Nat
  BY StoresAssumption DEF OrderRow
<1>3. \A r \in RefundRow : r.createdAt \in Nat
  BY StoresAssumption DEF RefundRow
<1>4. \A r \in JobRow : r.createdAt \in Nat
  BY StoresAssumption DEF JobRow
<1>5. \A r \in AuditRow : r.at \in Nat
  BY StoresAssumption DEF AuditRow
<1>10. \A r \in MerchantRow : r.createdAt \in Nat
  BY StoresAssumption DEF MerchantRow
<1>11. CASE kind = "merchants"
  BY <1>1, <1>10, <1>11 DEF Row, Time, At
<1>6. CASE kind = "orders"
  BY <1>1, <1>2, <1>6 DEF Row, Time, At
<1>7. CASE kind = "refunds"
  BY <1>1, <1>3, <1>7 DEF Row, Time, At
<1>8. CASE kind = "jobs"
  BY <1>1, <1>4, <1>8 DEF Row, Time, At
<1>9. CASE kind = "audit"
  BY <1>1, <1>5, <1>9 DEF Row, Time, At
<1> QED
  BY <1>6, <1>7, <1>8, <1>9, <1>11

LEMMA OrdersListed ==
  ASSUME Inv, kind = "orders"
  PROVE  ListsAgree
<1>1. ASSUME NEW f \in Filter  PROVE MemOrderQuery(f) \in SqlOrderQuery(f)
  <2>1. PICK P \in SUBSET (1..Len(mem.rows)) :
          P = {i \in 1..Len(mem.rows) : MemMatches(mem.rows[i], f)}
    OBVIOUS
  <2>2. MemOrderQuery(f) = NewestFirst(P)
    BY <2>1, Rows DEF MemOrderQuery, Places, Inv
  <2>3. RowsAt(P) = SqlWhere(f)
    <3>1. RowsAt(P) = {o \in ToSet(mem.rows) : MemMatches(o, f)}
      BY <2>1, Rows DEF RowsAt, Inv
    <3> QED
      BY <3>1, WhereIs
  <2>4. NewestFirst(P) \in SqlNewestFirst(RowsAt(P))
    BY PlacesIs, NewestIs DEF Inv
  <2> QED
    BY <2>2, <2>3, <2>4 DEF SqlOrderQuery
<1>2. ASSUME NEW m  PROVE MemPending(m) = SqlPending(m)
  BY OrderFacts DEF MemPending, SqlPending
<1> QED
  BY <1>1, <1>2 DEF ListsAgree

LEMMA RefundsListed ==
  ASSUME Inv, kind = "refunds"
  PROVE  ListsAgree
<1>0. ToSet(mem.rows) = tab /\ \A r \in tab : r.createdAt \in Nat
  BY StoresAssumption DEF Inv, RowsInv, TypeInv, Row, RefundRow
<1>1. ASSUME NEW f \in RefundFilter  PROVE MemRefundQuery(f) \in SqlRefundQuery(f)
  <2>1. PICK P \in SUBSET (1..Len(mem.rows)) :
          P = {i \in 1..Len(mem.rows) :
                 ~ \/ f.status # None /\ mem.rows[i].status # f.status
                   \/ MemOutside(mem.rows[i].createdAt, f)}
    OBVIOUS
  <2>2. MemRefundQuery(f) = NewestFirst(P)
    BY <2>1, Rows DEF MemRefundQuery, Places, Inv
  <2>3. f.from \in {None} \cup Nat /\ f.to \in {None} \cup Nat
    BY StoresAssumption DEF RefundFilter
  <2>4. \A r \in tab : ~MemOutside(r.createdAt, f) <=> SqlWithin(r.createdAt, f)
    BY <1>0, <2>3, WithinIs
  <2>5. RowsAt(P) = {r \in tab : f.status \in {None, r.status} /\ SqlWithin(r.createdAt, f)}
    <3>1. RowsAt(P) = {r \in tab : ~ \/ f.status # None /\ r.status # f.status
                                     \/ MemOutside(r.createdAt, f)}
      BY <1>0, <2>1, Rows DEF RowsAt, Inv
    <3> QED
      BY <2>4, <3>1
  <2>6. NewestFirst(P) \in SqlNewestFirst(RowsAt(P))
    BY PlacesIs, NewestIs DEF Inv
  <2> QED
    BY <2>2, <2>5, <2>6 DEF SqlRefundQuery
<1>2. ASSUME NEW o  PROVE MemByOrder(o) \in SqlByOrder(o)
  <2>1. PICK P \in SUBSET (1..Len(mem.rows)) :
          P = {i \in 1..Len(mem.rows) : mem.rows[i].orderId = o}
    OBVIOUS
  <2>2. MemByOrder(o) = AsInserted(P)
    BY <2>1, Rows DEF MemByOrder, Places, Inv
  <2>3. RowsAt(P) = {r \in tab : r.orderId = o}
    BY <1>0, <2>1, Rows DEF RowsAt, Inv
  <2>4. \A i, j \in P : i < j => Time(i) <= Time(j)
    BY <2>1 DEF Inv, TurnsInv, Turns, Together, Time
  <2>5. AsInserted(P) \in SqlOldestFirst(RowsAt(P))
    BY <2>4, PlacesIs, InsertedIs DEF Inv
  <2> QED
    BY <2>2, <2>3, <2>5 DEF SqlByOrder
<1> QED
  BY <1>1, <1>2 DEF ListsAgree

\* Merchants and sweep jobs are made at the time they are stored.
LEMMA AllListed ==
  ASSUME Inv, kind \in {"jobs", "merchants"}
  PROVE  MemAll \in SqlAll
<1> DEFINE P == 1..Len(mem.rows)
<1>1. MemAll = AsInserted(P) /\ RowsAt(P) = tab
  BY Rows DEF MemAll, RowsAt, Inv, RowsInv
<1>2. \A i, j \in P : i < j => Time(i) <= Time(j)
  BY DEF Inv, TurnsInv, Turns, Together, Time
<1>3. \A i \in P : Time(i) \in Nat
  BY PlacesIs DEF Inv
<1> HIDE DEF P
<1>4. AsInserted(P) \in SqlOldestFirst(RowsAt(P))
  BY <1>2, <1>3, InsertedIs DEF Inv, P
<1> QED
  BY <1>1, <1>4 DEF SqlAll

LEMMA JobsListed ==
  ASSUME Inv, kind = "jobs"
  PROVE  ListsAgree
<1>0. ToSet(mem.rows) = tab /\ \A j \in tab : j.status \in {"PENDING", "SWEEPING", "SWEPT"}
  BY DEF Inv, RowsInv, TypeInv, Row, JobRow
<1>1. ASSUME NEW now  PROVE MemDue(now) \in SqlDue(now)
  <2>1. PICK P \in SUBSET (1..Len(mem.rows)) :
          P = {i \in 1..Len(mem.rows) : /\ ~isSweepTerminal(mem.rows[i].status)
                                        /\ mem.rows[i].nextAttemptAt <= now}
    OBVIOUS
  <2>2. MemDue(now) = OldestFirst(P)
    BY <2>1, Rows DEF MemDue, Places, Inv
  <2>3. RowsAt(P) = {j \in tab : /\ j.status \in {"PENDING", "GAS_FUELING", "SWEEPING"}
                                 /\ j.nextAttemptAt <= now}
    <3>1. RowsAt(P) = {j \in tab : ~isSweepTerminal(j.status) /\ j.nextAttemptAt <= now}
      BY <1>0, <2>1, Rows DEF RowsAt, Inv
    <3>2. \A j \in tab : ~isSweepTerminal(j.status)
                           <=> j.status \in {"PENDING", "GAS_FUELING", "SWEEPING"}
      BY <1>0 DEF isSweepTerminal
    <3> QED
      BY <3>1, <3>2
  <2>4. OldestFirst(P) \in SqlOldestFirst(RowsAt(P))
    BY PlacesIs, OldestIs DEF Inv
  <2> QED
    BY <2>2, <2>3, <2>4 DEF SqlDue
<1> QED
  BY <1>1, AllListed DEF ListsAgree

\* Two listings one after the other, when no element of the second is newer than one of the
\* first.
LEMMA JoinedIs ==
  ASSUME NEW M, IsFiniteSet(M), NEW N, IsFiniteSet(N), M \cap N = {},
         NEW s \in SqlNewestFirst(M), NEW t \in SqlNewestFirst(N),
         \A x \in M, y \in N : At(x) >= At(y)
  PROVE  \E q \in SqlNewestFirst(M \cup N) : IsPrefix(s, q)
<1> DEFINE S == M \cup N
           m == Cardinality(M)
           n == Cardinality(N)
           q == s \o t
<1>1. m \in Nat /\ n \in Nat /\ Cardinality(S) = m + n
  <2>1. Cardinality(S) = m + n - Cardinality({})
    BY FS_Union
  <2> QED
    BY <2>1, FS_CardinalityType, FS_EmptySet
<1>2. \A R : SqlNewestFirst(R) =
               {u \in SetToSeqs(R) : \A i, j \in 1..Len(u) : i < j => At(u[i]) >= At(u[j])}
  BY DEF SqlNewestFirst, SqlOrders
<1>3. /\ s \in [1..m -> M] /\ \A i, j \in 1..m : i # j => s[i] # s[j]
      /\ t \in [1..n -> N] /\ \A i, j \in 1..n : i # j => t[i] # t[j]
  BY <1>2 DEF SetToSeqs
<1>4. Len(s) = m /\ Len(t) = n /\ s \in Seq(S) /\ t \in Seq(S)
  BY <1>1, <1>3
<1>5. /\ \A i, j \in 1..m : i < j => At(s[i]) >= At(s[j])
      /\ \A i, j \in 1..n : i < j => At(t[i]) >= At(t[j])
  BY <1>2, <1>4
<1> HIDE DEF m, n, S
<1>6. /\ q \in Seq(S) /\ Len(q) = m + n
      /\ \A i \in 1..m + n : q[i] = IF i <= m THEN s[i] ELSE t[i - m]
  BY <1>4, ConcatProperties
<1> HIDE DEF q
<1>7. \A i \in 1..m + n : \/ i \in 1..m /\ q[i] = s[i] /\ s[i] \in M
                          \/ i - m \in 1..n /\ q[i] = t[i - m] /\ t[i - m] \in N /\ ~(i <= m)
  BY <1>1, <1>3, <1>6
<1>8. \A i, j \in 1..m + n : i # j => q[i] # q[j]
  <2> SUFFICES ASSUME NEW i \in 1..m + n, NEW j \in 1..m + n, i # j  PROVE q[i] # q[j]
    OBVIOUS
  <2>1. i \in Int /\ j \in Int /\ i - m # j - m
    BY <1>1
  <2> QED
    BY <1>3, <1>7, <2>1
<1>9. \A i, j \in 1..m + n : i < j => At(q[i]) >= At(q[j])
  <2> SUFFICES ASSUME NEW i \in 1..m + n, NEW j \in 1..m + n, i < j
               PROVE  At(q[i]) >= At(q[j])
    OBVIOUS
  <2>1. i - m < j - m /\ (j <= m => i <= m)
    BY <1>1
  <2> QED
    BY <1>5, <1>7, <2>1
<1>10. q \in SetToSeqs(S)
  <2>1. q \in [1..m + n -> S]
    BY <1>1, <1>6
  <2> QED
    BY <1>1, <1>8, <2>1 DEF SetToSeqs
<1>11. q \in SqlNewestFirst(S)
  BY <1>2, <1>6, <1>9, <1>10
<1>12. IsPrefix(s, q)
  <2>1. Len(s) <= Len(q)
    BY <1>1, <1>4, <1>6
  <2>2. SubSeq(s, 1, m) = [i \in 1..m |-> s[i]] /\ SubSeq(q, 1, m) = [i \in 1..m |-> q[i]]
    BY <1>1, <1>4, <1>6
  <2>3. \A i \in 1..m : q[i] = s[i]
    BY <1>1, <1>6
  <2> QED
    BY <1>4, <2>1, <2>2, <2>3 DEF IsPrefix
<1> QED
  BY <1>11, <1>12 DEF S

\* The events of a set, newest first, in an order ORDER BY may give them.
LEMMA NewestOf ==
  ASSUME Inv, kind = "audit", NEW R \in SUBSET tab
  PROVE  \E t : t \in SqlNewestFirst(R)
<1> DEFINE order == {p \in R \X R : p[1].id >= p[2].id}
           A == Arranged(R, order)
<1>0. IsFiniteSet(R) /\ R \subseteq AuditRow
  BY FS_Subset DEF Inv, TypeInv, Row
<1>1. \A x, y \in R : <<x, y>> \in order <=> x.id >= y.id
  OBVIOUS
<1>2. \A x \in AuditRow : x.id \in Nat /\ x.at \in Nat
  BY StoresAssumption DEF AuditRow
<1>3. \A x, y \in R : x.id = y.id => x = y
  BY DEF Inv, IdsInv
<1>4. \A x \in R : x \in tab /\ x.id \in Int
  BY <1>0, <1>2
<1> HIDE DEF order
<1>5. Linear(order, R)
  BY <1>1, <1>3, <1>4 DEF Linear
<1>6. /\ Cardinality(R) \in Nat /\ A \in [1..Cardinality(R) -> R]
      /\ \A j, k \in 1..Cardinality(R) : j < k => A[j] # A[k] /\ <<A[j], A[k]>> \in order
  BY <1>0, <1>5, ArrangedIs
<1> HIDE DEF A
<1>7. A \in SetToSeqs(R)
  <2>1. \A j, k \in 1..Cardinality(R) : j # k => A[j] # A[k]
    <3> SUFFICES ASSUME NEW j \in 1..Cardinality(R), NEW k \in 1..Cardinality(R), j # k
                 PROVE  A[j] # A[k]
      OBVIOUS
    <3>1. j < k \/ k < j
      BY <1>6
    <3> QED
      BY <1>6, <3>1
  <2> QED
    BY <1>6, <2>1 DEF SetToSeqs
<1>8. Len(A) = Cardinality(R)
  BY <1>6
<1>9. \A j, k \in 1..Len(A) : j < k => At(A[j]) >= At(A[k])
  <2> SUFFICES ASSUME NEW j \in 1..Len(A), NEW k \in 1..Len(A), j < k
               PROVE  A[j].at >= A[k].at
    BY DEF At
  <2>1. A[j] \in R /\ A[k] \in R /\ A[j] \in tab /\ A[k] \in tab /\ A[j] # A[k] /\ A[j].id >= A[k].id
    BY <1>1, <1>4, <1>6, <1>8
  <2>2. A[k].id < A[j].id /\ A[j].at \in Nat /\ A[k].at \in Nat
    BY <1>0, <1>2, <1>3, <2>1
  <2>3. A[k].at <= A[j].at
    BY <2>1, <2>2 DEF Inv, AuditInv
  <2> QED
    BY <2>2, <2>3
<1>10. SqlNewestFirst(R) = {u \in SetToSeqs(R) :
         \A i, j \in 1..Len(u) : i < j => At(u[i]) >= At(u[j])}
  BY DEF SqlNewestFirst, SqlOrders
<1> QED
  BY <1>7, <1>9, <1>10

LEMMA AuditListed ==
  ASSUME Inv, kind = "audit"
  PROVE  ListsAgree
<1> DEFINE n == Len(mem.rows)
<1>0. /\ n \in Nat /\ ToSet(mem.rows) \subseteq tab /\ IsFiniteSet(tab) /\ tab \subseteq AuditRow
      /\ n = Min({maxEntries, Cardinality(tab)}) /\ TypeInv /\ IdsInv
      /\ ToSet(mem.rows) = {mem.rows[i] : i \in 1..n} /\ DOMAIN mem.rows = 1..n
      /\ \A e \in AuditRow : /\ e.id \in Nat /\ e.at \in Nat /\ e["action"] = e.action
                             /\ e["actor"] = e.actor /\ e["subjectId"] = e.subjectId
  BY Rows, StoresAssumption DEF Inv, AuditInv, TypeInv, Row, AuditRow
<1>1. ASSUME NEW f \in AuditFilter
      PROVE  /\ \E q \in SqlAuditQuery(f) : IsPrefix(MemAuditQuery(f), q)
             /\ n = Cardinality(tab) => MemAuditQuery(f) \in SqlAuditQuery(f)
  <2>1. PICK P \in SUBSET (1..n) :
          P = {i \in 1..n : ~ \/ f.action # None /\ mem.rows[i].action # f.action
                              \/ f.actor # None /\ mem.rows[i].actor # f.actor
                              \/ f.subjectId # None /\ mem.rows[i].subjectId # f.subjectId
                              \/ MemOutside(mem.rows[i].at, f)}
    OBVIOUS
  <2>2. MemAuditQuery(f) = LatestFirst(P)
    BY <1>0, <2>1 DEF MemAuditQuery, Places
  <2>3. LatestFirst(P) \in SqlNewestFirst(RowsAt(P))
    BY <1>0, PlacesIs, LatestIs
  <2>4. RowsAt(P) = SqlAudited(f) \cap ToSet(mem.rows)
    <3>1. f.from \in {None} \cup Nat /\ f.to \in {None} \cup Nat
      BY StoresAssumption DEF AuditFilter
    <3>2. \A e \in tab : ~MemOutside(e.at, f) <=> SqlWithin(e.at, f)
      BY <1>0, <3>1, WithinIs
    <3>3. /\ f["action"] = f.action /\ f["actor"] = f.actor /\ f["subjectId"] = f.subjectId
      BY DEF AuditFilter
    <3>4. \A e \in tab :
            (~ \/ f.action # None /\ e.action # f.action
               \/ f.actor # None /\ e.actor # f.actor
               \/ f.subjectId # None /\ e.subjectId # f.subjectId
               \/ MemOutside(e.at, f))
            <=> e \in SqlAudited(f)
      <4> SUFFICES ASSUME NEW e \in tab
                   PROVE  (~ \/ f.action # None /\ e.action # f.action
                             \/ f.actor # None /\ e.actor # f.actor
                             \/ f.subjectId # None /\ e.subjectId # f.subjectId
                             \/ MemOutside(e.at, f))
                          <=> e \in SqlAudited(f)
        OBVIOUS
      <4>1. e["action"] = e.action /\ e["actor"] = e.actor /\ e["subjectId"] = e.subjectId
        BY <1>0
      <4>2. e \in SqlAudited(f) <=>
              /\ f.action \in {None, e.action} /\ f.actor \in {None, e.actor}
              /\ f.subjectId \in {None, e.subjectId} /\ SqlWithin(e.at, f)
        BY <3>3, <4>1 DEF SqlAudited
      <4> QED
        BY <3>2, <4>2
    <3>5. \A i \in 1..n : mem.rows[i] \in tab
      BY <1>0
    <3>6. \A i \in 1..n : i \in P <=> mem.rows[i] \in SqlAudited(f)
      BY <2>1, <3>4, <3>5
    <3> HIDE DEF n
    <3> QED
      BY <1>0, <3>6 DEF RowsAt
  <2> DEFINE M == RowsAt(P)
             N == SqlAudited(f) \ ToSet(mem.rows)
  <2>5. M \cup N = SqlAudited(f) /\ M \cap N = {} /\ SqlAudited(f) \subseteq tab
    BY <2>4 DEF SqlAudited
  <2>6. IsFiniteSet(M) /\ IsFiniteSet(N)
    BY <1>0, <2>5, FS_Subset
  <2>7. \A x \in M, y \in N : At(x) >= At(y)
    <3> SUFFICES ASSUME NEW x \in M, NEW y \in N  PROVE x.at >= y.at
      BY DEF At
    <3>1. PICK i \in 1..n : x = mem.rows[i]
      BY <1>0, <2>4
    <3>2. y \in tab \ ToSet(mem.rows) /\ x \in tab
      BY <2>4, <2>5
    <3>3. y.id < x.id
      BY <3>1, <3>2 DEF Inv, AuditInv
    <3>4. y.at <= x.at /\ x.at \in Nat /\ y.at \in Nat
      BY <1>0, <3>2, <3>3 DEF Inv, AuditInv
    <3> QED
      BY <3>4
  <2>8. PICK t : t \in SqlNewestFirst(N)
    <3>1. N \in SUBSET tab
      BY <2>5
    <3> QED
      BY <3>1, NewestOf
  <2>9. \E q \in SqlNewestFirst(SqlAudited(f)) : IsPrefix(LatestFirst(P), q)
    <3> HIDE DEF M, N
    <3>1. LatestFirst(P) \in SqlNewestFirst(M)
      BY <2>3 DEF M
    <3>2. \E q \in SqlNewestFirst(M \cup N) : IsPrefix(LatestFirst(P), q)
      BY <2>5, <2>6, <2>7, <2>8, <3>1, JoinedIs
    <3> QED
      BY <2>5, <3>2
  <2>10. ASSUME n = Cardinality(tab)  PROVE RowsAt(P) = SqlAudited(f)
    <3> DEFINE rowAt == [i \in 1..n |-> mem.rows[i]]
    <3>1. rowAt \in Bijection(1..n, ToSet(mem.rows))
      BY <1>0 DEF IdsInv, Bijection, Injection, Surjection, IsInjective
    <3>2. IsFiniteSet(1..n) /\ Cardinality(1..n) = IF 1 > n THEN 0 ELSE n - 1 + 1
      BY <1>0, FS_Interval
    <3> HIDE DEF rowAt
    <3>3. Cardinality(ToSet(mem.rows)) = Cardinality(1..n)
      BY <3>1, <3>2, FS_Bijection DEF ExistsBijection
    <3>4. Cardinality(ToSet(mem.rows)) = Cardinality(tab)
      BY <1>0, <2>10, <3>2, <3>3
    <3>5. ToSet(mem.rows) = tab
      BY <1>0, <3>4, FS_Subset
    <3> QED
      BY <2>4, <2>5, <3>5
  <2> QED
    BY <2>2, <2>3, <2>9, <2>10 DEF SqlAuditQuery
<1> QED
  BY <1>0, <1>1 DEF ListsAgree

LEMMA ListsInv == Inv => ListsAgree
<1> SUFFICES ASSUME Inv  PROVE ListsAgree
  OBVIOUS
<1>1. CASE kind \in {"orders", "refunds", "jobs", "audit"}
  BY <1>1, OrdersListed, RefundsListed, JobsListed, AuditListed
<1>2. CASE kind = "merchants"
  BY <1>2, AllListed DEF ListsAgree
<1>3. CASE kind \notin {"orders", "refunds", "jobs", "audit", "merchants"}
  BY <1>3 DEF ListsAgree
<1> QED
  BY <1>1, <1>2, <1>3

\* Every listing of the memory store is one the SQL query may answer, in its order, for every
\* filter and any times; the bounded audit log shows the newest of what the unbounded one
\* shows, under each filter.
THEOREM Listings == Spec => []ListsAgree
<1>1. (KeysApart => Inv) => ListsAgree
  BY ListsInv DEF ListsAgree
<1> QED
  BY <1>1, InductiveInv, PTL

=============================================================================
