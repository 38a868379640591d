-------------------------- MODULE InventoryProofs ---------------------------
(***************************************************************************)
(* Theorems about the inventory for every set of sites, zones, profiles,   *)
(* devices, units and requests, and about overrides and the manifest.  The *)
(* inductive invariant IndInv is defined in Inventory, ResInv in Overrides. *)
(***************************************************************************)
EXTENDS Overrides, TLAPS

-----------------------------------------------------------------------------
(* Rows: a row has its shape exactly if each of its columns has a value     *)
(* that the column may hold.                                               *)

LEMMA ShapeColumn ==
  ASSUME NEW i, NEW r \in Shape(i), NEW c \in Column
  PROVE  r[c] \in Values(i, c)
  BY DEF Shape, Column

LEMMA ShapeUpdated ==
  ASSUME NEW i, NEW r \in Shape(i), NEW c \in Column, NEW v \in Values(i, c)
  PROVE  LET q == [r EXCEPT ![c] = v]
         IN  q \in Shape(i) /\ \A d \in Column : q[d] = IF d = c THEN v ELSE r[d]
  <1>1. CASE c = "site"
    BY <1>1 DEF Shape, Column
  <1>2. CASE c = "zone"
    BY <1>2 DEF Shape, Column
  <1>3. CASE c = "profile"
    BY <1>3 DEF Shape, Column
  <1> QED
    BY <1>1, <1>2, <1>3 DEF Column

LEMMA ValuesAreRows ==
  ASSUME NEW i, NEW c \in Column
  PROVE  Values(i, c) \subseteq Id \cup {None}
  BY DEF Values, Table, Id, Column

\* A row is not NULL.
LEMMA ShapeIsRow ==
  ASSUME NEW i, NEW r \in Shape(i)
  PROVE  r \in [Column -> Id \cup {None}] /\ r # None
  <1>1. r = [c \in Column |-> r[c]]
    BY DEF Shape, Column
  <1>2. \A c \in Column : r[c] \in Id \cup {None}
    BY ShapeColumn, ValuesAreRows
  <1> QED
    BY <1>1, <1>2, RowsAssumption

\* Only the site of a zone must not be NULL.
LEMMA NullFits ==
  ASSUME NEW i \in Id \ Zone, NEW c \in Column
  PROVE  None \in Values(i, c)
  BY DEF Values, Table, Column

-----------------------------------------------------------------------------
(* Requests.                                                               *)

LEMMA IdleRequest == Idle \in Requests /\ Idle.op = "none"
  BY DEF Idle, Request, Requests, Column

LEMMA ChangedOnly ==
  ASSUME NEW r \in Requests, NEW b \in BOOLEAN
  PROVE  LET q == [r EXCEPT !.changed = b]
         IN  /\ q \in Requests /\ q.changed = b
             /\ q.op = r.op /\ q.id = r.id /\ q.scope = r.scope /\ q.column = r.column
             /\ q.value = r.value /\ q.failed = r.failed /\ q.seen = r.seen
  BY DEF Requests

\* A write leaves every request as it was, but for whether its row has changed,
\* and writes to no row that is locked.
LEMMA WriteEffect ==
  ASSUME req \in [Handler -> Requests], NEW h, NEW new, Write(h, new)
  PROVE  /\ row' = new /\ \A i \in Id : Locked(i) => new[i] = row[i]
         /\ req' \in [Handler -> Requests]
         /\ h \in Handler => req'[h] = Idle
         /\ \A g \in Handler :
                \/ req'[g] = Idle /\ (g = h \/ req[g] = Idle)
                \/ /\ g # h /\ req[g] # Idle
                   /\ req'[g].changed = (req[g].changed \/ new[req[g].id] # row[req[g].id])
                   /\ req'[g].op = req[g].op /\ req'[g].id = req[g].id
                   /\ req'[g].scope = req[g].scope /\ req'[g].column = req[g].column
                   /\ req'[g].value = req[g].value /\ req'[g].seen = req[g].seen
  <1> DEFINE Changed(g) == req[g].changed \/ new[req[g].id] # row[req[g].id]
  <1> DEFINE After(g) == [req[g] EXCEPT !.changed = Changed(g)]
  <1>1. ASSUME NEW g \in Handler
        PROVE  /\ After(g) \in Requests /\ After(g).changed = Changed(g)
               /\ After(g).op = req[g].op /\ After(g).id = req[g].id
               /\ After(g).scope = req[g].scope /\ After(g).column = req[g].column
               /\ After(g).value = req[g].value /\ After(g).seen = req[g].seen
    <2>1. req[g] \in Requests /\ Changed(g) \in BOOLEAN
      BY DEF Requests
    <2> HIDE DEF Changed
    <2> QED
      BY <2>1, ChangedOnly
  <1>2. \A g \in Handler : req'[g] = IF g = h \/ req[g] = Idle THEN Idle ELSE After(g)
    BY DEF Write
  <1>3. /\ req' = [g \in Handler |-> req'[g]] /\ row' = new
        /\ \A i \in Id : Locked(i) => new[i] = row[i]
    BY DEF Write
  <1> HIDE DEF After
  <1>4. \A g \in Handler : req'[g] \in Requests
    BY <1>1, <1>2, IdleRequest
  <1>5. req' \in [Handler -> Requests]
    BY <1>3, <1>4
  <1> QED
    BY <1>1, <1>2, <1>3, <1>5

-----------------------------------------------------------------------------
Pending ==
    /\ LockedOnce
    /\ \A h \in Handler : Fits(req[h]) /\ HasSeen(req[h]) /\ Confined(req[h])
Linked(new) ==
    \A i \in Id : new[i] # None =>
        /\ new[i] \in Shape(i)
        /\ \A c \in Column : new[i][c] # None => new[i][c] \in Id /\ new[new[i][c]] # None

\* The references of a row, column by column.
LEMMA LinkedRows ==
  ASSUME TypeOK, NoOrphans
  PROVE  Linked(row)
  BY DEF NoOrphans, RefsExist, Exists, Linked

\* New rows that fit together keep what the requests rely on, provided that the units
\* of the devices that there are stay as they were.
LEMMA WriteKeeps ==
  ASSUME TypeOK, Pending, NEW h, NEW new, Write(h, new),
         new = [i \in Id |-> new[i]], Linked(new),
         \A d \in Device : new[d] # None => count'[d] = count[d]
  PROVE  /\ (row = [i \in Id |-> row[i]])' /\ (\A i \in Id : row[i] \in Shape(i) \cup {None})'
         /\ (req \in [Handler -> Requests])'
         /\ (\A i \in Id : Exists(i) => row[i] \in Shape(i) /\ RefsExist(row[i]))'
         /\ Pending'
  <1>1. req \in [Handler -> Requests]
    BY DEF TypeOK
  <1>2. /\ row' = new
        /\ req' \in [Handler -> Requests]
        /\ \A g \in Handler :
               \/ req'[g] = Idle
               \/ /\ req'[g].changed = (req[g].changed \/ new[req[g].id] # row[req[g].id])
                  /\ req'[g].op = req[g].op /\ req'[g].id = req[g].id
                  /\ req'[g].scope = req[g].scope /\ req'[g].column = req[g].column
                  /\ req'[g].value = req[g].value /\ req'[g].seen = req[g].seen
        /\ \A i \in Id : Locked(i) => new[i] = row[i]
    BY <1>1, WriteEffect
  <1>3. (\A i \in Id : Exists(i) => row[i] \in Shape(i) /\ RefsExist(row[i]))'
    BY <1>2 DEF Linked, Exists, RefsExist
  <1>4. (\A i \in Id : row[i] \in Shape(i) \cup {None})'
    BY <1>2 DEF Linked
  <1>5. ASSUME NEW g \in Handler PROVE (Fits(req[g]) /\ HasSeen(req[g]) /\ Confined(req[g]))'
    <2>0. Fits(req[g]) /\ HasSeen(req[g]) /\ Confined(req[g])
      BY DEF Pending
    <2>1. CASE req'[g] = Idle
      BY <2>1, IdleRequest DEF Fits, HasSeen, Confined
    <2>2. CASE /\ req'[g].changed = (req[g].changed \/ new[req[g].id] # row[req[g].id])
               /\ req'[g].op = req[g].op /\ req'[g].id = req[g].id
               /\ req'[g].scope = req[g].scope /\ req'[g].column = req[g].column
               /\ req'[g].value = req[g].value /\ req'[g].seen = req[g].seen
      <3>1. Fits(req[g])'
        BY <2>0, <2>2 DEF Fits
      <3>3. Confined(req[g])'
        BY <1>2, <2>0, <2>2 DEF Confined
      <3>4. HasSeen(req[g])'
        <4> SUFFICES ASSUME req[g].op = "sync" PROVE HasSeen(req[g])'
          BY <2>2 DEF HasSeen
        <4>1. req[g].id \in Device /\ req[g].id \in Id /\ Locked(req[g].id)
          BY <2>0 DEF Fits, Locked
        <4>2. new[req[g].id] = row[req[g].id] /\ row[req[g].id] # None
          BY <1>2, <2>0, <4>1 DEF HasSeen, Exists
        <4> QED
          BY <1>2, <2>0, <2>2, <4>1, <4>2 DEF HasSeen, Exists
      <3> QED
        BY <3>1, <3>3, <3>4
    <2> QED
      BY <1>2, <2>1, <2>2
  <1>6. LockedOnce'
    <2>1. \A g \in Handler : req'[g].op = "sync" => req[g].op = "sync" /\ req'[g].id = req[g].id
      BY <1>2, IdleRequest
    <2> QED
      BY <2>1 DEF Pending, LockedOnce
  <1> QED
    BY <1>2, <1>3, <1>4, <1>5, <1>6 DEF Pending

\* What the inventory promises of its units, once its rows and requests are in order.
UnitsTyped ==
    /\ count \in [Device -> [Unit -> Nat \cup {None}]]
    /\ failures \in [Device -> [Unit -> Nat]]
    /\ begun \in Nat
UnitsInv ==
    /\ UnitsTyped /\ CountsFailures
    /\ \A d \in Device : ~Exists(d) => \A u \in Unit : count[d][u] = None

LEMMA IndInvParts ==
  IndInv <=> /\ row = [i \in Id |-> row[i]]
             /\ \A i \in Id : row[i] \in Shape(i) \cup {None}
             /\ req \in [Handler -> Requests]
             /\ \A i \in Id : Exists(i) => row[i] \in Shape(i) /\ RefsExist(row[i])
             /\ Pending /\ UnitsInv
  BY DEF IndInv, TypeOK, NoOrphans, Pending, UnitsInv, UnitsTyped

-----------------------------------------------------------------------------
\* Rows are inserted that refer to rows.
LEMMA InsertStep ==
  ASSUME IndInv, NEW new, Insert(new)
  PROVE  IndInv'
  <1> DEFINE after == [i \in Id |-> IF i \in DOMAIN new THEN new[i] ELSE row[i]]
  <1>0. TypeOK /\ Pending /\ NoOrphans /\ UnitsInv
    BY IndInvParts DEF IndInv
  <1>1. /\ \A i \in DOMAIN new : ~Exists(i) /\ new[i] \in Shape(i) /\ RefsExist(new[i])
        /\ Write(None, after) /\ UNCHANGED units /\ begun' = begun + 1
    BY DEF Insert, Begin
  <1>2. \A i \in Id : after[i] = IF i \in DOMAIN new THEN new[i] ELSE row[i]
    OBVIOUS
  <1>3. after = [i \in Id |-> after[i]]
    OBVIOUS
  <1> HIDE DEF after
  <1>4. \A i \in Id : row[i] # None => after[i] = row[i]
    BY <1>1, <1>2 DEF Exists
  <1>5. Linked(after)
    <2>1. Linked(row)
      BY <1>0, LinkedRows
    <2>2. SUFFICES ASSUME NEW i \in Id, after[i] # None
                   PROVE  /\ after[i] \in Shape(i)
                          /\ \A c \in Column : after[i][c] # None =>
                                 after[i][c] \in Id /\ after[after[i][c]] # None
      BY DEF Linked
    <2>3. CASE i \in DOMAIN new
      BY <1>1, <1>2, <1>4, <2>3 DEF RefsExist, Exists
    <2>4. CASE i \notin DOMAIN new
      BY <1>2, <1>4, <2>1, <2>2, <2>4 DEF Linked
    <2> QED
      BY <2>3, <2>4
  <1>6. /\ row' = after
        /\ (row = [i \in Id |-> row[i]])' /\ (\A i \in Id : row[i] \in Shape(i) \cup {None})'
        /\ (req \in [Handler -> Requests])'
        /\ (\A i \in Id : Exists(i) => row[i] \in Shape(i) /\ RefsExist(row[i]))'
        /\ Pending'
    <2>1. \A d \in Device : after[d] # None => count'[d] = count[d]
      BY <1>1 DEF units
    <2>2. row' = after
      BY <1>1 DEF Write
    <2> QED
      BY <1>0, <1>1, <1>3, <1>5, <2>1, <2>2, WriteKeeps
  <1>7. UnitsInv'
    <2>1. \A d \in Device : (~Exists(d))' => ~Exists(d)
      BY <1>4, <1>6 DEF Exists, Id
    <2> QED
      BY <1>0, <1>1, <2>1 DEF UnitsInv, UnitsTyped, CountsFailures, units
  <1> QED
    BY <1>6, <1>7 DEF IndInv, TypeOK, NoOrphans, Pending, UnitsInv, UnitsTyped

\* A column of a row gets a value that is there.
LEMMA UpdateStep ==
  ASSUME IndInv, NEW h \in Handler, CommitUpdate(h)
  PROVE  IndInv'
  <1> DEFINE i == req[h].id
  <1> DEFINE c == req[h].column
  <1> DEFINE v == req[h].value
  <1> DEFINE after == [row EXCEPT ![i][c] = v]
  <1>0. TypeOK /\ Pending /\ NoOrphans /\ UnitsInv
    BY IndInvParts DEF IndInv
  <1>1. /\ req[h].op = "update" /\ row[i] # None /\ row[v] # None
        /\ Write(h, after) /\ UNCHANGED <<units, begun>>
    BY DEF CommitUpdate, Exists
  <1>2. i \in Id /\ c \in Column /\ v \in Values(i, c) /\ v # None /\ v \in Id
    <2>1. c \in Column /\ i \in Id /\ v \in Values(i, c) \ {None}
      BY <1>0, <1>1 DEF Pending, Fits, TypeOK, Requests
    <2> QED
      BY <2>1, ValuesAreRows
  <1>3. /\ \A j \in Id : after[j] = IF j = i THEN [row[i] EXCEPT ![c] = v] ELSE row[j]
        /\ after = [j \in Id |-> after[j]]
    BY <1>0, <1>2 DEF TypeOK
  <1> HIDE DEF after
  <1>4. LET q == [row[i] EXCEPT ![c] = v]
        IN  q \in Shape(i) /\ \A d \in Column : q[d] = IF d = c THEN v ELSE row[i][d]
    <2>1. row[i] \in Shape(i)
      BY <1>0, <1>1, <1>2 DEF TypeOK
    <2> QED
      BY <1>2, <2>1, ShapeUpdated
  <1>5. \A j \in Id : row[j] # None <=> after[j] # None
    BY <1>1, <1>2, <1>3, <1>4, ShapeIsRow
  <1>6. Linked(after)
    <2>1. Linked(row)
      BY <1>0, LinkedRows
    <2>2. SUFFICES ASSUME NEW j \in Id, after[j] # None
                   PROVE  /\ after[j] \in Shape(j)
                          /\ \A d \in Column : after[j][d] # None =>
                                 after[j][d] \in Id /\ after[after[j][d]] # None
      BY DEF Linked
    <2>3. CASE j = i
      <3>1. \A d \in Column : after[j][d] = v \/ after[j][d] = row[i][d]
        BY <1>3, <1>4, <2>3
      <3> QED
        BY <1>1, <1>2, <1>3, <1>4, <1>5, <2>1, <2>3, <3>1 DEF Linked
    <2>4. CASE j # i
      BY <1>3, <1>5, <2>1, <2>2, <2>4 DEF Linked
    <2> QED
      BY <2>3, <2>4
  <1>7. /\ row' = after
        /\ (row = [j \in Id |-> row[j]])' /\ (\A j \in Id : row[j] \in Shape(j) \cup {None})'
        /\ (req \in [Handler -> Requests])'
        /\ (\A j \in Id : Exists(j) => row[j] \in Shape(j) /\ RefsExist(row[j]))'
        /\ Pending'
    <2>1. \A d \in Device : after[d] # None => count'[d] = count[d]
      BY <1>1 DEF units
    <2>2. row' = after
      BY <1>1 DEF Write
    <2> QED
      BY <1>0, <1>1, <1>3, <1>6, <2>1, <2>2, WriteKeeps
  <1>8. UnitsInv'
    <2>1. \A d \in Device : (~Exists(d))' => ~Exists(d)
      BY <1>5, <1>7 DEF Exists, Id
    <2> QED
      BY <1>0, <1>1, <2>1 DEF UnitsInv, UnitsTyped, CountsFailures, units
  <1> QED
    BY <1>7, <1>8 DEF IndInv, TypeOK, NoOrphans, Pending, UnitsInv, UnitsTyped

\* A row goes, its references become NULL, and its units go with it.
LEMMA DeleteStep ==
  ASSUME IndInv, NEW h \in Handler, CommitDelete(h)
  PROVE  IndInv'
  <1> DEFINE i == req[h].id
  <1> DEFINE Without(r) == [c \in Column |-> IF r[c] = i THEN None ELSE r[c]]
  <1> DEFINE after == [j \in Id |-> IF j = i \/ ~Exists(j) THEN None ELSE Without(row[j])]
  <1>0. TypeOK /\ Pending /\ NoOrphans /\ UnitsInv /\ Linked(row)
    BY IndInvParts, LinkedRows DEF IndInv
  <1>1. /\ req[h].op = "delete" /\ Write(h, after)
        /\ \A j \in Zone : row'[j] \in Shape(j) \cup {None}
        /\ count' = [d \in Device |-> IF d = i THEN [u \in Unit |-> None] ELSE count[d]]
        /\ failures' = [d \in Device |-> IF d = i THEN [u \in Unit |-> 0] ELSE failures[d]]
        /\ begun' = begun
    BY DEF CommitDelete
  <1>2. i \in Id /\ i # None
    BY <1>0, <1>1, TablesAssumption DEF Pending, Fits
  <1>3. row' = after
    BY <1>1 DEF Write
  <1>4. /\ \A j \in Id : after[j] = IF j = i \/ row[j] = None THEN None ELSE Without(row[j])
        /\ after = [j \in Id |-> after[j]]
    BY DEF Exists
  <1>5. \A r, c : c \in Column => Without(r)[c] = IF r[c] = i THEN None ELSE r[c]
    OBVIOUS
  <1>6. ASSUME NEW j \in Id, row[j] # None, j # i
        PROVE  after[j] \in Shape(j)
    <2>1. row[j] \in Shape(j)
      BY <1>0, <1>6 DEF TypeOK
    <2>2. CASE j \in Zone
      <3>1. after[j] # None
        <4>1. after[j] = Without(row[j])
          BY <1>4, <1>6
        <4>2. \A c \in Column : row[j][c] \in Id \cup {None}
          BY <2>1, ShapeIsRow
        <4>3. Without(row[j]) \in [Column -> Id \cup {None}]
          BY <4>2
        <4> QED
          BY <4>1, <4>3, RowsAssumption
      <3> QED
        BY <1>1, <1>3, <2>2, <3>1
    <2>3. CASE j \notin Zone
      <3>1. \A c \in Column : row[j][c] \in Values(j, c) /\ None \in Values(j, c)
        BY <2>1, <2>3, ShapeColumn, NullFits
      <3>2. \A c \in Column : Without(row[j])[c] \in Values(j, c)
        BY <1>5, <3>1
      <3>3. Without(row[j]) \in Shape(j)
        BY <3>2 DEF Shape, Column
      <3> QED
        BY <1>4, <1>6, <3>3
    <2> QED
      BY <2>2, <2>3
  <1>7. \A j \in Id : after[j] # None => j # i /\ row[j] # None /\ after[j] = Without(row[j])
    BY <1>4
  <1> HIDE DEF after, Without
  <1>8. \A j \in Id : row[j] # None /\ j # i => after[j] # None
    BY <1>6, ShapeIsRow
  <1>9. Linked(after)
    <2>2. SUFFICES ASSUME NEW j \in Id, after[j] # None
                   PROVE  /\ after[j] \in Shape(j)
                          /\ \A c \in Column : after[j][c] # None =>
                                 after[j][c] \in Id /\ after[after[j][c]] # None
      BY DEF Linked
    <2>3. j # i /\ row[j] # None /\ after[j] = Without(row[j]) /\ after[j] \in Shape(j)
      BY <1>6, <1>7, <2>2
    <2>4. ASSUME NEW c \in Column, after[j][c] # None
          PROVE  after[j][c] \in Id /\ after[after[j][c]] # None
      <3>1. after[j][c] = row[j][c] /\ row[j][c] # i
        BY <1>5, <2>3, <2>4
      <3>2. row[j][c] \in Id /\ row[row[j][c]] # None
        BY <1>0, <2>3, <2>4, <3>1 DEF Linked
      <3> QED
        BY <1>8, <3>1, <3>2
    <2> QED
      BY <2>3, <2>4
  <1>10. \A d \in Device : after[d] # None => count'[d] = count[d]
    BY <1>1, <1>7 DEF Id
  <1>11. /\ (row = [j \in Id |-> row[j]])' /\ (\A j \in Id : row[j] \in Shape(j) \cup {None})'
         /\ (req \in [Handler -> Requests])'
         /\ (\A j \in Id : Exists(j) => row[j] \in Shape(j) /\ RefsExist(row[j]))'
         /\ Pending'
    BY <1>0, <1>1, <1>4, <1>9, <1>10, WriteKeeps
  <1>12. UnitsInv'
    <2>1. \A d \in Device : (~Exists(d))' => d = i \/ ~Exists(d)
      BY <1>3, <1>8 DEF Exists, Id
    <2>2. UnitsTyped'
      BY <1>0, <1>1 DEF UnitsInv, UnitsTyped
    <2>3. \A d \in Device, u \in Unit :
              /\ count'[d][u] = IF d = i THEN None ELSE count[d][u]
              /\ failures'[d][u] = IF d = i THEN 0 ELSE failures[d][u]
      BY <1>1
    <2>4. CountsFailures'
      BY <1>0, <2>3 DEF UnitsInv, CountsFailures
    <2>7. (\A d \in Device : ~Exists(d) => \A u \in Unit : count[d][u] = None)'
      BY <1>0, <2>1, <2>3 DEF UnitsInv
    <2> QED
      BY <2>2, <2>4, <2>7 DEF UnitsInv
  <1> QED
    BY <1>11, <1>12 DEF IndInv, TypeOK, NoOrphans, Pending, UnitsInv, UnitsTyped

-----------------------------------------------------------------------------
(* Heartbeats.                                                             *)

\* The lock on the device's row keeps what was read in step with the table.
LEMMA StoreStep ==
  ASSUME IndInv, NEW h \in Handler, CommitHeartbeat(h)
  PROVE  IndInv'
  <1> DEFINE d == req[h].id
  <1> DEFINE Failed(u) == IF u \in req[h].failed THEN 1 ELSE 0
  <1> DEFINE Seen(u) == IF req[h].seen[u] = None THEN 0 ELSE req[h].seen[u]
  <1>0. TypeOK /\ Pending /\ NoOrphans /\ UnitsInv
    BY IndInvParts DEF IndInv
  <1>1. /\ req[h].op = "sync"
        /\ count' = [count EXCEPT ![d] = [u \in Unit |-> Seen(u) + Failed(u)]]
        /\ failures' = [failures EXCEPT ![d] = [u \in Unit |-> @[u] + Failed(u)]]
        /\ req' = [req EXCEPT ![h] = Idle]
        /\ row' = row /\ begun' = begun
    BY DEF CommitHeartbeat
  <1>2. d \in Device /\ Exists(d) /\ req[h].seen = count[d]
    BY <1>0, <1>1 DEF Pending, Fits, HasSeen
  <1>3. \A u \in Unit : Seen(u) = failures[d][u] /\ Seen(u) \in Nat /\ Failed(u) \in Nat
    BY <1>0, <1>2 DEF TypeOK, UnitsInv, CountsFailures
  <1>4. /\ \A e \in Device : e # d => count'[e] = count[e] /\ failures'[e] = failures[e]
        /\ \A u \in Unit : /\ count'[d][u] = Seen(u) + Failed(u)
                           /\ failures'[d][u] = failures[d][u] + Failed(u)
    BY <1>0, <1>1, <1>2 DEF TypeOK
  <1>5. UnitsTyped'
    <2>1. count' \in [Device -> [Unit -> Nat \cup {None}]]
      <3>1. [u \in Unit |-> Seen(u) + Failed(u)] \in [Unit -> Nat \cup {None}]
        BY <1>3
      <3> QED
        BY <1>0, <1>1, <3>1 DEF TypeOK
    <2>2. failures' \in [Device -> [Unit -> Nat]]
      <3>1. [u \in Unit |-> failures[d][u] + Failed(u)] \in [Unit -> Nat]
        BY <1>0, <1>2, <1>3 DEF TypeOK
      <3>2. failures' = [failures EXCEPT ![d] = [u \in Unit |-> failures[d][u] + Failed(u)]]
        BY <1>1
      <3> QED
        BY <1>0, <3>1, <3>2 DEF TypeOK
    <2> QED
      BY <1>0, <1>1, <2>1, <2>2 DEF UnitsTyped, TypeOK
  <1> HIDE DEF Seen, Failed
  <1>6. CountsFailures'
    <2>1. \A u \in Unit : count'[d][u] \in Nat /\ count'[d][u] = failures'[d][u]
      BY <1>3, <1>4
    <2> QED
      BY <1>0, <1>4, <2>1, TablesAssumption DEF UnitsInv, CountsFailures
  <1>7. UnitsInv'
    BY <1>0, <1>1, <1>2, <1>4, <1>5, <1>6 DEF UnitsInv, Exists
  <1>8. /\ \A g \in Handler : req'[g] = IF g = h THEN Idle ELSE req[g]
        /\ req' \in [Handler -> Requests]
    BY <1>0, <1>1, IdleRequest DEF TypeOK
  <1>9. ASSUME NEW g \in Handler PROVE (Fits(req[g]) /\ HasSeen(req[g]) /\ Confined(req[g]))'
    <2>0. Fits(req[g]) /\ HasSeen(req[g]) /\ Confined(req[g])
      BY <1>0 DEF Pending
    <2>1. CASE g = h
      BY <1>8, <2>1, IdleRequest DEF Fits, HasSeen, Confined
    <2>2. CASE g # h
      <3>1. req[g].op = "sync" => req[g].id \in Device /\ req[g].id # d
        BY <1>0, <1>1, <2>0, <2>2 DEF Pending, LockedOnce, Fits
      <3> QED
        BY <1>1, <1>4, <1>8, <2>0, <2>2, <3>1 DEF Fits, HasSeen, Confined, Exists
    <2> QED
      BY <2>1, <2>2
  <1>10. LockedOnce'
    BY <1>0, <1>8, IdleRequest DEF Pending, LockedOnce
  <1> QED
    BY <1>0, <1>1, <1>7, <1>8, <1>9, <1>10
    DEF IndInv, TypeOK, NoOrphans, UnitsInv, UnitsTyped, Exists, RefsExist

-----------------------------------------------------------------------------
(* The other steps touch neither rows nor units.                           *)

\* A request begins or ends.
LEMMA RequestStep ==
  ASSUME IndInv, NEW h \in Handler, NEW r \in Requests, req' = [req EXCEPT ![h] = r],
         UNCHANGED <<row, units>>, begun' \in Nat,
         Fits(r), HasSeen(r), Confined(r), r.op = "sync" => ~Locked(r.id)
  PROVE  IndInv'
  <1>0. TypeOK /\ Pending /\ NoOrphans /\ UnitsInv
    BY IndInvParts DEF IndInv
  <1>1. row' = row /\ count' = count /\ failures' = failures
    BY DEF units
  <1>2. \A g \in Handler : req'[g] = IF g = h THEN r ELSE req[g]
    BY <1>0 DEF TypeOK
  <1>3. req' \in [Handler -> Requests]
    BY <1>0 DEF TypeOK
  <1>4. ASSUME NEW g \in Handler PROVE (Fits(req[g]) /\ HasSeen(req[g]) /\ Confined(req[g]))'
    BY <1>0, <1>1, <1>2 DEF Pending, Fits, HasSeen, Confined, Exists
  <1>5. UnitsInv'
    BY <1>0, <1>1 DEF UnitsInv, UnitsTyped, CountsFailures, Exists
  <1>6. LockedOnce'
    BY <1>0, <1>2 DEF Pending, LockedOnce, Locked
  <1> QED
    BY <1>0, <1>1, <1>3, <1>4, <1>5, <1>6
    DEF IndInv, TypeOK, NoOrphans, Pending, UnitsInv, UnitsTyped, Exists, RefsExist

LEMMA IdleRelies == Fits(Idle) /\ HasSeen(Idle) /\ Confined(Idle) /\ Idle.op # "sync"
  BY IdleRequest DEF Fits, HasSeen, Confined

\* The new value of a column was compared with the site of the caller.
LEMMA BeginUpdateStep ==
  ASSUME IndInv, NEW h \in Handler, NEW i \in Zone \cup Device, NEW scope \in Scopes,
         NEW c \in Column, NEW v \in Id, scope # None /\ c = "site" => v = scope,
         BeginUpdate(h, i, scope, c, v)
  PROVE  IndInv'
  <1> DEFINE r == Request("update", i, scope, c, v, {}, None)
  <1>1. TypeOK /\ i \in Id
    BY DEF IndInv, Id
  <1>2. /\ row[i] # None /\ v # None /\ [row[i] EXCEPT ![c] = v] \in Shape(i)
        /\ InScope(i, row[i], scope)
        /\ req' = [req EXCEPT ![h] = r] /\ UNCHANGED <<row, units>> /\ begun' = begun + 1
    BY DEF BeginUpdate, Take, Begin, Exists
  <1>3. /\ r.op = "update" /\ r.id = i /\ r.scope = scope /\ r.column = c /\ r.value = v
        /\ ~r.changed
    BY DEF Request
  <1>4. r \in Requests
    BY <1>1 DEF Request, Requests, Scopes
  <1> HIDE DEF r
  <1>5. row[i] \in Shape(i)
    BY <1>1, <1>2 DEF TypeOK
  <1>6. [row[i] EXCEPT ![c] = v][c] = v
    BY <1>5, ShapeIsRow
  <1>7. v \in Values(i, c)
    BY <1>2, <1>6, ShapeColumn
  <1>8. InScope(i, [row[i] EXCEPT ![c] = v], scope)
    <2>1. CASE c = "site"
      BY <1>2, <1>6, <2>1 DEF InScope
    <2>2. CASE c # "site"
      <3>1. [row[i] EXCEPT ![c] = v].site = row[i].site
        BY <1>5, <2>2 DEF Shape
      <3> QED
        BY <1>2, <3>1 DEF InScope
    <2> QED
      BY <2>1, <2>2
  <1>9. Fits(r) /\ HasSeen(r) /\ Confined(r)
    BY <1>1, <1>2, <1>3, <1>7, <1>8 DEF Fits, HasSeen, Confined
  <1>10. begun' \in Nat
    BY <1>1, <1>2 DEF TypeOK
  <1> QED
    BY <1>2, <1>3, <1>4, <1>9, <1>10, RequestStep

LEMMA BeginDeleteStep ==
  ASSUME IndInv, NEW h \in Handler, NEW i \in Id, NEW scope \in Scopes, BeginDelete(h, i, scope)
  PROVE  IndInv'
  <1> DEFINE seen == IF i \in Device THEN count[i] ELSE None
  <1> DEFINE r == Request("delete", i, scope, "site", None, {}, seen)
  <1>1. /\ InScope(i, row[i], scope)
        /\ req' = [req EXCEPT ![h] = r] /\ UNCHANGED <<row, units>> /\ begun' = begun + 1
    BY DEF BeginDelete, Take, Begin
  <1>2. /\ r.op = "delete" /\ r.id = i /\ r.scope = scope /\ ~r.changed
    BY DEF Request
  <1>3. r \in Requests
    <2>1. seen \in [Unit -> Nat \cup {None}] \cup {None}
      BY DEF IndInv, TypeOK
    <2> HIDE DEF seen
    <2> QED
      BY <2>1 DEF Request, Requests, Scopes, Column
  <1> HIDE DEF r
  <1>4. Fits(r) /\ HasSeen(r) /\ Confined(r)
    BY <1>1, <1>2 DEF Fits, HasSeen, Confined
  <1>5. begun' \in Nat
    BY <1>1 DEF IndInv, TypeOK
  <1> QED
    BY <1>1, <1>2, <1>3, <1>4, <1>5, RequestStep

LEMMA BeginHeartbeatStep ==
  ASSUME IndInv, NEW h \in Handler, NEW d \in Device, NEW failed \in SUBSET Unit,
         BeginHeartbeat(h, d, failed)
  PROVE  IndInv'
  <1> DEFINE r == Request("heartbeat", d, None, "site", None, failed, None)
  <1>1. req' = [req EXCEPT ![h] = r] /\ UNCHANGED <<row, units>> /\ begun' = begun + 1
    BY DEF BeginHeartbeat, Take, Begin
  <1>2. r.op = "heartbeat" /\ r.id = d /\ d \in Id
    BY DEF Request, Id
  <1>3. r \in Requests
    BY <1>2 DEF Request, Requests, Column
  <1> HIDE DEF r
  <1>4. Fits(r) /\ HasSeen(r) /\ Confined(r)
    BY <1>2 DEF Fits, HasSeen, Confined
  <1>5. begun' \in Nat
    BY <1>1 DEF IndInv, TypeOK
  <1> QED
    BY <1>1, <1>2, <1>3, <1>4, <1>5, RequestStep

LEMMA ReadUnitsStep ==
  ASSUME IndInv, NEW h \in Handler, ReadUnits(h)
  PROVE  IndInv'
  <1> DEFINE d == req[h].id
  <1> DEFINE r == [req[h] EXCEPT !.op = "sync", !.seen = count[d]]
  <1>1. /\ req[h].op = "heartbeat" /\ Exists(d) /\ ~Locked(d)
        /\ req' = [req EXCEPT ![h].op = "sync", ![h].seen = count[d]]
        /\ UNCHANGED <<row, units>> /\ begun' = begun
    BY DEF ReadUnits
  <1>2. TypeOK /\ Fits(req[h])
    BY DEF IndInv
  <1>3. d \in Device /\ req[h] \in Requests /\ count[d] \in [Unit -> Nat \cup {None}]
    BY <1>1, <1>2 DEF Fits, TypeOK
  <1>4. r \in Requests /\ r.op = "sync" /\ r.id = d /\ r.seen = count[d]
    BY <1>3 DEF Requests
  <1>5. req' = [req EXCEPT ![h] = r]
    BY <1>1, <1>2, <1>3 DEF TypeOK
  <1> HIDE DEF r
  <1>6. Fits(r) /\ HasSeen(r) /\ Confined(r)
    BY <1>1, <1>3, <1>4 DEF Fits, HasSeen, Confined, Id
  <1>7. begun' \in Nat
    BY <1>1, <1>2 DEF TypeOK
  <1> QED
    BY <1>1, <1>4, <1>5, <1>6, <1>7, RequestStep

\* Overrides and stacks are no part of the inventory.
LEMMA ElsewhereStep ==
  ASSUME IndInv, UNCHANGED <<row, units, req>>, begun' \in Nat
  PROVE  IndInv'
  <1>1. row' = row /\ count' = count /\ failures' = failures /\ req' = req
    BY DEF units
  <1>2. TypeOK'
    BY <1>1 DEF IndInv, TypeOK
  <1>3. CountsFailures' /\ LockedOnce'
    BY <1>1 DEF IndInv, CountsFailures, LockedOnce
  <1>4. NoOrphans'
    BY <1>1 DEF IndInv, NoOrphans, Exists, RefsExist
  <1>5. ASSUME NEW g \in Handler PROVE (Fits(req[g]) /\ HasSeen(req[g]) /\ Confined(req[g]))'
    BY <1>1 DEF IndInv, Fits, HasSeen, Confined, Exists
  <1> QED
    BY <1>2, <1>3, <1>4, <1>5 DEF IndInv

-----------------------------------------------------------------------------
\* IndInv is kept by every step of the inventory,
LEMMA InventoryStep ==
  ASSUME IndInv, Next
  PROVE  IndInv'
  <1>1. ASSUME NEW scope \in Scopes, Creates(scope) PROVE IndInv'
    <2>1. \E new : Insert(new)
      BY <1>1 DEF Creates, CreateSite, CreateZone, CreateDevice, CreateProfile, Create
    <2> QED
      BY <2>1, InsertStep
  <1>2. CASE Imports
    <2>1. \E new : Insert(new)
      BY <1>2 DEF Imports, BulkImport
    <2> QED
      BY <2>1, InsertStep
  <1>3. ASSUME NEW h \in Handler, NEW scope \in Scopes, Updates(h, scope) PROVE IndInv'
    <2>1. ASSUME NEW z \in Zone, NEW p \in Profile, UpdateZone(h, z, scope, p) PROVE IndInv'
      BY <2>1, BeginUpdateStep DEF UpdateZone, Column, Id
    <2>2. ASSUME NEW d \in Device, NEW c \in Column, NEW v \in Id, UpdateDevice(h, d, scope, c, v)
          PROVE  IndInv'
      BY <2>2, BeginUpdateStep DEF UpdateDevice
    <2> QED
      BY <1>3, <2>1, <2>2 DEF Updates
  <1>4. ASSUME NEW h \in Handler, NEW scope \in Scopes, Deletes(h, scope) PROVE IndInv'
    <2>1. \E i \in Id : BeginDelete(h, i, scope)
      BY <1>4 DEF Deletes, DeleteSite, DeleteZone, DeleteDevice, DeleteProfile, Id
    <2> QED
      BY <2>1, BeginDeleteStep
  <1>5. ASSUME NEW h \in Handler, NEW d \in Device, NEW failed \in SUBSET Unit,
               BeginHeartbeat(h, d, failed)
        PROVE  IndInv'
    BY <1>5, BeginHeartbeatStep
  <1>6. ASSUME NEW h \in Handler, CommitUpdate(h) \/ CommitDelete(h)
        PROVE  IndInv'
    BY <1>6, UpdateStep, DeleteStep
  <1>8. ASSUME NEW h \in Handler, ReadUnits(h) \/ CommitHeartbeat(h) PROVE IndInv'
    BY <1>8, ReadUnitsStep, StoreStep
  <1>7. ASSUME NEW h \in Handler, Abort(h) PROVE IndInv'
    <2>1. begun' \in Nat /\ UNCHANGED <<row, units>> /\ req' = [req EXCEPT ![h] = Idle]
      BY <1>7 DEF Abort, IndInv, TypeOK
    <2> QED
      BY <2>1, IdleRelies, IdleRequest, RequestStep
  <1> QED
    BY <1>1, <1>2, <1>3, <1>4, <1>5, <1>6, <1>7, <1>8 DEF Next, Free

\* and of the routes for overrides.
LEMMA IndInvStep == IndInv /\ [ONext]_ovars => IndInv'
  <1> SUFFICES ASSUME IndInv, [ONext]_ovars PROVE IndInv'
    OBVIOUS
  <1>1. begun \in Nat /\ begun + 1 \in Nat
    BY DEF IndInv, TypeOK
  <1>2. CASE Inventoried
    BY <1>2, InventoryStep DEF Inventoried
  <1>3. CASE UNCHANGED <<row, units, req>> /\ begun' \in {begun, begun + 1}
    BY <1>1, <1>3, ElsewhereStep
  <1>4. Resolution => UNCHANGED vars
    BY DEF Resolution, ReadDevice, ReadZone, ReadProfile, ReadLayer, EndManifest, Resolve
  <1> QED
    BY <1>2, <1>3, <1>4
    DEF ONext, CreateOverride, DeleteOverride, Lapse, UpdateProfile, Begin, ovars, vars, units

\* Any content that earlier requests may have left satisfies it.
LEMMA InitIndInv == Init => IndInv
  <1> SUFFICES ASSUME Init PROVE IndInv
    OBVIOUS
  <1>1. PICK a \in Rows(Site \cup Profile), z \in Rows(Zone), d \in Rows(Device) :
            row = [i \in Id |-> CASE i \in Zone -> z[i] [] i \in Device -> d[i] [] OTHER -> a[i]]
    BY DEF Init
  <1>2. row = [i \in Id |-> row[i]]
    BY <1>1
  <1>3. ASSUME NEW i \in Id PROVE row[i] \in Shape(i) \cup {None}
    <2>1. row[i] = CASE i \in Zone -> z[i] [] i \in Device -> d[i] [] OTHER -> a[i]
      BY <1>1
    <2>2. CASE i \in Zone
      BY <2>1, <2>2 DEF Rows
    <2>3. CASE i \in Device /\ i \notin Zone
      BY <2>1, <2>3 DEF Rows
    <2>4. CASE i \notin Zone \cup Device
      BY <2>1, <2>4 DEF Rows, Id
    <2> QED
      BY <2>2, <2>3, <2>4
  <1>4. /\ failures \in [Device -> [Unit -> 0 .. 1]]
        /\ \A d1 \in Device : ~Exists(d1) => failures[d1] = [u \in Unit |-> 0]
        /\ count = [d1 \in Device |-> [u \in Unit |->
               IF failures[d1][u] > 0 THEN failures[d1][u] ELSE None]]
        /\ begun \in Nat
        /\ req = [h \in Handler |-> Idle]
        /\ \A i \in {j \in Id : Exists(j)} : RefsExist(row[i])
    BY BoundAssumption DEF Init
  <1>5. \A d1 \in Device, u \in Unit :
            /\ failures[d1][u] \in Nat
            /\ count[d1][u] = IF failures[d1][u] > 0 THEN failures[d1][u] ELSE None
    BY <1>4
  <1>6. TypeOK
    <2>1. count \in [Device -> [Unit -> Nat \cup {None}]]
      BY <1>4, <1>5
    <2>2. failures \in [Device -> [Unit -> Nat]]
      BY <1>4, <1>5
    <2> QED
      BY <1>2, <1>3, <1>4, <2>1, <2>2, IdleRequest DEF TypeOK
  <1>7. LockedOnce
    BY <1>4, IdleRequest DEF LockedOnce
  <1>8. CountsFailures
    BY <1>5, TablesAssumption DEF CountsFailures
  <1>9. NoOrphans
    <2>1. \A d1 \in Device : ~Exists(d1) => \A u \in Unit : count[d1][u] = None
      BY <1>4, <1>5
    <2> QED
      BY <1>3, <1>4, <2>1 DEF NoOrphans, Exists
  <1> QED
    BY <1>4, <1>6, <1>7, <1>8, <1>9, IdleRelies DEF IndInv

LEMMA Inductive == OSpec => []IndInv
  BY InitIndInv, IndInvStep, PTL DEF OSpec, OInit

-----------------------------------------------------------------------------
\* A commit writes the row that was checked, unless the row has changed since.
LEMMA ConfinedStep ==
  ASSUME IndInv, [ONext]_ovars, NEW h \in Handler,
         req[h].op \in {"update", "delete"}, req'[h] = Idle, row'[req[h].id] # row[req[h].id],
         ~req[h].changed
  PROVE  /\ InScope(req[h].id, row[req[h].id], req[h].scope)
         /\ req[h].op = "update" => InScope(req[h].id, row'[req[h].id], req[h].scope)
  <1> DEFINE i == req[h].id
  <1>0. TypeOK /\ Fits(req[h]) /\ Confined(req[h])
    BY DEF IndInv
  <1>1. InScope(i, row[i], req[h].scope)
    BY <1>0 DEF Confined
  <1>2. req[h] # Idle /\ h # None
    BY IdleRequest, TablesAssumption
  <1>3. ASSUME NEW g, NEW new, Write(g, new) PROVE g = h
    BY <1>0, <1>2, <1>3, WriteEffect, IdleRequest DEF TypeOK
  <1>4. ASSUME NEW g \in Handler, CommitUpdate(g)
        PROVE  req[h].op = "update" => InScope(i, row'[i], req[h].scope)
    <2>1. g = h
      BY <1>3, <1>4 DEF CommitUpdate
    <2>2. row' = [row EXCEPT ![i][req[h].column] = req[h].value]
      BY <1>4, <2>1 DEF CommitUpdate, Write
    <2>3. req[h].op = "update" => i \in Id
      BY <1>0 DEF Fits
    <2>4. req[h].op = "update" => row'[i] = [row[i] EXCEPT ![req[h].column] = req[h].value]
      BY <1>0, <2>2, <2>3 DEF TypeOK
    <2> QED
      BY <1>0, <2>4 DEF Confined
  <1>5. ASSUME NEW g \in Handler, CommitDelete(g) PROVE req[h].op = "delete"
    BY <1>3, <1>5 DEF CommitDelete
  <1>6. ASSUME NEW new, Insert(new) PROVE FALSE
    BY <1>2, <1>3, <1>6 DEF Insert
  <1>7. CASE Next
    <2>1. ~(\E scope \in Scopes : Creates(scope)) /\ ~Imports
      BY <1>6 DEF Creates, CreateSite, CreateZone, CreateDevice, CreateProfile, Create,
                  Imports, BulkImport
    <2>2. row' # row
      OBVIOUS
    <2>3. ASSUME NEW g, NEW scope, Updates(g, scope) \/ Deletes(g, scope) PROVE row' = row
      BY <2>3 DEF Updates, Deletes, UpdateZone, UpdateDevice, BeginUpdate, DeleteSite,
                  DeleteZone, DeleteDevice, DeleteProfile, BeginDelete, Take
    <2>4. ASSUME NEW g, NEW d, NEW failed, BeginHeartbeat(g, d, failed) PROVE row' = row
      BY <2>4 DEF BeginHeartbeat, Take
    <2>5. ASSUME NEW g, ReadUnits(g) \/ CommitHeartbeat(g) \/ Abort(g)
          PROVE  row' = row
      BY <2>5 DEF ReadUnits, CommitHeartbeat, Abort
    <2>6. \E g \in Handler : CommitUpdate(g) \/ CommitDelete(g)
      BY <1>7, <2>1, <2>2, <2>3, <2>4, <2>5 DEF Next
    <2> QED
      BY <1>1, <1>4, <1>5, <2>6
  <1>8. Next
    <2>1. Resolution => UNCHANGED vars
      BY DEF Resolution, ReadDevice, ReadZone, ReadProfile, ReadLayer, EndManifest, Resolve
    <2> QED
      BY <2>1
      DEF ONext, Inventoried, CreateOverride, DeleteOverride, Lapse, UpdateProfile, ovars, vars
  <1> QED
    BY <1>7, <1>8

-----------------------------------------------------------------------------
(* The manifest: a resolution keeps in step with what it has read.          *)

\* The targets of a device differ, and NULL is none of them.
LEMMA TargetsDiffer ==
  ASSUME NEW d \in Device, NEW q \in Shape(d)
  PROVE  /\ q.site \in Site \cup {None} /\ q.zone \in Zone \cup {None}
         /\ q.site \notin Zone \cup Device /\ q.zone \notin Site \cup Device
         /\ d \notin Site \cup Zone \cup {None}
  <1>1. Values(d, "site") = Site \cup {None} /\ Values(d, "zone") = Zone \cup {None}
    BY TablesAssumption DEF Values, Table
  <1>2. q.site \in Site \cup {None} /\ q.zone \in Zone \cup {None}
    BY <1>1, ShapeColumn DEF Column
  <1> QED
    BY <1>2, TablesAssumption DEF Id

LEMMA NothingRead == Consistent(NoResolution)
  BY DEF Consistent, NoResolution

\* What has been read when the overrides come: a stack, and nothing else.
LEMMA StackConsistent ==
  ASSUME NEW r, Consistent(r), r.stage # "none", r.layer = 1, r.applied = {}, NEW stack
  PROVE  Consistent(WithStack(r, stack))
  <1> DEFINE q == WithStack(r, stack)
  <1>1. r = [k \in DOMAIN NoResolution |-> r[k]]
    BY DEF Consistent
  <1>2. /\ q = [k \in DOMAIN NoResolution |-> q[k]]
        /\ q.stage = "layers" /\ q.stack = stack /\ q.components = stack /\ q.layer = 1
        /\ q.applied = {} /\ q.device = r.device /\ q.row = r.row
    BY <1>1 DEF WithStack, NoResolution
  <1> HIDE DEF q
  <1>3. ASSUME NEW t, NEW c PROVE Applied(q, t, c) = {}
    BY <1>2 DEF Applied
  <1>4. Follows(q)
    <2>1. \A c : FromRead(q, c) = In(stack, c)
      BY <1>2, <1>3 DEF FromRead, Nearest
    <2> QED
      BY <1>2, <2>1 DEF Follows, In
  <1>5. q.device \in Device /\ q.row \in Shape(q.device)
    BY <1>2 DEF Consistent
  <1>6. Consistent(q)
    BY <1>2, <1>4, <1>5 DEF Consistent
  <1> QED
    BY <1>6 DEF q

LEMMA ProfileConsistent ==
  ASSUME NEW r, Consistent(r), r.stage # "none", r.layer = 1, r.applied = {},
         NEW p \in Profile \cup {None}
  PROVE  Consistent(WithProfile(r, p))
  <1>1. CASE p = None
    BY <1>1, StackConsistent DEF WithProfile
  <1>2. CASE p # None
    <2> DEFINE q == [r EXCEPT !.stage = "profile", !.profile = p]
    <2>1. /\ q = [k \in DOMAIN NoResolution |-> q[k]]
          /\ q.stage = "profile" /\ q.layer = 1 /\ q.applied = {}
          /\ q.device = r.device /\ q.row = r.row
      BY DEF Consistent, NoResolution
    <2> HIDE DEF q
    <2>2. Consistent(q)
      BY <2>1 DEF Consistent
    <2>3. WithProfile(r, p) = q
      BY <1>2 DEF WithProfile, q
    <2> QED
      BY <2>2, <2>3
  <1> QED
    BY <1>1, <1>2

\* Each target is read once, the more specific ones later: its rows, where it has any
\* of a component, are the nearest.
LEMMA LayerConsistent ==
  ASSUME NEW r, Consistent(r), r.stage = "layers",
         NEW rows \in SUBSET Override, \A o \in rows : o.target = Targets(r)[r.layer],
         NEW components \in Overlaid(r.components, rows)
  PROVE  Consistent([r EXCEPT !.stage = IF r.layer = 3 THEN "done" ELSE @, !.layer = @ + 1,
                              !.applied = @ \cup rows, !.components = components])
  <1> DEFINE q == [r EXCEPT !.stage = IF r.layer = 3 THEN "done" ELSE @, !.layer = @ + 1,
                            !.applied = @ \cup rows, !.components = components]
  <1>1. /\ r = [k \in DOMAIN NoResolution |-> r[k]] /\ r.layer \in 1 .. 3
        /\ r.device \in Device /\ r.row \in Shape(r.device) /\ Follows(r)
        /\ \A o \in r.applied : \E i \in 1 .. 3 : i < r.layer /\ o.target = Targets(r)[i]
    BY DEF Consistent
  <1>2. /\ q = [k \in DOMAIN NoResolution |-> q[k]]
        /\ q.stage = IF r.layer = 3 THEN "done" ELSE "layers"
        /\ q.layer = r.layer + 1 /\ q.applied = r.applied \cup rows
        /\ q.components = components
        /\ q.stack = r.stack /\ q.device = r.device /\ q.row = r.row
    BY <1>1 DEF NoResolution
  <1> HIDE DEF q
  <1>3. Targets(q) = Targets(r)
    BY <1>2 DEF Targets
  <1>4. \A o \in q.applied : \E i \in 1 .. 3 : i < q.layer /\ o.target = Targets(q)[i]
    <2>1. ASSUME NEW o \in r.applied
          PROVE  \E i \in 1 .. 3 : i < q.layer /\ o.target = Targets(q)[i]
      BY <1>1, <1>2, <1>3
    <2>2. ASSUME NEW o \in rows
          PROVE  \E i \in 1 .. 3 : i < q.layer /\ o.target = Targets(q)[i]
      BY <1>1, <1>2, <1>3
    <2> QED
      BY <1>2, <2>1, <2>2
  <1> DEFINE T == Targets(r)[r.layer]
  <1>5. ASSUME NEW c \in Component
        PROVE  IF c \in DOMAIN q.components THEN q.components[c] \in FromRead(q, c)
               ELSE FromRead(q, c) = {}
    <2> DEFINE Refs == {o.ref : o \in {x \in rows : x.component = c}}
               named == {o.component : o \in rows}
    <2>1. ASSUME NEW t PROVE Applied(q, t, c) = Applied(r, t, c) \cup (IF t = T THEN Refs ELSE {})
      BY <1>2 DEF Applied
    <2>2. PICK last \in [named -> rows] :
              /\ \A k \in named : last[k].component = k
              /\ components = [k \in DOMAIN r.components \cup named |->
                     IF k \in named THEN last[k].ref ELSE r.components[k]]
      BY DEF Overlaid
    <2>3. c \in named <=> Refs # {}
      OBVIOUS
    <2>4. CASE Refs = {}
      <3>1. \A t : Applied(q, t, c) = Applied(r, t, c)
        BY <2>1, <2>4
      <3>2. FromRead(q, c) = FromRead(r, c)
        BY <1>2, <3>1 DEF FromRead
      <3>3. /\ c \in DOMAIN components <=> c \in DOMAIN r.components
            /\ c \in DOMAIN components => components[c] = r.components[c]
        BY <2>2, <2>3, <2>4
      <3> QED
        BY <1>1, <1>2, <3>2, <3>3 DEF Follows
    <2>5. CASE Refs # {}
      <3>1. c \in DOMAIN q.components /\ q.components[c] \in Refs
        <4>1. last[c] \in rows /\ last[c].component = c
          BY <2>2, <2>3, <2>5
        <4>2. c \in DOMAIN components /\ components[c] = last[c].ref
          BY <2>2, <2>3, <2>5
        <4> QED
          BY <1>2, <4>1, <4>2
      <3>2. T \in Site \cup Zone \cup Device
        BY <2>5 DEF Override
      <3>3. \A t : Applied(r, t, c) # {} => \E i \in 1 .. 3 : i < r.layer /\ t = Targets(r)[i]
        BY <1>1 DEF Applied
      <3>4. /\ r.row.site \in Site \cup {None} /\ r.row.zone \in Zone \cup {None}
            /\ Site \cap Zone = {} /\ r.device \notin Site \cup Zone \cup {None}
            /\ None \notin Site \cup Zone \cup Device
        BY <1>1, TargetsDiffer, TablesAssumption DEF Id
      <3> HIDE DEF Refs
      <3>5. CASE r.layer = 1
        <4>1. T = r.row.site /\ \A t : Applied(r, t, c) = {}
          BY <3>3, <3>5 DEF Targets
        <4>2. r.row.site # r.row.zone /\ r.row.site # r.device
          <5>1. r.row.site # None
            BY <3>2, <3>4, <4>1
          <5>2. r.row.site \in Site
            BY <3>4, <5>1
          <5> QED
            BY <3>4, <5>2
        <4>3. FromRead(q, c) = Refs
          BY <1>2, <2>1, <2>5, <4>1, <4>2 DEF FromRead, Nearest
        <4> QED
          BY <3>1, <4>3
      <3>6. CASE r.layer = 2
        <4>1. T = r.row.zone /\ \A t : t # r.row.site => Applied(r, t, c) = {}
          BY <3>3, <3>6 DEF Targets
        <4>2. r.row.zone # r.row.site /\ r.device # r.row.site /\ r.device # r.row.zone
          BY <1>1, <3>2, <3>4, <4>1
        <4>3. FromRead(q, c) = Refs
          BY <1>2, <2>1, <2>5, <4>1, <4>2 DEF FromRead, Nearest
        <4> QED
          BY <3>1, <4>3
      <3>7. CASE r.layer = 3
        <4>1. T = r.device
          BY <3>7 DEF Targets
        <4>2. Applied(r, r.device, c) = {}
          <5>1. r.device # r.row.site /\ r.device # r.row.zone
            BY <1>1, <3>4
          <5>2. \A i \in 1 .. 3 : i < r.layer => Targets(r)[i] \in {r.row.site, r.row.zone}
            BY <3>7 DEF Targets
          <5> QED
            BY <3>3, <5>1, <5>2
        <4>3. FromRead(q, c) = Refs
          BY <1>2, <2>1, <2>5, <4>1, <4>2 DEF FromRead, Nearest
        <4> QED
          BY <3>1, <4>3
      <3> QED
        BY <1>1, <3>5, <3>6, <3>7
    <2> QED
      BY <2>4, <2>5
  <1>6. Consistent(q)
    BY <1>1, <1>2, <1>4, <1>5 DEF Consistent, Follows
  <1> QED
    BY <1>6 DEF q

\* ResInv is kept by every step: what a resolution reads, and what others do between.
LEMMA ResolutionStep ==
  ASSUME IndInv, ResInv, Resolution
  PROVE  ResInv'
  <1>1. ASSUME NEW r, Resolve(r), Consistent(r) PROVE ResInv'
    BY <1>1 DEF ResInv, Resolve
  <1>2. res = [k \in DOMAIN NoResolution |-> res[k]] /\ Consistent(res) /\ TypeOK
    BY DEF ResInv, Consistent, IndInv
  <1>3. ASSUME NEW d \in Device, NEW scope, ReadDevice(d, scope) PROVE ResInv'
    <2> DEFINE r == [NoResolution EXCEPT !.device = d, !.row = row[d]]
               At(stage) == [r EXCEPT !.stage = stage]
    <2>1. Exists(d) /\ row[d] \in Shape(d)
      BY <1>2, <1>3 DEF ReadDevice, TypeOK, Exists, Id
    <2>2. CASE row[d].profile = None /\ row[d].zone # None
      <3>1. Resolve(At("zone"))
        BY <1>3, <2>2 DEF ReadDevice
      <3>2. Consistent(At("zone"))
        BY <2>1, <2>2 DEF Consistent, NoResolution
      <3> QED
        BY <1>1, <3>1, <3>2
    <2>3. CASE ~(row[d].profile = None /\ row[d].zone # None)
      <3> DEFINE p == row[d].profile
      <3>1. Resolve(WithProfile(r, p))
        BY <1>3, <2>3 DEF ReadDevice
      <3>2. p \in Profile \cup {None}
        BY <2>1, ShapeColumn, TablesAssumption DEF Column, Values, Table
      <3>3. Consistent(WithProfile(r, p))
        <4> DEFINE q == At("profile")
        <4>1. q.stage = "profile" /\ q.layer = 1 /\ q.applied = {}
          BY DEF NoResolution
        <4>2. Consistent(q)
          BY <2>1 DEF Consistent, NoResolution
        <4>3. Consistent(WithProfile(q, p))
          BY <3>2, <4>1, <4>2, ProfileConsistent
        <4>4. WithProfile(q, p) = WithProfile(r, p)
          BY DEF WithProfile, WithStack, NoResolution
        <4> QED
          BY <4>3, <4>4
      <3> QED
        BY <1>1, <3>1, <3>3
    <2> QED
      BY <2>2, <2>3
  <1>4. CASE ReadZone
    <2> DEFINE p == IF Exists(res.row.zone) THEN row[res.row.zone].profile ELSE None
    <2>1. Resolve(WithProfile(res, p)) /\ res.stage = "zone"
      BY <1>4 DEF ReadZone
    <2>2. p \in Profile \cup {None}
      <3>1. res.row.zone \in Zone
        BY <1>2, <2>1, TargetsDiffer DEF Consistent
      <3>2. Exists(res.row.zone) => row[res.row.zone] \in Shape(res.row.zone)
        BY <1>2, <3>1 DEF TypeOK, Exists, Id
      <3> QED
        BY <3>1, <3>2, ShapeColumn, TablesAssumption DEF Column, Values, Table
    <2> QED
      BY <1>1, <1>2, <2>1, <2>2, ProfileConsistent DEF Consistent
  <1>5. CASE ReadProfile
    <2>1. PICK stack : Resolve(WithStack(res, stack))
      BY <1>5 DEF ReadProfile
    <2>2. res.stage = "profile"
      BY <1>5 DEF ReadProfile
    <2> QED
      BY <1>1, <1>2, <2>1, <2>2, StackConsistent DEF Consistent
  <1>6. CASE ReadLayer
    <2> DEFINE rows == {o \in override : o.target = Targets(res)[res.layer] /\ o \notin res.expired}
    <2>1. PICK components \in Overlaid(res.components, rows) :
              Resolve([res EXCEPT !.stage = IF res.layer = 3 THEN "done" ELSE @, !.layer = @ + 1,
                                  !.applied = @ \cup rows, !.components = components])
      BY <1>6 DEF ReadLayer
    <2>2. res.stage = "layers"
      BY <1>6 DEF ReadLayer
    <2>3. rows \in SUBSET Override /\ \A o \in rows : o.target = Targets(res)[res.layer]
      BY DEF ResInv
    <2> HIDE DEF rows
    <2> QED
      BY <1>1, <1>2, <2>1, <2>2, <2>3, LayerConsistent
  <1>7. CASE EndManifest
    BY <1>1, <1>7, NothingRead DEF EndManifest
  <1> QED
    BY <1>3, <1>4, <1>5, <1>6, <1>7 DEF Resolution

LEMMA ResInvStep == IndInv /\ ResInv /\ [ONext]_ovars => ResInv'
  <1> SUFFICES ASSUME IndInv, ResInv, [ONext]_ovars PROVE ResInv'
    OBVIOUS
  <1>1. ASSUME res' = res, override' \subseteq Override PROVE ResInv'
    BY <1>1 DEF ResInv
  <1>2. ASSUME NEW t \in Site \cup Zone \cup Device, NEW c \in Component, NEW a \in Artifact,
               NEW s \in Scopes, CreateOverride(t, c, a, s)
        PROVE  ResInv'
    <2>1. [target |-> t, component |-> c, ref |-> a, lapsed |-> FALSE] \in Override
      BY DEF Override
    <2> QED
      BY <1>1, <1>2, <2>1 DEF CreateOverride, ResInv
  <1>3. ASSUME NEW o \in override, NEW s \in Scopes, DeleteOverride(o, s) PROVE ResInv'
    BY <1>1, <1>3 DEF DeleteOverride, ResInv
  <1>4. ASSUME NEW o \in override, Lapse(o) PROVE ResInv'
    BY <1>1, <1>4 DEF Lapse, ResInv, Override
  <1>5. ASSUME UNCHANGED <<override, res>> PROVE ResInv'
    BY <1>1, <1>5 DEF ResInv
  <1> QED
    BY <1>2, <1>3, <1>4, <1>5, ResolutionStep DEF ONext, Inventoried, UpdateProfile, ovars

\* What has been read of a component and is still so decides on it.
LEMMA StillReadDecides ==
  ASSUME NEW c, StillRead(c)
  PROVE  Decided(res.device, c) = FromRead(res, c)
  <1>1. ASSUME NEW t \in {res.row.site, res.row.zone, res.device}
        PROVE  Live(t, c) = Applied(res, t, c)
    BY <1>1 DEF StillRead, Live, Applied
  <1>2. row[res.device] = res.row /\ StackOf(res.device) = res.stack
    BY DEF StillRead
  <1> QED
    BY <1>1, <1>2 DEF Decided, FromRead

-----------------------------------------------------------------------------
\* Rows, units and requests keep their types.
THEOREM TypeCorrect == OSpec => []TypeOK
  <1>1. IndInv => TypeOK
    BY DEF IndInv
  <1> QED
    BY <1>1, Inductive, PTL

\* Whatever is deleted while other requests are about to refer to it, every reference
\* leads to a row, every zone has a site and no unit outlives its device.
THEOREM NoOrphansAlways == OSpec => []NoOrphans
  <1>1. IndInv => NoOrphans
    BY DEF IndInv
  <1> QED
    BY <1>1, Inductive, PTL

\* restart_count is the number of failures reported since the device was created, however
\* heartbeats overlap (device_heartbeat).
THEOREM CountsFailuresAlways == OSpec => []CountsFailures
  <1>1. IndInv => CountsFailures
    BY DEF IndInv
  <1> QED
    BY <1>1, Inductive, PTL

\* A caller confined to a site changes and moves rows of that site only, unless another
\* request changed the row between the check and the commit (_get_scoped_device).
THEOREM ConfinedWritesAlways == OSpec => ConfinedWrites
  <1>1. IndInv /\ [ONext]_ovars =>
            [\A h \in Handler :
                LET r == req[h] IN
                r.op \in {"update", "delete"} /\ req'[h] = Idle /\ row'[r.id] # row[r.id]
                        /\ ~r.changed =>
                    /\ InScope(r.id, row[r.id], r.scope)
                    /\ r.op = "update" => InScope(r.id, row'[r.id], r.scope)]_vars
    BY ConfinedStep
  <1> QED
    BY <1>1, Inductive, PTL DEF OSpec, ConfinedWrites

\* The manifest of a device has each component from the nearest layer that has it, and no
\* other, whatever is committed between the queries that put it together: as long as what
\* they read of the component is still there at the end (resolve_manifest).
THEOREM ManifestFollowsLayersAlways == OSpec => []ManifestFollowsLayers
  <1>1. OInit => ResInv
    BY NothingRead DEF OInit, ResInv
  <1>2. ResInv => ManifestFollowsLayers
    BY StillReadDecides DEF ResInv, Consistent, Follows, ManifestFollowsLayers
  <1> QED
    BY <1>1, <1>2, Inductive, ResInvStep, PTL DEF OSpec
=============================================================================
