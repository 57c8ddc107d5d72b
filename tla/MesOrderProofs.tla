---------------------------- MODULE MesOrderProofs ----------------------------
(***************************************************************************)
(* For any number of consoles: that the list of orders changes as          *)
(* OrderBook says, and that an order that has waited goes out in its turn. *)
(* And that orders are dispatched in the order of their numbers, whatever  *)
(* the station reports meanwhile, while no two requests overlap.           *)
(*                                                                         *)
(* For the last: each transaction sees the committed table under the rows  *)
(* it has written itself, and the table changes beneath it.  What it sees  *)
(* stays in order, because the two threads write different things: only a  *)
(* request inserts, with numbers above all others, and only an insertion   *)
(* leaves an order waiting; the MQTT thread writes rows that exist and     *)
(* leaves none waiting.  A transaction that looked for a waiting order and *)
(* found none is thus never wrong about it.  Two requests at once can be.  *)
(*                                                                         *)
(* For the others: each row an open transaction has written is one step    *)
(* from the row it is based on, of one kind if an order is told of and of  *)
(* another if orders are issued, and the version check makes the commit    *)
(* one step of the list.  Behind an order it dispatches none waits or is   *)
(* still to come, and no other commit changes that.                        *)
(***************************************************************************)
EXTENDS MesProofs

\* The table with the rows of transaction x over it.
Over(x, table) == [w \in Orders |-> IF x.rows[w] # NoRow THEN x.rows[w] ELSE table[w]]

InOrder(table) == \A v, w \in Orders : v < w /\ IsActive(table[w]) => table[v].status # "QUEUED"
NoGaps(table) == \A v, w \in Orders : v < w /\ table[w] # NoRow => table[v] # NoRow
NoneWaits(table) == \A w \in Orders : table[w].status # "QUEUED"

\* Thread t with transaction x sees the orders in order; it may only have inserted
\* a row if it serves a request, and only inserted rows wait.
Steady(table, t, x) ==
  /\ InOrder(Over(x, table)) /\ NoGaps(Over(x, table))
  /\ \A w \in Orders : x.rows[w] # NoRow =>
        /\ table[w] = NoRow => t # Mqtt
        /\ x.rows[w].status = "QUEUED" => table[w] = NoRow

\* Only a request inserts, and no RELEASED order while one waits.
InsertsRightly(table, t, x) ==
  x.at = "insert" => t # Mqtt /\ (x.initial = "RELEASED" => NoneWaits(Over(x, table)))

OrderInv ==
  /\ InOrder(orders) /\ NoGaps(orders)
  /\ \A t \in Threads : Steady(orders, t, tx[t]) /\ InsertsRightly(orders, t, tx[t])

\* No two requests are served at once, however many consoles make them.
OneAtATime == \A c, d \in Clients : tx[c] # NoTransaction /\ tx[d] # NoTransaction => c = d
-----------------------------------------------------------------------------
(* The next number                                                         *)

\* Where there are no gaps, the number after the count of the rows is the first free one.
LEMMA FirstFree ==
  ASSUME NEW table, NoGaps(table), NEW S, S = {w \in Orders : table[w] # NoRow}
  PROVE  /\ Cardinality(S) \in Nat
         /\ \A w \in Orders : table[w] # NoRow <=> w < Cardinality(S) + 1
<1> DEFINE k == Cardinality(S)
<1>1. IsFiniteSet(1..MaxOrders) /\ S \in SUBSET (1..MaxOrders) /\ MaxOrders \in Nat
  BY FS_Interval, BrokerAssumption DEF Orders
<1>2. IsFiniteSet(S) /\ k \in Nat
  BY <1>1, FS_Subset, FS_CardinalityType
<1> HIDE DEF k
<1>3. IsFiniteSet(1..k) /\ Cardinality(1..k) = k
  BY <1>2, FS_Interval
<1>4. \A w \in S : w <= k
  <2> SUFFICES ASSUME NEW w \in S, ~(w <= k) PROVE FALSE
    OBVIOUS
  <2>1. w \in Nat /\ w <= MaxOrders /\ k + 1 <= w
    BY <1>1, <1>2
  <2>2. 1..(k + 1) \in SUBSET S
    <3>1. ASSUME NEW v \in 1..(k + 1) PROVE v \in S
      <4>1. v \in Orders /\ v <= w /\ w \in Orders /\ table[w] # NoRow
        BY <1>1, <1>2, <2>1 DEF Orders
      <4>2. v = w \/ v < w
        BY <2>1, <4>1 DEF Orders
      <4>3. QED BY <4>1, <4>2 DEF NoGaps
    <3>2. QED BY <3>1
  <2>3. Cardinality(1..(k + 1)) = k + 1
    BY <1>2, FS_Interval
  <2>4. k + 1 <= k
    BY <1>2, <2>2, <2>3, FS_Subset DEF k
  <2>5. QED BY <1>2, <2>4
<1>5. S \in SUBSET (1..k)
  BY <1>1, <1>2, <1>4
<1>6. S = 1..k
  BY <1>3, <1>5, FS_Subset DEF k
<1>7. \A w \in Orders : table[w] # NoRow <=> w < k + 1
  BY <1>1, <1>2, <1>6 DEF Orders
<1>8. QED BY <1>2, <1>7 DEF k
-----------------------------------------------------------------------------
(* What a transaction does to what it sees                                 *)

\* What a transaction sees is the table under its rows.
LEMMA ViewIsOver ==
  ASSUME NEW x
  PROVE  /\ View(x) = Over(x, orders)
         /\ Queued(x) = {w \in Orders : Over(x, orders)[w].status = "QUEUED"}
BY DEF View, Over, Queued

\* Only the rows of a transaction matter.
LEMMA SameRows ==
  ASSUME NEW table, NEW t, NEW x, NEW y, y.rows = x.rows, Steady(table, t, x)
  PROVE  Steady(table, t, y) /\ (y.at # "insert" => InsertsRightly(table, t, y))
<1>1. Over(y, table) = Over(x, table)
  BY DEF Over
<1>2. QED BY <1>1 DEF Steady, InsertsRightly

\* Nothing written, nothing out of order.
LEMMA NothingWritten ==
  ASSUME NEW table, InOrder(table), NoGaps(table), NEW t, NEW x, x.rows = NoTransaction.rows
  PROVE  Steady(table, t, x) /\ (x.at # "insert" => InsertsRightly(table, t, x))
<1>1. \A w \in Orders : x.rows[w] = NoRow
  BY DEF NoTransaction
<1>2. \A w \in Orders : Over(x, table)[w] = table[w]
  BY <1>1 DEF Over
<1>3. QED BY <1>1, <1>2 DEF Steady, InsertsRightly, InOrder, NoGaps

\* A row that is written again does not wait, and becomes active only if it was or
\* is the first that waits.
LEMMA RewriteSteady ==
  ASSUME NEW table, NEW t, NEW x, Steady(table, t, x), NEW w \in Orders, NEW row, NEW y,
         NEW old, old = Over(x, table)[w], old # NoRow, row # NoRow, row.status # "QUEUED",
         \/ IsActive(row) => IsActive(old)
         \/ \A v \in Orders : v < w => Over(x, table)[v].status # "QUEUED",
         y.rows[w] = row, \A v \in Orders : v # w => y.rows[v] = x.rows[v]
  PROVE  Steady(table, t, y)
<1> DEFINE a == Over(x, table)
           b == Over(y, table)
<1>1. b[w] = row /\ \A v \in Orders : v # w => b[v] = a[v]
  BY DEF Over
<1>2. a[w] = old /\ (x.rows[w] = NoRow => table[w] = old)
  BY DEF Over
<1>3. InOrder(a) /\ NoGaps(a)
  BY DEF Steady
<1>4. /\ x.rows[w] # NoRow => (table[w] = NoRow => t # Mqtt)
      /\ \A v \in Orders : y.rows[v] # NoRow /\ v # w =>
            /\ table[v] = NoRow => t # Mqtt
            /\ y.rows[v].status = "QUEUED" => table[v] = NoRow
  BY DEF Steady
<1>5. \A v \in Orders : v < w => a[v].status # "QUEUED" \/ (IsActive(row) => IsActive(old))
  OBVIOUS
<1> HIDE DEF a, b
<1>6. InOrder(b)
  <2> SUFFICES ASSUME NEW u \in Orders, NEW v \in Orders, u < v, IsActive(b[v])
               PROVE  b[u].status # "QUEUED"
    BY DEF InOrder
  <2>1. CASE u = w
    BY <1>1, <2>1
  <2>2. CASE u # w /\ v # w
    BY <1>1, <1>3, <2>2 DEF InOrder
  <2>3. CASE u # w /\ v = w
    BY <1>1, <1>2, <1>3, <1>5, <2>3 DEF InOrder
  <2>4. QED BY <2>1, <2>2, <2>3
<1>7. NoGaps(b)
  BY <1>1, <1>2, <1>3 DEF NoGaps
<1>8. QED BY <1>2, <1>4, <1>6, <1>7 DEF Steady, b

\* An order with the next number is behind all others; it is released at once only
\* if none of them waits.
LEMMA InsertSteady ==
  ASSUME NEW table, NEW t, t # Mqtt, NEW x, Steady(table, t, x), NEW n \in Orders, NEW row, NEW y,
         \A w \in Orders : Over(x, table)[w] # NoRow <=> w < n,
         row # NoRow, IsActive(row) => NoneWaits(Over(x, table)),
         y.rows[n] = row, \A v \in Orders : v # n => y.rows[v] = x.rows[v]
  PROVE  Steady(table, t, y)
<1> DEFINE a == Over(x, table)
           b == Over(y, table)
<1>1. b[n] = row /\ \A v \in Orders : v # n => b[v] = a[v]
  BY DEF Over
<1>2. a[n] = NoRow /\ table[n] = NoRow /\ x.rows[n] = NoRow
  BY BrokerAssumption DEF Over, Orders
<1>3. InOrder(a) /\ NoGaps(a)
  BY DEF Steady
<1>4. \A v \in Orders : y.rows[v] # NoRow /\ v # n =>
         /\ table[v] = NoRow => t # Mqtt
         /\ y.rows[v].status = "QUEUED" => table[v] = NoRow
  BY DEF Steady
<1>5. (\A w \in Orders : a[w] # NoRow <=> w < n) /\ (IsActive(row) => NoneWaits(a))
  OBVIOUS
<1> HIDE DEF a, b
<1>6. InOrder(b)
  <2> SUFFICES ASSUME NEW u \in Orders, NEW v \in Orders, u < v, IsActive(b[v])
               PROVE  b[u].status # "QUEUED"
    BY DEF InOrder
  <2>1. CASE u = n
    <3>1. ~(v < n) /\ v # n
      BY <2>1, BrokerAssumption DEF Orders
    <3>2. b[v] = NoRow
      BY <1>1, <1>5, <3>1
    <3>3. QED BY <3>2 DEF IsActive, NoRow
  <2>2. CASE u # n /\ v # n
    BY <1>1, <1>3, <2>2 DEF InOrder
  <2>3. CASE u # n /\ v = n
    BY <1>1, <1>5, <2>3 DEF NoneWaits
  <2>4. QED BY <2>1, <2>2, <2>3
<1>7. NoGaps(b)
  <2> SUFFICES ASSUME NEW u \in Orders, NEW v \in Orders, u < v, b[v] # NoRow PROVE b[u] # NoRow
    BY DEF NoGaps
  <2>1. v <= n
    BY <1>1, <1>5, BrokerAssumption DEF Orders
  <2>2. u # n /\ u < n
    BY <2>1, BrokerAssumption DEF Orders
  <2>3. QED BY <1>1, <1>5, <2>2
<1>8. QED BY <1>2, <1>4, <1>6, <1>7 DEF Steady, b
-----------------------------------------------------------------------------
(* What a transaction sees when another one commits                        *)

\* A report's commit beneath a request: no row appears, and none waits that did not.
LEMMA ReportBeneathRequest ==
  ASSUME NEW table, NEW new, NEW t, t # Mqtt, NEW x, Steady(table, t, x), InsertsRightly(table, t, x),
         NoGaps(table), InOrder(new),
         \A w \in Orders : (new[w] = NoRow <=> table[w] = NoRow)
                           /\ (new[w].status = "QUEUED" => new[w] = table[w])
  PROVE  Steady(new, t, x) /\ InsertsRightly(new, t, x)
<1> DEFINE a == Over(x, table)
           b == Over(x, new)
<1>1. \A w \in Orders : /\ x.rows[w] # NoRow => a[w] = x.rows[w] /\ b[w] = x.rows[w]
                        /\ x.rows[w] = NoRow => a[w] = table[w] /\ b[w] = new[w]
  BY DEF Over
<1>2. InOrder(a) /\ NoGaps(a)
  BY DEF Steady
<1>3. \A w \in Orders : x.rows[w] # NoRow /\ x.rows[w].status = "QUEUED" => table[w] = NoRow
  BY DEF Steady
<1>4. x.at = "insert" /\ x.initial = "RELEASED" => NoneWaits(a)
  BY DEF InsertsRightly
<1> HIDE DEF a, b
<1>5. InOrder(b)
  <2> SUFFICES ASSUME NEW v \in Orders, NEW w \in Orders, v < w, IsActive(b[w]), b[v].status = "QUEUED"
               PROVE  FALSE
    BY DEF InOrder
  <2>1. CASE x.rows[v] = NoRow /\ x.rows[w] = NoRow
    BY <1>1, <2>1 DEF InOrder
  <2>2. CASE x.rows[v] = NoRow /\ x.rows[w] # NoRow
    <3>1. a[v].status = "QUEUED" /\ IsActive(a[w])
      BY <1>1, <2>2
    <3>2. QED BY <1>2, <3>1 DEF InOrder
  <2>3. CASE x.rows[v] # NoRow /\ x.rows[w] = NoRow
    <3>1. table[v] = NoRow
      BY <1>1, <1>3, <2>3
    <3>2. table[w] = NoRow
      BY <3>1 DEF NoGaps
    <3>3. b[w] = NoRow
      BY <1>1, <2>3, <3>2
    <3>4. QED BY <3>3 DEF IsActive, NoRow
  <2>4. CASE x.rows[v] # NoRow /\ x.rows[w] # NoRow
    <3>1. a[v].status = "QUEUED" /\ IsActive(a[w])
      BY <1>1, <2>4
    <3>2. QED BY <1>2, <3>1 DEF InOrder
  <2>5. QED BY <2>1, <2>2, <2>3, <2>4
<1>6. NoGaps(b)
  <2>1. \A w \in Orders : b[w] = NoRow <=> a[w] = NoRow
    BY <1>1
  <2>2. QED BY <1>2, <2>1 DEF NoGaps
<1>7. NoneWaits(a) => NoneWaits(b)
  BY <1>1 DEF NoneWaits
<1>8. Steady(new, t, x)
  BY <1>5, <1>6 DEF Steady, b
<1>9. QED BY <1>4, <1>7, <1>8 DEF InsertsRightly, b

\* A request's commit beneath a report: what it inserts is behind all that the report
\* can have changed.
LEMMA RequestBeneathReport ==
  ASSUME NEW table, NEW new, NEW x, Steady(table, Mqtt, x), InsertsRightly(table, Mqtt, x),
         NoGaps(table), InOrder(new), NoGaps(new),
         \A w \in Orders : (table[w] # NoRow => new[w] # NoRow)
                           /\ (new[w].status = "QUEUED" => new[w] = table[w] \/ table[w] = NoRow)
  PROVE  Steady(new, Mqtt, x) /\ InsertsRightly(new, Mqtt, x)
<1> DEFINE a == Over(x, table)
           b == Over(x, new)
<1>1. \A w \in Orders : /\ x.rows[w] # NoRow => a[w] = x.rows[w] /\ b[w] = x.rows[w]
                        /\ x.rows[w] = NoRow => a[w] = table[w] /\ b[w] = new[w]
  BY DEF Over
<1>2. InOrder(a)
  BY DEF Steady
<1>3. \A w \in Orders : x.rows[w] # NoRow =>
         table[w] # NoRow /\ new[w] # NoRow /\ x.rows[w].status # "QUEUED"
  BY DEF Steady
<1>4. x.at # "insert"
  BY DEF InsertsRightly
<1> HIDE DEF a, b
<1>5. InOrder(b)
  <2> SUFFICES ASSUME NEW v \in Orders, NEW w \in Orders, v < w, IsActive(b[w]), b[v].status = "QUEUED"
               PROVE  FALSE
    BY DEF InOrder
  <2>1. x.rows[v] = NoRow /\ new[v].status = "QUEUED"
    BY <1>1, <1>3
  <2>2. CASE x.rows[w] = NoRow
    BY <1>1, <2>1, <2>2 DEF InOrder
  <2>3. CASE x.rows[w] # NoRow
    <3>1. table[v] # NoRow
      BY <1>3, <2>3 DEF NoGaps
    <3>2. a[v].status = "QUEUED" /\ IsActive(a[w])
      BY <1>1, <2>1, <2>3, <3>1
    <3>3. QED BY <1>2, <3>2 DEF InOrder
  <2>4. QED BY <2>2, <2>3
<1>6. NoGaps(b)
  <2>1. \A w \in Orders : b[w] = NoRow <=> new[w] = NoRow
    BY <1>1, <1>3
  <2>2. QED BY <2>1 DEF NoGaps
<1>7. Steady(new, Mqtt, x)
  BY <1>3, <1>5, <1>6 DEF Steady, b
<1>8. QED BY <1>4, <1>7 DEF InsertsRightly
-----------------------------------------------------------------------------
(* Steps of the MES                                                        *)

\* What is known of a thread's transaction.
LEMMA OpenInOrder ==
  ASSUME ProtocolInv, OrderInv, NEW t \in Threads
  PROVE  /\ tx[t] \in Transactions /\ orders \in [Orders -> Rows] /\ ProtocolTypeOK
         /\ Steady(orders, t, tx[t]) /\ InsertsRightly(orders, t, tx[t])
         /\ InOrder(orders) /\ NoGaps(orders)
BY OpenTransaction DEF OrderInv, ProtocolInv

\* A step of one transaction keeps the others as they were.
LEMMA OneMoves ==
  ASSUME ProtocolInv, OrderInv, NEW t \in Threads, NEW y, tx' = [tx EXCEPT ![t] = y],
         UNCHANGED orders, Steady(orders, t, y), InsertsRightly(orders, t, y)
  PROVE  OrderInv'
<1>1. \A s \in Threads : tx'[s] = IF s = t THEN y ELSE tx[s]
  BY DEF ProtocolInv, ProtocolTypeOK
<1>2. \A s \in Threads : Steady(orders, s, tx'[s]) /\ InsertsRightly(orders, s, tx'[s])
  BY <1>1 DEF OrderInv
<1>3. QED BY <1>2 DEF OrderInv

\* A transaction that only moves on, to any place but an insertion.
LEMMA MovesOn ==
  ASSUME ProtocolInv, OrderInv, NEW t \in Threads, NEW y, tx' = [tx EXCEPT ![t] = y],
         UNCHANGED orders, y.rows = tx[t].rows \/ y.rows = NoTransaction.rows, y.at # "insert"
  PROVE  OrderInv'
BY OpenInOrder, SameRows, NothingWritten, OneMoves

\* A thread that is done has nothing written.
LEMMA DoneIsEmpty ==
  ASSUME NEW t
  PROVE  Done(t).rows = NoTransaction.rows /\ Done(t).at # "insert"
BY DEF Done, NoTransaction

\* Each method of WorkOrder that changes a row leaves it neither waiting nor newly active.
LEMMA MethodsEndWaiting ==
  ASSUME NEW old \in Rows, NEW w \in Orders, NEW row, row # old,
         \/ row = Accept(old) \/ row = Reject(old) \/ row = Cancel(old) \/ row = CountResult(w, old)
  PROVE  /\ old # NoRow /\ row # NoRow /\ row.status # "QUEUED"
         /\ IsActive(row) => IsActive(old)
<1> USE DEF Rows, NoRow, IsActive
<1>1. CASE row = Accept(old) BY <1>1 DEF Accept
<1>2. CASE row = Reject(old) BY <1>2 DEF Reject
<1>3. CASE row = Cancel(old) BY <1>3 DEF Cancel, IsOpen
<1>4. CASE row = CountResult(w, old) BY <1>4 DEF CountResult
<1>5. QED BY <1>1, <1>2, <1>3, <1>4

\* Writing a row that is not left waiting keeps what the transaction sees in order.
LEMMA WrittenSteady ==
  ASSUME ProtocolTypeOK, NEW t, NEW x \in Transactions, Steady(orders, t, x), NEW w \in Orders,
         NEW row \in Rows, NEW old, old = View(x)[w],
         \/ row = old
         \/ /\ old # NoRow /\ row # NoRow /\ row.status # "QUEUED"
            /\ \/ IsActive(row) => IsActive(old)
               \/ \A v \in Orders : v < w => View(x)[v].status # "QUEUED"
  PROVE  /\ Steady(orders, t, Written(x, w, row)) /\ Written(x, w, row) \in Transactions
         /\ Written(x, w, row).at = x.at
<1> DEFINE y == Written(x, w, row)
<1>1. CASE row = old
  BY <1>1 DEF Written
<1>2. CASE row # old
  <2> DEFINE base == IF x.rows[w] = NoRow THEN orders[w] ELSE x.base[w]
  <2>1. base \in Rows /\ y = WithRow(x, w, row, base)
    BY <1>2 DEF Written, Transactions, ProtocolTypeOK
  <2> HIDE DEF base, y
  <2>2. /\ y \in Transactions /\ y.at = x.at /\ y.rows[w] = row
        /\ \A v \in Orders : v # w => y.rows[v] = x.rows[v]
    BY <2>1, Set_row
  <2>3. Steady(orders, t, y)
    <3>1. old = Over(x, orders)[w] /\ View(x) = Over(x, orders)
      BY ViewIsOver
    <3>2. QED BY <1>2, <2>2, <3>1, RewriteSteady
  <2>4. QED BY <2>2, <2>3 DEF y
<1>3. QED BY <1>1, <1>2

\* A release that looks for active or for waiting orders is right about what it finds.
LEMMA LookOrder ==
  ASSUME ProtocolInv, OrderInv, NEW c \in Clients, LookForActive(c) \/ LookForQueued(c)
  PROVE  OrderInv'
<1> DEFINE x == tx[c]
<1>1. /\ c \in Threads /\ c # Mqtt /\ x \in Transactions /\ UNCHANGED orders
      /\ Steady(orders, c, x) /\ InsertsRightly(orders, c, x)
  BY OpenInOrder, ThreadAssumption DEF Threads, LookForActive, LookForQueued
<1>2. CASE Goto(c, "queued?")
  <2> DEFINE y == [x EXCEPT !.at = "queued?"]
  <2>1. tx' = [tx EXCEPT ![c] = y]
    BY <1>2 DEF Goto
  <2>2. y.rows = x.rows /\ y.at # "insert"
    BY <1>1, Set_at DEF Places
  <2> HIDE DEF y
  <2>3. QED BY <1>1, <2>1, <2>2, MovesOn
<1>3. ASSUME NEW b \in {"QUEUED", "RELEASED"}, WillInsert(c, b), b = "RELEASED" => Queued(x) = {}
      PROVE  OrderInv'
  <2> DEFINE z == [x EXCEPT !.initial = b]
             y == [z EXCEPT !.at = "insert"]
  <2>1. tx' = [tx EXCEPT ![c] = y]
    BY <1>1, <1>3 DEF WillInsert, ProtocolInv, ProtocolTypeOK
  <2>2. z \in Transactions /\ z.rows = x.rows /\ z.initial = b
    BY <1>1, Set_initial
  <2> HIDE DEF z
  <2>3. y.rows = x.rows /\ y.initial = b
    BY <2>2, Set_at DEF Places
  <2> HIDE DEF y
  <2>4. Steady(orders, c, y)
    BY <1>1, <2>3, SameRows
  <2>5. InsertsRightly(orders, c, y)
    <3>1. Over(y, orders) = Over(x, orders)
      BY <2>3 DEF Over
    <3>2. b = "RELEASED" => NoneWaits(Over(x, orders))
      BY <1>3, ViewIsOver DEF NoneWaits
    <3>3. QED BY <1>1, <2>3, <3>1, <3>2 DEF InsertsRightly
  <2>6. QED BY <1>1, <2>1, <2>4, <2>5, OneMoves
<1>4. CASE LookForActive(c)
  BY <1>2, <1>3, <1>4 DEF LookForActive
<1>5. CASE LookForQueued(c)
  BY <1>3, <1>5 DEF LookForQueued
<1>6. QED BY <1>4, <1>5

\* A release inserts behind all other orders.
LEMMA InsertOrder ==
  ASSUME ProtocolInv, OrderInv, NEW c \in Clients, Insert(c)
  PROVE  OrderInv'
<1> DEFINE x == tx[c]
           n == NextNumber(x)
           row == [status |-> x.initial, done |-> 0]
           z == WithRow(x, n, row, NoRow)
           z1 == [z EXCEPT !.at = "promote"]
           z2 == [z1 EXCEPT !.lines = x.lines - 1]
           y == [z2 EXCEPT !.syncs = x.syncs + 1]
<1>1. /\ c \in Threads /\ c # Mqtt /\ x \in Transactions /\ n \in Orders /\ UNCHANGED orders
      /\ x.at = "insert" /\ x.lines \in Nat /\ x.lines # 0 /\ x.syncs \in Nat
      /\ x.initial \in {"QUEUED", "RELEASED"}
      /\ Steady(orders, c, x) /\ InsertsRightly(orders, c, x)
  <2>1. x.lines # 0
    BY OpenTransaction DEF Threads, Insert, Admissible, WellFormed
  <2>2. QED BY <2>1, OpenInOrder, ThreadAssumption DEF Threads, Insert, Transactions
<1>2. tx' = [tx EXCEPT ![c] = y]
  BY DEF Insert
<1>3. row \in Rows /\ NoRow \in Rows /\ row # NoRow /\ (IsActive(row) => x.initial = "RELEASED")
  BY <1>1 DEF Rows, NoRow, Statuses, IsActive
<1>4. \A w \in Orders : Over(x, orders)[w] # NoRow <=> w < n
  <2> DEFINE table == Over(x, orders)
             S == {w \in Orders : table[w] # NoRow}
  <2>1. NoGaps(table) /\ View(x) = table
    BY <1>1, ViewIsOver DEF Steady
  <2>2. n = Cardinality(S) + 1
    BY <2>1 DEF NextNumber
  <2> HIDE DEF table, n
  <2>3. \A w \in Orders : table[w] # NoRow <=> w < Cardinality(S) + 1
    BY <2>1, FirstFree
  <2>4. QED BY <2>2, <2>3 DEF table
<1>5. IsActive(row) => NoneWaits(Over(x, orders))
  BY <1>1, <1>3 DEF InsertsRightly
<1> HIDE DEF n, row
<1>6. /\ z \in Transactions /\ z.rows[n] = row
      /\ \A v \in Orders : v # n => z.rows[v] = x.rows[v]
  <2> HIDE DEF z
  <2>1. QED BY <1>1, <1>3, Set_row DEF z
<1> HIDE DEF z
<1>7. z1 \in Transactions /\ z1.at = "promote" /\ z1.rows = z.rows
  BY <1>6, Set_at DEF Places
<1> HIDE DEF z1
<1>8. z2 \in Transactions /\ z2.at = "promote" /\ z2.rows = z.rows
  <2>1. x.lines - 1 \in Nat
    BY <1>1
  <2> HIDE DEF z2, x
  <2>2. QED BY <1>7, <2>1, Set_lines DEF z2
<1> HIDE DEF z2
<1>9. y.at = "promote" /\ y.rows = z.rows
  <2>1. x.syncs + 1 \in Nat
    BY <1>1
  <2> HIDE DEF y, x
  <2>2. QED BY <1>8, <2>1, Set_syncs DEF y
<1> HIDE DEF y, x
<1>10. Steady(orders, c, y)
  <2>1. y.rows[n] = row /\ \A v \in Orders : v # n => y.rows[v] = x.rows[v]
    BY <1>6, <1>9
  <2>2. n \in Orders /\ c # Mqtt /\ Steady(orders, c, x)
    BY <1>1
  <2>3. row # NoRow
    BY <1>3
  <2>4. QED BY <1>4, <1>5, <2>1, <2>2, <2>3, InsertSteady, Zenon
<1>11. InsertsRightly(orders, c, y)
  BY <1>9 DEF InsertsRightly
<1>12. QED BY <1>1, <1>2, <1>10, <1>11, OneMoves

\* A promotion dispatches the first order that waits.
LEMMA PromotionOrder ==
  ASSUME ProtocolInv, OrderInv, NEW t \in Threads, Promote(t) \/ Dispatch(t)
  PROVE  OrderInv'
<1> DEFINE x == tx[t]
           next == AfterPromotion(x)
<1>1. /\ x \in Transactions /\ ProtocolTypeOK /\ Steady(orders, t, x) /\ UNCHANGED orders
      /\ View(x) \in [Orders -> Rows] /\ next \in {"active?", "commit"}
  BY OpenInOrder, OpenTransaction, AfterPromotionOK DEF Promote, Dispatch
<1> HIDE DEF next
<1>2. ASSUME NEW place \in {"first", "active?", "commit"}, Goto(t, place) PROVE OrderInv'
  <2> DEFINE y == [x EXCEPT !.at = place]
  <2>1. tx' = [tx EXCEPT ![t] = y]
    BY <1>2 DEF Goto
  <2>2. y.rows = x.rows /\ y.at = place
    BY <1>1, Set_at DEF Places
  <2> HIDE DEF y
  <2>3. QED BY <1>1, <2>1, <2>2, MovesOn
<1>3. ASSUME NEW w \in Queued(x), \A v \in Queued(x) : w <= v,
             tx' = [tx EXCEPT ![t] = [Dispatched(x, w) EXCEPT !.at = next]]
      PROVE  OrderInv'
  <2> DEFINE old == View(x)[w]
             row == [old EXCEPT !.status = "RELEASED"]
             z == Written(x, w, row)
             y == [z EXCEPT !.at = next]
  <2>1. w \in Orders /\ old \in Rows /\ old.status = "QUEUED"
    BY <1>1 DEF Queued
  <2>2. row \in Rows /\ old # NoRow /\ row # NoRow /\ row.status # "QUEUED"
    <3> HIDE DEF old
    <3>1. QED BY <2>1 DEF Rows, NoRow, Statuses
  <2>3. \A v \in Orders : v < w => View(x)[v].status # "QUEUED"
    BY <1>3, <2>1, BrokerAssumption DEF Queued, Orders
  <2>4. Dispatched(x, w) = z
    BY DEF Dispatched
  <2> HIDE DEF row, old
  <2>5. Steady(orders, t, z) /\ z \in Transactions
    BY <1>1, <2>1, <2>2, <2>3, WrittenSteady DEF old
  <2> HIDE DEF z
  <2>6. y.rows = z.rows /\ y.at # "insert"
    BY <1>1, <2>5, Set_at DEF Places
  <2> HIDE DEF y
  <2>7. Steady(orders, t, y) /\ InsertsRightly(orders, t, y)
    BY <2>5, <2>6, SameRows
  <2>8. tx' = [tx EXCEPT ![t] = y]
    BY <1>3, <2>4 DEF y
  <2>9. QED BY <1>1, <2>7, <2>8, OneMoves
<1>4. CASE Promote(t)
  BY <1>1, <1>2, <1>4 DEF Promote, next
<1>5. CASE Dispatch(t)
  BY <1>1, <1>2, <1>3, <1>5 DEF Dispatch, next
<1>6. QED BY <1>4, <1>5

\* A transaction that begins by calling a method on one row.
LEMMA MethodOrder ==
  ASSUME ProtocolInv, OrderInv, NEW t \in Threads, NEW x \in Transactions,
         x.rows = NoTransaction.rows, NEW w \in Orders, NEW row,
         NEW place \in {"promote", "commit"}, NEW n \in Nat,
         \/ row = Accept(orders[w]) \/ row = Reject(orders[w]) \/ row = Cancel(orders[w])
         \/ row = CountResult(w, orders[w]) \/ row = orders[w],
         tx' = [tx EXCEPT ![t] = [Written(x, w, row) EXCEPT !.at = place, !.syncs = n]],
         UNCHANGED orders
  PROVE  OrderInv'
<1> DEFINE old == orders[w]
           z == Written(x, w, row)
           z1 == [z EXCEPT !.at = place]
           y == [z1 EXCEPT !.syncs = n]
<1>1. old \in Rows /\ old = View(x)[w] /\ ProtocolTypeOK /\ Steady(orders, t, x)
  BY OpenInOrder, ViewOfTable, NothingWritten
<1> HIDE DEF old
<1>2. row = old \/ (old # NoRow /\ row # NoRow /\ row.status # "QUEUED" /\ (IsActive(row) => IsActive(old)))
  BY <1>1, MethodsEndWaiting DEF old
<1>3. row \in Rows
  BY <1>1, MethodsFollow DEF old
<1>4. Steady(orders, t, z) /\ z \in Transactions
  BY <1>1, <1>2, <1>3, WrittenSteady
<1> HIDE DEF z
<1>5. z1 \in Transactions /\ z1.rows = z.rows /\ z1.at = place
  BY <1>4, Set_at DEF Places
<1> HIDE DEF z1
<1>6. y.rows = z.rows /\ y.at = place
  BY <1>5, Set_syncs
<1>7. tx' = [tx EXCEPT ![t] = y]
  BY DEF y, z1, z
<1> HIDE DEF y
<1>8. Steady(orders, t, y) /\ InsertsRightly(orders, t, y)
  BY <1>4, <1>6, SameRows
<1>9. QED BY <1>7, <1>8, OneMoves

\* A cancellation, a report and the start of a release leave no order out of order.
LEMMA RequestOrder ==
  ASSUME ProtocolInv, OrderInv, NEW c \in Clients,
         (\E n \in 1..MaxOrders : Release(c, n)) \/ (\E w \in Orders : CancelOrder(c, w))
  PROVE  OrderInv'
<1>1. c \in Threads
  BY DEF Threads
<1>2. CASE \E n \in 1..MaxOrders : Release(c, n)
  <2>1. PICK n \in 1..MaxOrders : Release(c, n)
    BY <1>2
  <2> DEFINE y == [NoTransaction EXCEPT !.at = "active?", !.lines = n]
  <2>2. y.rows = NoTransaction.rows /\ y.at # "insert"
    BY DEF NoTransaction
  <2>3. tx' = [tx EXCEPT ![c] = y] /\ UNCHANGED orders
    BY <2>1 DEF Release
  <2> HIDE DEF y
  <2>4. QED BY <1>1, <2>2, <2>3, MovesOn
<1>3. CASE \E w \in Orders : CancelOrder(c, w)
  <2>1. PICK w \in Orders : CancelOrder(c, w)
    BY <1>3
  <2> DEFINE place == IF IsActive(orders[w]) THEN "promote" ELSE "commit"
             row == Cancel(orders[w])
  <2>2. place \in {"promote", "commit"} /\ 1 \in Nat /\ NoTransaction \in Transactions
    BY <1>1, NewAdmissible
  <2>3. /\ tx' = [tx EXCEPT ![c] = [Written(NoTransaction, w, row) EXCEPT !.at = place, !.syncs = 1]]
        /\ UNCHANGED orders
    BY <2>1 DEF CancelOrder
  <2>4. row = Cancel(orders[w])
    OBVIOUS
  <2> HIDE DEF place, row
  <2>5. QED BY <1>1, <2>2, <2>3, <2>4, MethodOrder
<1>4. QED BY <1>2, <1>3

\* The MQTT thread's calls of WorkOrder's methods.
LEMMA HandleOrder ==
  ASSUME ProtocolInv, OrderInv, toMes # <<>>, NEW row, NEW place \in {"promote", "commit"}, NEW n \in Nat,
         \/ row = Accept(orders[Report.order]) \/ row = Reject(orders[Report.order])
         \/ row = Cancel(orders[Report.order]) \/ row = CountResult(Report.order, orders[Report.order])
         \/ row = orders[Report.order],
         Handle(row, place, n)
  PROVE  OrderInv'
<1> DEFINE x == [NoTransaction EXCEPT !.event = Report.event]
           w == Report.order
<1>1. tx' = [tx EXCEPT ![Mqtt] = [Written(x, w, row) EXCEPT !.at = place, !.syncs = n]] /\ UNCHANGED orders
  BY DEF Handle
<1> HIDE DEF x
<1>2. /\ Admissible(Mqtt, x) /\ x.rows = NoTransaction.rows /\ w \in Orders /\ Mqtt \in Threads
  BY ReportAdmissible DEF Reports, x
<1>3. x \in Transactions
  BY <1>2 DEF Admissible, WellFormed
<1> HIDE DEF w
<1>4. \/ row = Accept(orders[w]) \/ row = Reject(orders[w]) \/ row = Cancel(orders[w])
      \/ row = CountResult(w, orders[w]) \/ row = orders[w]
  BY DEF w
<1>5. QED BY <1>1, <1>2, <1>3, <1>4, MethodOrder

\* Every step of the MQTT callbacks.
LEMMA ReportOrder ==
  ASSUME ProtocolInv, OrderInv, ReportStep
  PROVE  OrderInv'
<1>1. Mqtt \in Threads
  BY DEF Threads
<1>2. CASE SkipDuplicate
  <2> DEFINE y == [NoTransaction EXCEPT !.at = "return", !.event = Report.event]
  <2>1. y.rows = NoTransaction.rows /\ y.at # "insert"
    BY DEF NoTransaction
  <2>2. tx' = [tx EXCEPT ![Mqtt] = y] /\ UNCHANGED orders
    BY <1>2 DEF SkipDuplicate
  <2> HIDE DEF y
  <2>3. QED BY <1>1, <2>1, <2>2, MovesOn
<1>3. CASE OnAccepted
  BY <1>3, HandleOrder DEF OnAccepted, Delivers
<1>4. CASE OnRejected
  BY <1>4, HandleOrder DEF OnRejected, Delivers
<1>5. CASE OnCancelled
  BY <1>5, HandleOrder DEF OnCancelled, Delivers
<1>6. CASE OnCompleted
  BY <1>6, HandleOrder DEF OnCompleted, Delivers
<1>7. CASE OnResult
  BY <1>7, HandleOrder DEF OnResult, Delivers
<1>8. CASE Return
  <2>1. NoTransaction.at # "insert"
    BY DEF NoTransaction
  <2>2. tx' = [tx EXCEPT ![Mqtt] = NoTransaction] /\ UNCHANGED orders
    BY <1>8 DEF Return
  <2>3. QED BY <1>1, <2>1, <2>2, MovesOn
<1>9. QED BY <1>2, <1>3, <1>4, <1>5, <1>6, <1>7, <1>8 DEF ReportStep

\* Synchronizing the station and giving up write nothing.
LEMMA SyncOrder ==
  ASSUME ProtocolInv, OrderInv, NEW t \in Threads, RollBack(t) \/ ReadActive(t) \/ Publish(t)
  PROVE  OrderInv'
<1> DEFINE x == tx[t]
<1>1. x \in Transactions /\ x.syncs \in Nat
  BY OpenInOrder DEF Transactions
<1>2. CASE tx' = [tx EXCEPT ![t] = Done(t)] /\ UNCHANGED orders
  BY <1>2, DoneIsEmpty, MovesOn
<1>3. CASE ReadActive(t)
  <2>1. PICK w \in Orders \union {Empty} : tx' = [tx EXCEPT ![t].read = w, ![t].at = "publish"]
    BY <1>3 DEF ReadActive
  <2> DEFINE z == [x EXCEPT !.read = w]
             y == [z EXCEPT !.at = "publish"]
  <2>2. tx' = [tx EXCEPT ![t] = y]
    BY <1>1, <2>1 DEF ProtocolInv, ProtocolTypeOK
  <2>3. z \in Transactions /\ z.rows = x.rows
    BY <1>1, Set_read
  <2> HIDE DEF z
  <2>4. y.rows = x.rows /\ y.at # "insert"
    BY <2>3, Set_at DEF Places
  <2> HIDE DEF y
  <2>5. QED BY <1>3, <2>2, <2>4, MovesOn DEF ReadActive
<1>4. CASE Publish(t) /\ x.syncs # 1
  <2> DEFINE z == [x EXCEPT !.at = "sync"]
             z1 == [z EXCEPT !.syncs = x.syncs - 1]
             y == [z1 EXCEPT !.read = Empty]
  <2>1. tx' = [tx EXCEPT ![t] = y] /\ UNCHANGED orders
    BY <1>4 DEF Publish
  <2>2. x.syncs - 1 \in Nat
    BY <1>1, <1>4, OpenTransaction DEF Publish, Admissible, WellFormed
  <2>3. z \in Transactions /\ z.rows = x.rows /\ z.at = "sync"
    BY <1>1, Set_at DEF Places
  <2> HIDE DEF z
  <2>4. z1 \in Transactions /\ z1.rows = x.rows /\ z1.at = "sync"
    <3> DEFINE k == x.syncs - 1
    <3>1. k \in Nat
      BY <2>2
    <3> HIDE DEF k
    <3>2. QED BY <2>3, <3>1, Set_syncs DEF k
  <2> HIDE DEF z1
  <2>5. y.rows = x.rows /\ y.at # "insert"
    BY <2>4, Set_read
  <2> HIDE DEF y
  <2>6. QED BY <2>1, <2>5, MovesOn
<1>5. CASE Publish(t) /\ x.syncs = 1
  BY <1>2, <1>5 DEF Publish
<1>6. CASE RollBack(t)
  BY <1>2, <1>6 DEF RollBack
<1>7. QED BY <1>3, <1>4, <1>5, <1>6

\* The connection comes and goes; a crash ends every transaction.
LEMMA ConnectionOrder ==
  ASSUME ProtocolInv, OrderInv, ConnectionStep
  PROVE  OrderInv'
<1>1. CASE Disconnect
  BY <1>1 DEF Disconnect, mes, OrderInv
<1>2. CASE MesCrash
  <2>1. UNCHANGED orders /\ \A t \in Threads : tx'[t] = NoTransaction
    BY <1>2 DEF MesCrash
  <2>2. NoTransaction.at # "insert"
    BY DEF NoTransaction
  <2>3. InOrder(orders) /\ NoGaps(orders)
    BY DEF OrderInv
  <2>4. \A t \in Threads : Steady(orders, t, NoTransaction) /\ InsertsRightly(orders, t, NoTransaction)
    BY <2>2, <2>3, NothingWritten
  <2>5. QED BY <2>1, <2>3, <2>4 DEF OrderInv
<1>3. CASE Reconnect
  <2> DEFINE y == [NoTransaction EXCEPT !.at = "sync", !.syncs = 1]
  <2>1. y.rows = NoTransaction.rows /\ y.at # "insert"
    BY DEF NoTransaction
  <2>2. tx' = [tx EXCEPT ![Mqtt] = y] /\ UNCHANGED orders /\ Mqtt \in Threads
    BY <1>3 DEF Reconnect, Threads
  <2> HIDE DEF y
  <2>3. QED BY <2>1, <2>2, MovesOn
<1>4. QED BY <1>1, <1>2, <1>3 DEF ConnectionStep

\* A commit makes the table what its transaction saw, and leaves the other threads'
\* transactions in order: of two that are open one is a request's and one a report's.
LEMMA CommitOrder ==
  ASSUME OneAtATime, ProtocolInv, OrderInv, NEW t \in Threads, Commit(t)
  PROVE  OrderInv'
<1> DEFINE x == tx[t]
           y == IF x.syncs = 0 THEN Done(t)
                ELSE [NoTransaction EXCEPT !.at = "sync", !.event = x.event, !.syncs = x.syncs]
<1>1. tx' = [tx EXCEPT ![t] = y] /\ orders' = Over(x, orders)
  BY ViewIsOver DEF Commit
<1>2. y.rows = NoTransaction.rows /\ y.at # "insert"
  BY DoneIsEmpty DEF NoTransaction
<1> HIDE DEF y
<1>3. /\ InOrder(orders') /\ NoGaps(orders') /\ InOrder(orders) /\ NoGaps(orders)
      /\ Steady(orders, t, x)
  BY <1>1, OpenInOrder DEF Steady
<1>4. \A w \in Orders : /\ x.rows[w] = NoRow => orders'[w] = orders[w]
                        /\ x.rows[w] # NoRow => orders'[w] = x.rows[w]
  BY <1>1 DEF Over
<1>5. \A s \in Threads : tx'[s] = IF s = t THEN y ELSE tx[s]
  BY <1>1 DEF ProtocolInv, ProtocolTypeOK
<1>6. ASSUME NEW s \in Threads PROVE Steady(orders', s, tx'[s]) /\ InsertsRightly(orders', s, tx'[s])
  <2>1. CASE s = t
    BY <1>2, <1>3, <1>5, <2>1, NothingWritten
  <2>2. CASE s # t /\ t = Mqtt
    <3>1. \A w \in Orders : x.rows[w] # NoRow => orders[w] # NoRow /\ x.rows[w].status # "QUEUED"
      BY <1>3, <2>2 DEF Steady
    <3>2. \A w \in Orders : (orders'[w] = NoRow <=> orders[w] = NoRow)
                            /\ (orders'[w].status = "QUEUED" => orders'[w] = orders[w])
      BY <1>4, <3>1
    <3>3. Steady(orders, s, tx[s]) /\ InsertsRightly(orders, s, tx[s]) /\ tx'[s] = tx[s] /\ s # Mqtt
      BY <1>5, <2>2, OpenInOrder
    <3> DEFINE new == orders'
    <3> HIDE DEF new
    <3>4. Steady(new, s, tx[s]) /\ InsertsRightly(new, s, tx[s])
      BY <1>3, <3>2, <3>3, ReportBeneathRequest DEF new
    <3>5. QED BY <3>3, <3>4 DEF new
  <2>3. CASE s # t /\ t # Mqtt /\ s # Mqtt
    <3>1. tx[t] # NoTransaction
      BY DEF Commit, NoTransaction
    <3>2. tx'[s] = NoTransaction
      BY <1>5, <2>3, <3>1 DEF Threads, OneAtATime
    <3>3. NoTransaction.rows = NoTransaction.rows /\ NoTransaction.at # "insert"
      BY DEF NoTransaction
    <3>4. QED BY <1>3, <3>2, <3>3, NothingWritten
  <2>4. CASE s # t /\ t # Mqtt /\ s = Mqtt
    <3>1. s = Mqtt
      BY <2>4
    <3>2. \A w \in Orders : x.rows[w] # NoRow /\ x.rows[w].status = "QUEUED" => orders[w] = NoRow
      BY <1>3, <2>4 DEF Steady
    <3>3. \A w \in Orders : (orders[w] # NoRow => orders'[w] # NoRow)
                            /\ (orders'[w].status = "QUEUED" => orders'[w] = orders[w] \/ orders[w] = NoRow)
      BY <1>4, <3>2
    <3>4. Steady(orders, Mqtt, tx[s]) /\ InsertsRightly(orders, Mqtt, tx[s]) /\ tx'[s] = tx[s]
      BY <1>5, <2>4, <3>1, OpenInOrder
    <3> DEFINE new == orders'
    <3> HIDE DEF new
    <3>5. Steady(new, Mqtt, tx[s]) /\ InsertsRightly(new, Mqtt, tx[s])
      BY <1>3, <3>3, <3>4, RequestBeneathReport DEF new
    <3>6. QED BY <3>1, <3>4, <3>5 DEF new
  <2>5. QED BY <2>1, <2>2, <2>3, <2>4
<1>7. QED BY <1>3, <1>6 DEF OrderInv
-----------------------------------------------------------------------------
(* The invariant, and what follows                                         *)

\* Nothing is out of order when the MES starts.
LEMMA InitOrder == Init => OrderInv
<1> SUFFICES ASSUME Init PROVE OrderInv
  OBVIOUS
<1>1. /\ \A w \in Orders : orders[w] = NoRow
      /\ \A t \in Threads : tx[t] = NoTransaction
  BY DEF Init, WorkOrdersInit
<1>2. InOrder(orders) /\ NoGaps(orders)
  BY <1>1 DEF InOrder, NoGaps, NoRow, IsActive
<1>3. NoTransaction.at # "insert"
  BY DEF NoTransaction
<1>4. \A t \in Threads : Steady(orders, t, NoTransaction) /\ InsertsRightly(orders, t, NoTransaction)
  BY <1>2, <1>3, NothingWritten
<1>5. QED BY <1>1, <1>2, <1>4 DEF OrderInv

\* While requests do not overlap every step keeps what each thread sees in order.
LEMMA NextOrder == OneAtATime /\ ProtocolInv /\ OrderInv /\ [Next]_vars => OrderInv'
<1> SUFFICES ASSUME OneAtATime, ProtocolInv, OrderInv, [Next]_vars PROVE OrderInv'
  OBVIOUS
<1>1. CASE UNCHANGED mes
  BY <1>1 DEF mes, OrderInv
<1>2. CASE RestStep
  <2>1. PICK c \in Clients :
          \/ \E n \in 1..MaxOrders : Release(c, n)
          \/ \E w \in Orders : CancelOrder(c, w)
          \/ LookForActive(c) \/ LookForQueued(c) \/ Insert(c)
    BY <1>2 DEF RestStep
  <2>2. QED BY <2>1, RequestOrder, LookOrder, InsertOrder
<1>3. CASE ReportStep
  BY <1>3, ReportOrder
<1>4. CASE TransactionStep
  <2>1. PICK t \in Threads :
          Promote(t) \/ Dispatch(t) \/ Commit(t) \/ RollBack(t) \/ ReadActive(t) \/ Publish(t)
    BY <1>4 DEF TransactionStep
  <2>2. QED BY <2>1, PromotionOrder, CommitOrder, SyncOrder
<1>5. CASE ConnectionStep
  BY <1>5, ConnectionOrder
<1>6. QED BY <1>1, <1>2, <1>3, <1>4, <1>5 DEF Next, WorkOrdersStep, vars

\* While no two requests overlap, from however many consoles, orders are dispatched in
\* the order of their numbers, whatever reports, crashes and failed commits come between
\* the queries of a release (WorkOrderService.release, promoteNext).  Nothing in the code
\* keeps two requests apart, and two that overlap do break it.
THEOREM InTurnsInOrder == Spec /\ []OneAtATime => []FirstComeFirst
<1>1. OrderInv => FirstComeFirst
  BY DEF OrderInv, InOrder, FirstComeFirst
<1>2. QED BY <1>1, InitOrder, NextOrder, ProtocolInvariant, PTL DEF Spec
-----------------------------------------------------------------------------
(* The list of orders                                                      *)

WrittenBy(x) == {w \in Orders : x.rows[w] # NoRow}
IsTold(x, w) == Book!Told(w, x.base[w], x.rows[w])
Ended(row) == row.status \in Book!Over

\* Each row a transaction writes is one step from the row it is based on; if an
\* order is told of, the others written are dispatched because it is over.
Moves(x) ==
  /\ \A w \in WrittenBy(x) :
        \/ Book!Issued(x.base[w], x.rows[w]) \/ Book!Dispatched(x.base[w], x.rows[w])
        \/ IsTold(x, w)
  /\ \A w \in WrittenBy(x) : IsTold(x, w) =>
        /\ x.lines = 0 /\ x.at \in {"promote", "first", "commit"}
        /\ x.at # "commit" => Ended(x.rows[w])
        /\ \A v \in WrittenBy(x) \ {w} : Ended(x.rows[w]) /\ Book!Dispatched(x.base[v], x.rows[v])

\* It writes no more than one order as RELEASED.
SendsOne(x) ==
  /\ \A v, w \in Orders : x.rows[v].status = "RELEASED" /\ x.rows[w].status = "RELEASED" => v = w
  /\ x.at \in {"queued?", "first"} \/ (x.at = "insert" /\ x.initial = "RELEASED")
        => \A w \in Orders : x.rows[w].status # "RELEASED"

\* An order it dispatches has none behind it that waits or is still to come.
InTurn(x, table) ==
  \A v, w \in Orders :
    v < w /\ x.rows[w].status = "RELEASED" /\ x.base[w] # NoRow =>
      Over(x, table)[v] # NoRow /\ Over(x, table)[v].status # "QUEUED"

BookInv ==
  /\ NoGaps(orders)
  /\ \A t \in Threads :
       Moves(tx[t]) /\ SendsOne(tx[t]) /\ NoGaps(Over(tx[t], orders)) /\ InTurn(tx[t], orders)

\* A transaction that has written nothing moves nothing.
LEMMA NothingMoves ==
  ASSUME NEW table, NoGaps(table), NEW x, x.rows = NoTransaction.rows
  PROVE  Moves(x) /\ SendsOne(x) /\ NoGaps(Over(x, table)) /\ InTurn(x, table)
<1>1. \A w \in Orders : x.rows[w] = NoRow /\ x.rows[w].status = "NONE"
  BY DEF NoTransaction, NoRow
<1>2. WrittenBy(x) = {} /\ \A w \in Orders : Over(x, table)[w] = table[w]
  BY <1>1 DEF WrittenBy, Over
<1>3. QED BY <1>1, <1>2 DEF Moves, SendsOne, NoGaps, InTurn

\* A transaction that only goes on writes what it wrote.
LEMMA SameMoves ==
  ASSUME NEW x, Moves(x), NEW y, y.rows = x.rows, y.base = x.base, y.lines = x.lines,
         \A w \in WrittenBy(x) : IsTold(x, w) => y.at \in {"first", "commit"},
         y.at = "first" => x.at # "commit"
  PROVE  Moves(y)
<1>1. WrittenBy(y) = WrittenBy(x) /\ \A w : IsTold(y, w) <=> IsTold(x, w)
  BY DEF WrittenBy, IsTold
<1>2. QED BY <1>1 DEF Moves

\* A step of one transaction leaves the others as they were.
LEMMA OneWrites ==
  ASSUME ProtocolInv, BookInv, NEW t \in Threads, NEW y, tx' = [tx EXCEPT ![t] = y],
         UNCHANGED orders, Moves(y), SendsOne(y), NoGaps(Over(y, orders)), InTurn(y, orders)
  PROVE  BookInv'
<1>1. \A s \in Threads : tx'[s] = IF s = t THEN y ELSE tx[s]
  BY DEF ProtocolInv, ProtocolTypeOK
<1>2. \A s \in Threads :
         Moves(tx'[s]) /\ SendsOne(tx'[s]) /\ NoGaps(Over(tx'[s], orders)) /\ InTurn(tx'[s], orders)
  BY <1>1 DEF BookInv
<1>3. QED BY <1>2 DEF BookInv

\* A transaction that gives up what it wrote, or has written nothing yet.
LEMMA WritesNothing ==
  ASSUME ProtocolInv, BookInv, NEW t \in Threads, NEW y, tx' = [tx EXCEPT ![t] = y],
         UNCHANGED orders, y.rows = NoTransaction.rows
  PROVE  BookInv'
<1>1. Moves(y) /\ SendsOne(y) /\ NoGaps(Over(y, orders)) /\ InTurn(y, orders)
  BY NothingMoves DEF BookInv
<1>2. QED BY <1>1, OneWrites

\* What is known of a thread's transaction.
LEMMA OpenBook ==
  ASSUME ProtocolInv, BookInv, NEW t \in Threads
  PROVE  /\ tx[t] \in Transactions /\ orders \in [Orders -> Rows] /\ ProtocolTypeOK
         /\ Moves(tx[t]) /\ SendsOne(tx[t]) /\ NoGaps(Over(tx[t], orders)) /\ NoGaps(orders)
         /\ InTurn(tx[t], orders)
BY OpenTransaction DEF BookInv, ProtocolInv

\* A step that only moves a transaction on, to a place where it may be.
LEMMA GoesOn ==
  ASSUME ProtocolInv, BookInv, NEW t \in Threads, NEW y, tx' = [tx EXCEPT ![t] = y],
         UNCHANGED orders, y.rows = tx[t].rows, y.base = tx[t].base, y.lines = tx[t].lines,
         \A w \in WrittenBy(tx[t]) : IsTold(tx[t], w) => y.at \in {"first", "commit"},
         y.at = "first" => tx[t].at # "commit",
         y.at \in {"queued?", "first"} \/ (y.at = "insert" /\ y.initial = "RELEASED")
           => \A w \in Orders : tx[t].rows[w].status # "RELEASED"
  PROVE  BookInv'
<1> DEFINE x == tx[t]
<1>1. Moves(x) /\ SendsOne(x) /\ NoGaps(Over(x, orders)) /\ InTurn(x, orders)
  BY OpenBook
<1>2. Over(y, orders) = Over(x, orders) /\ InTurn(y, orders)
  BY <1>1 DEF Over, InTurn
<1>3. Moves(y)
  <2> HIDE DEF x
  <2>1. y.rows = x.rows /\ y.base = x.base /\ y.lines = x.lines
        /\ (\A w \in WrittenBy(x) : IsTold(x, w) => y.at \in {"first", "commit"})
        /\ (y.at = "first" => x.at # "commit")
    BY DEF x
  <2>2. QED BY <1>1, <2>1, SameMoves
<1>4. SendsOne(y)
  BY <1>1 DEF SendsOne
<1>5. QED BY <1>1, <1>2, <1>3, <1>4, OneWrites

\* A release has told of no order.
LEMMA ReleaseTellsNone ==
  ASSUME ProtocolInv, BookInv, NEW t \in Threads, tx[t].at \in {"active?", "queued?", "insert"}
  PROVE  \A w \in WrittenBy(tx[t]) : ~IsTold(tx[t], w)
BY OpenBook DEF Moves

\* Where no row is active, none is RELEASED.
LEMMA NoneActive ==
  ASSUME NEW x, ~SomeActive(x)
  PROVE  \A w \in Orders : x.rows[w].status # "RELEASED"
BY DEF SomeActive, View, IsActive, NoRow

\* A release looks before it inserts a RELEASED order.
LEMMA LookWrites ==
  ASSUME ProtocolInv, BookInv, NEW c \in Clients, LookForActive(c) \/ LookForQueued(c)
  PROVE  BookInv'
<1> DEFINE x == tx[c]
<1>1. /\ c \in Threads /\ x \in Transactions /\ UNCHANGED orders
      /\ \A w \in WrittenBy(x) : ~IsTold(x, w)
  BY OpenBook, ReleaseTellsNone DEF Threads, LookForActive, LookForQueued
<1>2. CASE Goto(c, "queued?") /\ ~SomeActive(x)
  <2> DEFINE y == [x EXCEPT !.at = "queued?"]
  <2>1. tx' = [tx EXCEPT ![c] = y]
    BY <1>2 DEF Goto
  <2>2. y.rows = x.rows /\ y.base = x.base /\ y.lines = x.lines /\ y.at = "queued?"
    BY <1>1, Set_at DEF Places
  <2>3. \A w \in Orders : x.rows[w].status # "RELEASED"
    BY <1>2, NoneActive
  <2> HIDE DEF y
  <2>4. QED BY <1>1, <2>1, <2>2, <2>3, GoesOn
<1>3. ASSUME NEW b \in {"QUEUED", "RELEASED"}, WillInsert(c, b),
             b = "RELEASED" => \A w \in Orders : x.rows[w].status # "RELEASED"
      PROVE  BookInv'
  <2> DEFINE z == [x EXCEPT !.initial = b]
             y == [z EXCEPT !.at = "insert"]
  <2>1. tx' = [tx EXCEPT ![c] = y]
    BY <1>1, <1>3 DEF WillInsert, ProtocolInv, ProtocolTypeOK
  <2>2. z \in Transactions /\ z.rows = x.rows /\ z.base = x.base /\ z.lines = x.lines /\ z.initial = b
    BY <1>1, Set_initial
  <2> HIDE DEF z
  <2>3. y.rows = x.rows /\ y.base = x.base /\ y.lines = x.lines /\ y.initial = b /\ y.at = "insert"
    BY <2>2, Set_at DEF Places
  <2> HIDE DEF y
  <2>4. QED BY <1>1, <1>3, <2>1, <2>3, GoesOn
<1>4. CASE LookForActive(c)
  BY <1>2, <1>3, <1>4 DEF LookForActive
<1>5. CASE LookForQueued(c)
  <2>1. x.at = "queued?" /\ \A w \in Orders : x.rows[w].status # "RELEASED"
    BY <1>1, <1>5, OpenBook DEF LookForQueued, SendsOne
  <2>2. QED BY <1>3, <1>5, <2>1 DEF LookForQueued
<1>6. QED BY <1>4, <1>5

\* What an insertion writes.
LEMMA InsertWrites ==
  ASSUME ProtocolInv, NEW c \in Clients, Insert(c), NEW x, x = tx[c], NEW n, n = NextNumber(x)
  PROVE  \E y \in Transactions :
            /\ tx' = [tx EXCEPT ![c] = y] /\ y.at = "promote"
            /\ y.rows[n] = [status |-> x.initial, done |-> 0] /\ y.base[n] = NoRow
            /\ \A v \in Orders : v # n => y.rows[v] = x.rows[v] /\ y.base[v] = x.base[v]
<1> DEFINE row == [status |-> x.initial, done |-> 0]
           z == WithRow(x, n, row, NoRow)
           z1 == [z EXCEPT !.at = "promote"]
           z2 == [z1 EXCEPT !.lines = x.lines - 1]
           y == [z2 EXCEPT !.syncs = x.syncs + 1]
<1>1. /\ c \in Threads /\ x \in Transactions /\ n \in Orders
      /\ x.lines - 1 \in Nat /\ x.syncs + 1 \in Nat /\ x.initial \in {"QUEUED", "RELEASED"}
  <2>1. x.lines # 0 /\ x \in Transactions
    BY OpenTransaction DEF Threads, Insert, Admissible, WellFormed
  <2>2. QED BY <2>1 DEF Threads, Insert, Transactions
<1>2. tx' = [tx EXCEPT ![c] = y]
  BY DEF Insert
<1>3. row \in Rows /\ NoRow \in Rows
  BY <1>1 DEF Rows, NoRow, Statuses
<1> HIDE DEF row
<1>4. /\ z \in Transactions /\ z.rows[n] = row /\ z.base[n] = NoRow
      /\ \A v \in Orders : v # n => z.rows[v] = x.rows[v] /\ z.base[v] = x.base[v]
  BY <1>1, <1>3, Set_row
<1> HIDE DEF z
<1>5. z1 \in Transactions /\ z1.at = "promote" /\ z1.rows = z.rows /\ z1.base = z.base
  BY <1>4, Set_at DEF Places
<1> HIDE DEF z1
<1>6. z2 \in Transactions /\ z2.at = "promote" /\ z2.rows = z.rows /\ z2.base = z.base
  <2> DEFINE k == x.lines - 1
  <2>1. k \in Nat
    BY <1>1
  <2> HIDE DEF k
  <2>2. QED BY <1>5, <2>1, Set_lines DEF k
<1> HIDE DEF z2
<1>7. y \in Transactions /\ y.at = "promote" /\ y.rows = z.rows /\ y.base = z.base
  <2> DEFINE k == x.syncs + 1
  <2>1. k \in Nat
    BY <1>1
  <2> HIDE DEF k
  <2>2. QED BY <1>6, <2>1, Set_syncs DEF k
<1> HIDE DEF y
<1>8. /\ y.rows[n] = row /\ y.base[n] = NoRow
      /\ \A v \in Orders : v # n => y.rows[v] = x.rows[v] /\ y.base[v] = x.base[v]
  BY <1>4, <1>7, Zenon
<1>9. QED BY <1>2, <1>7, <1>8, Zenon DEF row

\* An insertion writes the next number.
LEMMA InsertBook ==
  ASSUME ProtocolInv, BookInv, NEW c \in Clients, Insert(c)
  PROVE  BookInv'
<1> DEFINE x == tx[c]
           n == NextNumber(x)
           row == [status |-> x.initial, done |-> 0]
<1>1. /\ c \in Threads /\ x \in Transactions /\ n \in Orders /\ UNCHANGED orders
      /\ x.at = "insert" /\ x.initial \in {"QUEUED", "RELEASED"}
      /\ Moves(x) /\ SendsOne(x) /\ NoGaps(Over(x, orders)) /\ InTurn(x, orders)
      /\ \A w \in WrittenBy(x) : ~IsTold(x, w)
  BY OpenBook, ReleaseTellsNone DEF Threads, Insert, Transactions
<1>2. PICK y \in Transactions :
         /\ tx' = [tx EXCEPT ![c] = y] /\ y.at = "promote"
         /\ y.rows[n] = row /\ y.base[n] = NoRow
         /\ \A v \in Orders : v # n => y.rows[v] = x.rows[v] /\ y.base[v] = x.base[v]
  BY InsertWrites
<1>3. \A w \in Orders : Over(x, orders)[w] # NoRow <=> w < n
  <2> DEFINE table == Over(x, orders)
             S == {w \in Orders : table[w] # NoRow}
  <2>1. NoGaps(table) /\ View(x) = table
    BY <1>1, ViewIsOver
  <2>2. n = Cardinality(S) + 1
    BY <2>1 DEF NextNumber
  <2> HIDE DEF table, n
  <2>3. \A w \in Orders : table[w] # NoRow <=> w < Cardinality(S) + 1
    BY <2>1, FirstFree
  <2>4. QED BY <2>2, <2>3 DEF table
<1> HIDE DEF n
<1>4. row # NoRow /\ row.status = x.initial /\ Book!Issued(NoRow, row) /\ ~Book!Told(n, NoRow, row)
  BY <1>1 DEF NoRow, Book!Issued, Book!NoOrder, Book!Told, Book!Accepted, Book!Refused, Book!Cancelled,
     Book!Counted, Book!Active
<1> HIDE DEF x, row
<1>5. Moves(y)
  <2>1. \A w \in WrittenBy(y) : w # n => w \in WrittenBy(x) /\ y.rows[w] = x.rows[w] /\ y.base[w] = x.base[w]
    BY <1>2 DEF WrittenBy
  <2>2. \A w \in WrittenBy(y) : ~IsTold(y, w)
    BY <1>1, <1>2, <1>4, <2>1 DEF IsTold
  <2>3. \A w \in WrittenBy(y) : Book!Issued(y.base[w], y.rows[w]) \/ Book!Dispatched(y.base[w], y.rows[w])
    BY <1>1, <1>2, <1>4, <2>1 DEF Moves
  <2>4. QED BY <2>2, <2>3, Zenon DEF Moves
<1>6. SendsOne(y)
  <2>1. row.status = "RELEASED" => \A w \in Orders : x.rows[w].status # "RELEASED"
    BY <1>1, <1>4 DEF SendsOne
  <2>2. QED BY <1>1, <1>2, <2>1 DEF SendsOne
<1>7. NoGaps(Over(y, orders))
  <2>1. \A w \in Orders : Over(y, orders)[w] # NoRow <=> w < n \/ w = n
    BY <1>2, <1>3, <1>4 DEF Over
  <2>2. \A v, w \in Orders : v < w /\ (w < n \/ w = n) => v < n
    BY <1>1, BrokerAssumption DEF Orders
  <2>3. QED BY <2>1, <2>2 DEF NoGaps
<1>8. InTurn(y, orders)
  <2> SUFFICES ASSUME NEW v \in Orders, NEW w \in Orders, v < w,
                      y.rows[w].status = "RELEASED", y.base[w] # NoRow
               PROVE  Over(y, orders)[v] # NoRow /\ Over(y, orders)[v].status # "QUEUED"
    BY DEF InTurn
  <2>1. w # n /\ x.rows[w].status = "RELEASED" /\ x.base[w] # NoRow
    BY <1>2
  <2>2. Over(x, orders)[w] # NoRow
    BY <2>1 DEF Over, NoRow
  <2>3. v # n
    BY <1>1, <1>3, <2>2, BrokerAssumption DEF Orders
  <2>4. Over(y, orders)[v] = Over(x, orders)[v]
    BY <1>2, <2>3 DEF Over
  <2>5. QED BY <1>1, <2>1, <2>4 DEF InTurn
<1>9. tx' = [tx EXCEPT ![c] = y]
  BY <1>2
<1>10. QED BY <1>1, <1>5, <1>6, <1>7, <1>8, <1>9, OneWrites

\* What writing a row does to a transaction.
LEMMA WriteOne ==
  ASSUME ProtocolTypeOK, NEW x \in Transactions, NEW w \in Orders, NEW row \in Rows, row # View(x)[w],
         NEW y, y = Written(x, w, row)
  PROVE  /\ y \in Transactions /\ y.at = x.at /\ y.lines = x.lines
         /\ y.rows[w] = row /\ y.base[w] = (IF x.rows[w] = NoRow THEN orders[w] ELSE x.base[w])
         /\ \A v \in Orders : v # w => y.rows[v] = x.rows[v] /\ y.base[v] = x.base[v]
<1> DEFINE base == IF x.rows[w] = NoRow THEN orders[w] ELSE x.base[w]
<1>1. base \in Rows /\ y = WithRow(x, w, row, base)
  BY DEF Written, Transactions, ProtocolTypeOK
<1> HIDE DEF base
<1>2. QED BY <1>1, Set_row DEF base

\* A row written over one that is there leaves no gap.
LEMMA RewriteNoGaps ==
  ASSUME NEW table, NEW x, NoGaps(Over(x, table)), NEW w \in Orders, Over(x, table)[w] # NoRow,
         NEW y, y.rows[w] # NoRow, \A v \in Orders : v # w => y.rows[v] = x.rows[v]
  PROVE  NoGaps(Over(y, table))
<1>1. \A v \in Orders : Over(y, table)[v] # NoRow <=> Over(x, table)[v] # NoRow
  BY DEF Over
<1>2. QED BY <1>1 DEF NoGaps

\* The steps an order takes are told apart by the status they give it.
LEMMA Steps ==
  ASSUME NEW w, NEW old \in Rows, NEW new
  PROVE  /\ Book!Told(w, old, new) => new.status \in {"IN_PROGRESS"} \union Book!Over /\ old # NoRow
         /\ Book!Dispatched(old, new) => new.status = "RELEASED"
BY DEF Rows, NoRow, Book!Told, Book!Accepted, Book!Refused, Book!Cancelled, Book!Counted, Book!Dispatched,
   Book!Active, Book!Over

\* A promotion sends one order on its way, and only if the one told of is over.
LEMMA PromotionBook ==
  ASSUME ProtocolInv, BookInv, NEW t \in Threads, Promote(t) \/ Dispatch(t)
  PROVE  BookInv'
<1> DEFINE x == tx[t]
           next == AfterPromotion(x)
<1>1. /\ x \in Transactions /\ ProtocolTypeOK /\ UNCHANGED orders /\ x.at \in {"promote", "first"}
      /\ Moves(x) /\ SendsOne(x) /\ NoGaps(Over(x, orders))
      /\ View(x) \in [Orders -> Rows] /\ next \in {"active?", "commit"}
      /\ \A w \in WrittenBy(x) : IsTold(x, w) => next = "commit"
  <2>1. \A w \in WrittenBy(x) : IsTold(x, w) => x.lines = 0
    BY OpenBook DEF Moves
  <2>2. \A w \in WrittenBy(x) : IsTold(x, w) => next = "commit"
    BY <2>1 DEF AfterPromotion
  <2>3. QED BY <2>2, OpenBook, OpenTransaction, AfterPromotionOK DEF Promote, Dispatch
<1> HIDE DEF next
<1>2. ASSUME NEW place \in {"first", "active?", "commit"}, Goto(t, place),
             place # "first" => place = next,
             place = "first" => \A w \in Orders : x.rows[w].status # "RELEASED"
      PROVE  BookInv'
  <2> DEFINE y == [x EXCEPT !.at = place]
  <2>1. tx' = [tx EXCEPT ![t] = y]
    BY <1>2 DEF Goto
  <2>2. y.rows = x.rows /\ y.base = x.base /\ y.lines = x.lines /\ y.at = place
    BY <1>1, Set_at DEF Places
  <2> HIDE DEF y
  <2>3. /\ \A w \in WrittenBy(x) : IsTold(x, w) => y.at \in {"first", "commit"}
        /\ y.at = "first" => x.at # "commit"
        /\ y.at \in {"queued?", "first"} \/ (y.at = "insert" /\ y.initial = "RELEASED")
             => \A w \in Orders : x.rows[w].status # "RELEASED"
    BY <1>1, <1>2, <2>2
  <2>4. QED BY <1>1, <2>1, <2>2, <2>3, GoesOn
<1>3. ASSUME NEW w \in Queued(x), x.at = "first", \A v \in Queued(x) : w <= v,
             tx' = [tx EXCEPT ![t] = [Dispatched(x, w) EXCEPT !.at = next]]
      PROVE  BookInv'
  <2> DEFINE old == View(x)[w]
             row == [old EXCEPT !.status = "RELEASED"]
             z == Written(x, w, row)
             y == [z EXCEPT !.at = next]
  <2>1. w \in Orders /\ old \in Rows /\ old.status = "QUEUED" /\ old = Over(x, orders)[w]
    BY <1>1, ViewIsOver DEF Queued
  <2>2. Dispatched(x, w) = z /\ (old = IF x.rows[w] # NoRow THEN x.rows[w] ELSE orders[w])
    BY <2>1 DEF Dispatched, View
  <2> HIDE DEF old
  <2>3. row \in Rows /\ old # NoRow /\ row # NoRow /\ row # old /\ row.status = "RELEASED" /\ row.done = old.done
    BY <2>1 DEF Rows, NoRow, Statuses
  <2>4. Book!Dispatched(old, row)
    BY <2>1 DEF Book!Dispatched
  <2> HIDE DEF row
  <2>5. /\ z \in Transactions /\ z.lines = x.lines /\ z.rows[w] = row
        /\ z.base[w] = (IF x.rows[w] = NoRow THEN orders[w] ELSE x.base[w])
        /\ \A v \in Orders : v # w => z.rows[v] = x.rows[v] /\ z.base[v] = x.base[v]
    BY <1>1, <2>1, <2>3, WriteOne DEF old
  <2> HIDE DEF z
  <2>6. y.rows = z.rows /\ y.base = z.base /\ y.lines = x.lines /\ y.at = next
    BY <1>1, <2>5, Set_at DEF Places
  <2>7. tx' = [tx EXCEPT ![t] = y]
    BY <1>3, <2>2
  <2> HIDE DEF y, x
  <2>8. SendsOne(y)
    BY <1>1, <1>3, <2>5, <2>6 DEF SendsOne
  <2>9. NoGaps(Over(y, orders))
    BY <1>1, <2>1, <2>3, <2>5, <2>6, RewriteNoGaps
  <2>10. Moves(y)
    <3>1. \A v \in WrittenBy(y) : v # w => v \in WrittenBy(x) /\ y.rows[v] = x.rows[v] /\ y.base[v] = x.base[v]
      BY <2>5, <2>6 DEF WrittenBy
    <3>2. x.base[w] \in Rows /\ x.rows[w] \in Rows /\ y.base[w] \in Rows /\ y.rows[w] = row
      BY <1>1, <2>1, <2>5, <2>6 DEF Transactions, ProtocolTypeOK
    <3>3. ~IsTold(y, w)
      BY <2>3, <3>2, Steps DEF IsTold, Book!Over
    <3>4. CASE x.rows[w] = NoRow
      <4>1. Book!Dispatched(y.base[w], y.rows[w]) /\ w \notin WrittenBy(x)
        BY <2>2, <2>4, <2>5, <2>6, <3>4 DEF WrittenBy
      <4>2. \A u \in WrittenBy(y) : IsTold(y, u) => u # w /\ u \in WrittenBy(x) /\ IsTold(x, u)
        BY <3>1, <3>3 DEF IsTold
      <4>3. \A v \in WrittenBy(y) :
               Book!Issued(y.base[v], y.rows[v]) \/ Book!Dispatched(y.base[v], y.rows[v]) \/ IsTold(y, v)
        <5>1. \A v \in WrittenBy(x) :
                 Book!Issued(x.base[v], x.rows[v]) \/ Book!Dispatched(x.base[v], x.rows[v]) \/ IsTold(x, v)
          BY <1>1 DEF Moves
        <5>2. QED BY <3>1, <4>1, <5>1, Zenon DEF IsTold
      <4>4. ASSUME NEW u \in WrittenBy(y), IsTold(y, u)
            PROVE  /\ y.lines = 0 /\ y.at = "commit"
                   /\ \A v \in WrittenBy(y) \ {u} :
                        Ended(y.rows[u]) /\ Book!Dispatched(y.base[v], y.rows[v])
        <5>1. u # w /\ u \in WrittenBy(x) /\ IsTold(x, u) /\ y.rows[u] = x.rows[u]
          BY <3>1, <4>2, <4>4
        <5>2. /\ x.lines = 0 /\ Ended(x.rows[u]) /\ next = "commit"
              /\ \A v \in WrittenBy(x) \ {u} : Book!Dispatched(x.base[v], x.rows[v])
          BY <1>1, <1>3, <5>1 DEF Moves
        <5>3. \A v \in WrittenBy(y) \ {u} : Book!Dispatched(y.base[v], y.rows[v])
          BY <3>1, <4>1, <5>2, Zenon
        <5>4. QED BY <2>6, <5>1, <5>2, <5>3
      <4>5. QED BY <4>3, <4>4 DEF Moves
    <3>5. CASE x.rows[w] # NoRow
      <4>1. /\ w \in WrittenBy(x) /\ x.rows[w].status = "QUEUED"
            /\ y.base[w] = x.base[w] /\ row.done = x.rows[w].done
        BY <2>1, <2>2, <2>3, <2>5, <2>6, <3>5 DEF WrittenBy
      <4>2. ~IsTold(x, w) /\ ~Book!Dispatched(x.base[w], x.rows[w])
        BY <3>2, <4>1, Steps DEF IsTold, Book!Over
      <4>3. Book!Issued(y.base[w], y.rows[w])
        <5>1. Book!Issued(x.base[w], x.rows[w])
          BY <1>1, <4>1, <4>2 DEF Moves
        <5>2. QED BY <2>3, <3>2, <4>1, <5>1 DEF Book!Issued
      <4>4. \A u \in WrittenBy(x) : ~IsTold(x, u)
        BY <1>1, <4>1, <4>2 DEF Moves
      <4>5. \A u \in WrittenBy(y) : ~IsTold(y, u)
        BY <3>1, <3>3, <4>4 DEF IsTold
      <4>6. \A v \in WrittenBy(y) : Book!Issued(y.base[v], y.rows[v]) \/ Book!Dispatched(y.base[v], y.rows[v])
        <5>1. \A v \in WrittenBy(x) : Book!Issued(x.base[v], x.rows[v]) \/ Book!Dispatched(x.base[v], x.rows[v])
          BY <1>1, <4>4 DEF Moves
        <5>2. QED BY <3>1, <4>3, <5>1, Zenon
      <4>7. QED BY <4>5, <4>6, Zenon DEF Moves
    <3>6. QED BY <3>4, <3>5
  <2>11. InTurn(y, orders)
    <3> SUFFICES ASSUME NEW v \in Orders, NEW u \in Orders, v < u,
                        y.rows[u].status = "RELEASED", y.base[u] # NoRow
                 PROVE  Over(y, orders)[v] # NoRow /\ Over(y, orders)[v].status # "QUEUED"
      BY DEF InTurn
    <3>1. u = w
      BY <1>1, <1>3, <2>5, <2>6 DEF SendsOne
    <3>2. v # w /\ ~(w <= v)
      BY <3>1, BrokerAssumption DEF Orders
    <3>3. Over(y, orders)[v] = Over(x, orders)[v]
      BY <2>5, <2>6, <3>2 DEF Over
    <3>4. Over(x, orders)[v] # NoRow
      BY <1>1, <2>1, <2>3, <3>1 DEF NoGaps
    <3>5. Over(x, orders)[v].status # "QUEUED"
      BY <1>3, <3>2, ViewIsOver
    <3>6. QED BY <3>3, <3>4, <3>5
  <2>12. QED BY <1>1, <2>7, <2>8, <2>9, <2>10, <2>11, OneWrites
<1>4. CASE Promote(t)
  <2>1. ~SomeActive(x) => \A w \in Orders : x.rows[w].status # "RELEASED"
    BY NoneActive
  <2>2. QED BY <1>1, <1>2, <1>4, <2>1 DEF Promote, next
<1>5. CASE Dispatch(t)
  BY <1>1, <1>2, <1>3, <1>5 DEF Dispatch, next
<1>6. QED BY <1>4, <1>5

\* What a method of WorkOrder makes of a row is a step an order may be told of.
LEMMA MethodsTell ==
  ASSUME NEW w \in Orders, NEW old \in Rows, RowCounted(w, old), NEW row, row # old,
         \/ row = Accept(old) \/ row = Reject(old) \/ row = Cancel(old) \/ row = CountResult(w, old)
  PROVE  Book!Told(w, old, row) /\ row # NoRow /\ row.status # "RELEASED"
<1> USE DEF Rows, NoRow, Book!Told, Book!Active
<1>1. CASE row = Accept(old)
  BY <1>1 DEF Accept, Book!Accepted
<1>2. CASE row = Reject(old)
  BY <1>2 DEF Reject, Book!Refused
<1>3. CASE row = Cancel(old)
  BY <1>3 DEF Cancel, IsOpen, IsActive, Book!Cancelled
<1>4. CASE row = CountResult(w, old)
  <2>1. old.done \in Nat /\ Quantity[w] \in Nat /\ IsActive(old) /\ old.done < Quantity[w]
    BY <1>4, BrokerAssumption DEF CountResult, RowCounted
  <2>2. old.done + 1 >= Quantity[w] <=> old.done + 1 = Quantity[w]
    BY <2>1
  <2>3. row = [status |-> IF old.done + 1 = Quantity[w] THEN "COMPLETED" ELSE "IN_PROGRESS",
               done |-> old.done + 1]
    BY <1>4, <2>1, <2>2 DEF CountResult
  <2>4. Book!Counted(w, old, row)
    BY <2>1, <2>3 DEF IsActive, Book!Counted
  <2>5. QED BY <2>3, <2>4
<1>5. QED BY <1>1, <1>2, <1>3, <1>4

\* A transaction that begins by calling a method on one row, which ends the order if
\* another is to be promoted.
LEMMA MethodBook ==
  ASSUME ProtocolInv, CountInv, BookInv, NEW t \in Threads, NEW x \in Transactions,
         x.rows = NoTransaction.rows, x.lines = 0, NEW w \in Orders, NEW row,
         NEW place \in {"promote", "commit"}, NEW n \in Nat,
         \/ row = Accept(orders[w]) \/ row = Reject(orders[w]) \/ row = Cancel(orders[w])
         \/ row = CountResult(w, orders[w]) \/ row = orders[w],
         place = "promote" /\ row # orders[w] => Ended(row),
         tx' = [tx EXCEPT ![t] = [Written(x, w, row) EXCEPT !.at = place, !.syncs = n]],
         UNCHANGED orders
  PROVE  BookInv'
<1> DEFINE old == orders[w]
           z == Written(x, w, row)
           z1 == [z EXCEPT !.at = place]
           y == [z1 EXCEPT !.syncs = n]
<1>1. /\ old \in Rows /\ old = View(x)[w] /\ ProtocolTypeOK /\ RowCounted(w, old) /\ NoGaps(orders)
      /\ \A v \in Orders : x.rows[v] = NoRow
  <2>1. \A v \in Orders : x.rows[v] = NoRow
    BY DEF NoTransaction
  <2>2. QED BY <2>1, OpenBook, ViewOfTable DEF CountInv, RowsCounted
<1>2. row \in Rows
  BY <1>1, MethodsFollow DEF old
<1>3. tx' = [tx EXCEPT ![t] = y]
  BY DEF y, z1, z
<1>4. CASE row = old
  <2>1. z = x
    BY <1>1, <1>4 DEF Written
  <2> HIDE DEF z
  <2>2. z1 \in Transactions /\ z1.rows = x.rows
    BY <2>1, Set_at DEF Places
  <2> HIDE DEF z1
  <2>3. y.rows = NoTransaction.rows
    BY <2>2, Set_syncs
  <2> HIDE DEF y
  <2>4. QED BY <1>3, <2>3, WritesNothing
<1>5. CASE row # old
  <2>1. Book!Told(w, old, row) /\ row # NoRow /\ row.status # "RELEASED"
    BY <1>1, <1>5, MethodsTell
  <2>2. /\ z \in Transactions /\ z.lines = 0 /\ z.rows[w] = row /\ z.base[w] = old
        /\ \A v \in Orders : v # w => z.rows[v] = NoRow
    <3> HIDE DEF z
    <3>1. QED BY <1>1, <1>2, <1>5, WriteOne DEF z
  <2> HIDE DEF z
  <2>3. z1 \in Transactions /\ z1.rows = z.rows /\ z1.base = z.base /\ z1.lines = 0 /\ z1.at = place
    BY <2>2, Set_at DEF Places
  <2> HIDE DEF z1
  <2>4. y.rows = z.rows /\ y.base = z.base /\ y.lines = 0 /\ y.at = place
    BY <2>3, Set_syncs
  <2> HIDE DEF y, old
  <2>5. WrittenBy(y) = {w} /\ y.rows[w] = row /\ y.base[w] = old
    BY <2>1, <2>2, <2>4 DEF WrittenBy
  <2>6. Moves(y)
    <3>1. IsTold(y, w)
      BY <2>1, <2>5 DEF IsTold
    <3>2. y.at = "promote" => Ended(row)
      BY <1>5, <2>4 DEF old
    <3>3. QED BY <2>4, <2>5, <3>1, <3>2 DEF Moves
  <2>7. SendsOne(y) /\ InTurn(y, orders)
    <3>1. \A v \in Orders : y.rows[v].status # "RELEASED"
      BY <2>1, <2>2, <2>4 DEF NoRow
    <3>2. QED BY <3>1 DEF SendsOne, InTurn
  <2>8. NoGaps(Over(y, orders))
    <3>1. NoGaps(Over(x, orders)) /\ Over(x, orders)[w] = old
      BY <1>1, NothingMoves DEF Over, old
    <3>2. old # NoRow
      BY <1>1, <2>1, Steps DEF Rows
    <3>3. QED BY <1>1, <2>1, <2>2, <2>4, <3>1, <3>2, RewriteNoGaps
  <2>9. QED BY <1>3, <2>6, <2>7, <2>8, OneWrites
<1>6. QED BY <1>4, <1>5

\* A cancellation tells of one order, and the start of a release of none.
LEMMA RequestBook ==
  ASSUME ProtocolInv, CountInv, BookInv, NEW c \in Clients,
         (\E n \in 1..MaxOrders : Release(c, n)) \/ (\E w \in Orders : CancelOrder(c, w))
  PROVE  BookInv'
<1>1. c \in Threads
  BY DEF Threads
<1>2. CASE \E n \in 1..MaxOrders : Release(c, n)
  <2>1. PICK n \in 1..MaxOrders : Release(c, n)
    BY <1>2
  <2> DEFINE y == [NoTransaction EXCEPT !.at = "active?", !.lines = n]
  <2>2. y.rows = NoTransaction.rows
    BY DEF NoTransaction
  <2>3. tx' = [tx EXCEPT ![c] = y] /\ UNCHANGED orders
    BY <2>1 DEF Release
  <2> HIDE DEF y
  <2>4. QED BY <1>1, <2>2, <2>3, WritesNothing
<1>3. CASE \E w \in Orders : CancelOrder(c, w)
  <2>1. PICK w \in Orders : CancelOrder(c, w)
    BY <1>3
  <2> DEFINE place == IF IsActive(orders[w]) THEN "promote" ELSE "commit"
             row == Cancel(orders[w])
  <2>2. /\ place \in {"promote", "commit"} /\ 1 \in Nat /\ NoTransaction \in Transactions
        /\ NoTransaction.lines = 0
    BY <1>1, NewAdmissible DEF NoTransaction
  <2>3. /\ tx' = [tx EXCEPT ![c] = [Written(NoTransaction, w, row) EXCEPT !.at = place, !.syncs = 1]]
        /\ UNCHANGED orders
    BY <2>1 DEF CancelOrder
  <2>4. row = Cancel(orders[w]) /\ (place = "promote" /\ row # orders[w] => Ended(row))
    <3>1. orders[w] \in Rows
      BY DEF ProtocolInv, ProtocolTypeOK
    <3>2. QED BY <3>1 DEF Cancel, Rows, Ended, Book!Over
  <2> HIDE DEF place, row
  <2>5. QED BY <1>1, <2>2, <2>3, <2>4, MethodBook
<1>4. QED BY <1>2, <1>3

\* The MQTT thread's calls of WorkOrder's methods.
LEMMA HandleBook ==
  ASSUME ProtocolInv, CountInv, BookInv, toMes # <<>>,
         NEW row, NEW place \in {"promote", "commit"}, NEW n \in Nat,
         \/ row = Accept(orders[Report.order]) \/ row = Reject(orders[Report.order])
         \/ row = Cancel(orders[Report.order]) \/ row = CountResult(Report.order, orders[Report.order])
         \/ row = orders[Report.order],
         place = "promote" /\ row # orders[Report.order] => Ended(row),
         Handle(row, place, n)
  PROVE  BookInv'
<1> DEFINE x == [NoTransaction EXCEPT !.event = Report.event]
           w == Report.order
<1>1. tx' = [tx EXCEPT ![Mqtt] = [Written(x, w, row) EXCEPT !.at = place, !.syncs = n]] /\ UNCHANGED orders
  BY DEF Handle
<1>2. x.lines = 0
  BY DEF NoTransaction
<1> HIDE DEF x
<1>3. /\ Admissible(Mqtt, x) /\ x.rows = NoTransaction.rows /\ w \in Orders /\ Mqtt \in Threads
  BY ReportAdmissible DEF Reports, x
<1>4. x \in Transactions
  BY <1>3 DEF Admissible, WellFormed
<1> HIDE DEF w
<1>5. /\ \/ row = Accept(orders[w]) \/ row = Reject(orders[w]) \/ row = Cancel(orders[w])
         \/ row = CountResult(w, orders[w]) \/ row = orders[w]
      /\ place = "promote" /\ row # orders[w] => Ended(row)
  BY DEF w
<1>6. QED BY <1>1, <1>2, <1>3, <1>4, <1>5, MethodBook

\* Every step of the MQTT callbacks tells of one order, or of none.
LEMMA ReportBook ==
  ASSUME ProtocolInv, CountInv, BookInv, ReportStep
  PROVE  BookInv'
<1>1. Mqtt \in Threads
  BY DEF Threads
<1>2. CASE SkipDuplicate
  <2> DEFINE y == [NoTransaction EXCEPT !.at = "return", !.event = Report.event]
  <2>1. y.rows = NoTransaction.rows
    BY DEF NoTransaction
  <2>2. tx' = [tx EXCEPT ![Mqtt] = y] /\ UNCHANGED orders
    BY <1>2 DEF SkipDuplicate
  <2> HIDE DEF y
  <2>3. QED BY <1>1, <2>1, <2>2, WritesNothing
<1>3. CASE OnAccepted
  BY <1>3, HandleBook DEF OnAccepted, Delivers
<1>4. CASE OnRejected
  <2> DEFINE old == orders[Report.order]
             row == Reject(old)
             place == IF Report.kind = "BUSY" THEN "commit" ELSE "promote"
  <2>1. toMes # <<>> /\ Handle(row, place, 1) /\ place \in {"promote", "commit"} /\ 1 \in Nat
    BY <1>4 DEF OnRejected, Delivers
  <2>2. Report.order \in Orders
    BY <2>1, ReportAdmissible DEF Reports
  <2>3. row # old => Ended(row)
    <3>1. old \in Rows
      BY <2>2 DEF ProtocolInv, ProtocolTypeOK
    <3>2. QED BY <3>1 DEF Reject, Rows, Ended, Book!Over
  <2>4. row = Reject(orders[Report.order])
    OBVIOUS
  <2> HIDE DEF row, place
  <2>5. QED BY <2>1, <2>3, <2>4, HandleBook
<1>5. CASE OnCancelled
  BY <1>5, HandleBook DEF OnCancelled, Delivers
<1>6. CASE OnCompleted
  BY <1>6, HandleBook DEF OnCompleted, Delivers
<1>7. CASE OnResult
  <2> DEFINE row == CountResult(Report.order, orders[Report.order])
  <2>1. /\ toMes # <<>> /\ 0 \in Nat /\ 1 \in Nat
        /\ \/ Handle(row, "promote", 1) /\ row.status = "COMPLETED"
           \/ Handle(row, "commit", 0)
    BY <1>7 DEF OnResult, Delivers
  <2>2. row = CountResult(Report.order, orders[Report.order])
    OBVIOUS
  <2> HIDE DEF row
  <2>3. QED BY <2>1, <2>2, HandleBook DEF Ended, Book!Over
<1>8. CASE Return
  <2>1. tx' = [tx EXCEPT ![Mqtt] = NoTransaction] /\ UNCHANGED orders
    BY <1>8 DEF Return
  <2>2. QED BY <1>1, <2>1, WritesNothing
<1>9. QED BY <1>2, <1>3, <1>4, <1>5, <1>6, <1>7, <1>8 DEF ReportStep

\* Synchronizing the station and giving up write nothing.
LEMMA SyncBook ==
  ASSUME ProtocolInv, BookInv, NEW t \in Threads, RollBack(t) \/ ReadActive(t) \/ Publish(t)
  PROVE  BookInv'
<1> DEFINE x == tx[t]
<1>1. x \in Transactions /\ x.syncs \in Nat
  BY OpenBook DEF Transactions
<1>2. CASE tx' = [tx EXCEPT ![t] = Done(t)] /\ UNCHANGED orders
  BY <1>2, DoneIsEmpty, WritesNothing
<1>3. ASSUME x.at \in {"sync", "publish"} PROVE \A w \in WrittenBy(x) : ~IsTold(x, w)
  BY <1>3, OpenBook DEF Moves
<1>4. CASE ReadActive(t)
  <2>1. PICK w \in Orders \union {Empty} : tx' = [tx EXCEPT ![t].read = w, ![t].at = "publish"]
    BY <1>4 DEF ReadActive
  <2> DEFINE z == [x EXCEPT !.read = w]
             y == [z EXCEPT !.at = "publish"]
  <2>2. tx' = [tx EXCEPT ![t] = y]
    BY <1>1, <2>1 DEF ProtocolInv, ProtocolTypeOK
  <2>3. z \in Transactions /\ z.rows = x.rows /\ z.base = x.base /\ z.lines = x.lines
    BY <1>1, Set_read
  <2> HIDE DEF z
  <2>4. y.rows = x.rows /\ y.base = x.base /\ y.lines = x.lines /\ y.at = "publish"
    BY <2>3, Set_at DEF Places
  <2> HIDE DEF y
  <2>5. UNCHANGED orders /\ \A v \in WrittenBy(x) : ~IsTold(x, v)
    BY <1>3, <1>4 DEF ReadActive
  <2>6. QED BY <2>2, <2>4, <2>5, GoesOn
<1>5. CASE Publish(t) /\ x.syncs # 1
  <2> DEFINE z == [x EXCEPT !.at = "sync"]
             z1 == [z EXCEPT !.syncs = x.syncs - 1]
             y == [z1 EXCEPT !.read = Empty]
  <2>1. /\ tx' = [tx EXCEPT ![t] = y] /\ UNCHANGED orders
        /\ \A v \in WrittenBy(x) : ~IsTold(x, v)
    BY <1>3, <1>5 DEF Publish
  <2>2. x.syncs - 1 \in Nat
    BY <1>1, <1>5, OpenTransaction DEF Publish, Admissible, WellFormed
  <2>3. z \in Transactions /\ z.rows = x.rows /\ z.base = x.base /\ z.lines = x.lines /\ z.at = "sync"
    BY <1>1, Set_at DEF Places
  <2> HIDE DEF z
  <2>4. z1 \in Transactions /\ z1.rows = x.rows /\ z1.base = x.base /\ z1.lines = x.lines /\ z1.at = "sync"
    <3> DEFINE k == x.syncs - 1
    <3>1. k \in Nat
      BY <2>2
    <3> HIDE DEF k
    <3>2. QED BY <2>3, <3>1, Set_syncs DEF k
  <2> HIDE DEF z1
  <2>5. y.rows = x.rows /\ y.base = x.base /\ y.lines = x.lines /\ y.at = "sync"
    BY <2>4, Set_read
  <2> HIDE DEF y
  <2>6. QED BY <2>1, <2>5, GoesOn
<1>6. CASE Publish(t) /\ x.syncs = 1
  BY <1>2, <1>6 DEF Publish
<1>7. CASE RollBack(t)
  BY <1>2, <1>7 DEF RollBack
<1>8. QED BY <1>4, <1>5, <1>6, <1>7

\* The connection comes and goes; a crash ends every transaction.
LEMMA ConnectionBook ==
  ASSUME ProtocolInv, BookInv, ConnectionStep
  PROVE  BookInv'
<1>1. CASE Disconnect
  BY <1>1 DEF Disconnect, mes, BookInv
<1>2. CASE MesCrash
  <2>1. UNCHANGED orders /\ \A t \in Threads : tx'[t] = NoTransaction
    BY <1>2 DEF MesCrash
  <2>2. NoGaps(orders)
    BY DEF BookInv
  <2>3. /\ Moves(NoTransaction) /\ SendsOne(NoTransaction) /\ NoGaps(Over(NoTransaction, orders))
        /\ InTurn(NoTransaction, orders)
    BY <2>2, NothingMoves
  <2>4. QED BY <2>1, <2>2, <2>3 DEF BookInv
<1>3. CASE Reconnect
  <2> DEFINE y == [NoTransaction EXCEPT !.at = "sync", !.syncs = 1]
  <2>1. y.rows = NoTransaction.rows
    BY DEF NoTransaction
  <2>2. tx' = [tx EXCEPT ![Mqtt] = y] /\ UNCHANGED orders /\ Mqtt \in Threads
    BY <1>3 DEF Reconnect, Threads
  <2> HIDE DEF y
  <2>3. QED BY <2>1, <2>2, WritesNothing
<1>4. QED BY <1>1, <1>2, <1>3 DEF ConnectionStep

\* A commit beneath a transaction opens no gap in what that one sees.
LEMMA NoGapsBeneath ==
  ASSUME NEW table, NEW new, NEW x, NoGaps(Over(x, table)), NoGaps(new),
         \A w \in Orders : table[w] # NoRow => new[w] # NoRow
  PROVE  NoGaps(Over(x, new))
<1> DEFINE a == Over(x, table)
           b == Over(x, new)
<1> SUFFICES ASSUME NEW v \in Orders, NEW w \in Orders, v < w, b[w] # NoRow PROVE b[v] # NoRow
  BY DEF NoGaps
<1>1. \A u \in Orders : /\ a[u] # NoRow <=> x.rows[u] # NoRow \/ table[u] # NoRow
                        /\ b[u] # NoRow <=> x.rows[u] # NoRow \/ new[u] # NoRow
  BY DEF Over
<1>2. NoGaps(a)
  OBVIOUS
<1> HIDE DEF a, b
<1>3. CASE x.rows[w] # NoRow
  BY <1>1, <1>2, <1>3 DEF NoGaps
<1>4. CASE new[w] # NoRow
  BY <1>1, <1>4 DEF NoGaps
<1>5. QED BY <1>1, <1>3, <1>4

\* What a commit does to the list: the rows it wrote, over those they are based on.
LEMMA CommitWrites ==
  ASSUME ProtocolInv, NEW t \in Threads, Commit(t), NEW x, x = tx[t]
  PROVE  /\ orders' = Over(x, orders)
         /\ \A w \in Orders \ WrittenBy(x) : orders'[w] = orders[w]
         /\ \A w \in WrittenBy(x) : orders'[w] = x.rows[w] /\ orders[w] = x.base[w]
<1>1. orders' = Over(x, orders)
  BY ViewIsOver DEF Commit
<1>2. \A w \in Orders : x.rows[w] # NoRow => orders[w] = x.base[w]
  BY DEF Commit, UnchangedSinceRead
<1>3. \A w \in Orders : orders'[w] = IF x.rows[w] # NoRow THEN x.rows[w] ELSE orders[w]
  BY <1>1 DEF Over
<1>4. QED BY <1>1, <1>2, <1>3 DEF WrittenBy

\* What a commit does to an order that has left the queue does not put it back.
LEMMA NothingGoesBack ==
  ASSUME ProtocolInv, BookInv, NEW t \in Threads, Commit(t), NEW v \in Orders,
         orders[v] # NoRow, orders[v].status # "QUEUED"
  PROVE  orders'[v] # NoRow /\ orders'[v].status # "QUEUED"
<1> DEFINE x == tx[t]
           old == orders[v]
           new == orders'[v]
<1>1. Moves(x) /\ old \in Rows
  BY OpenBook
<1>2. v \notin WrittenBy(x) => new = old
  BY CommitWrites
<1>3. v \in WrittenBy(x) => Book!Issued(old, new) \/ Book!Dispatched(old, new) \/ Book!Told(v, old, new)
  BY <1>1, CommitWrites DEF Moves, IsTold
<1>4. old # NoRow /\ old.status # "QUEUED"
  OBVIOUS
<1> HIDE DEF x, old, new
<1>5. CASE v \notin WrittenBy(x)
  BY <1>2, <1>4, <1>5 DEF old, new
<1>6. CASE Book!Issued(old, new) \/ Book!Dispatched(old, new)
  BY <1>4, <1>6 DEF Book!Issued, Book!Dispatched, Book!NoOrder, NoRow
<1>7. CASE Book!Told(v, old, new)
  <2>1. new.status \in {"IN_PROGRESS"} \union Book!Over
    BY <1>1, <1>7, Steps
  <2>2. QED BY <2>1 DEF Book!Over, NoRow, new
<1>8. QED BY <1>3, <1>5, <1>6, <1>7

\* So an order that is dispatched in its turn is still so when another commits.
LEMMA InTurnBeneath ==
  ASSUME NEW table, NEW new, NEW x, InTurn(x, table),
         \A v \in Orders : table[v] # NoRow /\ table[v].status # "QUEUED"
                            => new[v] # NoRow /\ new[v].status # "QUEUED"
  PROVE  InTurn(x, new)
<1>1. \A v \in Orders :
         Over(x, table)[v] # NoRow /\ Over(x, table)[v].status # "QUEUED"
           => Over(x, new)[v] # NoRow /\ Over(x, new)[v].status # "QUEUED"
  BY DEF Over
<1>2. QED BY <1>1 DEF InTurn

\* A commit leaves nothing to write, and every other transaction as it was.
LEMMA CommitBook ==
  ASSUME ProtocolInv, BookInv, NEW t \in Threads, Commit(t)
  PROVE  BookInv'
<1> DEFINE x == tx[t]
           y == IF x.syncs = 0 THEN Done(t)
                ELSE [NoTransaction EXCEPT !.at = "sync", !.event = x.event, !.syncs = x.syncs]
           new == orders'
<1>1. tx' = [tx EXCEPT ![t] = y] /\ new = Over(x, orders)
  BY CommitWrites DEF Commit
<1>2. y.rows = NoTransaction.rows
  BY DoneIsEmpty DEF NoTransaction
<1> HIDE DEF y
<1>3. NoGaps(new) /\ \A w \in Orders : orders[w] # NoRow => new[w] # NoRow
  BY <1>1, OpenBook DEF Over
<1>4. \A s \in Threads : tx'[s] = IF s = t THEN y ELSE tx[s]
  BY <1>1 DEF ProtocolInv, ProtocolTypeOK
<1>0. \A v \in Orders : orders[v] # NoRow /\ orders[v].status # "QUEUED"
                          => new[v] # NoRow /\ new[v].status # "QUEUED"
  BY NothingGoesBack
<1> HIDE DEF new
<1>5. ASSUME NEW s \in Threads
      PROVE  Moves(tx'[s]) /\ SendsOne(tx'[s]) /\ NoGaps(Over(tx'[s], new)) /\ InTurn(tx'[s], new)
  <2>1. CASE s = t
    BY <1>2, <1>3, <1>4, <2>1, NothingMoves
  <2>2. CASE s # t
    <3>1. /\ tx'[s] = tx[s] /\ Moves(tx[s]) /\ SendsOne(tx[s]) /\ NoGaps(Over(tx[s], orders))
          /\ InTurn(tx[s], orders)
      BY <1>4, <2>2, OpenBook
    <3>2. NoGaps(Over(tx[s], new))
      BY <1>3, <3>1, NoGapsBeneath
    <3>3. InTurn(tx[s], new)
      BY <1>0, <3>1, InTurnBeneath
    <3>4. QED BY <3>1, <3>2, <3>3
  <2>3. QED BY <2>1, <2>2
<1>6. QED BY <1>3, <1>5 DEF BookInv, new

\* No transaction is open when the MES starts.
LEMMA InitBook == Init => BookInv
<1> SUFFICES ASSUME Init PROVE BookInv
  OBVIOUS
<1>1. /\ \A w \in Orders : orders[w] = NoRow
      /\ \A t \in Threads : tx[t] = NoTransaction
  BY DEF Init, WorkOrdersInit
<1>2. NoGaps(orders)
  BY <1>1 DEF NoGaps
<1>3. /\ Moves(NoTransaction) /\ SendsOne(NoTransaction) /\ NoGaps(Over(NoTransaction, orders))
      /\ InTurn(NoTransaction, orders)
  BY <1>2, NothingMoves
<1>4. QED BY <1>1, <1>2, <1>3 DEF BookInv

\* Every step keeps what the open transactions are about to write to single steps.
LEMMA NextBook == ProtocolInv /\ CountInv /\ BookInv /\ [Next]_vars => BookInv'
<1> SUFFICES ASSUME ProtocolInv, CountInv, BookInv, [Next]_vars PROVE BookInv'
  OBVIOUS
<1>1. CASE UNCHANGED mes
  BY <1>1 DEF mes, BookInv
<1>2. CASE RestStep
  <2>1. PICK c \in Clients :
          \/ \E n \in 1..MaxOrders : Release(c, n)
          \/ \E w \in Orders : CancelOrder(c, w)
          \/ LookForActive(c) \/ LookForQueued(c) \/ Insert(c)
    BY <1>2 DEF RestStep
  <2>2. QED BY <2>1, RequestBook, LookWrites, InsertBook
<1>3. CASE ReportStep
  BY <1>3, ReportBook
<1>4. CASE TransactionStep
  <2>1. PICK t \in Threads :
          Promote(t) \/ Dispatch(t) \/ Commit(t) \/ RollBack(t) \/ ReadActive(t) \/ Publish(t)
    BY <1>4 DEF TransactionStep
  <2>2. QED BY <2>1, PromotionBook, CommitBook, SyncBook
<1>5. CASE ConnectionStep
  BY <1>5, ConnectionBook
<1>6. QED BY <1>1, <1>2, <1>3, <1>4, <1>5 DEF Next, WorkOrdersStep, vars

\* A commit that tells of no order only issues and dispatches; one that tells of an
\* order counts no product that was not made.
LEMMA CommitIsOneStep ==
  ASSUME ProtocolInv, CountInv, BookInv, ProtocolTypeOK', BookInv', CountIsProduced',
         NEW t \in Threads, Commit(t), UNCHANGED produced
  PROVE  Book!Issue \/ \E w \in Orders : Book!Tell(w)
<1> DEFINE x == tx[t]
<1>1. /\ Moves(x) /\ SendsOne(x)
      /\ \A w \in Orders \ WrittenBy(x) : orders'[w] = orders[w]
      /\ \A w \in WrittenBy(x) : orders'[w] = x.rows[w] /\ orders[w] = x.base[w]
  BY OpenBook, CommitWrites
<1> HIDE DEF x
<1>2. orders' \in [Orders -> Book!Entries] /\ NoGaps(orders')
  <2>1. Rows = Book!Entries
    BY DEF Rows, Statuses, Book!Entries, Book!Active, Book!Over
  <2>2. QED BY <2>1 DEF ProtocolTypeOK, BookInv
<1>3. Book!Rewrite
  <2>1. \A w \in Orders : Book!Sent(w) => x.rows[w].status = "RELEASED"
    BY <1>1 DEF Book!Sent, Book!Stays
  <2>2. \A v, w \in Orders : Book!Sent(v) /\ Book!Sent(w) => v = w
    BY <1>1, <2>1 DEF SendsOne
  <2>3. QED BY <1>2, <2>2 DEF Book!Rewrite
<1>4. \A w \in Orders \ WrittenBy(x) : Book!Stays(w)
  BY <1>1 DEF Book!Stays
<1>5. CASE \A w \in WrittenBy(x) : ~IsTold(x, w)
  <2>1. \A w \in WrittenBy(x) : Book!Issued(orders[w], orders'[w]) \/ Book!Dispatched(orders[w], orders'[w])
    BY <1>1, <1>5 DEF Moves
  <2>2. \A v, w \in Orders : v < w /\ orders'[w] # Book!NoOrder => orders'[v] # Book!NoOrder
    BY <1>2 DEF NoGaps, NoRow, Book!NoOrder
  <2>3. Book!Issue
    BY <1>3, <1>4, <2>1, <2>2 DEF Book!Issue
  <2>4. QED BY <2>3
<1>6. CASE \E w \in WrittenBy(x) : IsTold(x, w)
  <2>1. PICK w \in WrittenBy(x) : IsTold(x, w)
    BY <1>6
  <2>2. w \in Orders /\ Book!Told(w, orders[w], orders'[w])
    BY <1>1, <2>1 DEF WrittenBy, IsTold
  <2>3. orders'[w].done <= produced[w]
    BY <2>2 DEF CountIsProduced
  <2>4. \A v \in WrittenBy(x) \ {w} :
           orders'[w].status \in Book!Over /\ Book!Dispatched(orders[v], orders'[v])
    BY <1>1, <2>1 DEF Moves, Ended
  <2>5. Book!Tell(w)
    BY <1>3, <1>4, <2>2, <2>3, <2>4 DEF Book!Tell
  <2>6. QED BY <2>2, <2>5
<1>7. QED BY <1>5, <1>6

\* Nothing but a commit changes the list.
LEMMA OnlyCommits ==
  ASSUME WorkOrdersStep
  PROVE  UNCHANGED orders \/ \E t \in Threads : Commit(t)
<1>1. CASE RestStep
  BY <1>1 DEF RestStep, Release, CancelOrder, LookForActive, LookForQueued, Insert
<1>2. CASE ReportStep
  BY <1>2 DEF ReportStep, SkipDuplicate, OnAccepted, OnRejected, OnCancelled, OnCompleted, OnResult,
     Handle, Return
<1>3. CASE TransactionStep
  BY <1>3 DEF TransactionStep, Promote, Dispatch, RollBack, ReadActive, Publish
<1>4. CASE ConnectionStep
  BY <1>4 DEF ConnectionStep, Disconnect, MesCrash, Reconnect, mes
<1>5. QED BY <1>1, <1>2, <1>3, <1>4 DEF WorkOrdersStep

\* The station makes products of the order it was sent, and nothing else.
LEMMA OnlyMakes ==
  ASSUME ProtocolInv, MesLinkStep, UNCHANGED orders
  PROVE  UNCHANGED <<orders, produced>> \/ \E w \in Orders : Book!Make(w)
<1>1. CASE ProductCompleted \/ CutProductCompleted
  <2>1. InProgress /\ Produce
    BY <1>1 DEF ProductCompleted, CutProductCompleted
  <2>2. work_order.order \in Orders
    BY <2>1 DEF ProtocolInv, StationHasOrder, InProgress
  <2>3. orders[work_order.order].status \notin {"NONE", "QUEUED"}
    BY <2>2 DEF ProtocolInv, PublishedIsCommitted
  <2>4. Book!Make(work_order.order)
    BY <2>1, <2>3 DEF Produce, Book!Make
  <2>5. QED BY <2>2, <2>4
<1>2. CASE MessageStep
  BY <1>2 DEF MessageStep, ClearOrder, CutClearOrder, IgnoreMessage, RefuseBusy, RefuseInvalid, AcceptOrder,
     CutAcceptOrder, station
<1>3. CASE SendReport \/ SendUnanswered \/ Resubscribe
  BY <1>3 DEF SendReport, SendUnanswered, Resubscribe, station
<1>4. QED BY <1>1, <1>2, <1>3 DEF MesLinkStep

\* However many consoles, threads and transactions work on it, and whatever crashes,
\* fails to commit or is delivered twice, the list of orders changes as OrderBook
\* says: a commit of WorkOrderService issues orders with the next numbers, or moves
\* one order one step on its way and lets at most one other go.
THEOREM ListKept == Spec => ImplementsOrderBook
<1>1. Init => Book!Init
  BY DEF Init, WorkOrdersInit, MesLinkInit, Book!Init, NoRow, Book!NoOrder
<1>2. ProtocolInv /\ CountInv /\ BookInv /\ ProtocolTypeOK' /\ BookInv' /\ CountIsProduced' /\ [Next]_vars
         => [Book!Next]_<<orders, produced>>
  <2> SUFFICES ASSUME ProtocolInv, CountInv, BookInv, ProtocolTypeOK', BookInv', CountIsProduced', [Next]_vars
               PROVE  Book!Next \/ UNCHANGED <<orders, produced>>
    OBVIOUS
  <2>1. CASE WorkOrdersStep /\ UNCHANGED station
    BY <2>1, OnlyCommits, CommitIsOneStep DEF station, Book!Next
  <2>2. CASE MesLinkStep /\ UNCHANGED mes
    BY <2>2, OnlyMakes DEF mes, Book!Next
  <2>3. CASE UNCHANGED vars
    BY <2>3 DEF vars, mes, station
  <2>4. QED BY <2>1, <2>2, <2>3 DEF Next
<1>3. Spec => []BookInv
  BY CountsHold, InitBook, NextBook, PTL DEF Spec
<1>4. QED BY <1>1, <1>2, <1>3, CountsHold, ProtocolTypes, NeverCountedTwice, PTL
        DEF Spec, ImplementsOrderBook, Book!Spec

\* However many consoles, and whatever the station reports meanwhile, an order that has
\* waited goes out in its turn: the commit that sends it leaves none before it waiting
\* (promoteNext, the version check).  The order it lets go was the first that waited when
\* it looked; a number below is taken already, and nothing goes back into the queue.
THEOREM SentInTurn == Spec => NextInLine
<1>1. ProtocolInv /\ BookInv /\ [Next]_vars
        => [\A w \in Orders :
              orders[w].status = "QUEUED" /\ orders'[w].status = "RELEASED" =>
                \A v \in Orders : v < w => orders'[v].status # "QUEUED"]_vars
  <2> SUFFICES ASSUME ProtocolInv, BookInv, Next, NEW w \in Orders, NEW v \in Orders, v < w,
                      orders[w].status = "QUEUED", orders'[w].status = "RELEASED"
               PROVE  orders'[v].status # "QUEUED"
    OBVIOUS
  <2>1. ~(UNCHANGED orders)
    OBVIOUS
  <2>2. WorkOrdersStep
    BY <2>1 DEF Next, mes
  <2>3. PICK t \in Threads : Commit(t)
    BY <2>1, <2>2, OnlyCommits
  <2> DEFINE x == tx[t]
  <2>4. /\ orders' = Over(x, orders) /\ InTurn(x, orders)
        /\ \A u \in Orders \ WrittenBy(x) : orders'[u] = orders[u]
        /\ \A u \in WrittenBy(x) : orders'[u] = x.rows[u] /\ orders[u] = x.base[u]
    BY <2>3, OpenBook, CommitWrites
  <2>5. x.rows[w].status = "RELEASED" /\ x.base[w] # NoRow
    BY <2>4 DEF NoRow
  <2>6. QED BY <2>4, <2>5 DEF InTurn
<1>2. Spec => []BookInv
  BY CountsHold, InitBook, NextBook, PTL DEF Spec
<1>3. QED BY <1>1, <1>2, ProtocolInvariant, PTL DEF Spec, NextInLine

\* OrderBook lets nothing be overwritten: what is over stays as it was, and no count
\* goes back (FinishedStaysFinished, which NothingOverwritten proves of the code's own
\* steps, WorkOrder's @Version).
THEOREM BookOverwritesNothing ==
  ASSUME orders \in [Orders -> Rows], [Book!Next]_<<orders, produced>>, NEW w \in Orders
  PROVE  /\ orders[w] # NoRow => orders'[w].done >= orders[w].done /\ orders'[w] # NoRow
         /\ orders[w].status \in Book!Over => orders'[w] = orders[w]
<1> DEFINE old == orders[w]
           new == orders'[w]
<1>1. \/ new = old \/ Book!Issued(old, new) \/ Book!Dispatched(old, new) \/ Book!Told(w, old, new)
  BY DEF Book!Next, Book!Issue, Book!Make, Book!Tell, Book!Stays
<1>2. old \in Rows /\ old.done \in Nat
  BY DEF Rows
<1> HIDE DEF old, new
<1> USE DEF Rows, NoRow, Book!Over, Book!Active
<1>3. CASE new = old
  BY <1>2, <1>3 DEF old, new
<1>4. CASE Book!Issued(old, new)
  BY <1>2, <1>4 DEF old, new, Book!Issued, Book!NoOrder
<1>5. CASE Book!Dispatched(old, new)
  BY <1>2, <1>5 DEF old, new, Book!Dispatched
<1>6. CASE Book!Told(w, old, new)
  BY <1>2, <1>6 DEF old, new, Book!Told, Book!Accepted, Book!Refused, Book!Cancelled, Book!Counted
<1>7. QED BY <1>1, <1>3, <1>4, <1>5, <1>6
=============================================================================
