------------------------------ MODULE MesProofs ------------------------------
(***************************************************************************)
(* What MesProtocol promises for any number of orders, clients and reports *)
(* and any quantities.                                                     *)
(*                                                                         *)
(* The inductive invariant looks into the open transactions: each row they *)
(* have written follows, by steps WorkOrder allows, the row they read; what*)
(* they are about to publish has been dispatched; the report they handle   *)
(* is the one the broker has first.  A commit then moves every order       *)
(* forward only, because the version check makes the row read and the row  *)
(* replaced the same.                                                      *)
(***************************************************************************)
EXTENDS MesProtocol, TLAPS, FiniteSetTheorems

\* What WorkOrder's methods can make of a row, in any number of steps.
Follows(old, new) ==
  /\ old # NoRow => new # NoRow /\ new.done >= old.done
  /\ old.status \in {"COMPLETED", "CANCELLED", "REJECTED"} => new = old
  /\ old.status \notin {"NONE", "QUEUED"} => new.status \notin {"NONE", "QUEUED"}

WellFormed(x) ==
  /\ x \in Transactions
  /\ x.at \in {"active?", "queued?", "insert"} => x.lines # 0
  /\ x.at \in {"sync", "publish"} => x.syncs # 0
  /\ \A w \in Orders : x.rows[w] # NoRow => Follows(x.base[w], x.rows[w])

Committed(w) == orders[w].status \notin {"NONE", "QUEUED"}

\* A transaction that thread t may have open.
Admissible(t, x) ==
  /\ WellFormed(x)
  /\ x.event # 0 => t = Mqtt /\ toMes # <<>> /\ x.event = Head(toMes).event
  /\ x.read # Empty => Committed(x.read)

TransactionsAdmissible == \A t \in Threads : Admissible(t, tx[t])

EventsIssued == Pending \subseteq 1..issued

StationHasOrder == work_order.status # "NONE" => work_order.order \in Orders

ProtocolInv ==
  /\ ProtocolTypeOK /\ TransactionsAdmissible /\ EventsIssued /\ StationHasOrder
  /\ PublishedIsCommitted /\ NoReportVanishes
-----------------------------------------------------------------------------
(* Rows                                                                    *)

\* Rows that follow each other in two steps follow each other in one.
LEMMA FollowsTransitive ==
  ASSUME NEW a \in Rows, NEW b \in Rows, NEW c \in Rows, Follows(a, b), Follows(b, c)
  PROVE  Follows(a, c)
BY DEF Follows, Rows, NoRow

\* Each method of WorkOrder gives a row that follows the one it is called on.
LEMMA MethodsFollow ==
  ASSUME NEW row \in Rows, NEW w \in Orders, NEW new,
         \/ new = Accept(row) \/ new = Reject(row) \/ new = Cancel(row)
         \/ new = CountResult(w, row) \/ new = row
         \/ row.status = "QUEUED" /\ new = [row EXCEPT !.status = "RELEASED"]
  PROVE  /\ new \in Rows
         /\ new = row \/ new # NoRow
         /\ Follows(row, new)
<1> USE DEF Rows, NoRow, Statuses, Follows
<1>1. CASE new = Accept(row) BY <1>1 DEF Accept
<1>2. CASE new = Reject(row) BY <1>2 DEF Reject
<1>3. CASE new = Cancel(row) BY <1>3 DEF Cancel, IsOpen, IsActive
<1>4. CASE new = CountResult(w, row) BY <1>4 DEF CountResult, IsActive
<1>5. CASE new = row BY <1>5
<1>6. CASE row.status = "QUEUED" /\ new = [row EXCEPT !.status = "RELEASED"] BY <1>6
<1>7. QED BY <1>1, <1>2, <1>3, <1>4, <1>5, <1>6

-----------------------------------------------------------------------------
(* Reports in transit                                                      *)

\* The events of a queue are that of its first report and those of the rest.
LEMMA TailEvents ==
  ASSUME NEW s \in Seq(Reports), s # <<>>
  PROVE  Tail(s) \in Seq(Reports) /\ Events(s) = {Head(s).event} \union Events(Tail(s))
<1>1. /\ Head(s) = s[1] /\ Tail(s) \in Seq(Reports) /\ 1 \in DOMAIN s
      /\ \A i \in DOMAIN Tail(s) : i + 1 \in DOMAIN s /\ Tail(s)[i] = s[i + 1]
      /\ \A i \in DOMAIN s : i = 1 \/ (i - 1 \in DOMAIN Tail(s) /\ Tail(s)[i - 1] = s[i])
  OBVIOUS
<1>2. Events(s) \subseteq {Head(s).event} \union Events(Tail(s))
  <2>1. ASSUME NEW i \in DOMAIN s, i # 1 PROVE s[i].event \in Events(Tail(s))
    BY <1>1, <2>1 DEF Events
  <2>2. QED BY <1>1, <2>1 DEF Events
<1>3. {Head(s).event} \union Events(Tail(s)) \subseteq Events(s)
  BY <1>1 DEF Events
<1>4. QED BY <1>1, <1>2, <1>3

\* A report put at the end of a queue adds its event and leaves the first report first.
LEMMA AppendEvents ==
  ASSUME NEW s \in Seq(Reports), NEW m \in Reports
  PROVE  /\ Append(s, m) \in Seq(Reports) /\ Append(s, m) # <<>>
         /\ s # <<>> => Head(Append(s, m)) = Head(s)
         /\ Events(Append(s, m)) = Events(s) \union {m.event}
<1>1. /\ Append(s, m) \in Seq(Reports) /\ Len(Append(s, m)) = Len(s) + 1
      /\ \A i \in 1..Len(s) : Append(s, m)[i] = s[i]
      /\ Append(s, m)[Len(s) + 1] = m
  OBVIOUS
<1>2. DOMAIN s = 1..Len(s) /\ DOMAIN Append(s, m) = 1..(Len(s) + 1) /\ Len(s) \in Nat
  BY <1>1
<1>3. Events(Append(s, m)) = Events(s) \union {m.event}
  BY <1>1, <1>2 DEF Events
<1>4. QED BY <1>1, <1>3

\* Two queues joined hold the events of both.
LEMMA ConcatEvents ==
  ASSUME NEW s \in Seq(Reports), NEW q \in Seq(Reports)
  PROVE  s \o q \in Seq(Reports) /\ Events(s \o q) = Events(s) \union Events(q)
<1>1. /\ s \o q \in Seq(Reports) /\ Len(s \o q) = Len(s) + Len(q)
      /\ \A i \in 1..Len(s) : (s \o q)[i] = s[i]
      /\ \A i \in 1..Len(q) : (s \o q)[Len(s) + i] = q[i]
  OBVIOUS
<1>2. /\ DOMAIN s = 1..Len(s) /\ DOMAIN q = 1..Len(q) /\ DOMAIN (s \o q) = 1..(Len(s) + Len(q))
      /\ Len(s) \in Nat /\ Len(q) \in Nat
  BY <1>1
<1>3. \A i \in DOMAIN (s \o q) : i \in 1..Len(s) \/ \E k \in 1..Len(q) : i = Len(s) + k
  <2>1. \A i \in DOMAIN (s \o q) : i \in 1..Len(s) \/ (i - Len(s) \in 1..Len(q) /\ i = Len(s) + (i - Len(s)))
    BY <1>2
  <2>2. QED BY <2>1
<1>4. \A k \in 1..Len(q) : Len(s) + k \in DOMAIN (s \o q)
  BY <1>2
<1>5. Events(s \o q) \subseteq Events(s) \union Events(q)
  BY <1>1, <1>2, <1>3 DEF Events
<1>6. Events(s) \subseteq Events(s \o q)
  <2>1. DOMAIN s \subseteq DOMAIN (s \o q)
    BY <1>2
  <2>2. QED BY <1>1, <1>2, <2>1 DEF Events
<1>7. Events(q) \subseteq Events(s \o q)
  <2>1. ASSUME NEW k \in 1..Len(q) PROVE q[k].event \in Events(s \o q)
    <3>1. Len(s) + k \in DOMAIN (s \o q) /\ (s \o q)[Len(s) + k] = q[k]
      BY <1>1, <1>4
    <3>2. QED BY <3>1 DEF Events
  <2>2. QED BY <1>2, <2>1 DEF Events
<1>8. QED BY <1>1, <1>5, <1>6, <1>7

-----------------------------------------------------------------------------
(* Transactions                                                            *)

\* Setting a field of a transaction leaves the other fields as they are.
LEMMA Set_at ==
  ASSUME NEW x \in Transactions, NEW v \in Places, NEW y, y = [x EXCEPT !.at = v]
  PROVE  /\ y \in Transactions
         /\ y.at = v /\ y.lines = x.lines /\ y.initial = x.initial /\ y.rows = x.rows
         /\ y.base = x.base /\ y.event = x.event /\ y.syncs = x.syncs /\ y.read = x.read
BY DEF Transactions

\* The same for the order lines left.
LEMMA Set_lines ==
  ASSUME NEW x \in Transactions, NEW v \in Nat, NEW y, y = [x EXCEPT !.lines = v]
  PROVE  /\ y \in Transactions
         /\ y.at = x.at /\ y.lines = v /\ y.initial = x.initial /\ y.rows = x.rows
         /\ y.base = x.base /\ y.event = x.event /\ y.syncs = x.syncs /\ y.read = x.read
BY DEF Transactions

\* The same for the status a release will insert.
LEMMA Set_initial ==
  ASSUME NEW x \in Transactions, NEW v \in {"QUEUED", "RELEASED"}, NEW y, y = [x EXCEPT !.initial = v]
  PROVE  /\ y \in Transactions
         /\ y.at = x.at /\ y.lines = x.lines /\ y.initial = v /\ y.rows = x.rows
         /\ y.base = x.base /\ y.event = x.event /\ y.syncs = x.syncs /\ y.read = x.read
BY DEF Transactions

\* The same for the report being handled.
LEMMA Set_event ==
  ASSUME NEW x \in Transactions, NEW v \in Nat, NEW y, y = [x EXCEPT !.event = v]
  PROVE  /\ y \in Transactions
         /\ y.at = x.at /\ y.lines = x.lines /\ y.initial = x.initial /\ y.rows = x.rows
         /\ y.base = x.base /\ y.event = v /\ y.syncs = x.syncs /\ y.read = x.read
BY DEF Transactions

\* The same for the synchronizations still owed.
LEMMA Set_syncs ==
  ASSUME NEW x \in Transactions, NEW v \in Nat, NEW y, y = [x EXCEPT !.syncs = v]
  PROVE  /\ y \in Transactions
         /\ y.at = x.at /\ y.lines = x.lines /\ y.initial = x.initial /\ y.rows = x.rows
         /\ y.base = x.base /\ y.event = x.event /\ y.syncs = v /\ y.read = x.read
BY DEF Transactions

\* The same for the active order last read.
LEMMA Set_read ==
  ASSUME NEW x \in Transactions, NEW v \in Orders \union {Empty}, NEW y, y = [x EXCEPT !.read = v]
  PROVE  /\ y \in Transactions
         /\ y.at = x.at /\ y.lines = x.lines /\ y.initial = x.initial /\ y.rows = x.rows
         /\ y.base = x.base /\ y.event = x.event /\ y.syncs = x.syncs /\ y.read = v
BY DEF Transactions

\* Writing one row leaves the other rows and the other fields as they are.
LEMMA Set_row ==
  ASSUME NEW x \in Transactions, NEW w \in Orders, NEW row \in Rows, NEW old \in Rows,
         NEW y, y = WithRow(x, w, row, old)
  PROVE  /\ y \in Transactions
         /\ y.at = x.at /\ y.lines = x.lines /\ y.initial = x.initial
         /\ y.event = x.event /\ y.syncs = x.syncs /\ y.read = x.read
         /\ y.rows[w] = row /\ y.base[w] = old
         /\ \A v \in Orders : v # w => y.rows[v] = x.rows[v] /\ y.base[v] = x.base[v]
<1> DEFINE r == [x.rows EXCEPT ![w] = row]
           b == [x.base EXCEPT ![w] = old]
<1>1. /\ r \in [Orders -> Rows] /\ b \in [Orders -> Rows]
      /\ r[w] = row /\ b[w] = old
      /\ \A v \in Orders : v # w => r[v] = x.rows[v] /\ b[v] = x.base[v]
  BY DEF Transactions
<1>2. y = [x EXCEPT !.rows = r, !.base = b]
  BY DEF WithRow, Transactions
<1> HIDE DEF r, b
<1>3. y.rows = r /\ y.base = b
  BY <1>1, <1>2 DEF Transactions
<1>4. QED BY <1>1, <1>2, <1>3 DEF Transactions

\* A transaction sees a row for every order.
LEMMA ViewType ==
  ASSUME ProtocolTypeOK, NEW x \in Transactions
  PROVE  View(x) \in [Orders -> Rows]
BY DEF ProtocolTypeOK, View, Transactions

\* A thread with no transaction open satisfies what is asked of open ones.
LEMMA NoTransactionWellFormed == WellFormed(NoTransaction)
<1>1. NoTransaction \in Transactions
  BY DEF NoTransaction, Transactions, Rows, NoRow, Statuses, Places
<1>2. QED BY <1>1 DEF NoTransaction, WellFormed

\* Writing a row that follows the one the transaction sees keeps it well formed.
LEMMA WrittenWellFormed ==
  ASSUME ProtocolTypeOK, NEW x, WellFormed(x), NEW w \in Orders, NEW row \in Rows,
         row = View(x)[w] \/ row # NoRow, Follows(View(x)[w], row)
  PROVE  /\ WellFormed(Written(x, w, row))
         /\ Written(x, w, row).at = x.at /\ Written(x, w, row).lines = x.lines
         /\ Written(x, w, row).event = x.event /\ Written(x, w, row).syncs = x.syncs
         /\ Written(x, w, row).read = x.read
<1> DEFINE y == Written(x, w, row)
<1>1. CASE row = View(x)[w]
  BY <1>1 DEF Written
<1>2. CASE row # View(x)[w]
  <2>1. x \in Transactions
    BY DEF WellFormed
  <2> DEFINE old == IF x.rows[w] = NoRow THEN orders[w] ELSE x.base[w]
  <2>3. old \in Rows
    BY <2>1 DEF Transactions, ProtocolTypeOK
  <2>4. /\ y \in Transactions
        /\ y.at = x.at /\ y.lines = x.lines /\ y.event = x.event /\ y.syncs = x.syncs /\ y.read = x.read
        /\ y.rows[w] = row /\ y.base[w] = old
        /\ \A v \in Orders : v # w => y.rows[v] = x.rows[v] /\ y.base[v] = x.base[v]
    <3>1. y = WithRow(x, w, row, old)
      BY <1>2 DEF Written
    <3> HIDE DEF y, old
    <3>2. QED BY <2>1, <2>3, <3>1, Set_row, SMTT(40)
  <2> HIDE DEF y
  <2>5. Follows(y.base[w], y.rows[w])
    <3>1. View(x)[w] = IF x.rows[w] # NoRow THEN x.rows[w] ELSE orders[w]
      BY DEF View
    <3>2. CASE x.rows[w] = NoRow
      BY <2>4, <3>1, <3>2
    <3>3. CASE x.rows[w] # NoRow
      <4>1. x.base[w] \in Rows /\ x.rows[w] \in Rows /\ Follows(x.base[w], x.rows[w])
        BY <2>1, <3>3 DEF Transactions, WellFormed
      <4>2. QED BY <2>4, <3>1, <3>3, <4>1, FollowsTransitive
    <3>4. QED BY <3>2, <3>3
  <2>6. \A v \in Orders : y.rows[v] # NoRow => Follows(y.base[v], y.rows[v])
    BY <2>4, <2>5 DEF WellFormed
  <2>7. WellFormed(y)
    BY <2>4, <2>6 DEF WellFormed
  <2>8. QED BY <2>4, <2>7 DEF y
<1>3. QED BY <1>1, <1>2

-----------------------------------------------------------------------------
(* Steps of the MES                                                        *)

\* Most steps only bring one transaction further.
LEMMA TransactionStepInv ==
  ASSUME ProtocolInv, NEW t \in Threads, NEW x, Admissible(t, x),
         tx' = [tx EXCEPT ![t] = x],
         connected' \in BOOLEAN, spent' \in 0..MaxOrders,
         UNCHANGED <<orders, seen, lost, invalid, retained, toStation, toMes, station>>
  PROVE  ProtocolInv'
<1>1. ProtocolTypeOK'
  <2>1. tx' \in [Threads -> Transactions]
    BY DEF ProtocolInv, ProtocolTypeOK, Admissible, WellFormed
  <2>2. ASSUME NEW c \in Clients PROVE tx'[c].event = 0
    <3>1. c # Mqtt /\ c \in Threads
      BY ThreadAssumption DEF Threads
    <3>2. CASE c = t
      BY <3>1, <3>2 DEF Admissible, ProtocolInv, ProtocolTypeOK
    <3>3. CASE c # t
      BY <3>1, <3>3 DEF ProtocolInv, ProtocolTypeOK
    <3>4. QED BY <3>2, <3>3
  <2>3. QED BY <2>1, <2>2 DEF ProtocolInv, ProtocolTypeOK, BrokerTypeOK, station
<1>2. TransactionsAdmissible'
  <2>1. ASSUME NEW u \in Threads PROVE Admissible(u, tx'[u])
    BY DEF ProtocolInv, ProtocolTypeOK, TransactionsAdmissible
  <2>2. QED BY <2>1 DEF TransactionsAdmissible, Admissible, Committed
<1>3. EventsIssued' /\ StationHasOrder'
  BY DEF ProtocolInv, EventsIssued, StationHasOrder, Pending, station
<1>4. PublishedIsCommitted' /\ NoReportVanishes'
  BY DEF ProtocolInv, PublishedIsCommitted, NoReportVanishes, Pending, station
<1>5. QED BY <1>1, <1>2, <1>3, <1>4 DEF ProtocolInv

\* What may be said of every open transaction.
LEMMA OpenTransaction ==
  ASSUME ProtocolInv, NEW t \in Threads
  PROVE  /\ Admissible(t, tx[t]) /\ tx[t] \in Transactions
         /\ orders \in [Orders -> Rows] /\ View(tx[t]) \in [Orders -> Rows]
         /\ spent \in 0..MaxOrders /\ connected \in BOOLEAN
<1>1. Admissible(t, tx[t]) /\ tx[t] \in Transactions
  BY DEF ProtocolInv, ProtocolTypeOK, TransactionsAdmissible
<1>2. QED BY <1>1, ViewType DEF ProtocolInv, ProtocolTypeOK, BrokerTypeOK

\* Changing where a transaction stands, or what it will insert, keeps it admissible.
LEMMA MovedAdmissible ==
  ASSUME ProtocolInv, NEW t \in Threads, NEW x, Admissible(t, x), NEW place \in Places,
         place \in {"active?", "queued?", "insert"} => x.lines # 0,
         place \in {"sync", "publish"} => x.syncs # 0
  PROVE  /\ Admissible(t, [x EXCEPT !.at = place])
         /\ \A b \in {"QUEUED", "RELEASED"} : Admissible(t, [x EXCEPT !.initial = b, !.at = place])
<1>1. x \in Transactions
  BY DEF Admissible, WellFormed
<1>2. ASSUME NEW y \in Transactions, y.at = place, y.lines = x.lines, y.syncs = x.syncs,
             y.rows = x.rows, y.base = x.base, y.event = x.event, y.read = x.read
      PROVE  Admissible(t, y)
  BY <1>2 DEF Admissible, WellFormed
<1>3. Admissible(t, [x EXCEPT !.at = place])
  BY <1>1, <1>2, Set_at
<1>4. ASSUME NEW b \in {"QUEUED", "RELEASED"}
      PROVE  Admissible(t, [x EXCEPT !.initial = b, !.at = place])
  <2> DEFINE z == [x EXCEPT !.initial = b]
  <2>1. /\ z \in Transactions /\ z.lines = x.lines /\ z.syncs = x.syncs
        /\ z.rows = x.rows /\ z.base = x.base /\ z.event = x.event /\ z.read = x.read
    BY <1>1, Set_initial
  <2> HIDE DEF z
  <2>2. Admissible(t, [z EXCEPT !.at = place])
    BY <2>1, <1>2, Set_at
  <2>3. QED BY <2>2 DEF z
<1>5. QED BY <1>3, <1>4

\* A transaction that has yet to do anything.
LEMMA NewAdmissible ==
  ASSUME NEW t \in Threads
  PROVE  /\ Admissible(t, NoTransaction)
         /\ NoTransaction \in Transactions
         /\ NoTransaction.event = 0 /\ NoTransaction.read = Empty
BY NoTransactionWellFormed DEF Admissible, WellFormed, NoTransaction

\* A client that sends a release preserves the invariant: release().
LEMMA ReleaseInv ==
  ASSUME ProtocolInv, NEW c \in Clients, NEW n \in 1..MaxOrders, Release(c, n), UNCHANGED station
  PROVE  ProtocolInv'
<1> DEFINE x == [NoTransaction EXCEPT !.at = "active?", !.lines = n]
<1>1. c \in Threads
  BY DEF Threads
<1>2. Admissible(c, x)
  <2>1. /\ x \in Transactions /\ x.lines = n /\ x.at = "active?" /\ x.event = 0 /\ x.read = Empty
        /\ x.rows = NoTransaction.rows /\ x.base = NoTransaction.base
    <3> DEFINE z == [NoTransaction EXCEPT !.at = "active?"]
    <3>1. /\ z \in Transactions /\ z.at = "active?" /\ z.event = 0 /\ z.read = Empty
          /\ z.rows = NoTransaction.rows /\ z.base = NoTransaction.base
      BY <1>1, NewAdmissible, Set_at DEF Places
    <3>2. x = [z EXCEPT !.lines = n] /\ n \in Nat
      BY BrokerAssumption
    <3> HIDE DEF x, z
    <3>3. QED BY <3>1, <3>2, Set_lines
  <2>2. QED BY <2>1, NoTransactionWellFormed, BrokerAssumption DEF Admissible, WellFormed
<1>3. tx' = [tx EXCEPT ![c] = x] /\ spent' \in 0..MaxOrders
  BY <1>1, OpenTransaction, BrokerAssumption DEF Release
<1>4. QED BY <1>1, <1>2, <1>3, OpenTransaction, TransactionStepInv DEF Release

\* A release that looks for active or for queued orders preserves the invariant.
LEMMA LookInv ==
  ASSUME ProtocolInv, NEW c \in Clients, LookForActive(c) \/ LookForQueued(c), UNCHANGED station
  PROVE  ProtocolInv'
<1>1. /\ c \in Threads /\ tx[c] \in Transactions /\ Admissible(c, tx[c]) /\ tx[c].lines # 0
  BY OpenTransaction DEF Threads, LookForActive, LookForQueued, Admissible, WellFormed
<1>2. PICK x : Admissible(c, x) /\ tx' = [tx EXCEPT ![c] = x]
  <2>1. CASE Goto(c, "queued?")
    <3>1. Admissible(c, [tx[c] EXCEPT !.at = "queued?"])
      BY <1>1, MovedAdmissible DEF Places
    <3>2. QED BY <2>1, <3>1, <1>1 DEF Goto
  <2>2. CASE \E b \in {"QUEUED", "RELEASED"} : WillInsert(c, b)
    <3>1. PICK b \in {"QUEUED", "RELEASED"} : WillInsert(c, b)
      BY <2>2
    <3>2. Admissible(c, [tx[c] EXCEPT !.initial = b, !.at = "insert"])
      BY <1>1, MovedAdmissible DEF Places
    <3>3. tx' = [tx EXCEPT ![c] = [tx[c] EXCEPT !.initial = b, !.at = "insert"]]
      BY <1>1, <3>1 DEF WillInsert, ProtocolInv, ProtocolTypeOK
    <3>4. QED BY <3>2, <3>3
  <2>3. QED BY <2>1, <2>2 DEF LookForActive, LookForQueued
<1>3. UNCHANGED <<orders, seen, lost, broker>>
  BY DEF LookForActive, LookForQueued
<1>4. QED BY <1>1, <1>2, <1>3, OpenTransaction, TransactionStepInv DEF broker

\* A release that inserts an order line preserves the invariant.
LEMMA InsertInv ==
  ASSUME ProtocolInv, NEW c \in Clients, Insert(c), UNCHANGED station
  PROVE  ProtocolInv'
<1> DEFINE x == tx[c]
           n == NextNumber(x)
           row == [status |-> x.initial, done |-> 0]
           z == WithRow(x, n, row, NoRow)
           z1 == [z EXCEPT !.at = "promote"]
           z2 == [z1 EXCEPT !.lines = x.lines - 1]
           y == [z2 EXCEPT !.syncs = x.syncs + 1]
<1>1. /\ c \in Threads /\ x \in Transactions /\ Admissible(c, x) /\ n \in Orders
      /\ x.lines \in Nat /\ x.lines # 0 /\ x.syncs \in Nat
  BY OpenTransaction DEF Threads, Insert, Admissible, WellFormed, Transactions
<1>2. tx' = [tx EXCEPT ![c] = y]
  BY DEF Insert
<1>3. /\ row \in Rows /\ NoRow \in Rows /\ Follows(NoRow, row)
  BY <1>1 DEF Rows, NoRow, Transactions, Statuses, Follows
<1> HIDE DEF n, row
<1>4. /\ z \in Transactions /\ z.lines = x.lines /\ z.event = x.event /\ z.read = x.read
      /\ \A w \in Orders : z.rows[w] # NoRow => Follows(z.base[w], z.rows[w])
  <2> HIDE DEF z
  <2>1. /\ z \in Transactions /\ z.lines = x.lines /\ z.event = x.event /\ z.read = x.read
        /\ z.rows[n] = row /\ z.base[n] = NoRow
        /\ \A v \in Orders : v # n => z.rows[v] = x.rows[v] /\ z.base[v] = x.base[v]
    BY <1>1, <1>3, Set_row DEF z
  <2>2. QED BY <2>1, <1>1, <1>3 DEF Admissible, WellFormed
<1> HIDE DEF z
<1>5. /\ z1 \in Transactions /\ z1.at = "promote" /\ z1.lines = x.lines /\ z1.syncs = z.syncs
      /\ z1.rows = z.rows /\ z1.base = z.base /\ z1.event = x.event /\ z1.read = x.read
  BY <1>4, Set_at DEF Places
<1> HIDE DEF z1
<1>6. /\ z2 \in Transactions /\ z2.at = "promote"
      /\ z2.rows = z.rows /\ z2.base = z.base /\ z2.event = x.event /\ z2.read = x.read
  <2>1. x.lines - 1 \in Nat
    BY <1>1
  <2> HIDE DEF z2, x
  <2>2. QED BY <1>5, <2>1, Set_lines DEF z2
<1> HIDE DEF z2
<1>7. /\ y \in Transactions /\ y.at = "promote"
      /\ y.rows = z.rows /\ y.base = z.base /\ y.event = x.event /\ y.read = x.read
  <2>1. x.syncs + 1 \in Nat
    BY <1>1
  <2> HIDE DEF y, x
  <2>2. QED BY <1>6, <2>1, Set_syncs DEF y
<1> HIDE DEF y
<1>8. Admissible(c, y)
  BY <1>1, <1>4, <1>7 DEF Admissible, WellFormed
<1> HIDE DEF x
<1>9. QED BY <1>1, <1>2, <1>8, OpenTransaction, TransactionStepInv DEF Insert, broker

\* Where a transaction goes on after a promotion is a place it may go to.
LEMMA AfterPromotionOK ==
  ASSUME NEW x \in Transactions
  PROVE  AfterPromotion(x) \in {"active?", "commit"} /\ (AfterPromotion(x) = "active?" => x.lines # 0)
BY DEF AfterPromotion, Transactions

\* Promoting the first queued order preserves the invariant: promoteNext().
LEMMA PromoteInv ==
  ASSUME ProtocolInv, NEW t \in Threads, Promote(t), UNCHANGED station
  PROVE  ProtocolInv'
<1>1. PICK place \in {"first", "active?", "commit"} :
        /\ Goto(t, place) /\ (place = "active?" => tx[t].lines # 0)
  BY OpenTransaction, AfterPromotionOK DEF Promote
<1>2. Admissible(t, [tx[t] EXCEPT !.at = place])
  BY <1>1, OpenTransaction, MovedAdmissible DEF Places
<1>3. tx' = [tx EXCEPT ![t] = [tx[t] EXCEPT !.at = place]]
  BY <1>1 DEF Goto
<1>4. QED BY <1>2, <1>3, OpenTransaction, TransactionStepInv DEF Promote, broker

\* Dispatching the order a synchronization finds preserves the invariant.
LEMMA DispatchInv ==
  ASSUME ProtocolInv, NEW t \in Threads, Dispatch(t), UNCHANGED station
  PROVE  ProtocolInv'
<1> DEFINE x == tx[t]
<1>1. /\ x \in Transactions /\ Admissible(t, x) /\ View(x) \in [Orders -> Rows] /\ ProtocolTypeOK
      /\ AfterPromotion(x) \in Places /\ AfterPromotion(x) \in {"active?", "commit"}
      /\ AfterPromotion(x) = "active?" => x.lines # 0
  BY OpenTransaction, AfterPromotionOK DEF Places, ProtocolInv
<1>2. PICK y : Admissible(t, y) /\ tx' = [tx EXCEPT ![t] = y]
  <2>1. CASE Goto(t, AfterPromotion(x))
    <3>1. Admissible(t, [x EXCEPT !.at = AfterPromotion(x)])
      BY <1>1, MovedAdmissible
    <3>2. QED BY <2>1, <3>1 DEF Goto
  <2>2. ASSUME NEW w \in Queued(x),
               tx' = [tx EXCEPT ![t] = [Dispatched(x, w) EXCEPT !.at = AfterPromotion(x)]]
        PROVE  \E y : Admissible(t, y) /\ tx' = [tx EXCEPT ![t] = y]
    <3> DEFINE row == View(x)[w]
               new == [row EXCEPT !.status = "RELEASED"]
               z == Written(x, w, new)
    <3>1. w \in Orders /\ row \in Rows /\ row.status = "QUEUED"
      BY <1>1 DEF Queued
    <3>2. new \in Rows /\ (new = row \/ new # NoRow) /\ Follows(row, new)
      <4> HIDE DEF row
      <4>1. QED BY <3>1, MethodsFollow
    <3> HIDE DEF new
    <3>3. WellFormed(x)
      BY <1>1 DEF Admissible
    <3>4. WellFormed(z) /\ z.lines = x.lines /\ z.event = x.event /\ z.read = x.read
      BY <1>1, <3>1, <3>2, <3>3, WrittenWellFormed
    <3>5. Dispatched(x, w) = z
      BY DEF Dispatched, new
    <3> HIDE DEF z
    <3>6. Admissible(t, z)
      BY <1>1, <3>4 DEF Admissible
    <3>7. Admissible(t, [z EXCEPT !.at = AfterPromotion(x)])
      BY <1>1, <3>4, <3>6, MovedAdmissible
    <3>8. QED BY <2>2, <3>5, <3>7
  <2>3. QED BY <2>1, <2>2 DEF Dispatch
<1>3. QED BY <1>2, OpenTransaction, TransactionStepInv DEF Dispatch, broker

\* A transaction that has read row w, called one of its methods and written it.
LEMMA MethodAdmissible ==
  ASSUME ProtocolInv, NEW t \in Threads, NEW x, Admissible(t, x), NEW w \in Orders,
         NEW row, NEW place \in {"promote", "commit"}, NEW n \in Nat,
         \/ row = Accept(View(x)[w]) \/ row = Reject(View(x)[w]) \/ row = Cancel(View(x)[w])
         \/ row = CountResult(w, View(x)[w]) \/ row = View(x)[w]
  PROVE  Admissible(t, [Written(x, w, row) EXCEPT !.at = place, !.syncs = n])
<1> DEFINE z == Written(x, w, row)
           z1 == [z EXCEPT !.at = place]
           y == [z1 EXCEPT !.syncs = n]
<1>1. /\ x \in Transactions /\ WellFormed(x) /\ ProtocolTypeOK
      /\ View(x)[w] \in Rows
  BY ViewType DEF Admissible, WellFormed, ProtocolInv
<1>2. row \in Rows /\ (row = View(x)[w] \/ row # NoRow) /\ Follows(View(x)[w], row)
  <2> DEFINE old == View(x)[w]
  <2>1. old \in Rows
    BY <1>1
  <2> HIDE DEF old
  <2>2. row \in Rows /\ (row = old \/ row # NoRow) /\ Follows(old, row)
    BY <2>1, MethodsFollow DEF old
  <2>3. QED BY <2>2 DEF old
<1>3. WellFormed(z) /\ z.event = x.event /\ z.read = x.read
  BY <1>1, <1>2, WrittenWellFormed
<1> HIDE DEF z
<1>4. /\ z1 \in Transactions /\ z1.at = place /\ z1.rows = z.rows /\ z1.base = z.base
      /\ z1.event = x.event /\ z1.read = x.read
  BY <1>3, Set_at DEF WellFormed, Places
<1> HIDE DEF z1
<1>5. /\ y \in Transactions /\ y.at = place /\ y.rows = z.rows /\ y.base = z.base
      /\ y.event = x.event /\ y.read = x.read
  BY <1>4, Set_syncs
<1> HIDE DEF y
<1>6. Admissible(t, y)
  BY <1>3, <1>5 DEF Admissible, WellFormed
<1>7. QED BY <1>6 DEF y, z1, z

\* Nothing is written yet: the transaction sees the table.
LEMMA ViewOfTable ==
  ASSUME NEW x, x.rows = NoTransaction.rows, NEW w \in Orders
  PROVE  View(x)[w] = orders[w]
BY DEF View, NoTransaction

\* A cancellation preserves the invariant: cancel().
LEMMA CancelOrderInv ==
  ASSUME ProtocolInv, NEW c \in Clients, NEW w \in Orders, CancelOrder(c, w), UNCHANGED station
  PROVE  ProtocolInv'
<1> DEFINE place == IF IsActive(orders[w]) THEN "promote" ELSE "commit"
           y == [Written(NoTransaction, w, Cancel(orders[w])) EXCEPT !.at = place, !.syncs = 1]
<1>1. c \in Threads /\ place \in {"promote", "commit"} /\ 1 \in Nat
  BY DEF Threads
<1>2. View(NoTransaction)[w] = orders[w] /\ Admissible(c, NoTransaction)
  BY <1>1, ViewOfTable, NewAdmissible
<1>3. Admissible(c, y)
  <2> HIDE DEF place
  <2>1. QED BY <1>1, <1>2, MethodAdmissible
<1>4. tx' = [tx EXCEPT ![c] = y]
  BY DEF CancelOrder
<1> HIDE DEF y
<1>5. QED BY <1>1, <1>3, <1>4, OpenTransaction, TransactionStepInv DEF CancelOrder, broker

\* The first report of a nonempty queue is a report, and its event is pending.
LEMMA FirstReport ==
  ASSUME ProtocolInv, toMes # <<>>
  PROVE  Report \in Reports /\ Report.event \in 1..issued /\ Report.event # 0
<1>1. /\ toMes \in Seq(Reports) /\ issued \in Nat /\ Events(toMes) \subseteq 1..issued
  BY DEF ProtocolInv, ProtocolTypeOK, BrokerTypeOK, EventsIssued, Pending
<1>2. Report = toMes[1] /\ 1 \in DOMAIN toMes /\ Report \in Reports
  BY <1>1 DEF Report
<1>3. QED BY <1>1, <1>2 DEF Events

\* The transaction that handles the report the broker has first.
LEMMA ReportAdmissible ==
  ASSUME ProtocolInv, toMes # <<>>, NEW x, x = [NoTransaction EXCEPT !.event = Report.event]
  PROVE  /\ Admissible(Mqtt, x) /\ x.rows = NoTransaction.rows
         /\ Report \in Reports /\ Report.event # 0 /\ Mqtt \in Threads
<1>1. Mqtt \in Threads
  BY DEF Threads
<1>2. Report \in Reports /\ Report.event \in Nat /\ Report.event # 0
  BY FirstReport DEF Reports
<1>3. /\ x \in Transactions /\ x.at = NoTransaction.at /\ x.event = Report.event /\ x.read = Empty
      /\ x.rows = NoTransaction.rows /\ x.base = NoTransaction.base
  BY <1>1, <1>2, NewAdmissible, Set_event
<1>4. NoTransaction.at = "idle"
  BY DEF NoTransaction
<1>5. QED BY <1>1, <1>2, <1>3, <1>4, NoTransactionWellFormed DEF Admissible, WellFormed, Report

\* The MQTT thread that starts to handle the first report preserves the invariant.
LEMMA HandleInv ==
  ASSUME ProtocolInv, toMes # <<>>, NEW row, NEW place \in {"promote", "commit"}, NEW n \in Nat,
         \/ row = Accept(orders[Report.order]) \/ row = Reject(orders[Report.order])
         \/ row = Cancel(orders[Report.order]) \/ row = CountResult(Report.order, orders[Report.order])
         \/ row = orders[Report.order],
         Handle(row, place, n), UNCHANGED station
  PROVE  ProtocolInv'
<1> DEFINE x == [NoTransaction EXCEPT !.event = Report.event]
           w == Report.order
           y == [Written(x, w, row) EXCEPT !.at = place, !.syncs = n]
<1> HIDE DEF x
<1>1. /\ Admissible(Mqtt, x) /\ x.rows = NoTransaction.rows /\ w \in Orders /\ Mqtt \in Threads
  BY ReportAdmissible DEF Reports, x
<1> HIDE DEF w
<1>2. View(x)[w] = orders[w]
  BY <1>1, ViewOfTable
<1>3. Admissible(Mqtt, y)
  BY <1>1, <1>2, MethodAdmissible DEF w
<1>4. tx' = [tx EXCEPT ![Mqtt] = y]
  BY DEF Handle, x, w
<1> HIDE DEF y
<1>5. QED BY <1>1, <1>3, <1>4, OpenTransaction, TransactionStepInv DEF Handle, broker

\* Applying the report to its order preserves the invariant.
LEMMA ReportInv ==
  ASSUME ProtocolInv, UNCHANGED station,
         SkipDuplicate \/ OnAccepted \/ OnRejected \/ OnCancelled \/ OnCompleted \/ OnResult
  PROVE  ProtocolInv'
<1>1. CASE SkipDuplicate
  <2> DEFINE x == [NoTransaction EXCEPT !.event = Report.event]
             y == [NoTransaction EXCEPT !.at = "return", !.event = Report.event]
  <2>1. Admissible(Mqtt, x) /\ Mqtt \in Threads
    BY <1>1, ReportAdmissible DEF SkipDuplicate, Delivers
  <2>2. Admissible(Mqtt, [x EXCEPT !.at = "return"])
    <3> HIDE DEF x
    <3>1. QED BY <2>1, MovedAdmissible DEF Places
  <2>3. y = [x EXCEPT !.at = "return"]
    BY DEF NoTransaction
  <2>4. tx' = [tx EXCEPT ![Mqtt] = y]
    BY <1>1 DEF SkipDuplicate
  <2> HIDE DEF x, y
  <2>5. QED BY <1>1, <2>1, <2>2, <2>3, <2>4, OpenTransaction, TransactionStepInv DEF SkipDuplicate, broker
<1>2. CASE OnAccepted
  BY <1>2, HandleInv DEF OnAccepted, Delivers
<1>3. CASE OnRejected
  BY <1>3, HandleInv DEF OnRejected, Delivers
<1>4. CASE OnCancelled
  BY <1>4, HandleInv DEF OnCancelled, Delivers
<1>5. CASE OnCompleted
  BY <1>5, HandleInv DEF OnCompleted, Delivers
<1>6. CASE OnResult
  BY <1>6, HandleInv DEF OnResult, Delivers
<1>7. QED BY <1>1, <1>2, <1>3, <1>4, <1>5, <1>6

\* A thread that is done keeps only the report it has to acknowledge.
LEMMA DoneAdmissible ==
  ASSUME ProtocolInv, NEW t \in Threads
  PROVE  Admissible(t, Done(t))
<1>1. CASE t = Mqtt
  <2> DEFINE e == tx[t].event
             x == [NoTransaction EXCEPT !.at = "return"]
             y == [x EXCEPT !.event = e]
  <2>1. /\ e \in Nat /\ (e # 0 => t = Mqtt /\ toMes # <<>> /\ e = Head(toMes).event)
    BY OpenTransaction DEF Admissible, Transactions
  <2>2. Admissible(t, x) /\ x.at = "return"
    <3>1. Admissible(t, NoTransaction) /\ NoTransaction \in Transactions
      BY NewAdmissible, SMTT(40)
    <3>2. Admissible(t, x)
      BY <3>1, MovedAdmissible DEF Places
    <3>3. x.at = "return"
      BY <3>1, Set_at DEF Places
    <3>4. QED BY <3>2, <3>3
  <2> HIDE DEF e, x
  <2>3. /\ y \in Transactions /\ y.at = x.at /\ y.event = e /\ y.read = x.read
        /\ y.rows = x.rows /\ y.base = x.base
    BY <2>1, <2>2, Set_event DEF Admissible, WellFormed
  <2> HIDE DEF y
  <2>4. Admissible(t, y)
    BY <2>1, <2>2, <2>3 DEF Admissible, WellFormed
  <2>5. Done(t) = y
    BY <1>1 DEF Done, y, x, e
  <2>6. QED BY <2>4, <2>5
<1>2. CASE t # Mqtt
  BY <1>2, NewAdmissible DEF Done
<1>3. QED BY <1>1, <1>2

\* A commit moves every order forward: the row it writes follows the one it read,
\* which is the one it replaces.
LEMMA CommitFollows ==
  ASSUME ProtocolInv, NEW t \in Threads, Commit(t)
  PROVE  /\ orders' \in [Orders -> Rows]
         /\ \A w \in Orders : Follows(orders[w], orders'[w])
<1>1. /\ WellFormed(tx[t]) /\ UnchangedSinceRead(tx[t])
      /\ orders' = View(tx[t]) /\ View(tx[t]) \in [Orders -> Rows] /\ orders \in [Orders -> Rows]
  BY OpenTransaction DEF Commit, Admissible
<1>2. ASSUME NEW w \in Orders PROVE Follows(orders[w], orders'[w])
  <2>1. CASE tx[t].rows[w] = NoRow
    <3>1. orders'[w] = orders[w] /\ orders[w] \in Rows
      BY <1>1, <2>1 DEF View
    <3>2. QED BY <3>1 DEF Follows, Rows
  <2>2. CASE tx[t].rows[w] # NoRow
    BY <1>1, <2>2 DEF View, UnchangedSinceRead, WellFormed
  <2>3. QED BY <2>1, <2>2
<1>3. QED BY <1>1, <1>2

\* A commit preserves the invariant: the row it replaces is the row it read, so every
\* order moves forward only.
LEMMA CommitInv ==
  ASSUME ProtocolInv, NEW t \in Threads, Commit(t), UNCHANGED station
  PROVE  ProtocolInv'
<1> DEFINE z == [NoTransaction EXCEPT !.at = "sync"]
           z1 == [z EXCEPT !.event = tx[t].event]
           z2 == [z1 EXCEPT !.syncs = tx[t].syncs]
           y == IF tx[t].syncs = 0 THEN Done(t) ELSE z2
<1>1. /\ tx[t] \in Transactions /\ Admissible(t, tx[t])
      /\ tx[t].event \in Nat /\ tx[t].syncs \in Nat
  BY OpenTransaction DEF Transactions
<1>2. Admissible(t, y)
  <2>1. CASE tx[t].syncs = 0
    BY <2>1, DoneAdmissible
  <2>2. CASE tx[t].syncs # 0
    <3>1. /\ z \in Transactions /\ z.rows = NoTransaction.rows /\ z.at = "sync" /\ z.read = Empty
          /\ z.base = NoTransaction.base
      BY NewAdmissible, Set_at DEF Places
    <3> HIDE DEF z
    <3>2. /\ z1 \in Transactions /\ z1.rows = NoTransaction.rows /\ z1.at = "sync" /\ z1.read = Empty
          /\ z1.base = NoTransaction.base /\ z1.event = tx[t].event
      BY <1>1, <3>1, Set_event
    <3> HIDE DEF z1
    <3>3. /\ z2 \in Transactions /\ z2.rows = NoTransaction.rows /\ z2.at = "sync" /\ z2.read = Empty
          /\ z2.base = NoTransaction.base /\ z2.event = tx[t].event /\ z2.syncs = tx[t].syncs
      BY <1>1, <3>2, Set_syncs
    <3> HIDE DEF z2
    <3>4. Admissible(t, z2)
      BY <1>1, <2>2, <3>3, NoTransactionWellFormed DEF Admissible, WellFormed
    <3>5. QED BY <2>2, <3>4
  <2>3. QED BY <2>1, <2>2
<1>3. tx' = [tx EXCEPT ![t] = y]
  BY DEF Commit
<1> HIDE DEF y
<1>4. /\ orders' \in [Orders -> Rows]
      /\ \A w \in Orders : Committed(w) => Committed(w)'
  BY CommitFollows DEF Follows, Committed
<1>5. tx' \in [Threads -> Transactions] /\ \A u \in Threads : Admissible(u, tx'[u])
  BY <1>2, <1>3, OpenTransaction DEF ProtocolInv, ProtocolTypeOK, Admissible, WellFormed
<1>6. UNCHANGED <<lost, broker>> /\ toMes' = toMes
  BY DEF Commit, broker
<1>7. ProtocolTypeOK'
  <2>1. \A c \in Clients : tx'[c].event = 0
    BY <1>5, ThreadAssumption DEF Threads, Admissible
  <2>2. seen' \subseteq 1..issued
    <3>1. tx[t].event # 0 => tx[t].event \in 1..issued
      BY <1>1, FirstReport DEF Admissible, Report
    <3>2. QED BY <3>1 DEF Commit, ProtocolInv, ProtocolTypeOK
  <2>3. QED BY <1>4, <1>5, <1>6, <2>1, <2>2 DEF ProtocolInv, ProtocolTypeOK, BrokerTypeOK, broker, station
<1>8. TransactionsAdmissible'
  <2>1. ASSUME NEW u \in Threads PROVE Admissible(u, tx[u])'
    <3>1. tx'[u].read # Empty => Committed(tx'[u].read)
      BY <1>5 DEF Admissible
    <3>2. tx'[u].read \in Orders \union {Empty}
      BY <1>5 DEF Transactions
    <3>3. tx'[u].read # Empty => Committed(tx[u].read)'
      BY <3>1, <3>2, <1>4 DEF Committed
    <3>4. QED BY <3>3, <1>5, <1>6 DEF Admissible
  <2>2. QED BY <2>1 DEF TransactionsAdmissible
<1>9. EventsIssued' /\ StationHasOrder'
  BY <1>6 DEF ProtocolInv, EventsIssued, StationHasOrder, Pending, station
<1>10. PublishedIsCommitted'
  BY <1>4, <1>6 DEF ProtocolInv, PublishedIsCommitted, Committed, station, broker
<1>11. NoReportVanishes'
  BY <1>6 DEF ProtocolInv, NoReportVanishes, Pending, Commit, station, broker
<1>12. QED BY <1>7, <1>8, <1>9, <1>10, <1>11 DEF ProtocolInv

\* A transaction that fails leaves the table, and preserves the invariant.
LEMMA RollBackInv ==
  ASSUME ProtocolInv, NEW t \in Threads, RollBack(t), UNCHANGED station
  PROVE  ProtocolInv'
<1>1. tx' = [tx EXCEPT ![t] = Done(t)] /\ UNCHANGED <<orders, seen, lost, broker>>
  BY DEF RollBack
<1>2. QED BY <1>1, DoneAdmissible, OpenTransaction, TransactionStepInv DEF broker

\* Reading the active order before publishing it preserves the invariant.
LEMMA ReadActiveInv ==
  ASSUME ProtocolInv, NEW t \in Threads, ReadActive(t), UNCHANGED station
  PROVE  ProtocolInv'
<1>1. PICK w \in Orders \union {Empty} :
        /\ w # Empty => IsActive(orders[w])
        /\ tx' = [tx EXCEPT ![t].read = w, ![t].at = "publish"]
  BY DEF ReadActive
<1> DEFINE z == [tx[t] EXCEPT !.read = w]
           y == [z EXCEPT !.at = "publish"]
<1>2. /\ tx[t] \in Transactions /\ Admissible(t, tx[t]) /\ tx[t].at = "sync" /\ tx[t].syncs # 0
  BY OpenTransaction DEF ReadActive, Admissible, WellFormed
<1>3. tx' = [tx EXCEPT ![t] = y]
  BY <1>1, <1>2 DEF ProtocolInv, ProtocolTypeOK
<1>4. /\ z \in Transactions /\ z.at = "sync" /\ z.lines = tx[t].lines /\ z.event = tx[t].event
      /\ z.syncs = tx[t].syncs /\ z.rows = tx[t].rows /\ z.base = tx[t].base /\ z.read = w
  BY <1>2, Set_read
<1> HIDE DEF z
<1>5. Admissible(t, z)
  <2>1. w # Empty => Committed(w)
    BY <1>1, SMTT(40) DEF IsActive, Committed
  <2>2. QED BY <1>2, <1>4, <2>1 DEF Admissible, WellFormed
<1>6. Admissible(t, y)
  BY <1>2, <1>4, <1>5, MovedAdmissible DEF Places
<1> HIDE DEF y
<1>7. UNCHANGED <<orders, seen, lost, broker>>
  BY DEF ReadActive
<1>8. QED BY <1>3, <1>6, <1>7, OpenTransaction, TransactionStepInv DEF broker

\* Publishing what was read preserves the invariant: it has been committed before.
LEMMA PublishInv ==
  ASSUME ProtocolInv, NEW t \in Threads, Publish(t), UNCHANGED station
  PROVE  ProtocolInv'
<1> DEFINE m == tx[t].read
           z == [tx[t] EXCEPT !.at = "sync"]
           z1 == [z EXCEPT !.syncs = tx[t].syncs - 1]
           z2 == [z1 EXCEPT !.read = Empty]
           y == IF tx[t].syncs = 1 THEN Done(t) ELSE z2
<1>1. /\ tx[t] \in Transactions /\ Admissible(t, tx[t])
      /\ tx[t].syncs \in Nat /\ tx[t].syncs # 0
  BY OpenTransaction DEF Publish, Admissible, WellFormed, Transactions
<1>2. Admissible(t, y)
  <2>1. CASE tx[t].syncs = 1
    BY <2>1, DoneAdmissible
  <2>2. CASE tx[t].syncs # 1
    <3>1. Admissible(t, z) /\ z \in Transactions /\ z.at = "sync" /\ z.syncs = tx[t].syncs
      <4>1. Admissible(t, z)
        BY <1>1, MovedAdmissible DEF Places
      <4>2. z \in Transactions /\ z.at = "sync" /\ z.syncs = tx[t].syncs
        BY <1>1, Set_at DEF Places
      <4>3. QED BY <4>1, <4>2, SMTT(40)
    <3> HIDE DEF z
    <3>2. /\ z1 \in Transactions /\ z1.rows = z.rows /\ z1.base = z.base /\ z1.event = z.event
          /\ z1.at = "sync" /\ z1.syncs # 0
      <4>1. tx[t].syncs - 1 \in Nat /\ tx[t].syncs - 1 # 0
        BY <1>1, <2>2
      <4> HIDE DEF z1
      <4>2. QED BY <3>1, <4>1, Set_syncs DEF z1
    <3> HIDE DEF z1
    <3>3. /\ z2 \in Transactions /\ z2.rows = z.rows /\ z2.base = z.base /\ z2.event = z.event
          /\ z2.at = "sync" /\ z2.syncs # 0 /\ z2.read = Empty
      BY <3>2, Set_read
    <3> HIDE DEF z2
    <3>4. Admissible(t, z2)
      BY <3>1, <3>3 DEF Admissible, WellFormed
    <3>5. QED BY <2>2, <3>4
  <2>3. QED BY <2>1, <2>2
<1>3. tx' = [tx EXCEPT ![t] = y]
  BY DEF Publish
<1> HIDE DEF y
<1>4. UNCHANGED <<orders, seen, lost, invalid, toMes, connected, spent>>
  BY DEF Publish
<1>5. /\ m \in Orders \union {Empty} /\ (m # Empty => Committed(m))
      /\ \/ retained' = m /\ toStation' = Append(toStation, m)
         \/ UNCHANGED <<retained, toStation>>
  BY <1>1 DEF Publish, Distribute, Admissible, Transactions
<1> HIDE DEF m
<1>6. toStation \in Seq(Orders \union {Empty}) /\ retained \in Orders \union {Empty}
  BY DEF ProtocolInv, ProtocolTypeOK, BrokerTypeOK
<1>7. /\ retained' \in Orders \union {Empty} /\ toStation' \in Seq(Orders \union {Empty})
      /\ \A i \in DOMAIN toStation' :
           toStation'[i] = m \/ \E j \in DOMAIN toStation : toStation'[i] = toStation[j]
  BY <1>5, <1>6
<1>8. tx' \in [Threads -> Transactions] /\ \A u \in Threads : Admissible(u, tx'[u])
  BY <1>2, <1>3, OpenTransaction DEF ProtocolInv, ProtocolTypeOK, Admissible, WellFormed
<1>9. ProtocolTypeOK'
  <2>1. \A c \in Clients : tx'[c].event = 0
    BY <1>8, ThreadAssumption DEF Threads, Admissible
  <2>2. QED BY <1>4, <1>7, <1>8, <2>1 DEF ProtocolInv, ProtocolTypeOK, BrokerTypeOK, station
<1>10. TransactionsAdmissible'
  BY <1>4, <1>8 DEF TransactionsAdmissible, Admissible, Committed
<1>11. EventsIssued' /\ StationHasOrder' /\ NoReportVanishes'
  BY <1>4 DEF ProtocolInv, EventsIssued, StationHasOrder, NoReportVanishes, Pending, station
<1>12. PublishedIsCommitted'
  <2>1. ASSUME NEW w \in Orders,
               \/ w = retained' \/ w = work_order'.order
               \/ \E i \in DOMAIN toStation' : toStation'[i] = w
        PROVE  Committed(w)
    <3>1. w # Empty
      BY BrokerAssumption DEF Empty, Orders
    <3>2. w = m \/ w = retained \/ w = work_order.order \/ \E j \in DOMAIN toStation : w = toStation[j]
      BY <1>5, <1>7, <2>1 DEF station
    <3>3. QED BY <1>5, <3>1, <3>2 DEF ProtocolInv, PublishedIsCommitted, Committed
  <2>2. QED BY <2>1, <1>4 DEF PublishedIsCommitted, Committed
<1>13. QED BY <1>9, <1>10, <1>11, <1>12 DEF ProtocolInv

\* The report that is acknowledged is recorded, or it is among the lost.
LEMMA ReturnInv ==
  ASSUME ProtocolInv, Return, UNCHANGED station
  PROVE  ProtocolInv'
<1> DEFINE e == tx[Mqtt].event
           acknowledged == connected /\ e # 0
<1>1. /\ tx' = [tx EXCEPT ![Mqtt] = NoTransaction]
      /\ toMes' = IF acknowledged THEN Tail(toMes) ELSE toMes
      /\ lost' = IF acknowledged /\ e \notin seen THEN lost \union {Head(toMes)} ELSE lost
      /\ UNCHANGED <<orders, seen, invalid, retained, toStation, connected, spent>>
  BY DEF Return
<1>2. /\ toMes \in Seq(Reports) /\ lost \subseteq Reports /\ Mqtt \in Threads
      /\ e # 0 => toMes # <<>> /\ e = Head(toMes).event
  BY OpenTransaction DEF ProtocolInv, ProtocolTypeOK, BrokerTypeOK, Admissible, Threads
<1>3. /\ toMes' \in Seq(Reports) /\ lost' \subseteq Reports
      /\ Events(toMes') \subseteq Events(toMes)
      /\ Events(toMes) \subseteq Events(toMes') \union seen \union {m.event : m \in lost'}
      /\ lost \subseteq lost'
  <2>1. CASE ~acknowledged
    BY <1>1, <1>2, <2>1
  <2>2. CASE acknowledged
    <3>1. /\ Tail(toMes) \in Seq(Reports) /\ Head(toMes) \in Reports /\ toMes' = Tail(toMes)
          /\ Events(toMes) = {e} \union Events(Tail(toMes))
      BY <1>1, <1>2, <2>2, TailEvents
    <3>2. lost' \subseteq Reports /\ lost \subseteq lost' /\ (e \in seen \/ Head(toMes) \in lost')
      BY <1>1, <1>2, <2>2, <3>1
    <3>3. e \in seen \union {m.event : m \in lost'}
      BY <1>2, <2>2, <3>2
    <3>4. QED BY <3>1, <3>2, <3>3
  <2>3. QED BY <2>1, <2>2
<1>4. /\ tx' \in [Threads -> Transactions]
      /\ tx'[Mqtt] = NoTransaction /\ \A t \in Threads : t # Mqtt => tx'[t] = tx[t]
  BY <1>1, <1>2, NewAdmissible DEF ProtocolInv, ProtocolTypeOK
<1>5. ProtocolTypeOK'
  <2>1. \A c \in Clients : tx'[c].event = 0
    BY <1>4, ThreadAssumption DEF ProtocolInv, ProtocolTypeOK, Threads
  <2>2. QED BY <1>1, <1>3, <1>4, <2>1 DEF ProtocolInv, ProtocolTypeOK, BrokerTypeOK, station
<1>6. TransactionsAdmissible'
  <2>1. ASSUME NEW t \in Threads PROVE Admissible(t, tx[t])'
    <3>1. CASE t = Mqtt
      <4>1. WellFormed(tx'[t]) /\ tx'[t].event = 0 /\ tx'[t].read = Empty
        BY <1>4, <3>1, NewAdmissible, NoTransactionWellFormed
      <4>2. QED BY <4>1 DEF Admissible
    <3>2. CASE t # Mqtt
      <4>1. Admissible(t, tx[t]) /\ tx[t].event = 0 /\ tx'[t] = tx[t]
        BY <1>4, <3>2, OpenTransaction DEF Admissible
      <4>2. QED BY <1>1, <4>1 DEF Admissible, Committed
    <3>3. QED BY <3>1, <3>2
  <2>2. QED BY <2>1 DEF TransactionsAdmissible
<1>7. EventsIssued' /\ StationHasOrder' /\ PublishedIsCommitted'
  BY <1>1, <1>3 DEF ProtocolInv, EventsIssued, Pending, StationHasOrder, PublishedIsCommitted, station
<1>8. NoReportVanishes'
  <2>1. \A m \in lost : m.event \in {r.event : r \in lost'}
    BY <1>3
  <2>2. QED BY <1>1, <1>3, <2>1 DEF ProtocolInv, NoReportVanishes, Pending, station
<1>9. QED BY <1>5, <1>6, <1>7, <1>8 DEF ProtocolInv

\* Faults are counted up to their bound.
LEMMA FaultBound ==
  ASSUME ProtocolInv, Fault
  PROVE  spent' \in 0..MaxOrders
BY BrokerAssumption DEF Fault, ProtocolInv, ProtocolTypeOK, BrokerTypeOK

\* A disconnection opens no transaction; a crash closes them all; a connection opens one.
LEMMA ConnectionInv ==
  ASSUME ProtocolInv, Disconnect \/ MesCrash \/ Reconnect, UNCHANGED station
  PROVE  ProtocolInv'
<1>1. CASE Disconnect
  <2>1. /\ UNCHANGED <<mes, invalid, retained, toStation, toMes>>
        /\ connected' = FALSE /\ spent' \in 0..MaxOrders
    BY <1>1, FaultBound DEF Disconnect
  <2>2. QED BY <2>1 DEF ProtocolInv, ProtocolTypeOK, BrokerTypeOK, TransactionsAdmissible, Admissible,
              Committed, EventsIssued, Pending, StationHasOrder, PublishedIsCommitted, NoReportVanishes, mes, station
<1>2. CASE MesCrash
  <2>1. /\ UNCHANGED <<orders, seen, lost, invalid, retained, toStation, toMes>>
        /\ connected' = FALSE /\ spent' \in 0..MaxOrders
        /\ tx' = [t \in Threads |-> NoTransaction]
    BY <1>2, FaultBound DEF MesCrash
  <2>2. \A t \in Threads : tx'[t] = NoTransaction
    BY <2>1
  <2>3. /\ NoTransaction \in Transactions /\ WellFormed(NoTransaction)
        /\ NoTransaction.event = 0 /\ NoTransaction.read = Empty
    BY NoTransactionWellFormed DEF WellFormed, NoTransaction
  <2>4. ProtocolTypeOK'
    BY <2>1, <2>2, <2>3 DEF ProtocolInv, ProtocolTypeOK, BrokerTypeOK, Threads, station
  <2>5. TransactionsAdmissible'
    BY <2>2, <2>3 DEF TransactionsAdmissible, Admissible
  <2>6. EventsIssued' /\ StationHasOrder' /\ PublishedIsCommitted' /\ NoReportVanishes'
    BY <2>1 DEF ProtocolInv, EventsIssued, Pending, StationHasOrder, PublishedIsCommitted,
                NoReportVanishes, station
  <2>7. QED BY <2>4, <2>5, <2>6 DEF ProtocolInv
<1>3. CASE Reconnect
  <2> DEFINE z == [NoTransaction EXCEPT !.at = "sync"]
             y == [z EXCEPT !.syncs = 1]
  <2>1. Mqtt \in Threads
    BY DEF Threads
  <2>2. /\ z \in Transactions /\ z.rows = NoTransaction.rows /\ z.base = NoTransaction.base
        /\ z.event = 0 /\ z.read = Empty /\ z.at = "sync"
    BY <2>1, NewAdmissible, Set_at DEF Places
  <2> HIDE DEF z
  <2>3. /\ y \in Transactions /\ y.rows = NoTransaction.rows /\ y.base = NoTransaction.base
        /\ y.event = 0 /\ y.read = Empty /\ y.at = "sync" /\ y.syncs = 1
    <3>1. 1 \in Nat
      OBVIOUS
    <3>2. QED BY <2>2, <3>1, Set_syncs
  <2> HIDE DEF y
  <2>4. Admissible(Mqtt, y)
    BY <2>3, NoTransactionWellFormed DEF Admissible, WellFormed
  <2>5. tx' = [tx EXCEPT ![Mqtt] = y]
    BY <1>3 DEF Reconnect, y, z
  <2>6. connected' \in BOOLEAN
    BY <1>3 DEF Reconnect
  <2>7. QED BY <1>3, <2>1, <2>4, <2>5, <2>6, OpenTransaction, TransactionStepInv DEF Reconnect
<1>4. QED BY <1>1, <1>2, <1>3

\* Every step of the MES preserves the invariant.
LEMMA WorkOrdersInv ==
  ASSUME ProtocolInv, WorkOrdersStep, UNCHANGED station
  PROVE  ProtocolInv'
<1>1. CASE RestStep
  BY <1>1, ReleaseInv, CancelOrderInv, LookInv, InsertInv DEF RestStep
<1>2. CASE ReportStep
  BY <1>2, ReportInv, ReturnInv DEF ReportStep
<1>3. CASE TransactionStep
  BY <1>3, PromoteInv, DispatchInv, CommitInv, RollBackInv, ReadActiveInv, PublishInv DEF TransactionStep
<1>4. CASE ConnectionStep
  BY <1>4, ConnectionInv DEF ConnectionStep
<1>5. QED BY <1>1, <1>2, <1>3, <1>4 DEF WorkOrdersStep

-----------------------------------------------------------------------------
(* Steps of the station                                                    *)

\* New reports carry new event ids.
LEMMA EnqueueAdds ==
  ASSUME ProtocolInv, NEW kinds \in Seq(Kinds), NEW w \in Orders, Enqueue(kinds, w)
  PROVE  /\ outbox' \in Seq(Reports) /\ issued' \in Nat /\ issued <= issued'
         /\ Events(outbox') = Events(outbox) \union ((issued + 1)..issued')
<1> DEFINE new == [i \in 1..Len(kinds) |-> [event |-> issued + i, kind |-> kinds[i], order |-> w]]
<1>1. issued \in Nat /\ outbox \in Seq(Reports) /\ Len(kinds) \in Nat
  BY DEF ProtocolInv, ProtocolTypeOK
<1>2. outbox' = outbox \o new /\ issued' = issued + Len(kinds)
  BY DEF Enqueue
<1>3. new \in Seq(Reports) /\ DOMAIN new = 1..Len(kinds) /\ \A i \in 1..Len(kinds) : new[i].event = issued + i
  <2>1. \A i \in 1..Len(kinds) : new[i] \in Reports /\ new[i].event = issued + i
    BY <1>1 DEF Reports
  <2>2. new \in [1..Len(kinds) -> Reports]
    BY <2>1
  <2> HIDE DEF new
  <2>3. QED BY <1>1, <2>1, <2>2
<1> HIDE DEF new
<1>4. Events(new) = (issued + 1)..issued'
  <2>1. Events(new) \subseteq (issued + 1)..issued'
    BY <1>1, <1>2, <1>3 DEF Events
  <2>2. ASSUME NEW e \in (issued + 1)..issued' PROVE e \in Events(new)
    <3>1. e - issued \in 1..Len(kinds) /\ issued + (e - issued) = e
      BY <1>1, <1>2
    <3>2. new[e - issued].event = e
      BY <1>3, <3>1
    <3>3. QED BY <1>3, <3>1, <3>2 DEF Events
  <2>3. QED BY <2>1, <2>2
<1>5. QED BY <1>1, <1>2, <1>3, <1>4, ConcatEvents

\* What a step of the station may do to keep the invariant.
LEMMA StationStepInv ==
  ASSUME ProtocolInv, UNCHANGED <<mes, invalid, retained, connected>>,
         spent' \in 0..MaxOrders,
         toStation' \in Seq(Orders \union {Empty}),
         \A i \in DOMAIN toStation' :
           toStation'[i] = retained \/ \E j \in DOMAIN toStation : toStation'[i] = toStation[j],
         toMes' \in Seq(Reports),
         toMes # <<>> => toMes' # <<>> /\ Head(toMes') = Head(toMes),
         outbox' \in Seq(Reports), issued' \in Nat, issued <= issued',
         Pending' = Pending \union ((issued + 1)..issued'),
         produced' \in [Orders -> Nat],
         work_order' \in [order : Orders \union {Empty}, done : Nat,
                          status : {"NONE", "IN_PROGRESS", "COMPLETED", "CANCELLED"}],
         StationHasOrder',
         work_order'.order = work_order.order \/ \E j \in DOMAIN toStation : work_order'.order = toStation[j]
  PROVE  ProtocolInv'
<1>1. issued \in Nat /\ seen \subseteq 1..issued /\ Pending \subseteq 1..issued
  BY DEF ProtocolInv, ProtocolTypeOK, EventsIssued
<1>2. ProtocolTypeOK'
  <2>1. 1..issued \subseteq 1..issued'
    BY <1>1
  <2>2. UNCHANGED <<orders, seen, tx, lost>> /\ seen' \subseteq 1..issued'
    BY <1>1, <2>1 DEF mes
  <2>3. BrokerTypeOK'
    BY DEF ProtocolInv, ProtocolTypeOK, BrokerTypeOK
  <2>4. QED BY <2>2, <2>3 DEF ProtocolInv, ProtocolTypeOK
<1>3. TransactionsAdmissible'
  BY DEF ProtocolInv, TransactionsAdmissible, Admissible, Committed, mes
<1>4. EventsIssued'
  <2>1. 1..issued \subseteq 1..issued' /\ (issued + 1)..issued' \subseteq 1..issued'
    BY <1>1
  <2>2. QED BY <1>1, <2>1 DEF EventsIssued
<1>5. PublishedIsCommitted'
  BY DEF ProtocolInv, PublishedIsCommitted, mes
<1>6. NoReportVanishes'
  <2>1. 1..issued' = (1..issued) \union ((issued + 1)..issued')
    BY <1>1
  <2>2. QED BY <2>1 DEF ProtocolInv, NoReportVanishes, mes
<1>7. QED BY <1>2, <1>3, <1>4, <1>5, <1>6 DEF ProtocolInv

\* What is true of the station's side between two steps.
LEMMA StationState ==
  ASSUME ProtocolInv
  PROVE  /\ outbox \in Seq(Reports) /\ toMes \in Seq(Reports) /\ issued \in Nat
         /\ toStation \in Seq(Orders \union {Empty}) /\ retained \in Orders \union {Empty}
         /\ spent \in 0..MaxOrders /\ produced \in [Orders -> Nat]
         /\ work_order \in [order : Orders \union {Empty}, done : Nat,
                            status : {"NONE", "IN_PROGRESS", "COMPLETED", "CANCELLED"}]
         /\ InProgress => work_order.order \in Orders
         /\ Pending = Pending \union ((issued + 1)..issued)
BY DEF ProtocolInv, ProtocolTypeOK, BrokerTypeOK, StationHasOrder, InProgress

\* A message taken from the queue, or a retained one put behind it, is nothing new.
LEMMA QueueToStation ==
  ASSUME ProtocolInv, (Arrives /\ Taken) \/ Restarted \/ UNCHANGED toStation
  PROVE  /\ toStation' \in Seq(Orders \union {Empty})
         /\ \A i \in DOMAIN toStation' :
              toStation'[i] = retained \/ \E j \in DOMAIN toStation : toStation'[i] = toStation[j]
<1> DEFINE M == Orders \union {Empty}
<1>1. toStation \in Seq(M) /\ retained \in M
  BY StationState
<1> HIDE DEF M
<1>2. CASE Arrives /\ Taken
  <2>1. /\ toStation' \in Seq(M)
        /\ \A i \in DOMAIN toStation' : i + 1 \in DOMAIN toStation /\ toStation'[i] = toStation[i + 1]
    BY <1>1, <1>2 DEF Arrives, Taken
  <2>2. QED BY <2>1 DEF M
<1>3. CASE Restarted
  <2>1. CASE retained = Empty
    BY <1>1, <1>3, <2>1 DEF Restarted, Resubscribed, M
  <2>2. CASE retained # Empty
    <3>1. toStation' = Append(toStation, retained)
      BY <1>3, <2>2 DEF Restarted, Resubscribed
    <3>2. /\ toStation' \in Seq(M)
          /\ \A i \in DOMAIN toStation' :
               toStation'[i] = retained \/ (i \in DOMAIN toStation /\ toStation'[i] = toStation[i])
      BY <1>1, <3>1
    <3>3. QED BY <3>2 DEF M
  <2>3. QED BY <2>1, <2>2
<1>4. CASE UNCHANGED toStation
  BY <1>1, <1>4 DEF M
<1>5. QED BY <1>2, <1>3, <1>4

\* What a step of the station may do to its own order.
OrderStep ==
  /\ work_order' \in [order : Orders \union {Empty}, done : Nat,
                      status : {"NONE", "IN_PROGRESS", "COMPLETED", "CANCELLED"}]
  /\ StationHasOrder'
  /\ work_order'.order = work_order.order \/ \E j \in DOMAIN toStation : work_order'.order = toStation[j]
  /\ produced' \in [Orders -> Nat]

\* A station step that only puts a report in the outbox preserves the invariant.
LEMMA EnqueueStepInv ==
  ASSUME ProtocolInv, NEW kinds \in Seq(Kinds), NEW w \in Orders, Enqueue(kinds, w), OrderStep,
         (Arrives /\ Taken) \/ Restarted \/ UNCHANGED toStation,
         spent' \in 0..MaxOrders, UNCHANGED <<mes, invalid, retained, connected, toMes>>
  PROVE  ProtocolInv'
<1>1. /\ outbox' \in Seq(Reports) /\ issued' \in Nat /\ issued <= issued'
      /\ Pending' = Pending \union ((issued + 1)..issued')
  BY EnqueueAdds DEF Pending
<1>2. QED BY <1>1, StationState, QueueToStation, StationStepInv DEF OrderStep

\* A station step that reports nothing preserves the invariant.
LEMMA SilentStepInv ==
  ASSUME ProtocolInv, OrderStep, (Arrives /\ Taken) \/ Restarted \/ UNCHANGED toStation,
         spent' \in 0..MaxOrders,
         UNCHANGED <<mes, invalid, retained, connected, toMes, outbox, issued>>
  PROVE  ProtocolInv'
<1>1. Pending' = Pending \union ((issued + 1)..issued')
  BY StationState DEF Pending
<1>2. issued \in Nat /\ issued <= issued'
  BY StationState
<1>3. QED BY <1>1, <1>2, StationState, QueueToStation, StationStepInv DEF OrderStep

\* The first message, and what accepting or ending an order makes of the order.
LEMMA FirstMessage ==
  ASSUME ProtocolInv, Arrives
  PROVE  /\ Message \in Orders \union {Empty}
         /\ \E j \in DOMAIN toStation : Message = toStation[j]
<1> DEFINE M == Orders \union {Empty}
<1>1. toStation \in Seq(M) /\ toStation # <<>>
  BY StationState DEF Arrives
<1> HIDE DEF M
<1>2. Message \in M /\ 1 \in DOMAIN toStation /\ Message = toStation[1]
  BY <1>1 DEF Message
<1>3. QED BY <1>2 DEF M

\* A station that changes nothing of its order still holds one of the MES's orders.
LEMMA OrderKept ==
  ASSUME ProtocolInv, UNCHANGED <<work_order, produced>>
  PROVE  OrderStep
BY StationState DEF OrderStep, ProtocolInv, StationHasOrder

\* A station that drops its order preserves what is said of the order it holds.
LEMMA OrderEnds ==
  ASSUME ProtocolInv, InProgress, work_order' = [work_order EXCEPT !.status = "CANCELLED"],
         UNCHANGED produced
  PROVE  OrderStep
<1>1. /\ work_order'.order = work_order.order /\ work_order.order \in Orders
      /\ work_order' \in [order : Orders \union {Empty}, done : Nat,
                          status : {"NONE", "IN_PROGRESS", "COMPLETED", "CANCELLED"}]
  BY StationState
<1>2. QED BY <1>1, StationState DEF OrderStep, StationHasOrder

\* A station that takes an order from a message holds one of the MES's orders.
LEMMA OrderBegins ==
  ASSUME ProtocolInv, Acceptable,
         work_order' = [order |-> Message, done |-> 0, status |-> "IN_PROGRESS"], UNCHANGED produced
  PROVE  OrderStep
<1>1. Message \in Orders /\ \E j \in DOMAIN toStation : Message = toStation[j]
  BY FirstMessage DEF Acceptable
<1>2. work_order'.order = Message
  OBVIOUS
<1>3. work_order' \in [order : Orders \union {Empty}, done : Nat,
                       status : {"NONE", "IN_PROGRESS", "COMPLETED", "CANCELLED"}]
  BY <1>1
<1>4. QED BY <1>1, <1>2, <1>3, StationState DEF OrderStep, StationHasOrder

\* The station's handling of a message from the MES preserves the invariant.
LEMMA MessageInv ==
  ASSUME ProtocolInv, MessageStep, UNCHANGED mes
  PROVE  ProtocolInv'
<1>1. CASE ClearOrder
  <2>1. <<"CANCELLED">> \in Seq(Kinds) /\ work_order.order \in Orders /\ OrderStep /\ spent' \in 0..MaxOrders
    BY <1>1, StationState, OrderEnds DEF ClearOrder, Kinds
  <2>2. QED BY <1>1, <2>1, EnqueueStepInv DEF ClearOrder
<1>2. CASE CutClearOrder
  <2>1. OrderStep /\ spent' \in 0..MaxOrders
    BY <1>2, OrderEnds, FaultBound DEF CutClearOrder
  <2>2. QED BY <1>2, <2>1, SilentStepInv DEF CutClearOrder
<1>3. CASE IgnoreMessage
  <2>1. OrderStep /\ spent' \in 0..MaxOrders
    BY <1>3, OrderKept, StationState DEF IgnoreMessage, station
  <2>2. QED BY <1>3, <2>1, SilentStepInv DEF IgnoreMessage, station
<1>4. CASE RefuseBusy
  <2>1. <<"BUSY">> \in Seq(Kinds) /\ Message \in Orders /\ OrderStep /\ spent' \in 0..MaxOrders
    BY <1>4, OrderKept, FirstMessage, StationState DEF RefuseBusy, Kinds
  <2>2. QED BY <1>4, <2>1, EnqueueStepInv DEF RefuseBusy
<1>5. CASE RefuseInvalid
  <2>1. <<"REJECTED">> \in Seq(Kinds) /\ Message \in Orders /\ OrderStep /\ spent' \in 0..MaxOrders
    BY <1>5, OrderKept, FirstMessage, StationState DEF RefuseInvalid, Kinds
  <2>2. QED BY <1>5, <2>1, EnqueueStepInv DEF RefuseInvalid
<1>6. CASE AcceptOrder
  <2>1. <<"ACCEPTED">> \in Seq(Kinds) /\ Message \in Orders /\ OrderStep /\ spent' \in 0..MaxOrders
    BY <1>6, OrderBegins, FirstMessage, StationState DEF AcceptOrder, Acceptable, Kinds
  <2>2. QED BY <1>6, <2>1, EnqueueStepInv DEF AcceptOrder, Acceptable
<1>7. CASE CutAcceptOrder
  <2>1. OrderStep /\ spent' \in 0..MaxOrders
    BY <1>7, OrderBegins, FaultBound DEF CutAcceptOrder
  <2>2. QED BY <1>7, <2>1, SilentStepInv DEF CutAcceptOrder
<1>8. QED BY <1>1, <1>2, <1>3, <1>4, <1>5, <1>6, <1>7 DEF MessageStep

\* Counting a product towards the order preserves the invariant.
LEMMA ProductInv ==
  ASSUME ProtocolInv, ProductCompleted \/ CutProductCompleted, UNCHANGED mes
  PROVE  ProtocolInv'
<1>1. /\ InProgress /\ work_order.order \in Orders
      /\ produced' \in [Orders -> Nat]
  BY StationState DEF ProductCompleted, CutProductCompleted, Produce
<1>2. ProductReports \in Seq(Kinds)
  <2>1. "RESULT" \in Kinds /\ "COMPLETED" \in Kinds
    BY DEF Kinds
  <2>2. <<"RESULT", "COMPLETED">> \in Seq(Kinds) /\ <<"RESULT">> \in Seq(Kinds)
    BY <2>1
  <2>3. QED BY <2>2 DEF ProductReports
<1>3. CASE ProductCompleted
  <2> DEFINE s == IF Fulfilled THEN "COMPLETED" ELSE work_order.status
             z == [work_order EXCEPT !.done = work_order.done + 1]
  <2>1. /\ z \in [order : Orders \union {Empty}, done : Nat,
                  status : {"NONE", "IN_PROGRESS", "COMPLETED", "CANCELLED"}]
        /\ z.order = work_order.order
    <3>1. work_order.done + 1 \in Nat
      BY StationState
    <3> DEFINE d == work_order.done + 1
    <3> HIDE DEF d
    <3>2. d \in Nat /\ z = [work_order EXCEPT !.done = d]
      BY <3>1 DEF d
    <3> HIDE DEF z
    <3>3. QED BY <3>2, StationState
  <2>2. s \in {"IN_PROGRESS", "COMPLETED"}
    BY <1>1 DEF InProgress
  <2>3. work_order' = [z EXCEPT !.status = s]
    BY <1>3 DEF ProductCompleted
  <2> HIDE DEF z, s
  <2>4. /\ work_order'.order = work_order.order
        /\ work_order' \in [order : Orders \union {Empty}, done : Nat,
                            status : {"NONE", "IN_PROGRESS", "COMPLETED", "CANCELLED"}]
    BY <2>1, <2>2, <2>3
  <2>5. OrderStep
    BY <1>1, <2>4 DEF OrderStep, StationHasOrder
  <2>6. UNCHANGED <<invalid, retained, connected, toMes, toStation>> /\ spent' \in 0..MaxOrders
    BY <1>3, StationState DEF ProductCompleted, broker
  <2>7. Enqueue(ProductReports, work_order.order)
    BY <1>3 DEF ProductCompleted
  <2>8. QED BY <1>1, <1>2, <2>5, <2>6, <2>7, EnqueueStepInv
<1>4. CASE CutProductCompleted
  <2>1. PICK n \in 1..Len(ProductReports) : Enqueue(SubSeq(ProductReports, 1, n), work_order.order)
    BY <1>4 DEF CutProductCompleted
  <2>2. SubSeq(ProductReports, 1, n) \in Seq(Kinds)
    BY <1>2, <2>1
  <2>3. OrderStep
    BY <1>1, <1>4, StationState DEF CutProductCompleted, OrderStep, ProtocolInv, StationHasOrder
  <2>4. spent' \in 0..MaxOrders
    BY <1>4, FaultBound DEF CutProductCompleted
  <2>5. UNCHANGED <<invalid, retained, connected, toMes>> /\ Restarted
    BY <1>4 DEF CutProductCompleted
  <2>6. QED BY <1>1, <2>1, <2>2, <2>3, <2>4, <2>5, EnqueueStepInv
<1>5. QED BY <1>3, <1>4

\* Sending the first report of the outbox preserves the invariant.
LEMMA SendInv ==
  ASSUME ProtocolInv, SendReport \/ SendUnanswered, UNCHANGED mes
  PROVE  ProtocolInv'
<1>1. /\ outbox # <<>> /\ toMes' = Append(toMes, Head(outbox))
      /\ outbox' = Tail(outbox) \/ outbox' = outbox
      /\ UNCHANGED <<work_order, issued, produced, invalid, retained, toStation, connected>>
  BY DEF SendReport, SendUnanswered, station
<1>2. /\ outbox \in Seq(Reports) /\ toMes \in Seq(Reports) /\ issued \in Nat /\ spent \in 0..MaxOrders
  BY StationState
<1>3. /\ Head(outbox) \in Reports /\ Tail(outbox) \in Seq(Reports)
      /\ Events(outbox) = {Head(outbox).event} \union Events(Tail(outbox))
  BY <1>1, <1>2, TailEvents
<1>4. /\ toMes' \in Seq(Reports) /\ toMes' # <<>> /\ (toMes # <<>> => Head(toMes') = Head(toMes))
      /\ Events(toMes') = Events(toMes) \union {Head(outbox).event}
  <2> DEFINE m == Head(outbox)
  <2>1. m \in Reports
    BY <1>3
  <2> HIDE DEF m
  <2>2. QED BY <1>1, <1>2, <2>1, AppendEvents DEF m
<1>5. outbox' \in Seq(Reports) /\ Pending' = Pending \union ((issued + 1)..issued')
  <2>1. (issued + 1)..issued' = {}
    BY <1>1, <1>2
  <2>2. CASE outbox' = Tail(outbox)
    BY <1>3, <1>4, <2>1, <2>2 DEF Pending
  <2>3. CASE outbox' = outbox
    BY <1>2, <1>3, <1>4, <2>1, <2>3 DEF Pending
  <2>4. QED BY <1>1, <2>2, <2>3
<1>6. spent' \in 0..MaxOrders
  BY <1>2, FaultBound DEF SendReport, SendUnanswered
<1>7. issued' \in Nat /\ issued <= issued'
  BY <1>1, <1>2
<1>8. OrderStep
  BY <1>1, OrderKept
<1>9. UNCHANGED <<mes, invalid, retained, connected>> /\ UNCHANGED toStation
  BY <1>1
<1>10. /\ toStation' \in Seq(Orders \union {Empty})
       /\ \A i \in DOMAIN toStation' :
            toStation'[i] = retained \/ \E j \in DOMAIN toStation : toStation'[i] = toStation[j]
  BY <1>9, QueueToStation
<1>11. QED BY <1>4, <1>5, <1>6, <1>7, <1>8, <1>9, <1>10, StationStepInv DEF OrderStep

\* Every step of the station's link preserves the invariant.
LEMMA MesLinkInv ==
  ASSUME ProtocolInv, MesLinkStep, UNCHANGED mes
  PROVE  ProtocolInv'
<1>1. CASE Resubscribe
  <2>1. OrderStep /\ spent' \in 0..MaxOrders
    BY <1>1, OrderKept, FaultBound DEF Resubscribe, station
  <2>2. QED BY <1>1, <2>1, SilentStepInv DEF Resubscribe, station
<1>2. QED BY <1>1, MessageInv, ProductInv, SendInv DEF MesLinkStep
-----------------------------------------------------------------------------
(* The invariant                                                           *)

\* The invariant holds when both ends have started.
LEMMA InitInv == Init => ProtocolInv
<1> SUFFICES ASSUME Init PROVE ProtocolInv
  OBVIOUS
<1> USE DEF Init, BrokerInit, WorkOrdersInit, MesLinkInit
<1>1. NoTransaction \in Transactions /\ WellFormed(NoTransaction)
      /\ NoTransaction.event = 0 /\ NoTransaction.read = Empty
  BY NoTransactionWellFormed DEF WellFormed, NoTransaction
<1>2. \A t \in Threads : tx[t] = NoTransaction
  OBVIOUS
<1>3. BrokerTypeOK
  BY BrokerAssumption DEF BrokerTypeOK
<1>4. ProtocolTypeOK
  <2>1. orders \in [Orders -> Rows]
    BY DEF Rows, NoRow, Statuses
  <2>2. tx \in [Threads -> Transactions] /\ \A t \in Clients : tx[t].event = 0
    BY <1>1, <1>2 DEF Threads
  <2>3. work_order \in [order : Orders \union {Empty}, done : Nat,
                        status : {"NONE", "IN_PROGRESS", "COMPLETED", "CANCELLED"}]
    BY DEF NoWorkOrder
  <2>4. QED BY <1>3, <2>1, <2>2, <2>3 DEF ProtocolTypeOK
<1>5. TransactionsAdmissible
  BY <1>1, <1>2 DEF TransactionsAdmissible, Admissible
<1>6. Pending = {} /\ 1..issued = {}
  BY DEF Pending, Events
<1>7. EventsIssued /\ NoReportVanishes /\ StationHasOrder
  BY <1>6 DEF EventsIssued, NoReportVanishes, StationHasOrder, NoWorkOrder
<1>8. PublishedIsCommitted
  BY BrokerAssumption DEF PublishedIsCommitted, NoWorkOrder, Empty, Orders
<1>9. QED BY <1>4, <1>5, <1>7, <1>8 DEF ProtocolInv

\* Every step of the protocol, and every stuttering step, preserves the invariant.
LEMMA NextInv == ProtocolInv /\ [Next]_vars => ProtocolInv'
<1> SUFFICES ASSUME ProtocolInv, [Next]_vars PROVE ProtocolInv'
  OBVIOUS
<1>1. CASE WorkOrdersStep /\ UNCHANGED station
  BY <1>1, WorkOrdersInv
<1>2. CASE MesLinkStep /\ UNCHANGED mes
  BY <1>2, MesLinkInv
<1>3. CASE UNCHANGED vars
  BY <1>3 DEF vars, broker, mes, station, ProtocolInv, ProtocolTypeOK, BrokerTypeOK, TransactionsAdmissible,
     Admissible, Committed, EventsIssued, Pending, StationHasOrder, PublishedIsCommitted, NoReportVanishes
<1>4. QED BY <1>1, <1>2, <1>3 DEF Next

\* The invariant holds in every reachable state.
LEMMA ProtocolInvariant == Spec => []ProtocolInv
BY InitInv, NextInv, PTL DEF Spec
-----------------------------------------------------------------------------
(* What follows from it                                                    *)

\* Every variable of the MES, the station and the broker keeps its type.
THEOREM ProtocolTypes == Spec => []ProtocolTypeOK
<1>1. ProtocolInv => ProtocolTypeOK
  BY DEF ProtocolInv
<1>2. QED BY <1>1, ProtocolInvariant, PTL

\* No order reaches the broker, the station or the station's work order before the
\* transaction that dispatched it has committed (AfterCommit.run, syncStation).
THEOREM NothingPublishedEarly == Spec => []PublishedIsCommitted
<1>1. ProtocolInv => PublishedIsCommitted
  BY DEF ProtocolInv
<1>2. QED BY <1>1, ProtocolInvariant, PTL

\* A report that mes_link.py has put in its outbox stays there, is with the broker or
\* recorded by the MES, unless the MES rolled its transaction back and acknowledged it.
THEOREM ReportsAreKept == Spec => []NoReportVanishes
<1>1. ProtocolInv => NoReportVanishes
  BY DEF ProtocolInv
<1>2. QED BY <1>1, ProtocolInvariant, PTL

\* No transaction writes over another's change: an order that is over stays as it is
\* and no count goes back (WorkOrder.lockVersion).
THEOREM NothingOverwritten == Spec => FinishedStaysFinished
<1> DEFINE Forward ==
      \A w \in Orders :
        /\ orders[w] # NoRow => orders'[w].done >= orders[w].done /\ orders'[w] # NoRow
        /\ orders[w].status \in {"COMPLETED", "CANCELLED", "REJECTED"} => orders'[w] = orders[w]
<1>1. ProtocolInv /\ [Next]_vars => [Forward]_vars
  <2> SUFFICES ASSUME ProtocolInv, Next PROVE Forward
    OBVIOUS
  <2>1. CASE \E t \in Threads : Commit(t)
    BY <2>1, CommitFollows DEF Follows
  <2>2. CASE orders' = orders
    BY <2>2, SMTT(40) DEF ProtocolInv, ProtocolTypeOK, Rows
  <2>3. (\E t \in Threads : Commit(t)) \/ orders' = orders
    BY DEF Next, WorkOrdersStep, RestStep, ReportStep, TransactionStep, ConnectionStep,
       Release, CancelOrder, LookForActive, LookForQueued, Insert,
       SkipDuplicate, OnAccepted, OnRejected, OnCancelled, OnCompleted, OnResult, Handle, Return,
       Promote, Dispatch, RollBack, ReadActive, Publish, Disconnect, MesCrash, Reconnect, mes
  <2>4. QED BY <2>1, <2>2, <2>3
<1>2. QED BY <1>1, ProtocolInvariant, PTL DEF Spec, FinishedStaysFinished

----------------------------------------------------------------------------
(***************************************************************************)
(* That the two sides' counts of an order agree: the MES counts only       *)
(* products that were made, and misses none that it has been told of.      *)
(*                                                                         *)
(* Between what the station has produced and what the MES has counted are  *)
(* the results still to be told: those in the outbox or at the broker      *)
(* whose event the MES has not recorded.  A transaction that is to count   *)
(* one has it written in its rows already; the version check lets it       *)
(* commit only over the count it was based on.                             *)
(***************************************************************************)

\* A row whose count fits its status.
RowCounted(w, row) ==
  /\ row.status \in {"NONE", "QUEUED"} => row.done = 0
  /\ IsActive(row) => row.done < Quantity[w]
  /\ row.status = "COMPLETED" => row.done = Quantity[w]

ReportsIn(s) == {s[i] : i \in DOMAIN s}
Sent == ReportsIn(outbox) \union ReportsIn(toMes)
ResultsOf(w) == {m \in Sent : m.kind = "RESULT" /\ m.order = w}

\* The results of order w that the MES has yet to record.
Untold(w) == {m.event : m \in ResultsOf(w)} \ seen

\* A transaction that has not come to its commit.
Uncommitted(x) == x.at \in {"active?", "queued?", "insert", "promote", "first", "commit"}

Adds(x, w) == x.rows[w] # NoRow /\ x.rows[w].done = x.base[w].done + 1
ResultFirst(w) == Report.kind = "RESULT" /\ Report.order = w

\* It adds one to the count of the order whose result it handles, which is not
\* recorded, if the order still waits for it, and changes no other count.
TransactionCounted(x) ==
  /\ \A w \in Orders : RowCounted(w, x.rows[w])
  /\ \A w \in Orders : x.rows[w] # NoRow =>
        \/ x.rows[w].done = x.base[w].done
        \/ Uncommitted(x) /\ x.event # 0 /\ ResultFirst(w) /\ Adds(x, w)
  /\ x.event # 0 /\ Uncommitted(x) =>
        /\ x.event \notin seen
        /\ \A w \in Orders : ResultFirst(w) => ~IsActive(orders[w]) \/ Adds(x, w)

RowsCounted == \A w \in Orders : RowCounted(w, orders[w])
TransactionsCounted == \A t \in Threads : TransactionCounted(tx[t])

\* Reports are told apart by their events, and are of orders that were dispatched.
SentOnce == \A m, n \in Sent : m.event = n.event => m = n
SentCommitted == \A m \in Sent : Committed(m.order)

\* The MES is behind the station by no less than what it has yet to be told ...
CountedIsProduced == \A w \in Orders : orders[w].done + Cardinality(Untold(w)) <= produced[w]

\* ... and, while it waits for the order the station has, by no more.
ProducedIsCounted ==
  \A w \in Orders : w = work_order.order =>
    /\ work_order.status = "COMPLETED" => work_order.done >= Quantity[w]
    /\ lost = {} /\ IsActive(orders[w])
         => orders[w].done + Cardinality(Untold(w)) >= work_order.done

CountInv ==
  /\ RowsCounted /\ TransactionsCounted /\ SentOnce /\ SentCommitted
  /\ CountedIsProduced /\ ProducedIsCounted
-----------------------------------------------------------------------------
(* Rows and reports                                                        *)

\* A row and the row a method makes of it: only a result adds to the count.
LEMMA MethodsCount ==
  ASSUME NEW row \in Rows, NEW w \in Orders, RowCounted(w, row), NEW new,
         \/ new = Accept(row) \/ new = Reject(row) \/ new = Cancel(row) \/ new = row
         \/ row.status = "QUEUED" /\ new = [row EXCEPT !.status = "RELEASED"]
  PROVE  RowCounted(w, new) /\ new.done = row.done
<1>1. Quantity[w] \in Nat \ {0}
  BY BrokerAssumption
<1> USE DEF Rows, Statuses, RowCounted, IsActive
<1>2. CASE new = Accept(row) BY <1>2 DEF Accept
<1>3. CASE new = Reject(row) BY <1>3 DEF Reject
<1>4. CASE new = Cancel(row) BY <1>4 DEF Cancel, IsOpen
<1>5. CASE new = row BY <1>5
<1>6. CASE row.status = "QUEUED" /\ new = [row EXCEPT !.status = "RELEASED"] BY <1>1, <1>6
<1>7. QED BY <1>2, <1>3, <1>4, <1>5, <1>6

\* A result adds one to the count of an order that waits for it.
LEMMA ResultCounts ==
  ASSUME NEW row \in Rows, NEW w \in Orders, RowCounted(w, row), NEW new, new = CountResult(w, row)
  PROVE  /\ RowCounted(w, new)
         /\ ~IsActive(row) => new = row
         /\ IsActive(row) => new # NoRow /\ new.done = row.done + 1
<1>1. Quantity[w] \in Nat \ {0} /\ row.done \in Nat
  BY BrokerAssumption DEF Rows
<1>2. CASE ~IsActive(row)
  BY <1>2 DEF CountResult
<1>3. CASE IsActive(row)
  <2>1. /\ row.done < Quantity[w]
        /\ new = [status |-> IF row.done + 1 >= Quantity[w] THEN "COMPLETED" ELSE "IN_PROGRESS",
                  done |-> row.done + 1]
    BY <1>3 DEF CountResult, RowCounted
  <2>2. new.done = row.done + 1 /\ new # NoRow
    BY <2>1 DEF NoRow
  <2>3. RowCounted(w, new)
    BY <1>1, <2>1 DEF RowCounted, IsActive
  <2>4. QED BY <1>3, <2>2, <2>3
<1>4. QED BY <1>2, <1>3

\* What is untold is among the events issued, and so it can be counted.
LEMMA UntoldFinite ==
  ASSUME ProtocolInv
  PROVE  /\ \A w \in Orders : Untold(w) \subseteq 1..issued
         /\ \A w \in Orders : IsFiniteSet(Untold(w)) /\ Cardinality(Untold(w)) \in Nat
<1>1. Events(outbox) = {m.event : m \in ReportsIn(outbox)} /\ Events(toMes) = {m.event : m \in ReportsIn(toMes)}
  BY DEF Events, ReportsIn
<1>2. \A w \in Orders : Untold(w) \subseteq 1..issued
  <2>1. \A m \in Sent : m.event \in Pending
    BY <1>1 DEF Sent, Pending
  <2>2. QED BY <2>1 DEF Untold, ResultsOf, ProtocolInv, EventsIssued
<1>3. issued \in Nat /\ IsFiniteSet(1..issued)
  BY FS_Interval DEF ProtocolInv, ProtocolTypeOK
<1>4. \A w \in Orders : IsFiniteSet(Untold(w))
  BY <1>2, <1>3, FS_Subset
<1>5. \A w \in Orders : Cardinality(Untold(w)) \in Nat
  BY <1>4, FS_CardinalityType
<1>6. QED BY <1>2, <1>4, <1>5

\* What is sent are reports; the first at the broker is one of them.
LEMMA SentReports ==
  ASSUME ProtocolInv
  PROVE  /\ \A m \in Sent : m \in Reports /\ m.event \in 1..issued /\ m.event # 0
         /\ toMes # <<>> => Report \in Sent
<1>1. /\ outbox \in Seq(Reports) /\ toMes \in Seq(Reports) /\ issued \in Nat
      /\ Events(outbox) \subseteq 1..issued /\ Events(toMes) \subseteq 1..issued
  BY DEF ProtocolInv, ProtocolTypeOK, BrokerTypeOK, EventsIssued, Pending
<1>2. \A m \in Sent : m \in Reports /\ m.event \in 1..issued
  BY <1>1 DEF Sent, ReportsIn, Events
<1>3. toMes # <<>> => Report \in Sent
  <2>1. toMes # <<>> => 1 \in DOMAIN toMes /\ Report = toMes[1]
    BY <1>1 DEF Report
  <2>2. QED BY <2>1 DEF Sent, ReportsIn
<1>4. QED BY <1>1, <1>2, <1>3

\* The reports of a queue are its first and those of the rest.
LEMMA TailReports ==
  ASSUME NEW s \in Seq(Reports), s # <<>>
  PROVE  ReportsIn(s) = {Head(s)} \union ReportsIn(Tail(s))
<1>1. /\ Head(s) = s[1] /\ 1 \in DOMAIN s
      /\ \A i \in DOMAIN Tail(s) : i + 1 \in DOMAIN s /\ Tail(s)[i] = s[i + 1]
      /\ \A i \in DOMAIN s : i = 1 \/ (i - 1 \in DOMAIN Tail(s) /\ Tail(s)[i - 1] = s[i])
  OBVIOUS
<1>2. QED BY <1>1 DEF ReportsIn

\* A report put at the end of a queue joins those that are there.
LEMMA AppendReports ==
  ASSUME NEW s \in Seq(Reports), NEW m \in Reports
  PROVE  ReportsIn(Append(s, m)) = ReportsIn(s) \union {m}
<1>1. /\ Len(s) \in Nat /\ DOMAIN s = 1..Len(s) /\ DOMAIN Append(s, m) = 1..(Len(s) + 1)
      /\ \A i \in 1..Len(s) : Append(s, m)[i] = s[i]
      /\ Append(s, m)[Len(s) + 1] = m
  OBVIOUS
<1>2. QED BY <1>1 DEF ReportsIn

-----------------------------------------------------------------------------
(* Transactions                                                            *)

\* A transaction that has written nothing counts nothing.
LEMMA EmptyCounted ==
  ASSUME NEW x, x.rows = NoTransaction.rows, x.event = 0 \/ ~Uncommitted(x)
  PROVE  TransactionCounted(x)
<1>1. \A w \in Orders : x.rows[w] = NoRow
  BY DEF NoTransaction
<1>2. QED BY <1>1 DEF TransactionCounted, RowCounted, NoRow, IsActive

\* What a transaction counts does not depend on where it stands before its commit,
\* nor at all if it handles no report.
LEMMA MovedCounted ==
  ASSUME NEW x, NEW y, TransactionCounted(x), x.event = 0 \/ (Uncommitted(y) <=> Uncommitted(x)),
         y.rows = x.rows, y.base = x.base, y.event = x.event
  PROVE  TransactionCounted(y)
BY DEF TransactionCounted, Adds

\* A row of a transaction rewritten with the same count.
LEMMA WrittenCounted ==
  ASSUME ProtocolInv, CountInv, NEW x \in Transactions, TransactionCounted(x), NEW w \in Orders,
         NEW row \in Rows, row # NoRow, RowCounted(w, row), row.done = View(x)[w].done
  PROVE  TransactionCounted(Written(x, w, row))
<1> DEFINE y == Written(x, w, row)
           old == IF x.rows[w] = NoRow THEN orders[w] ELSE x.base[w]
<1>1. CASE row = View(x)[w]
  BY <1>1 DEF Written
<1>2. CASE row # View(x)[w]
  <2>1. old \in Rows
    BY DEF Transactions, ProtocolInv, ProtocolTypeOK
  <2>2. /\ y.at = x.at /\ y.event = x.event
        /\ y.rows[w] = row /\ y.base[w] = old
        /\ \A v \in Orders : v # w => y.rows[v] = x.rows[v] /\ y.base[v] = x.base[v]
    <3>1. y = WithRow(x, w, row, old)
      BY <1>2 DEF Written
    <3> HIDE DEF y, old
    <3>2. QED BY <2>1, <3>1, Set_row
  <2>3. Uncommitted(y) <=> Uncommitted(x)
    BY <2>2 DEF Uncommitted
  <2> HIDE DEF y
  <2>4. \A v \in Orders : RowCounted(v, y.rows[v])
    BY <2>2 DEF TransactionCounted
  <2>5. row.done = old.done \/ (Adds(x, w) /\ row.done = x.rows[w].done /\ old = x.base[w])
    <3>1. CASE x.rows[w] = NoRow
      BY <3>1 DEF View
    <3>2. CASE x.rows[w] # NoRow
      BY <3>2 DEF View, TransactionCounted
    <3>3. QED BY <3>1, <3>2
  <2>6. ASSUME NEW v \in Orders, Adds(x, v) PROVE Adds(y, v)
    <3>1. CASE v = w
      <4>1. row.done = x.rows[w].done /\ old = x.base[w]
        BY <2>6, <3>1 DEF Adds, View
      <4>2. QED BY <2>2, <2>6, <3>1, <4>1 DEF Adds
    <3>2. CASE v # w
      BY <2>2, <2>6, <3>2 DEF Adds
    <3>3. QED BY <3>1, <3>2
  <2>7. ASSUME NEW v \in Orders, y.rows[v] # NoRow
        PROVE  \/ y.rows[v].done = y.base[v].done
               \/ Uncommitted(y) /\ y.event # 0 /\ ResultFirst(v) /\ Adds(y, v)
    <3>1. CASE v # w
      BY <2>2, <2>3, <2>6, <2>7, <3>1 DEF TransactionCounted
    <3>2. CASE v = w /\ row.done = old.done
      BY <2>2, <3>2
    <3>3. CASE v = w /\ Adds(x, w) /\ row.done # old.done
      <4>1. x.rows[w].done # x.base[w].done /\ x.rows[w] # NoRow
        BY <2>5, <3>3 DEF Adds
      <4>2. Uncommitted(x) /\ x.event # 0 /\ ResultFirst(w)
        BY <4>1 DEF TransactionCounted
      <4>3. QED BY <2>2, <2>3, <2>6, <3>3, <4>2
    <3>4. QED BY <2>5, <3>1, <3>2, <3>3
  <2>8. y.event # 0 /\ Uncommitted(y) =>
          /\ y.event \notin seen
          /\ \A v \in Orders : ResultFirst(v) => ~IsActive(orders[v]) \/ Adds(y, v)
    BY <2>2, <2>3, <2>6 DEF TransactionCounted
  <2>9. TransactionCounted(y)
    BY <2>4, <2>7, <2>8 DEF TransactionCounted
  <2>10. QED BY <2>9 DEF y
<1>3. QED BY <1>1, <1>2

-----------------------------------------------------------------------------
(* Steps of the MES                                                        *)

\* Most steps only bring one transaction further.
LEMMA TransactionStepCounts ==
  ASSUME ProtocolInv, CountInv, NEW t \in Threads, NEW x, TransactionCounted(x),
         tx' = [tx EXCEPT ![t] = x],
         UNCHANGED <<orders, seen, lost, toMes, station>>
  PROVE  CountInv'
<1>1. \A u \in Threads : TransactionCounted(tx'[u])
  BY DEF CountInv, TransactionsCounted, ProtocolInv, ProtocolTypeOK
<1>2. TransactionsCounted'
  BY <1>1 DEF TransactionsCounted, TransactionCounted, Adds, ResultFirst, Report
<1>3. RowsCounted' /\ SentOnce' /\ SentCommitted'
  BY DEF CountInv, RowsCounted, SentOnce, SentCommitted, Sent, Committed, station
<1>4. CountedIsProduced' /\ ProducedIsCounted'
  BY DEF CountInv, CountedIsProduced, ProducedIsCounted, Untold, ResultsOf, Sent, station
<1>5. QED BY <1>2, <1>3, <1>4 DEF CountInv

\* What a transaction has counted so far.
LEMMA OpenCounted ==
  ASSUME ProtocolInv, CountInv, NEW t \in Threads
  PROVE  /\ TransactionCounted(tx[t]) /\ tx[t] \in Transactions
         /\ \A w \in Orders : RowCounted(w, orders[w]) /\ RowCounted(w, View(tx[t])[w])
         /\ orders \in [Orders -> Rows] /\ View(tx[t]) \in [Orders -> Rows]
<1>1. TransactionCounted(tx[t]) /\ tx[t] \in Transactions
  BY OpenTransaction DEF CountInv, TransactionsCounted
<1>2. \A w \in Orders : RowCounted(w, orders[w]) /\ RowCounted(w, View(tx[t])[w])
  BY <1>1 DEF CountInv, RowsCounted, TransactionCounted, View
<1>3. QED BY <1>1, <1>2, OpenTransaction

\* The steps of a release write only rows of orders that begin.
LEMMA ReleaseCounts ==
  ASSUME ProtocolInv, CountInv, NEW c \in Clients, UNCHANGED station,
         (\E n \in 1..MaxOrders : Release(c, n)) \/ LookForActive(c) \/ LookForQueued(c) \/ Insert(c)
  PROVE  CountInv'
<1>1. /\ c \in Threads /\ TransactionCounted(tx[c]) /\ tx[c] \in Transactions
      /\ UNCHANGED <<orders, seen, lost, toMes>>
  BY OpenCounted DEF Threads, Release, LookForActive, LookForQueued, Insert, broker
<1>2. ASSUME NEW n \in 1..MaxOrders, Release(c, n) PROVE CountInv'
  <2> DEFINE x == [NoTransaction EXCEPT !.at = "active?", !.lines = n]
  <2>1. x.rows = NoTransaction.rows /\ x.event = 0
    BY DEF NoTransaction
  <2>2. tx' = [tx EXCEPT ![c] = x]
    BY <1>2 DEF Release
  <2> HIDE DEF x
  <2>3. QED BY <1>1, <2>1, <2>2, EmptyCounted, TransactionStepCounts
<1>3. CASE LookForActive(c) \/ LookForQueued(c)
  <2>1. PICK x : /\ tx' = [tx EXCEPT ![c] = x] /\ Uncommitted(x) /\ Uncommitted(tx[c])
                 /\ x.rows = tx[c].rows /\ x.base = tx[c].base /\ x.event = tx[c].event
    <3>1. Uncommitted(tx[c])
      BY <1>3 DEF LookForActive, LookForQueued, Uncommitted
    <3>2. CASE Goto(c, "queued?")
      <4>1. /\ [tx[c] EXCEPT !.at = "queued?"].rows = tx[c].rows
            /\ [tx[c] EXCEPT !.at = "queued?"].base = tx[c].base
            /\ [tx[c] EXCEPT !.at = "queued?"].event = tx[c].event
            /\ [tx[c] EXCEPT !.at = "queued?"].at = "queued?"
        BY <1>1 DEF Transactions
      <4>2. tx' = [tx EXCEPT ![c] = [tx[c] EXCEPT !.at = "queued?"]]
        BY <3>2 DEF Goto
      <4>3. QED BY <3>1, <4>1, <4>2 DEF Uncommitted
    <3>3. ASSUME NEW b, WillInsert(c, b)
          PROVE  \E x : /\ tx' = [tx EXCEPT ![c] = x] /\ Uncommitted(x)
                        /\ x.rows = tx[c].rows /\ x.base = tx[c].base /\ x.event = tx[c].event
      <4> DEFINE x == [tx[c] EXCEPT !.initial = b, !.at = "insert"]
      <4>1. x.rows = tx[c].rows /\ x.base = tx[c].base /\ x.event = tx[c].event /\ x.at = "insert"
        BY <1>1 DEF Transactions
      <4>2. tx' = [tx EXCEPT ![c] = x]
        BY <1>1, <3>3 DEF WillInsert, ProtocolInv, ProtocolTypeOK
      <4> HIDE DEF x
      <4>3. QED BY <4>1, <4>2 DEF Uncommitted
    <3>4. QED BY <1>3, <3>1, <3>2, <3>3 DEF LookForActive, LookForQueued
  <2>2. TransactionCounted(x)
    BY <1>1, <2>1, MovedCounted
  <2>3. QED BY <1>1, <2>1, <2>2, TransactionStepCounts
<1>4. CASE Insert(c)
  <2> DEFINE x == tx[c]
             n == NextNumber(x)
             row == [status |-> x.initial, done |-> 0]
             z == WithRow(x, n, row, NoRow)
             y == [z EXCEPT !.at = "promote", !.lines = x.lines - 1, !.syncs = x.syncs + 1]
  <2>1. n \in Orders /\ Uncommitted(x) /\ tx' = [tx EXCEPT ![c] = y]
    BY <1>4 DEF Insert, Uncommitted
  <2>2. row \in Rows /\ NoRow \in Rows /\ RowCounted(n, row) /\ row.done = 0 /\ NoRow.done = 0
    <3>1. x.initial \in {"QUEUED", "RELEASED"} /\ Quantity[n] \in Nat \ {0}
      BY <1>1, <2>1, BrokerAssumption DEF Transactions
    <3>2. QED BY <3>1 DEF Rows, Statuses, NoRow, RowCounted, IsActive
  <2> HIDE DEF n, row
  <2>3. /\ z \in Transactions /\ z.event = x.event
        /\ z.rows[n] = row /\ z.base[n] = NoRow
        /\ \A v \in Orders : v # n => z.rows[v] = x.rows[v] /\ z.base[v] = x.base[v]
    <3> HIDE DEF z
    <3>1. QED BY <1>1, <2>1, <2>2, Set_row DEF z
  <2> HIDE DEF z
  <2>4. y.at = "promote" /\ y.rows = z.rows /\ y.base = z.base /\ y.event = z.event
    BY <2>3 DEF Transactions
  <2> HIDE DEF y
  <2>5. Uncommitted(y) /\ tx[c].event = 0
    BY <2>4 DEF Uncommitted, ProtocolInv, ProtocolTypeOK
  <2>6. TransactionCounted(y)
    <3>1. \A v \in Orders : RowCounted(v, y.rows[v])
      BY <1>1, <2>2, <2>3, <2>4 DEF TransactionCounted
    <3>2. \A v \in Orders : y.rows[v] # NoRow => y.rows[v].done = y.base[v].done
      BY <1>1, <2>2, <2>3, <2>4, <2>5 DEF TransactionCounted
    <3>3. QED BY <2>3, <2>4, <2>5, <3>1, <3>2 DEF TransactionCounted
  <2>7. QED BY <1>1, <2>1, <2>6, TransactionStepCounts
<1>5. QED BY <1>2, <1>3, <1>4

\* Promoting an order, and looking whether there is one to promote, counts nothing.
LEMMA PromotionCounts ==
  ASSUME ProtocolInv, CountInv, NEW t \in Threads, Promote(t) \/ Dispatch(t), UNCHANGED station
  PROVE  CountInv'
<1> DEFINE x == tx[t]
<1>1. /\ TransactionCounted(x) /\ x \in Transactions /\ Uncommitted(x)
      /\ AfterPromotion(x) \in {"active?", "commit"}
      /\ UNCHANGED <<orders, seen, lost, toMes>>
  BY OpenCounted, AfterPromotionOK DEF Promote, Dispatch, Uncommitted, broker
<1>2. ASSUME NEW z \in Transactions, TransactionCounted(z), Uncommitted(z),
             NEW place \in {"first", "active?", "commit"}
      PROVE  TransactionCounted([z EXCEPT !.at = place])
  <2> DEFINE y == [z EXCEPT !.at = place]
  <2>1. y.at = place /\ y.rows = z.rows /\ y.base = z.base /\ y.event = z.event
    BY DEF Transactions
  <2> HIDE DEF y
  <2>2. Uncommitted(y)
    BY <2>1 DEF Uncommitted
  <2>3. TransactionCounted(y)
    BY <1>2, <2>1, <2>2, MovedCounted
  <2>4. QED BY <2>3 DEF y
<1>3. ASSUME NEW place \in {"first", "active?", "commit"}, Goto(t, place) PROVE CountInv'
  <2>1. TransactionCounted([x EXCEPT !.at = place])
    BY <1>1, <1>2
  <2>2. tx' = [tx EXCEPT ![t] = [x EXCEPT !.at = place]]
    BY <1>3 DEF Goto
  <2>3. QED BY <1>1, <2>1, <2>2, TransactionStepCounts
<1>4. ASSUME NEW w \in Queued(x),
             tx' = [tx EXCEPT ![t] = [Dispatched(x, w) EXCEPT !.at = AfterPromotion(x)]]
      PROVE  CountInv'
  <2> DEFINE old == View(x)[w]
             row == [old EXCEPT !.status = "RELEASED"]
             z == Written(x, w, row)
  <2>1. w \in Orders /\ old \in Rows /\ old.status = "QUEUED" /\ RowCounted(w, old)
    BY OpenCounted DEF Queued
  <2>2. /\ RowCounted(w, row) /\ row.done = old.done
        /\ row \in Rows /\ row # NoRow /\ row # old /\ Follows(old, row)
    <3> HIDE DEF old
    <3>1. RowCounted(w, row) /\ row.done = old.done
      BY <2>1, MethodsCount
    <3>2. row.status = "RELEASED" /\ row \in Rows
      BY <2>1 DEF Rows, Statuses
    <3>3. Follows(old, row)
      BY <2>1, MethodsFollow
    <3>4. QED BY <2>1, <3>1, <3>2, <3>3 DEF NoRow
  <2> HIDE DEF row
  <2>3. TransactionCounted(z)
    BY <1>1, <2>1, <2>2, WrittenCounted
  <2>4. z.at = x.at /\ z \in Transactions
    <3>1. WellFormed(x) /\ ProtocolTypeOK
      BY OpenTransaction DEF Admissible, ProtocolInv
    <3>2. QED BY <2>1, <2>2, <3>1, WrittenWellFormed DEF WellFormed
  <2>5. Dispatched(x, w) = z
    BY DEF Dispatched, row
  <2> HIDE DEF z
  <2>6. TransactionCounted([z EXCEPT !.at = AfterPromotion(x)])
    <3>1. Uncommitted(z)
      BY <1>1, <2>4 DEF Uncommitted
    <3>2. QED BY <1>1, <1>2, <2>3, <2>4, <3>1
  <2>7. QED BY <1>1, <1>4, <2>5, <2>6, TransactionStepCounts
<1>5. CASE Promote(t)
  BY <1>1, <1>3, <1>5 DEF Promote
<1>6. CASE Dispatch(t)
  BY <1>1, <1>3, <1>4, <1>6 DEF Dispatch
<1>7. QED BY <1>5, <1>6

\* A cancellation changes no count.
LEMMA CancelCounts ==
  ASSUME ProtocolInv, CountInv, NEW c \in Clients, NEW w \in Orders, CancelOrder(c, w), UNCHANGED station
  PROVE  CountInv'
<1> DEFINE row == Cancel(orders[w])
           x == NoTransaction
           z == Written(x, w, row)
           place == IF IsActive(orders[w]) THEN "promote" ELSE "commit"
           y == [z EXCEPT !.at = place, !.syncs = 1]
<1>1. /\ c \in Threads /\ IsOpen(orders[w]) /\ tx' = [tx EXCEPT ![c] = y]
      /\ UNCHANGED <<orders, seen, lost, toMes>>
  BY DEF Threads, CancelOrder, broker
<1>2. x \in Transactions /\ x.event = 0 /\ View(x)[w] = orders[w]
  BY <1>1, NewAdmissible, ViewOfTable
<1>3. TransactionCounted(x)
  BY <1>2, EmptyCounted
<1>4. /\ row \in Rows /\ row # NoRow /\ RowCounted(w, row) /\ row.done = orders[w].done
      /\ Follows(orders[w], row)
  <2>1. orders[w] \in Rows /\ RowCounted(w, orders[w])
    BY <1>1, OpenCounted
  <2>2. RowCounted(w, row) /\ row.done = orders[w].done /\ row \in Rows /\ Follows(orders[w], row)
    BY <2>1, MethodsCount, MethodsFollow
  <2>3. row.status = "CANCELLED"
    BY <1>1, <2>1 DEF Cancel, Rows
  <2>4. QED BY <2>2, <2>3 DEF NoRow
<1> HIDE DEF row, x
<1>5. TransactionCounted(z)
  BY <1>2, <1>3, <1>4, WrittenCounted
<1>6. z \in Transactions /\ z.event = 0
  <2>1. WellFormed(x) /\ ProtocolTypeOK
    BY NoTransactionWellFormed DEF ProtocolInv, x
  <2>2. QED BY <1>2, <1>4, <2>1, WrittenWellFormed DEF WellFormed
<1> HIDE DEF z
<1>7. y.rows = z.rows /\ y.base = z.base /\ y.event = z.event
  BY <1>6 DEF Transactions
<1> HIDE DEF y
<1>8. TransactionCounted(y)
  BY <1>5, <1>6, <1>7, MovedCounted
<1>9. QED BY <1>1, <1>8, TransactionStepCounts

\* A transaction that handles a report writes the row of its order, and adds one
\* to its count if the report is a result it waits for.
LEMMA HandleCounts ==
  ASSUME ProtocolInv, CountInv, UNCHANGED station, toMes # <<>>, ~IsDuplicate(Report),
         NEW row \in Rows, NEW place \in {"promote", "commit"}, NEW n \in Nat,
         row = orders[Report.order] \/ row # NoRow, RowCounted(Report.order, row),
         IF Report.kind = "RESULT" /\ IsActive(orders[Report.order])
           THEN row.done = orders[Report.order].done + 1
           ELSE row.done = orders[Report.order].done,
         Handle(row, place, n)
  PROVE  CountInv'
<1> DEFINE w == Report.order
           x == [NoTransaction EXCEPT !.event = Report.event]
           z == Written(x, w, row)
           y == [z EXCEPT !.at = place, !.syncs = n]
<1>1. /\ tx' = [tx EXCEPT ![Mqtt] = y] /\ Mqtt \in Threads
      /\ UNCHANGED <<orders, seen, lost, toMes>>
  BY DEF Handle, Threads, broker
<1>2. /\ Report \in Reports /\ w \in Orders /\ Report.event # 0
      /\ orders[w] \in Rows /\ orders[w].done \in Nat
  BY <1>1, FirstReport, OpenCounted DEF Reports, Rows
<1>3. /\ x \in Transactions /\ x.event = Report.event /\ x.rows = NoTransaction.rows
      /\ x.base = NoTransaction.base
  <2>1. Report.event \in Nat
    BY <1>2 DEF Reports
  <2>2. QED BY <1>1, <2>1, NewAdmissible, Set_event
<1>4. View(x)[w] = orders[w] /\ x.rows[w] = NoRow
  BY <1>2, <1>3, ViewOfTable DEF NoTransaction
<1> HIDE DEF x, w
<1>5. /\ z \in Transactions /\ z.event = Report.event
      /\ \A v \in Orders : v # w => z.rows[v] = NoRow
      /\ z.rows[w] = (IF row = orders[w] THEN NoRow ELSE row)
      /\ row # orders[w] => z.base[w] = orders[w]
  <2>1. \A v \in Orders : x.rows[v] = NoRow
    BY <1>3 DEF NoTransaction
  <2>2. CASE row = orders[w]
    <3>1. z = x
      BY <1>4, <2>2 DEF Written
    <3>2. QED BY <1>2, <1>3, <2>1, <2>2, <3>1
  <2>3. CASE row # orders[w]
    <3>1. z = WithRow(x, w, row, orders[w])
      BY <1>4, <2>3 DEF Written
    <3> HIDE DEF z
    <3>2. /\ z \in Transactions /\ z.event = x.event
          /\ z.rows[w] = row /\ z.base[w] = orders[w]
          /\ \A v \in Orders : v # w => z.rows[v] = x.rows[v]
      BY <1>2, <1>3, <3>1, Set_row
    <3>3. QED BY <1>3, <2>1, <2>3, <3>2
  <2>4. QED BY <2>2, <2>3
<1> HIDE DEF z
<1>6. y.at = place /\ y.rows = z.rows /\ y.base = z.base /\ y.event = Report.event
  BY <1>5 DEF Transactions
<1> HIDE DEF y
<1>7. Uncommitted(y) /\ y.event \notin seen
  BY <1>6 DEF Uncommitted, IsDuplicate
<1>8. \A v \in Orders : RowCounted(v, y.rows[v])
  BY <1>5, <1>6 DEF RowCounted, NoRow, IsActive, w
<1>9. row # orders[w] /\ row.done = orders[w].done + 1 => Adds(y, w)
  BY <1>5, <1>6 DEF Adds, w
<1>10. \A v \in Orders : y.rows[v] # NoRow =>
         \/ y.rows[v].done = y.base[v].done
         \/ Uncommitted(y) /\ y.event # 0 /\ ResultFirst(v) /\ Adds(y, v)
  <2>1. ASSUME NEW v \in Orders, y.rows[v] # NoRow PROVE v = w /\ row # orders[w]
    BY <1>5, <1>6, <2>1
  <2>2. CASE Report.kind = "RESULT" /\ IsActive(orders[w])
    <3>1. row.done = orders[w].done + 1 /\ ResultFirst(w)
      BY <2>2 DEF ResultFirst, w
    <3>2. QED BY <1>2, <1>6, <1>7, <1>9, <2>1, <3>1
  <2>3. CASE ~(Report.kind = "RESULT" /\ IsActive(orders[w]))
    <3>1. row.done = orders[w].done
      BY <2>3 DEF w
    <3>2. QED BY <1>5, <1>6, <2>1, <3>1
  <2>4. QED BY <2>2, <2>3
<1>11. \A v \in Orders : ResultFirst(v) => ~IsActive(orders[v]) \/ Adds(y, v)
  <2>1. ASSUME NEW v \in Orders, ResultFirst(v), IsActive(orders[v]) PROVE Adds(y, v)
    <3>1. v = w /\ row.done = orders[w].done + 1
      BY <2>1 DEF ResultFirst, w
    <3>2. row # orders[w]
      BY <1>2, <3>1
    <3>3. QED BY <1>9, <3>1, <3>2
  <2>2. QED BY <2>1
<1>12. TransactionCounted(y)
  BY <1>7, <1>8, <1>10, <1>11 DEF TransactionCounted
<1>13. QED BY <1>1, <1>12, TransactionStepCounts

\* The MQTT thread counts a result once, and for nothing else.
LEMMA ReportCounts ==
  ASSUME ProtocolInv, CountInv, UNCHANGED station,
         SkipDuplicate \/ OnAccepted \/ OnRejected \/ OnCancelled \/ OnCompleted \/ OnResult
  PROVE  CountInv'
<1> DEFINE old == orders[Report.order]
<1>1. /\ toMes # <<>> /\ Report \in Reports /\ Report.order \in Orders /\ Mqtt \in Threads
      /\ old \in Rows /\ RowCounted(Report.order, old)
  <2>1. toMes # <<>> /\ Mqtt \in Threads
    BY DEF SkipDuplicate, OnAccepted, OnRejected, OnCancelled, OnCompleted, OnResult, Delivers, Threads
  <2>2. Report \in Reports /\ Report.order \in Orders
    BY <2>1, FirstReport DEF Reports
  <2>3. QED BY <2>1, <2>2, OpenCounted
<1>2. CASE SkipDuplicate
  <2> DEFINE x == [NoTransaction EXCEPT !.at = "return", !.event = Report.event]
  <2>1. x.rows = NoTransaction.rows /\ x.at = "return" /\ tx' = [tx EXCEPT ![Mqtt] = x]
    BY <1>2 DEF SkipDuplicate, NoTransaction
  <2> HIDE DEF x
  <2>2. TransactionCounted(x)
    BY <2>1, EmptyCounted DEF Uncommitted
  <2>3. QED BY <1>1, <1>2, <2>1, <2>2, TransactionStepCounts DEF SkipDuplicate, broker
<1>3. ASSUME ~IsDuplicate(Report), Report.kind # "RESULT",
             NEW row, row = Accept(old) \/ row = Reject(old) \/ row = Cancel(old) \/ row = old,
             NEW place \in {"promote", "commit"}, NEW n \in Nat, Handle(row, place, n)
      PROVE  CountInv'
  <2> HIDE DEF old
  <2>1. /\ row \in Rows /\ (row = old \/ row # NoRow)
        /\ RowCounted(Report.order, row) /\ row.done = old.done
    BY <1>1, <1>3, MethodsFollow, MethodsCount
  <2>2. QED BY <1>1, <1>3, <2>1, HandleCounts DEF old
<1>4. CASE OnAccepted
  BY <1>3, <1>4 DEF OnAccepted
<1>5. CASE OnRejected
  BY <1>3, <1>5 DEF OnRejected
<1>6. CASE OnCancelled
  BY <1>3, <1>6 DEF OnCancelled
<1>7. CASE OnCompleted
  BY <1>3, <1>7 DEF OnCompleted
<1>8. CASE OnResult
  <2> DEFINE row == CountResult(Report.order, old)
  <2>1. ~IsDuplicate(Report) /\ Report.kind = "RESULT"
    BY <1>8 DEF OnResult
  <2>2. PICK place \in {"promote", "commit"}, n \in {0, 1} : Handle(row, place, n)
    BY <1>8 DEF OnResult
  <2>3. /\ row \in Rows /\ (row = old \/ row # NoRow) /\ RowCounted(Report.order, row)
        /\ IF IsActive(old) THEN row.done = old.done + 1 ELSE row.done = old.done
    <3> HIDE DEF old
    <3>1. row \in Rows
      BY <1>1, MethodsFollow
    <3>2. /\ RowCounted(Report.order, row)
          /\ ~IsActive(old) => row = old
          /\ IsActive(old) => row # NoRow /\ row.done = old.done + 1
      <4> HIDE DEF row
      <4>1. QED BY <1>1, ResultCounts DEF row
    <3>3. QED BY <3>1, <3>2
  <2> HIDE DEF row
  <2>4. n \in Nat
    OBVIOUS
  <2>5. QED BY <1>1, <2>1, <2>2, <2>3, <2>4, HandleCounts
<1>9. QED BY <1>2, <1>4, <1>5, <1>6, <1>7, <1>8

\* A thread that is done, that reads what to publish or that publishes it, counts nothing.
LEMMA SyncCounts ==
  ASSUME ProtocolInv, CountInv, NEW t \in Threads, RollBack(t) \/ ReadActive(t) \/ Publish(t), UNCHANGED station
  PROVE  CountInv'
<1>1. /\ tx[t] \in Transactions /\ TransactionCounted(tx[t])
      /\ UNCHANGED <<orders, seen, lost, toMes>>
  BY OpenCounted DEF RollBack, ReadActive, Publish, broker
<1>2. ASSUME tx' = [tx EXCEPT ![t] = Done(t)] PROVE CountInv'
  <2>1. Done(t).rows = NoTransaction.rows /\ ~Uncommitted(Done(t))
    BY DEF Done, NoTransaction, Uncommitted
  <2>2. TransactionCounted(Done(t))
    BY <2>1, EmptyCounted
  <2>3. QED BY <1>1, <1>2, <2>2, TransactionStepCounts
<1>3. ASSUME NEW y, tx' = [tx EXCEPT ![t] = y], ~Uncommitted(tx[t]), ~Uncommitted(y),
             y.rows = tx[t].rows, y.base = tx[t].base, y.event = tx[t].event
      PROVE  CountInv'
  <2>1. TransactionCounted(y)
    BY <1>1, <1>3, MovedCounted
  <2>2. QED BY <1>1, <1>3, <2>1, TransactionStepCounts
<1>4. CASE RollBack(t)
  BY <1>2, <1>4 DEF RollBack
<1>5. CASE ReadActive(t)
  <2>1. PICK w \in Orders \union {Empty} : tx' = [tx EXCEPT ![t].read = w, ![t].at = "publish"]
    BY <1>5 DEF ReadActive
  <2> DEFINE y == [tx[t] EXCEPT !.read = w, !.at = "publish"]
  <2>2. y.rows = tx[t].rows /\ y.base = tx[t].base /\ y.event = tx[t].event /\ y.at = "publish"
    BY <1>1 DEF Transactions
  <2>3. tx' = [tx EXCEPT ![t] = y]
    BY <2>1 DEF ProtocolInv, ProtocolTypeOK
  <2> HIDE DEF y
  <2>4. ~Uncommitted(tx[t]) /\ ~Uncommitted(y)
    BY <1>5, <2>2 DEF ReadActive, Uncommitted
  <2>5. QED BY <1>3, <2>2, <2>3, <2>4
<1>6. CASE Publish(t)
  <2> DEFINE y == [tx[t] EXCEPT !.at = "sync", !.syncs = tx[t].syncs - 1, !.read = Empty]
  <2>1. y.rows = tx[t].rows /\ y.base = tx[t].base /\ y.event = tx[t].event /\ y.at = "sync"
    BY <1>1 DEF Transactions
  <2>2. tx' = [tx EXCEPT ![t] = IF tx[t].syncs = 1 THEN Done(t) ELSE y]
    BY <1>6 DEF Publish
  <2> HIDE DEF y
  <2>3. ~Uncommitted(tx[t]) /\ ~Uncommitted(y)
    BY <1>6, <2>1 DEF Publish, Uncommitted
  <2>4. QED BY <1>2, <1>3, <2>1, <2>2, <2>3
<1>7. QED BY <1>4, <1>5, <1>6

\* A connection lost counts nothing, nor does a crash or a connection made.
LEMMA ConnectionCounts ==
  ASSUME ProtocolInv, CountInv, Disconnect \/ MesCrash \/ Reconnect, UNCHANGED station
  PROVE  CountInv'
<1>1. UNCHANGED <<orders, seen, lost, toMes>>
  BY DEF Disconnect, MesCrash, Reconnect, mes
<1>2. CASE Disconnect
  <2>1. UNCHANGED tx
    BY <1>2 DEF Disconnect, mes
  <2>2. QED BY <1>1, <2>1 DEF CountInv, RowsCounted, TransactionsCounted, TransactionCounted, Adds, ResultFirst, Report,
          SentOnce, SentCommitted, Sent, Committed, CountedIsProduced, ProducedIsCounted, Untold, ResultsOf, station
<1>3. CASE MesCrash
  <2>1. \A t \in Threads : tx'[t] = NoTransaction
    BY <1>3 DEF MesCrash
  <2>2. TransactionCounted(NoTransaction)
    BY EmptyCounted DEF NoTransaction
  <2>3. \A t \in Threads : TransactionCounted(tx'[t])
    BY <2>1, <2>2
  <2>4. TransactionsCounted'
    BY <1>1, <2>3 DEF TransactionsCounted, TransactionCounted, Adds, ResultFirst, Report
  <2>5. QED BY <1>1, <2>4 DEF CountInv, RowsCounted,
          SentOnce, SentCommitted, Sent, Committed, CountedIsProduced, ProducedIsCounted, Untold, ResultsOf, station
<1>4. CASE Reconnect
  <2> DEFINE x == [NoTransaction EXCEPT !.at = "sync", !.syncs = 1]
  <2>1. Mqtt \in Threads /\ x.rows = NoTransaction.rows /\ x.event = 0
    BY DEF Threads, NoTransaction
  <2>2. tx' = [tx EXCEPT ![Mqtt] = x]
    BY <1>4 DEF Reconnect
  <2> HIDE DEF x
  <2>3. QED BY <1>1, <2>1, <2>2, EmptyCounted, TransactionStepCounts
<1>5. QED BY <1>2, <1>3, <1>4

\* A commit counts the result it records, over the row its count is based on.
LEMMA CommitRow ==
  ASSUME ProtocolInv, CountInv, NEW t \in Threads, Commit(t), NEW w \in Orders
  PROVE  /\ RowCounted(w, orders'[w])
         /\ orders[w].done \in Nat
         /\ \/ orders'[w].done = orders[w].done
            \/ tx[t].event # 0 /\ ResultFirst(w) /\ orders'[w].done = orders[w].done + 1
         /\ Adds(tx[t], w) => orders'[w].done = orders[w].done + 1
<1> DEFINE x == tx[t]
<1>1. /\ TransactionCounted(x) /\ RowCounted(w, View(x)[w])
      /\ orders' = View(x) /\ UnchangedSinceRead(x)
  BY OpenCounted DEF Commit
<1>2. orders[w].done \in Nat
  BY OpenCounted DEF Rows
<1>3. CASE x.rows[w] = NoRow
  BY <1>1, <1>2, <1>3 DEF View, Adds
<1>4. CASE x.rows[w] # NoRow
  <2>1. orders'[w] = x.rows[w] /\ x.base[w] = orders[w]
    BY <1>1, <1>4 DEF View, UnchangedSinceRead
  <2>2. QED BY <1>1, <1>2, <1>4, <2>1 DEF TransactionCounted, Adds
<1>5. QED BY <1>3, <1>4

\* What is untold after a commit: the event it records is told.
LEMMA CommitTells ==
  ASSUME ProtocolInv, CountInv, NEW t \in Threads, Commit(t), UNCHANGED station, NEW w \in Orders
  PROVE  /\ Untold(w)' = Untold(w) \ {tx[t].event}
         /\ tx[t].event # 0 => tx[t].event = Report.event /\ tx[t].event \notin seen /\ toMes # <<>>
         /\ tx[t].event # 0 /\ ResultFirst(w) <=> tx[t].event \in Untold(w)
<1>1. /\ TransactionCounted(tx[t]) /\ Uncommitted(tx[t]) /\ Admissible(t, tx[t])
      /\ seen' = seen \union ({tx[t].event} \ {0}) /\ UNCHANGED <<toMes, outbox>>
  BY OpenCounted, OpenTransaction DEF Commit, Uncommitted, broker, station
<1>2. tx[t].event # 0 => tx[t].event = Report.event /\ tx[t].event \notin seen /\ toMes # <<>>
  BY <1>1 DEF Admissible, TransactionCounted, Report
<1>3. 0 \notin Untold(w)
  BY UntoldFinite
<1>4. Untold(w)' = {m.event : m \in ResultsOf(w)} \ seen'
  BY <1>1 DEF Untold, ResultsOf, Sent
<1>5. Untold(w)' = Untold(w) \ {tx[t].event}
  BY <1>1, <1>3, <1>4 DEF Untold
<1>6. ASSUME tx[t].event # 0, ResultFirst(w) PROVE tx[t].event \in Untold(w)
  <2>1. Report \in ResultsOf(w)
    BY <1>2, <1>6, SentReports DEF ResultFirst, ResultsOf
  <2>2. QED BY <1>2, <1>6, <2>1 DEF Untold
<1>7. ASSUME tx[t].event \in Untold(w) PROVE tx[t].event # 0 /\ ResultFirst(w)
  <2>1. tx[t].event # 0
    BY <1>3, <1>7
  <2>2. PICK m \in ResultsOf(w) : m.event = Report.event
    BY <1>2, <1>7, <2>1 DEF Untold
  <2>3. m = Report
    BY <1>2, <2>1, <2>2, SentReports DEF ResultsOf, CountInv, SentOnce
  <2>4. QED BY <2>1, <2>2, <2>3 DEF ResultsOf, ResultFirst
<1>8. QED BY <1>2, <1>5, <1>6, <1>7

\* A commit keeps what is said of the transactions that stay open.
LEMMA CommitTransactions ==
  ASSUME ProtocolInv, CountInv, NEW t \in Threads, Commit(t), UNCHANGED station
  PROVE  TransactionsCounted'
<1>1. /\ UNCHANGED toMes /\ seen' = seen \union ({tx[t].event} \ {0})
      /\ \A w \in Orders : Follows(orders[w], orders'[w])
  BY CommitFollows DEF Commit, broker
<1>2. ASSUME NEW u \in Threads, u # t PROVE TransactionCounted(tx[u])'
  <2>1. tx'[u] = tx[u] /\ TransactionCounted(tx[u])
    BY <1>2, OpenCounted DEF Commit, ProtocolInv, ProtocolTypeOK
  <2>2. CASE tx[u].event = 0
    BY <2>1, <2>2 DEF TransactionCounted, Adds
  <2>3. CASE tx[u].event # 0
    <3>1. u = Mqtt /\ toMes # <<>> /\ tx[t].event = 0
      BY <1>2, <2>3, OpenTransaction DEF Admissible
    <3>2. seen' = seen
      BY <1>1, <3>1
    <3>3. ASSUME NEW w \in Orders, ResultFirst(w), ~IsActive(orders[w]) PROVE ~IsActive(orders'[w])
      <4>1. Committed(w) /\ orders[w] \in Rows
        BY <3>1, <3>3, SentReports, OpenCounted DEF ResultFirst, CountInv, SentCommitted
      <4>2. orders[w].status \in {"COMPLETED", "CANCELLED", "REJECTED"}
        BY <3>3, <4>1 DEF Committed, Rows, Statuses, IsActive
      <4>3. QED BY <1>1, <3>3, <4>2 DEF Follows
    <3>4. QED BY <1>1, <2>1, <3>2, <3>3 DEF TransactionCounted, Adds, ResultFirst, Report, Uncommitted
  <2>4. QED BY <2>2, <2>3
<1>3. TransactionCounted(tx[t])'
  <2>1. /\ \A w \in Orders : tx'[t].rows[w] = NoRow
        /\ tx'[t].at \in {"idle", "return", "sync"}
    <3> DEFINE y == [NoTransaction EXCEPT !.at = "sync", !.event = tx[t].event, !.syncs = tx[t].syncs]
    <3>1. y.rows = NoTransaction.rows /\ y.at = "sync"
      BY DEF NoTransaction
    <3>2. Done(t).rows = NoTransaction.rows /\ Done(t).at \in {"idle", "return"}
      BY DEF Done, NoTransaction
    <3>3. tx'[t] = IF tx[t].syncs = 0 THEN Done(t) ELSE y
      BY DEF Commit, ProtocolInv, ProtocolTypeOK
    <3> HIDE DEF y
    <3>4. \A w \in Orders : NoTransaction.rows[w] = NoRow
      BY DEF NoTransaction
    <3>5. QED BY <3>1, <3>2, <3>3, <3>4
  <2>2. \A w \in Orders : RowCounted(w, NoRow)
    BY DEF RowCounted, NoRow, IsActive
  <2>3. QED BY <2>1, <2>2 DEF TransactionCounted, Uncommitted
<1>4. QED BY <1>2, <1>3 DEF TransactionsCounted

\* A commit keeps the counts: what it adds it has recorded, and of what it records it
\* has added what the order waits for.
LEMMA CommitCounts ==
  ASSUME ProtocolInv, CountInv, NEW t \in Threads, Commit(t), UNCHANGED station
  PROVE  CountInv'
<1> DEFINE e == tx[t].event
<1>1. /\ UNCHANGED <<lost, toMes, outbox, work_order, produced>>
      /\ orders' \in [Orders -> Rows] /\ orders \in [Orders -> Rows]
      /\ \A w \in Orders : Follows(orders[w], orders'[w])
  BY CommitFollows, OpenCounted DEF Commit, broker, station
<1>2. RowsCounted'
  BY CommitRow DEF RowsCounted, RowCounted, IsActive
<1>3. SentOnce' /\ SentCommitted'
  <2>1. Sent' = Sent
    BY <1>1 DEF Sent
  <2>2. \A m \in Sent : m.order \in Orders
    BY SentReports DEF Reports
  <2>3. \A w \in Orders : Committed(w) => Committed(w)'
    BY <1>1 DEF Committed, Follows
  <2>4. SentOnce'
    BY <2>1 DEF CountInv, SentOnce
  <2>5. SentCommitted'
    BY <2>1, <2>2, <2>3 DEF CountInv, SentCommitted
  <2>6. QED BY <2>4, <2>5
<1>4. ASSUME NEW w \in Orders
      PROVE  /\ IsFiniteSet(Untold(w)) /\ Cardinality(Untold(w)) \in Nat
             /\ Cardinality(Untold(w))' =
                  IF e \in Untold(w) THEN Cardinality(Untold(w)) - 1 ELSE Cardinality(Untold(w))
  <2>1. IsFiniteSet(Untold(w)) /\ Cardinality(Untold(w)) \in Nat
    BY UntoldFinite
  <2>2. Untold(w)' = Untold(w) \ {e}
    BY CommitTells
  <2>3. Cardinality(Untold(w) \ {e}) =
          IF e \in Untold(w) THEN Cardinality(Untold(w)) - 1 ELSE Cardinality(Untold(w))
    BY <2>1, FS_RemoveElement
  <2>4. QED BY <2>1, <2>2, <2>3
<1>5. CountedIsProduced'
  <2>1. ASSUME NEW w \in Orders
        PROVE  orders'[w].done + Cardinality(Untold(w))' <= produced[w]
    <3>1. /\ orders[w].done + Cardinality(Untold(w)) <= produced[w]
          /\ orders[w].done \in Nat /\ produced[w] \in Nat
      BY CommitRow DEF CountInv, CountedIsProduced, ProtocolInv, ProtocolTypeOK
    <3>2. CASE orders'[w].done = orders[w].done
      BY <1>4, <3>1, <3>2
    <3>3. CASE e # 0 /\ ResultFirst(w) /\ orders'[w].done = orders[w].done + 1
      BY <1>4, <3>1, <3>3, CommitTells
    <3>4. QED BY <3>2, <3>3, CommitRow
  <2>2. QED BY <1>1, <2>1 DEF CountedIsProduced
<1>6. ASSUME NEW w \in Orders, w = work_order.order, lost = {}, IsActive(orders'[w])
      PROVE  orders'[w].done + Cardinality(Untold(w))' >= work_order.done
  <2>1. Committed(w) /\ work_order.done \in Nat
    BY <1>6 DEF ProtocolInv, ProtocolTypeOK, PublishedIsCommitted, Committed
  <2>2. IsActive(orders[w])
    BY <1>1, <1>6, <2>1 DEF Follows, Committed, IsActive, Rows, Statuses
  <2>3. orders[w].done + Cardinality(Untold(w)) >= work_order.done
    BY <1>6, <2>2 DEF CountInv, ProducedIsCounted
  <2>4. /\ orders[w].done \in Nat
        /\ orders'[w].done = orders[w].done \/ orders'[w].done = orders[w].done + 1
    BY CommitRow
  <2>5. CASE e \notin Untold(w)
    BY <1>4, <2>1, <2>3, <2>4, <2>5
  <2>6. CASE e \in Untold(w)
    <3>1. e # 0 /\ ResultFirst(w)
      BY <2>6, CommitTells
    <3>2. Adds(tx[t], w)
      BY <2>2, <3>1, OpenCounted DEF TransactionCounted, Commit, Uncommitted
    <3>3. orders'[w].done = orders[w].done + 1
      BY <3>2, CommitRow
    <3>4. QED BY <1>4, <2>1, <2>3, <2>4, <2>6, <3>3
  <2>7. QED BY <2>5, <2>6
<1>7. ProducedIsCounted'
  BY <1>1, <1>6 DEF CountInv, ProducedIsCounted
<1>8. QED BY <1>2, <1>3, <1>5, <1>7, CommitTransactions DEF CountInv

\* A report acknowledged leaves the broker; it was recorded, or it is lost.
LEMMA ReturnCounts ==
  ASSUME ProtocolInv, CountInv, Return, UNCHANGED station
  PROVE  CountInv'
<1> DEFINE e == tx[Mqtt].event
           acknowledged == connected /\ e # 0
<1>1. /\ tx' = [tx EXCEPT ![Mqtt] = NoTransaction]
      /\ toMes' = IF acknowledged THEN Tail(toMes) ELSE toMes
      /\ lost' = IF acknowledged /\ e \notin seen THEN lost \union {Report} ELSE lost
      /\ UNCHANGED <<orders, seen, outbox, work_order, produced>>
  BY DEF Return, Report, station
<1>2. /\ toMes \in Seq(Reports) /\ Mqtt \in Threads
      /\ e # 0 => toMes # <<>> /\ e = Report.event
  BY OpenTransaction DEF ProtocolInv, ProtocolTypeOK, BrokerTypeOK, Admissible, Threads, Report
<1>3. Sent' \subseteq Sent /\ Sent \subseteq Sent' \union (IF acknowledged THEN {Report} ELSE {})
  <2>1. CASE acknowledged
    <3>1. ReportsIn(toMes) = {Report} \union ReportsIn(toMes') /\ outbox' = outbox
      BY <1>1, <1>2, <2>1, TailReports DEF Report
    <3>2. QED BY <2>1, <3>1 DEF Sent
  <2>2. CASE ~acknowledged
    BY <1>1, <2>2 DEF Sent
  <2>3. QED BY <2>1, <2>2
<1>4. RowsCounted' /\ SentOnce' /\ SentCommitted'
  BY <1>1, <1>3 DEF CountInv, RowsCounted, SentOnce, SentCommitted, Committed
<1>5. TransactionsCounted'
  <2>1. ASSUME NEW u \in Threads PROVE TransactionCounted(tx[u])'
    <3>1. CASE u = Mqtt
      <4>1. tx'[u] = NoTransaction
        BY <1>1, <1>2, <3>1 DEF ProtocolInv, ProtocolTypeOK
      <4>2. \A w \in Orders : RowCounted(w, NoRow) /\ NoTransaction.rows[w] = NoRow
        BY DEF RowCounted, NoRow, IsActive, NoTransaction
      <4>3. NoTransaction.event = 0
        BY DEF NoTransaction
      <4>4. QED BY <4>1, <4>2, <4>3 DEF TransactionCounted
    <3>2. CASE u # Mqtt
      <4>1. tx'[u] = tx[u] /\ tx[u].event = 0 /\ TransactionCounted(tx[u])
        BY <1>1, <3>2, OpenCounted, OpenTransaction DEF Admissible, ProtocolInv, ProtocolTypeOK
      <4>2. QED BY <4>1 DEF TransactionCounted
    <3>3. QED BY <3>1, <3>2
  <2>2. QED BY <2>1 DEF TransactionsCounted
<1>6. ASSUME NEW w \in Orders
      PROVE  /\ IsFiniteSet(Untold(w)) /\ Cardinality(Untold(w)) \in Nat /\ Untold(w)' \subseteq Untold(w)
             /\ Cardinality(Untold(w)') \in Nat /\ Cardinality(Untold(w)') <= Cardinality(Untold(w))
             /\ lost' = {} => lost = {} /\ Untold(w)' = Untold(w)
  <2>1. IsFiniteSet(Untold(w)) /\ Cardinality(Untold(w)) \in Nat
    BY UntoldFinite
  <2>2. Untold(w)' \subseteq Untold(w)
    BY <1>1, <1>3 DEF Untold, ResultsOf
  <2>3. Cardinality(Untold(w)') \in Nat /\ Cardinality(Untold(w)') <= Cardinality(Untold(w))
    BY <2>1, <2>2, FS_Subset, FS_CardinalityType
  <2>4. ASSUME lost' = {} PROVE lost = {} /\ Untold(w)' = Untold(w)
    <3>1. lost = {} /\ (acknowledged => Report.event \in seen)
      BY <1>1, <1>2, <2>4
    <3>2. \A m \in Sent : m \in Sent' \/ m.event \in seen
      BY <1>3, <3>1
    <3>3. Untold(w) \subseteq Untold(w)'
      BY <1>1, <3>2 DEF Untold, ResultsOf
    <3>4. QED BY <2>2, <3>1, <3>3
  <2>5. QED BY <2>1, <2>2, <2>3, <2>4
<1>7. CountedIsProduced'
  <2>1. \A w \in Orders : orders[w].done \in Nat /\ produced[w] \in Nat
    BY DEF ProtocolInv, ProtocolTypeOK, Rows
  <2>2. QED BY <1>1, <1>6, <2>1 DEF CountInv, CountedIsProduced
<1>8. ProducedIsCounted'
  BY <1>1, <1>6 DEF CountInv, ProducedIsCounted, IsActive
<1>9. QED BY <1>4, <1>5, <1>7, <1>8 DEF CountInv

\* Every step of the MES keeps the counts.
LEMMA WorkOrdersCounts ==
  ASSUME ProtocolInv, CountInv, WorkOrdersStep, UNCHANGED station
  PROVE  CountInv'
<1>1. CASE RestStep
  BY <1>1, ReleaseCounts, CancelCounts DEF RestStep
<1>2. CASE ReportStep
  BY <1>2, ReportCounts, ReturnCounts DEF ReportStep
<1>3. CASE TransactionStep
  BY <1>3, PromotionCounts, CommitCounts, SyncCounts DEF TransactionStep
<1>4. CASE ConnectionStep
  BY <1>4, ConnectionCounts DEF ConnectionStep
<1>5. QED BY <1>1, <1>2, <1>3, <1>4 DEF WorkOrdersStep
-----------------------------------------------------------------------------
(* The station                                                             *)

\* The reports that putting kinds of order w in the outbox makes.
Fresh(kinds, w) == {[event |-> issued + i, kind |-> kinds[i], order |-> w] : i \in 1..Len(kinds)}

\* What is put in the outbox is sent, and nothing else becomes so.
LEMMA EnqueueSends ==
  ASSUME ProtocolInv, NEW kinds \in Seq(Kinds), NEW w \in Orders, Enqueue(kinds, w), UNCHANGED toMes
  PROVE  Sent' = Sent \union Fresh(kinds, w)
<1> DEFINE new == [i \in 1..Len(kinds) |-> [event |-> issued + i, kind |-> kinds[i], order |-> w]]
<1>1. outbox \in Seq(Reports) /\ issued \in Nat /\ Len(kinds) \in Nat /\ outbox' = outbox \o new
  BY StationState DEF Enqueue
<1>2. new \in Seq(Reports) /\ DOMAIN new = 1..Len(kinds)
  <2>1. \A i \in 1..Len(kinds) : new[i] \in Reports
    BY <1>1 DEF Reports
  <2>2. new \in [1..Len(kinds) -> Reports]
    BY <2>1
  <2> HIDE DEF new
  <2>3. QED BY <1>1, <2>2
<1>3. ReportsIn(new) = Fresh(kinds, w)
  BY <1>2 DEF ReportsIn, Fresh
<1> HIDE DEF new
<1>4. ReportsIn(outbox \o new) = ReportsIn(outbox) \union ReportsIn(new)
  <2> DEFINE o == outbox
  <2>1. o \in Seq(Reports)
    BY <1>1
  <2> HIDE DEF o
  <2>2. /\ DOMAIN (o \o new) = 1..(Len(o) + Len(new)) /\ Len(o) \in Nat /\ Len(new) \in Nat
        /\ DOMAIN o = 1..Len(o) /\ DOMAIN new = 1..Len(new)
        /\ \A i \in 1..Len(o) : (o \o new)[i] = o[i]
        /\ \A i \in 1..Len(new) : (o \o new)[Len(o) + i] = new[i]
    BY <1>2, <2>1
  <2>3. ReportsIn(o) \subseteq ReportsIn(o \o new)
    BY <2>2 DEF ReportsIn
  <2>4. ReportsIn(new) \subseteq ReportsIn(o \o new)
    <3>1. \A i \in 1..Len(new) : Len(o) + i \in DOMAIN (o \o new)
      BY <2>2
    <3>2. QED BY <2>2, <3>1 DEF ReportsIn
  <2>5. ReportsIn(o \o new) \subseteq ReportsIn(o) \union ReportsIn(new)
    <3>1. ASSUME NEW i \in DOMAIN (o \o new)
          PROVE  (o \o new)[i] \in ReportsIn(o) \union ReportsIn(new)
      <4>1. CASE i \in 1..Len(o)
        BY <2>2, <4>1 DEF ReportsIn
      <4>2. CASE i \notin 1..Len(o)
        <5>1. i - Len(o) \in 1..Len(new) /\ Len(o) + (i - Len(o)) = i
          BY <2>2, <3>1, <4>2
        <5>2. (o \o new)[i] = new[i - Len(o)]
          BY <2>2, <5>1
        <5>3. QED BY <2>2, <5>1, <5>2 DEF ReportsIn
      <4>3. QED BY <4>1, <4>2
    <3>2. QED BY <3>1 DEF ReportsIn
  <2>6. QED BY <2>3, <2>4, <2>5 DEF o
<1>5. QED BY <1>1, <1>3, <1>4 DEF Sent

\* A station step that sends fresh reports, each with an event of its own.
Sends(fresh) ==
  /\ UNCHANGED mes
  /\ Sent' = Sent \union fresh
  /\ toMes # <<>> => toMes' # <<>> /\ Head(toMes') = Head(toMes)
  /\ \A m, n \in fresh : m.event = n.event => m = n
  /\ \A m \in fresh : m.event \in Nat /\ m.event > issued /\ Committed(m.order)

ResultsIn(fresh, w) == {m \in fresh : m.kind = "RESULT" /\ m.order = w}

\* Such a step leaves the MES's side as counted as it was, and what becomes untold
\* is what it sends.
LEMMA SendingCounts ==
  ASSUME ProtocolInv, CountInv, NEW fresh, Sends(fresh)
  PROVE  /\ RowsCounted' /\ TransactionsCounted' /\ SentOnce' /\ SentCommitted'
         /\ \A w \in Orders : Untold(w)' = Untold(w) \union {m.event : m \in ResultsIn(fresh, w)}
<1> USE DEF Sends
<1>1. UNCHANGED <<orders, seen, tx, lost>>
  BY DEF mes
<1>2. RowsCounted'
  BY <1>1 DEF CountInv, RowsCounted
<1>3. TransactionsCounted'
  <2>1. ASSUME NEW t \in Threads PROVE TransactionCounted(tx[t])'
    <3>1. TransactionCounted(tx[t]) /\ (tx[t].event # 0 => Report' = Report)
      BY OpenCounted, OpenTransaction DEF Admissible, Report
    <3>2. QED BY <1>1, <3>1 DEF TransactionCounted, ResultFirst
  <2>2. QED BY <2>1 DEF TransactionsCounted
<1>4. issued \in Nat /\ \A m \in Sent : m.event \in 1..issued
  BY SentReports, StationState
<1>5. SentOnce'
  <2>1. \A m \in Sent, n \in fresh : m.event # n.event
    BY <1>4
  <2>2. QED BY <2>1 DEF CountInv, SentOnce
<1>6. SentCommitted'
  BY <1>1 DEF CountInv, SentCommitted, Committed
<1>7. ASSUME NEW w \in Orders
      PROVE  Untold(w)' = Untold(w) \union {m.event : m \in ResultsIn(fresh, w)}
  <2>1. \A m \in fresh : m.event \notin seen
    BY <1>4 DEF ProtocolInv, ProtocolTypeOK
  <2>2. ResultsOf(w)' = ResultsOf(w) \union ResultsIn(fresh, w)
    BY DEF ResultsOf, ResultsIn
  <2>3. seen' = seen /\ \A m \in ResultsIn(fresh, w) : m.event \notin seen
    BY <1>1, <2>1 DEF ResultsIn
  <2>4. QED BY <2>2, <2>3 DEF Untold
<1>8. QED BY <1>2, <1>3, <1>5, <1>6, <1>7

\* A station step that makes no product and reports none keeps the counts, if its
\* order is the same or has just begun.
LEMMA NothingMade ==
  ASSUME ProtocolInv, CountInv, NEW fresh, Sends(fresh), UNCHANGED produced,
         \A m \in fresh : m.kind # "RESULT",
         \/ work_order'.order = work_order.order /\ work_order'.done = work_order.done
            /\ work_order'.status \in {work_order.status, "CANCELLED"}
         \/ work_order'.done = 0 /\ work_order'.status = "IN_PROGRESS"
  PROVE  CountInv'
<1>1. \A w \in Orders : Untold(w)' = Untold(w)
  <2>1. \A w \in Orders : {m.event : m \in ResultsIn(fresh, w)} = {}
    BY DEF ResultsIn
  <2>2. QED BY <2>1, SendingCounts
<1>2. UNCHANGED <<orders, lost>>
  BY DEF Sends, mes
<1>3. CountedIsProduced'
  BY <1>1, <1>2 DEF CountInv, CountedIsProduced
<1>4. ProducedIsCounted'
  <2>1. ASSUME NEW w \in Orders, w = work_order'.order
        PROVE  /\ work_order'.status = "COMPLETED" => work_order'.done >= Quantity[w]
               /\ lost = {} /\ IsActive(orders[w])
                    => orders[w].done + Cardinality(Untold(w)) >= work_order'.done
    <3>1. CASE work_order'.done = 0 /\ work_order'.status = "IN_PROGRESS"
      <4>1. orders[w].done \in Nat /\ Cardinality(Untold(w)) \in Nat
        BY UntoldFinite DEF ProtocolInv, ProtocolTypeOK, Rows
      <4>2. QED BY <3>1, <4>1
    <3>2. CASE /\ work_order'.order = work_order.order /\ work_order'.done = work_order.done
               /\ work_order'.status \in {work_order.status, "CANCELLED"}
      BY <2>1, <3>2 DEF CountInv, ProducedIsCounted
    <3>3. QED BY <3>1, <3>2
  <2>2. QED BY <1>1, <1>2, <2>1 DEF ProducedIsCounted
<1>5. QED BY <1>3, <1>4, SendingCounts DEF CountInv

\* A station step that makes one product of its order and reports it once keeps the
\* counts, whether or not it comes to add it to its own.
LEMMA OneMade ==
  ASSUME ProtocolInv, CountInv, NEW fresh, Sends(fresh), InProgress, Produce,
         NEW o \in Orders, o = work_order.order,
         {m.event : m \in ResultsIn(fresh, o)} = {issued + 1},
         \A m \in fresh : m.order = o,
         work_order'.order = work_order.order,
         \/ UNCHANGED work_order
         \/ work_order'.done = work_order.done + 1
            /\ (work_order'.status = "COMPLETED" => work_order'.done >= Quantity[o])
  PROVE  CountInv'
<1>1. /\ UNCHANGED <<orders, lost>> /\ issued \in Nat /\ work_order.done \in Nat
      /\ \A w \in Orders : orders[w].done \in Nat /\ produced[w] \in Nat
  BY StationState DEF Sends, mes, ProtocolInv, ProtocolTypeOK, Rows
<1>2. \A w \in Orders : Untold(w) \subseteq 1..issued /\ IsFiniteSet(Untold(w)) /\ Cardinality(Untold(w)) \in Nat
  BY UntoldFinite
<1>3. \A w \in Orders : w # o => Untold(w)' = Untold(w) /\ produced'[w] = produced[w]
  <2>1. ASSUME NEW w \in Orders, w # o PROVE Untold(w)' = Untold(w)
    <3>1. {m.event : m \in ResultsIn(fresh, w)} = {}
      BY <2>1 DEF ResultsIn
    <3>2. QED BY <3>1, SendingCounts, ZenonT(40)
  <2>2. produced' = [produced EXCEPT ![o] = produced[o] + 1] /\ produced \in [Orders -> Nat]
    BY StationState DEF Produce
  <2>3. \A w \in Orders : w # o => produced'[w] = produced[w]
    BY <2>2
  <2>4. QED BY <2>1, <2>3
<1>4. /\ produced'[o] = produced[o] + 1
      /\ Cardinality(Untold(o)') = Cardinality(Untold(o)) + 1
  <2>1. produced' = [produced EXCEPT ![o] = produced[o] + 1] /\ produced \in [Orders -> Nat]
    BY StationState DEF Produce
  <2>2. Untold(o)' = Untold(o) \union {issued + 1} /\ issued + 1 \notin Untold(o)
    BY <1>1, <1>2, SendingCounts
  <2>3. Cardinality(Untold(o) \union {issued + 1}) = Cardinality(Untold(o)) + 1
    BY <1>2, <2>2, FS_AddElement
  <2>4. QED BY <2>1, <2>2, <2>3
<1>5. CountedIsProduced'
  <2>1. ASSUME NEW w \in Orders PROVE orders[w].done + Cardinality(Untold(w)') <= produced'[w]
    <3>1. orders[w].done + Cardinality(Untold(w)) <= produced[w]
      BY DEF CountInv, CountedIsProduced
    <3>2. CASE w = o
      BY <1>1, <1>2, <1>4, <3>1, <3>2
    <3>3. CASE w # o
      BY <1>3, <3>1, <3>3
    <3>4. QED BY <3>2, <3>3
  <2>2. QED BY <1>1, <2>1 DEF CountedIsProduced
<1>6. ProducedIsCounted'
  <2>1. /\ work_order'.status = "COMPLETED" => work_order'.done >= Quantity[o]
        /\ work_order'.done \in {work_order.done, work_order.done + 1}
    BY DEF InProgress
  <2>2. ASSUME lost = {}, IsActive(orders[o])
        PROVE  orders[o].done + Cardinality(Untold(o)') >= work_order'.done
    <3>1. orders[o].done + Cardinality(Untold(o)) >= work_order.done
      BY <2>2 DEF CountInv, ProducedIsCounted
    <3>2. QED BY <1>1, <1>2, <1>4, <2>1, <3>1
  <2>3. QED BY <1>1, <2>1, <2>2 DEF ProducedIsCounted
<1>7. QED BY <1>5, <1>6, SendingCounts DEF CountInv

\* What is put in the outbox for a dispatched order is sent.
LEMMA SendingFresh ==
  ASSUME ProtocolInv, UNCHANGED mes, UNCHANGED toMes,
         NEW kinds \in Seq(Kinds), NEW w \in Orders, Committed(w), Enqueue(kinds, w)
  PROVE  Sends(Fresh(kinds, w))
<1>1. issued \in Nat /\ Len(kinds) \in Nat
  BY StationState
<1>2. \A m, n \in Fresh(kinds, w) : m.event = n.event => m = n
  BY <1>1 DEF Fresh
<1>3. \A m \in Fresh(kinds, w) : m.event \in Nat /\ m.event > issued /\ m.order = w
  BY <1>1 DEF Fresh
<1>4. Sent' = Sent \union Fresh(kinds, w)
  BY EnqueueSends
<1>5. QED BY <1>2, <1>3, <1>4 DEF Sends

\* A step that leaves the outbox and the broker's reports alone sends nothing.
LEMMA SendingNothing ==
  ASSUME UNCHANGED mes, UNCHANGED toMes, UNCHANGED outbox
  PROVE  Sends({})
BY DEF Sends, Sent

\* What the station holds or is sent has been dispatched.
LEMMA StationCommitted ==
  ASSUME ProtocolInv
  PROVE  /\ work_order.order \in Orders => Committed(work_order.order)
         /\ Arrives /\ Message # Empty => Message \in Orders /\ Committed(Message)
<1>1. work_order.order \in Orders => Committed(work_order.order)
  BY DEF ProtocolInv, PublishedIsCommitted, Committed
<1>2. ASSUME Arrives, Message # Empty PROVE Message \in Orders /\ Committed(Message)
  BY <1>2, FirstMessage DEF ProtocolInv, PublishedIsCommitted, Committed
<1>3. QED BY <1>1, <1>2

\* No message makes a product: the counts are kept, and an order begins at none.
LEMMA MessageCounts ==
  ASSUME ProtocolInv, CountInv, MessageStep, UNCHANGED mes
  PROVE  CountInv'
<1>1. ASSUME NEW kind \in Kinds, kind # "RESULT", NEW w \in Orders
      PROVE  /\ <<kind>> \in Seq(Kinds)
             /\ \A m \in Fresh(<<kind>>, w) : m.kind # "RESULT"
  BY <1>1 DEF Fresh
<1>2. CASE ClearOrder
  <2> DEFINE o == work_order.order
  <2>1. o \in Orders /\ Committed(o) /\ "CANCELLED" \in Kinds /\ UNCHANGED <<toMes, produced>>
    BY <1>2, StationState, StationCommitted DEF ClearOrder, Kinds
  <2>2. /\ work_order'.order = work_order.order /\ work_order'.done = work_order.done
        /\ work_order'.status = "CANCELLED"
    BY <1>2, StationState DEF ClearOrder
  <2>3. Enqueue(<<"CANCELLED">>, o)
    BY <1>2 DEF ClearOrder
  <2>4. Sends(Fresh(<<"CANCELLED">>, o))
    BY <1>1, <2>1, <2>3, SendingFresh
  <2> HIDE DEF o
  <2>5. QED BY <1>1, <2>1, <2>2, <2>4, NothingMade
<1>3. CASE CutClearOrder
  <2>1. /\ work_order'.order = work_order.order /\ work_order'.done = work_order.done
        /\ work_order'.status = "CANCELLED"
    BY <1>3, StationState DEF CutClearOrder
  <2>2. Sends({}) /\ UNCHANGED produced
    BY <1>3, SendingNothing DEF CutClearOrder
  <2>3. QED BY <2>1, <2>2, NothingMade
<1>4. CASE IgnoreMessage
  <2>1. Sends({}) /\ UNCHANGED <<produced, work_order>>
    BY <1>4, SendingNothing DEF IgnoreMessage, station
  <2>2. QED BY <2>1, NothingMade
<1>5. CASE RefuseBusy
  <2>1. /\ Message \in Orders /\ Committed(Message) /\ "BUSY" \in Kinds
        /\ UNCHANGED <<toMes, produced, work_order>> /\ Enqueue(<<"BUSY">>, Message)
    BY <1>5, StationCommitted DEF RefuseBusy, Kinds
  <2>2. Sends(Fresh(<<"BUSY">>, Message))
    BY <1>1, <2>1, SendingFresh
  <2>3. QED BY <1>1, <2>1, <2>2, NothingMade
<1>6. CASE RefuseInvalid
  <2>1. /\ Message \in Orders /\ Committed(Message) /\ "REJECTED" \in Kinds
        /\ UNCHANGED <<toMes, produced, work_order>> /\ Enqueue(<<"REJECTED">>, Message)
    BY <1>6, StationCommitted DEF RefuseInvalid, Kinds
  <2>2. Sends(Fresh(<<"REJECTED">>, Message))
    BY <1>1, <2>1, SendingFresh
  <2>3. QED BY <1>1, <2>1, <2>2, NothingMade
<1>7. CASE AcceptOrder
  <2>1. /\ Message \in Orders /\ Committed(Message) /\ "ACCEPTED" \in Kinds
        /\ UNCHANGED <<toMes, produced>> /\ Enqueue(<<"ACCEPTED">>, Message)
        /\ work_order'.done = 0 /\ work_order'.status = "IN_PROGRESS"
    BY <1>7, StationCommitted DEF AcceptOrder, Acceptable, Kinds
  <2>2. Sends(Fresh(<<"ACCEPTED">>, Message))
    BY <1>1, <2>1, SendingFresh
  <2>3. QED BY <1>1, <2>1, <2>2, NothingMade
<1>8. CASE CutAcceptOrder
  <2>1. Sends({}) /\ UNCHANGED produced /\ work_order'.done = 0 /\ work_order'.status = "IN_PROGRESS"
    BY <1>8, SendingNothing DEF CutAcceptOrder
  <2>2. QED BY <2>1, NothingMade
<1>9. QED BY <1>2, <1>3, <1>4, <1>5, <1>6, <1>7, <1>8 DEF MessageStep

\* A completed product is reported by its result, and then by the completion of the
\* order if it is the last.
LEMMA ReportsOfProduct ==
  /\ ProductReports \in Seq(Kinds) /\ Len(ProductReports) \in {1, 2} /\ ProductReports[1] = "RESULT"
  /\ \A i \in 1..Len(ProductReports) : ProductReports[i] = "RESULT" => i = 1
<1>1. "RESULT" \in Kinds /\ "COMPLETED" \in Kinds
  BY DEF Kinds
<1>2. /\ <<"RESULT", "COMPLETED">> \in Seq(Kinds) /\ <<"RESULT">> \in Seq(Kinds)
      /\ Len(<<"RESULT", "COMPLETED">>) = 2 /\ Len(<<"RESULT">>) = 1
      /\ <<"RESULT", "COMPLETED">>[1] = "RESULT" /\ <<"RESULT", "COMPLETED">>[2] = "COMPLETED"
      /\ <<"RESULT">>[1] = "RESULT"
  BY <1>1
<1>3. CASE Fulfilled
  BY <1>2, <1>3 DEF ProductReports
<1>4. CASE ~Fulfilled
  BY <1>2, <1>4 DEF ProductReports
<1>5. QED BY <1>3, <1>4

\* A completed product's reports begin with its result and hold no other, however
\* many of them get into the outbox.
LEMMA OneResult ==
  ASSUME ProtocolInv, NEW o \in Orders, NEW n \in 1..Len(ProductReports)
  PROVE  /\ ProductReports \in Seq(Kinds) /\ SubSeq(ProductReports, 1, n) \in Seq(Kinds)
         /\ {m.event : m \in ResultsIn(Fresh(SubSeq(ProductReports, 1, n), o), o)} = {issued + 1}
         /\ \A m \in Fresh(SubSeq(ProductReports, 1, n), o) : m.order = o
<1> DEFINE p == ProductReports
           k == SubSeq(p, 1, n)
<1>1. issued \in Nat
  BY StationState
<1>2. /\ p \in Seq(Kinds) /\ Len(p) \in {1, 2} /\ p[1] = "RESULT"
      /\ \A i \in 1..Len(p) : p[i] = "RESULT" => i = 1
  BY ReportsOfProduct
<1> HIDE DEF p
<1>3. n \in 1..Len(p)
  BY DEF p
<1>4. k \in Seq(Kinds) /\ Len(k) = n /\ \A i \in 1..n : k[i] = p[i]
  BY <1>2, <1>3
<1> HIDE DEF k
<1>5. \A m \in Fresh(k, o) : m.order = o
  BY DEF Fresh
<1>6. \A m \in ResultsIn(Fresh(k, o), o) : m.event = issued + 1
  <2>1. ASSUME NEW i \in 1..Len(k), k[i] = "RESULT" PROVE i = 1
    BY <1>2, <1>3, <1>4, <2>1
  <2>2. QED BY <2>1 DEF Fresh, ResultsIn
<1>7. [event |-> issued + 1, kind |-> k[1], order |-> o] \in ResultsIn(Fresh(k, o), o)
  <2>1. k[1] = "RESULT" /\ 1 \in 1..Len(k)
    BY <1>2, <1>3, <1>4
  <2>2. QED BY <2>1 DEF Fresh, ResultsIn
<1>8. {m.event : m \in ResultsIn(Fresh(k, o), o)} = {issued + 1}
  BY <1>6, <1>7
<1>9. QED BY <1>2, <1>4, <1>5, <1>8 DEF p, k

\* A completed product is made and reported once, also if the station dies before it
\* has saved its order.
LEMMA ProductCounts ==
  ASSUME ProtocolInv, CountInv, ProductCompleted \/ CutProductCompleted, UNCHANGED mes
  PROVE  CountInv'
<1> DEFINE o == work_order.order
<1>1. InProgress /\ Produce /\ UNCHANGED toMes
  BY DEF ProductCompleted, CutProductCompleted, broker
<1>2. o \in Orders /\ Committed(o)
  BY <1>1, StationState, StationCommitted
<1>3. \E n \in 1..Len(ProductReports) : Enqueue(SubSeq(ProductReports, 1, n), o)
  <2>1. Len(ProductReports) \in 1..Len(ProductReports)
        /\ SubSeq(ProductReports, 1, Len(ProductReports)) = ProductReports
    <3> DEFINE p == ProductReports
    <3>1. p \in Seq(Kinds) /\ Len(p) \in {1, 2}
      BY ReportsOfProduct
    <3> HIDE DEF p
    <3>2. Len(p) \in 1..Len(p) /\ SubSeq(p, 1, Len(p)) = p
      BY <3>1
    <3>3. QED BY <3>2 DEF p
  <2>2. CASE ProductCompleted
    BY <2>1, <2>2 DEF ProductCompleted
  <2>3. CASE CutProductCompleted
    BY <2>3 DEF CutProductCompleted
  <2>4. QED BY <2>2, <2>3
<1>4. PICK n \in 1..Len(ProductReports) : Enqueue(SubSeq(ProductReports, 1, n), o)
  BY <1>3
<1> DEFINE fresh == Fresh(SubSeq(ProductReports, 1, n), o)
<1>5. /\ {m.event : m \in ResultsIn(fresh, o)} = {issued + 1}
      /\ \A m \in fresh : m.order = o
      /\ SubSeq(ProductReports, 1, n) \in Seq(Kinds)
  BY <1>2, OneResult
<1>6. Sends(fresh)
  BY <1>1, <1>2, <1>4, <1>5, SendingFresh
<1>7. /\ work_order'.order = o
      /\ \/ UNCHANGED work_order
         \/ work_order'.done = work_order.done + 1
            /\ (work_order'.status = "COMPLETED" => work_order'.done >= Quantity[o])
  <2>1. CASE ProductCompleted
    <3> DEFINE s == IF Fulfilled THEN "COMPLETED" ELSE work_order.status
               d == work_order.done + 1
    <3>1. work_order' = [work_order EXCEPT !.done = d, !.status = s]
      BY <2>1 DEF ProductCompleted
    <3>2. s = "COMPLETED" => d >= Quantity[o]
      BY <1>1 DEF Fulfilled, InProgress
    <3> HIDE DEF s, d
    <3>3. work_order'.order = o /\ work_order'.done = d /\ work_order'.status = s
      BY <3>1, StationState
    <3>4. QED BY <3>2, <3>3 DEF d
  <2>2. CASE CutProductCompleted
    BY <2>2 DEF CutProductCompleted
  <2>3. QED BY <2>1, <2>2
<1> HIDE DEF fresh
<1>8. QED BY <1>1, <1>2, <1>5, <1>6, <1>7, OneMade

\* Sending a report moves it to the broker: all that was sent still is.
LEMMA SendCounts ==
  ASSUME ProtocolInv, CountInv, SendReport \/ SendUnanswered, UNCHANGED mes
  PROVE  CountInv'
<1> DEFINE m == Head(outbox)
<1>1. /\ outbox # <<>> /\ toMes' = Append(toMes, m)
      /\ outbox' = Tail(outbox) \/ outbox' = outbox
      /\ UNCHANGED <<work_order, produced>>
  BY DEF SendReport, SendUnanswered, station
<1>2. outbox \in Seq(Reports) /\ toMes \in Seq(Reports)
  BY StationState
<1>3. m \in Reports /\ ReportsIn(outbox) = {m} \union ReportsIn(Tail(outbox))
  BY <1>1, <1>2, TailReports
<1> HIDE DEF m
<1>4. /\ ReportsIn(toMes') = ReportsIn(toMes) \union {m}
      /\ toMes # <<>> => toMes' # <<>> /\ Head(toMes') = Head(toMes)
  BY <1>1, <1>2, <1>3, AppendReports
<1>5. Sent' = Sent \union {}
  <2>1. CASE outbox' = Tail(outbox)
    BY <1>3, <1>4, <2>1 DEF Sent
  <2>2. CASE outbox' = outbox
    BY <1>3, <1>4, <2>2 DEF Sent
  <2>3. QED BY <1>1, <2>1, <2>2
<1>6. Sends({})
  BY <1>4, <1>5 DEF Sends
<1>7. QED BY <1>1, <1>6, NothingMade

\* Every step of the station keeps the counts.
LEMMA MesLinkCounts ==
  ASSUME ProtocolInv, CountInv, MesLinkStep, UNCHANGED mes
  PROVE  CountInv'
<1>1. CASE Resubscribe
  <2>1. Sends({}) /\ UNCHANGED <<produced, work_order>>
    BY <1>1, SendingNothing DEF Resubscribe, station
  <2>2. QED BY <2>1, NothingMade
<1>2. QED BY <1>1, MessageCounts, ProductCounts, SendCounts DEF MesLinkStep
-----------------------------------------------------------------------------
(* The invariant                                                           *)

\* The counts are right when both ends have started: there is nothing to count.
LEMMA InitCounts == Init => CountInv
<1> SUFFICES ASSUME Init PROVE CountInv
  OBVIOUS
<1> USE DEF Init, BrokerInit, WorkOrdersInit, MesLinkInit
<1>1. Sent = {} /\ \A w \in Orders : Untold(w) = {}
  BY DEF Sent, ReportsIn, Untold, ResultsOf
<1>2. \A w \in Orders : RowCounted(w, NoRow) /\ orders[w] = NoRow /\ produced[w] = 0
  BY DEF RowCounted, NoRow, IsActive
<1>3. TransactionsCounted
  <2>1. \A w \in Orders : NoTransaction.rows[w] = NoRow
    BY DEF NoTransaction
  <2>2. NoTransaction.event = 0
    BY DEF NoTransaction
  <2>3. \A t \in Threads : tx[t] = NoTransaction
    OBVIOUS
  <2>4. TransactionCounted(NoTransaction)
    BY <1>2, <2>1, <2>2 DEF TransactionCounted
  <2>5. QED BY <2>3, <2>4 DEF TransactionsCounted
<1>4. CountedIsProduced
  <2>1. ASSUME NEW w \in Orders PROVE orders[w].done + Cardinality(Untold(w)) <= produced[w]
    <3>1. Cardinality(Untold(w)) = 0
      BY <1>1, FS_EmptySet
    <3>2. orders[w].done = 0 /\ produced[w] = 0
      BY <1>2 DEF NoRow
    <3>3. QED BY <3>1, <3>2
  <2>2. QED BY <2>1 DEF CountedIsProduced
<1>5. ProducedIsCounted
  BY DEF ProducedIsCounted, NoWorkOrder, Empty, Orders
<1>6. QED BY <1>1, <1>2, <1>3, <1>4, <1>5 DEF CountInv, RowsCounted, SentOnce, SentCommitted

\* Every step of the protocol, and every stuttering step, keeps the counts.
LEMMA NextCounts == ProtocolInv /\ CountInv /\ [Next]_vars => CountInv'
<1> SUFFICES ASSUME ProtocolInv, CountInv, [Next]_vars PROVE CountInv'
  OBVIOUS
<1>1. CASE WorkOrdersStep /\ UNCHANGED station
  BY <1>1, WorkOrdersCounts
<1>2. CASE MesLinkStep /\ UNCHANGED mes
  BY <1>2, MesLinkCounts
<1>3. CASE UNCHANGED vars
  <2>1. Sends({}) /\ UNCHANGED <<produced, work_order>>
    BY <1>3, SendingNothing DEF vars, broker, mes, station
  <2>2. QED BY <2>1, NothingMade
<1>4. QED BY <1>1, <1>2, <1>3 DEF Next

\* Both invariants hold in every reachable state.
LEMMA CountsHold == Spec => [](ProtocolInv /\ CountInv)
<1>1. Init => ProtocolInv /\ CountInv
  BY InitInv, InitCounts
<1>2. (ProtocolInv /\ CountInv) /\ [Next]_vars => (ProtocolInv /\ CountInv)'
  BY NextInv, NextCounts
<1>3. QED BY <1>1, <1>2, PTL DEF Spec
-----------------------------------------------------------------------------
(* What follows from it                                                    *)

\* However often a result is sent, delivered or handled, and whatever transactions
\* run beside it, the MES never counts a product that was not made, and an order is
\* complete just when its count is its quantity (WorkOrder.countResult, the event
\* ids of onResult, @Version).
THEOREM NeverCountedTwice == Spec => []CountIsProduced
<1>1. ProtocolInv /\ CountInv => CountIsProduced
  <2> SUFFICES ASSUME ProtocolInv, CountInv, NEW w \in Orders
               PROVE  /\ orders[w].done <= produced[w]
                      /\ orders[w].status = "COMPLETED" => orders[w].done = Quantity[w]
                      /\ IsActive(orders[w]) => orders[w].done < Quantity[w]
    BY DEF CountIsProduced
  <2>1. RowCounted(w, orders[w]) /\ orders[w].done + Cardinality(Untold(w)) <= produced[w]
    BY DEF CountInv, RowsCounted, CountedIsProduced
  <2>2. orders[w].done \in Nat /\ produced[w] \in Nat /\ Cardinality(Untold(w)) \in Nat
    BY UntoldFinite DEF ProtocolInv, ProtocolTypeOK, Rows
  <2>3. QED BY <2>1, <2>2 DEF RowCounted
<1>2. QED BY <1>1, CountsHold, PTL

\* Once the outbox of mes_link.py and the broker are empty, and no acknowledged
\* report was rolled back, the MES does not wait for an order the station has done.
THEOREM ToldIsDone == Spec => []StationDoneMesDone
<1>1. ProtocolInv /\ CountInv => StationDoneMesDone
  <2> SUFFICES ASSUME ProtocolInv, CountInv, work_order.status = "COMPLETED", Pending = {}, lost = {},
                      NEW w, w = work_order.order, IsActive(orders[w])
               PROVE  FALSE
    BY DEF StationDoneMesDone
  <2>1. w \in Orders
    BY DEF ProtocolInv, StationHasOrder
  <2>2. Untold(w) = {}
    <3>1. Sent = {}
      BY DEF Sent, ReportsIn, Pending, Events
    <3>2. QED BY <3>1 DEF Untold, ResultsOf
  <2>3. orders[w].done + 0 >= work_order.done /\ work_order.done >= Quantity[w]
    BY <2>1, <2>2, FS_EmptySet DEF CountInv, ProducedIsCounted
  <2>4. orders[w].done < Quantity[w]
    BY <2>1 DEF CountInv, RowsCounted, RowCounted
  <2>5. orders[w].done \in Nat /\ work_order.done \in Nat /\ Quantity[w] \in Nat
    BY <2>1, BrokerAssumption DEF ProtocolInv, ProtocolTypeOK, Rows
  <2>6. QED BY <2>3, <2>4, <2>5
<1>2. QED BY <1>1, CountsHold, PTL
=============================================================================
