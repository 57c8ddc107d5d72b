----------------------------- MODULE WorkOrders -----------------------------
(***************************************************************************)
(* The MES: WorkOrderService, WorkOrder, WorkOrderPublisher, and the MQTT  *)
(* thread that feeds them the station's reports.                           *)
(*                                                                         *)
(* A REST request or a report is one transaction on an H2 database with    *)
(* its default isolation, READ COMMITTED: each query sees what others have *)
(* committed by then, over what the transaction itself has written.  A     *)
(* transaction is therefore one step per query and one for the commit,     *)
(* which fails if a row it changed is no longer the row it read (@Version) *)
(* or the number it took is in use (primary key).  What runs after the     *)
(* commit is a new transaction that reads, and a publication.              *)
(***************************************************************************)
EXTENDS Broker

CONSTANTS
  Clients,      \* REST request threads
  Mqtt          \* the thread of the MQTT callbacks

ASSUME ThreadAssumption == Mqtt \notin Clients

VARIABLES
  orders,       \* the work_order table, by number
  seen,         \* event ids in station_event and product_result
  tx,           \* the transaction of each thread
  lost          \* history: reports acknowledged to the broker but rolled back

mes == <<orders, seen, tx, lost>>

Threads == Clients \union {Mqtt}
NoRow == [status |-> "NONE", done |-> 0]
Statuses == {"NONE", "QUEUED", "RELEASED", "IN_PROGRESS", "COMPLETED", "CANCELLED", "REJECTED"}
Rows == [status : Statuses, done : Nat]

IsActive(row) == row.status \in {"RELEASED", "IN_PROGRESS"}
IsOpen(row) == row.status = "QUEUED" \/ IsActive(row)

\* A transaction: the statement it is at, the lines a release has left, the
\* status it will insert a row with (its busy), the rows it wrote and the
\* committed rows they are based on, the report it handles (0: none), the syncs
\* to run after its commit, and what a sync has read.
Places == {"idle", "active?", "queued?", "insert", "promote", "first", "commit", "sync", "publish", "return"}
Transactions ==
  [at : Places, lines : Nat, initial : {"QUEUED", "RELEASED"},
   rows : [Orders -> Rows], base : [Orders -> Rows],
   event : Nat, syncs : Nat, read : Orders \union {Empty}]

NoTransaction ==
  [at |-> "idle", lines |-> 0, initial |-> "RELEASED",
   rows |-> [w \in Orders |-> NoRow], base |-> [w \in Orders |-> NoRow],
   event |-> 0, syncs |-> 0, read |-> Empty]

WorkOrdersInit ==
  /\ orders = [w \in Orders |-> NoRow]
  /\ seen = {} /\ lost = {}
  /\ tx = [t \in Threads |-> NoTransaction]
-----------------------------------------------------------------------------
(* WorkOrder: what each method makes of a row                              *)

FaultyAccept(row) == IF row.status = "RELEASED" THEN [row EXCEPT !.status = "ACCEPTED"] ELSE row

Accept(row) == IF row.status = "RELEASED" THEN [row EXCEPT !.status = "IN_PROGRESS"] ELSE row

Reject(row) == IF row.status = "RELEASED" THEN [row EXCEPT !.status = "REJECTED"] ELSE row

Cancel(row) == IF IsOpen(row) THEN [row EXCEPT !.status = "CANCELLED"] ELSE row

FaultyCountResult(w, row) ==
  IF row.status # "IN_PROGRESS" THEN row
  ELSE [status |-> IF row.done + 1 >= Quantity[w] THEN "COMPLETED" ELSE "IN_PROGRESS",
        done |-> row.done + 1]

\* A result starts the order too, if the ACCEPTED is late.
CountResult(w, row) ==
  IF ~IsActive(row) THEN row
  ELSE [status |-> IF row.done + 1 >= Quantity[w] THEN "COMPLETED" ELSE "IN_PROGRESS",
        done |-> row.done + 1]
-----------------------------------------------------------------------------
(* Queries and writes inside a transaction                                 *)

\* The table as transaction x sees it now.
View(x) == [w \in Orders |-> IF x.rows[w] # NoRow THEN x.rows[w] ELSE orders[w]]

SomeActive(x) == \E w \in Orders : IsActive(View(x)[w])
Queued(x) == {w \in Orders : View(x)[w].status = "QUEUED"}

\* x with row w written over the committed one old.
WithRow(x, w, row, old) == [x EXCEPT !.rows[w] = row, !.base[w] = old]

\* x after writing row w; a row equal to the one read is not dirty.
Written(x, w, row) ==
  IF row = View(x)[w] THEN x
  ELSE WithRow(x, w, row, IF x.rows[w] = NoRow THEN orders[w] ELSE x.base[w])

Goto(t, place) == tx' = [tx EXCEPT ![t].at = place]

\* Where a release or another transaction continues once it has promoted.
AfterPromotion(x) == IF x.lines > 0 THEN "active?" ELSE "commit"
-----------------------------------------------------------------------------
(* release, releaseAll                                                     *)

\* A request for n lines; release() is the one with a single line.
Release(c, n) ==
  /\ tx[c].at = "idle" /\ spent + n <= MaxOrders
  /\ spent' = spent + n
  /\ tx' = [tx EXCEPT ![c] = [NoTransaction EXCEPT !.at = "active?", !.lines = n]]
  /\ UNCHANGED <<orders, seen, lost, invalid, retained, toStation, toMes, connected>>

WillInsert(c, status) == tx' = [tx EXCEPT ![c].initial = status, ![c].at = "insert"]

\* busy: is one active ...
LookForActive(c) ==
  /\ tx[c].at = "active?"
  /\ IF SomeActive(tx[c]) THEN WillInsert(c, "QUEUED") ELSE Goto(c, "queued?")
  /\ UNCHANGED <<orders, seen, lost, broker>>

\* ... or waiting?
LookForQueued(c) ==
  /\ tx[c].at = "queued?"
  /\ WillInsert(c, IF Queued(tx[c]) = {} THEN "RELEASED" ELSE "QUEUED")
  /\ UNCHANGED <<orders, seen, lost, broker>>

NextNumber(x) == Cardinality({w \in Orders : View(x)[w] # NoRow}) + 1

\* The new row has the next number; an insertion is based on there being no such row.
Insert(c) ==
  /\ tx[c].at = "insert" /\ NextNumber(tx[c]) \in Orders
  /\ LET x == tx[c]
         row == [status |-> x.initial, done |-> 0]
     IN  tx' = [tx EXCEPT ![c] = [WithRow(x, NextNumber(x), row, NoRow) EXCEPT
                                    !.at = "promote", !.lines = x.lines - 1, !.syncs = x.syncs + 1]]
  /\ UNCHANGED <<orders, seen, lost, broker>>
-----------------------------------------------------------------------------
(* promoteNext                                                             *)

\* Nothing to do while one is active.
Promote(t) ==
  /\ tx[t].at = "promote"
  /\ Goto(t, IF SomeActive(tx[t]) THEN AfterPromotion(tx[t]) ELSE "first")
  /\ UNCHANGED <<orders, seen, lost, broker>>

Dispatched(x, w) == Written(x, w, [View(x)[w] EXCEPT !.status = "RELEASED"])

FaultyDispatch(t) ==
  /\ tx[t].at = "first"
  /\ LET x == tx[t]
     IN  \/ /\ Queued(x) = {}
            /\ Goto(t, AfterPromotion(x))
         \/ \E w \in Queued(x) :
              /\ \A v \in Queued(x) : v <= w
              /\ tx' = [tx EXCEPT ![t] = [Dispatched(x, w) EXCEPT !.at = AfterPromotion(x)]]
  /\ UNCHANGED <<orders, seen, lost, broker>>

HastyDispatch(t) ==
  /\ tx[t].at = "first"
  /\ LET x == tx[t]
     IN  \/ /\ Queued(x) = {}
            /\ Goto(t, AfterPromotion(x)) /\ UNCHANGED broker
         \/ \E w \in Queued(x) :
              /\ \A v \in Queued(x) : w <= v
              /\ tx' = [tx EXCEPT ![t] = [Dispatched(x, w) EXCEPT !.at = AfterPromotion(x)]]
              /\ Distribute(w) /\ UNCHANGED <<invalid, toMes, connected, spent>>
  /\ UNCHANGED <<orders, seen, lost>>

\* The lowest number waiting, if any, is dispatched.
Dispatch(t) ==
  /\ tx[t].at = "first"
  /\ LET x == tx[t]
     IN  \/ /\ Queued(x) = {}
            /\ Goto(t, AfterPromotion(x))
         \/ \E w \in Queued(x) :
              /\ \A v \in Queued(x) : w <= v
              /\ tx' = [tx EXCEPT ![t] = [Dispatched(x, w) EXCEPT !.at = AfterPromotion(x)]]
  /\ UNCHANGED <<orders, seen, lost, broker>>
-----------------------------------------------------------------------------
(* cancel                                                                  *)

\* Cancelling what is no longer open is refused and changes nothing.
CancelOrder(c, w) ==
  /\ tx[c].at = "idle" /\ IsOpen(orders[w])
  /\ tx' = [tx EXCEPT ![c] = [Written(NoTransaction, w, Cancel(orders[w])) EXCEPT
              !.at = IF IsActive(orders[w]) THEN "promote" ELSE "commit", !.syncs = 1]]
  /\ UNCHANGED <<orders, seen, lost, broker>>
-----------------------------------------------------------------------------
(* onAck, onResult                                                         *)

Report == Head(toMes)
Delivers == connected /\ tx[Mqtt].at = "idle" /\ toMes # <<>>

\* The transaction for the report, with the order's row as the report leaves it.
Handle(row, place, syncs) ==
  /\ tx' = [tx EXCEPT ![Mqtt] =
              [Written([NoTransaction EXCEPT !.event = Report.event], Report.order, row)
               EXCEPT !.at = place, !.syncs = syncs]]
  /\ UNCHANGED <<orders, seen, lost, broker>>

\* An event id already recorded: nothing is done but to acknowledge it.
FaultyIsDuplicate(m) == FALSE
IsDuplicate(m) == m.event \in seen

SkipDuplicate ==
  /\ Delivers /\ IsDuplicate(Report)
  /\ tx' = [tx EXCEPT ![Mqtt] = [NoTransaction EXCEPT !.at = "return", !.event = Report.event]]
  /\ UNCHANGED <<orders, seen, lost, broker>>

OnAccepted ==
  /\ Delivers /\ ~IsDuplicate(Report) /\ Report.kind = "ACCEPTED"
  /\ Handle(Accept(orders[Report.order]), "commit", 0)

\* Any refusal but BUSY goes on to the next order.
OnRejected ==
  /\ Delivers /\ ~IsDuplicate(Report) /\ Report.kind \in {"REJECTED", "BUSY"}
  /\ Handle(Reject(orders[Report.order]), IF Report.kind = "BUSY" THEN "commit" ELSE "promote", 1)

OnCancelled ==
  /\ Delivers /\ ~IsDuplicate(Report) /\ Report.kind = "CANCELLED"
  /\ Handle(Cancel(orders[Report.order]), "commit", 0)

OnCompleted ==
  /\ Delivers /\ ~IsDuplicate(Report) /\ Report.kind = "COMPLETED"
  /\ Handle(orders[Report.order], "commit", 0)

\* A result is recorded and counted; the one that completes the order promotes.
OnResult ==
  /\ Delivers /\ ~IsDuplicate(Report) /\ Report.kind = "RESULT"
  /\ LET row == orders[Report.order]
         counted == CountResult(Report.order, row)
     IN  IF counted # row /\ counted.status = "COMPLETED"
         THEN Handle(counted, "promote", 1)
         ELSE Handle(counted, "commit", 0)
-----------------------------------------------------------------------------
(* Commit and what follows it                                              *)

FaultyUnchangedSinceRead(x) == TRUE
UnchangedSinceRead(x) == \A w \in Orders : x.rows[w] # NoRow => orders[w] = x.base[w]

\* The next place of a thread that is done with its transaction.
Done(t) == IF t = Mqtt THEN [NoTransaction EXCEPT !.at = "return", !.event = tx[t].event]
           ELSE NoTransaction

Commit(t) ==
  /\ tx[t].at = "commit" /\ UnchangedSinceRead(tx[t])
  /\ orders' = View(tx[t])
  /\ seen' = seen \union ({tx[t].event} \ {0})
  /\ tx' = [tx EXCEPT ![t] =
              IF tx[t].syncs = 0 THEN Done(t)
              ELSE [NoTransaction EXCEPT !.at = "sync", !.event = tx[t].event, !.syncs = tx[t].syncs]]
  /\ UNCHANGED <<lost, broker>>

\* The exception rolls back; the request fails, the MQTT callback logs it.
RollBack(t) ==
  /\ tx[t].at = "commit" /\ ~UnchangedSinceRead(tx[t])
  /\ tx' = [tx EXCEPT ![t] = Done(t)]
  /\ UNCHANGED <<orders, seen, lost, broker>>

\* syncStation in its own transaction: reads the active order, or that there is none ...
ReadActive(t) ==
  /\ tx[t].at = "sync"
  /\ \E w \in Orders \union {Empty} :
       /\ IF w = Empty THEN ~SomeActive(NoTransaction) ELSE IsActive(orders[w])
       /\ tx' = [tx EXCEPT ![t].read = w, ![t].at = "publish"]
  /\ UNCHANGED <<orders, seen, lost, broker>>

\* ... and publishes it, which does nothing while there is no connection.
Publish(t) ==
  /\ tx[t].at = "publish"
  /\ IF connected THEN Distribute(tx[t].read) ELSE UNCHANGED <<retained, toStation>>
  /\ tx' = [tx EXCEPT ![t] = IF tx[t].syncs = 1 THEN Done(t)
                             ELSE [tx[t] EXCEPT !.at = "sync", !.syncs = tx[t].syncs - 1, !.read = Empty]]
  /\ UNCHANGED <<orders, seen, lost, invalid, toMes, connected, spent>>

\* messageArrived returns, whatever happened, and the report is acknowledged,
\* unless the connection is gone: then the broker will deliver it again.
Return ==
  /\ tx[Mqtt].at = "return"
  /\ LET acknowledged == connected /\ tx[Mqtt].event # 0
     IN  /\ toMes' = IF acknowledged THEN Tail(toMes) ELSE toMes
         /\ lost' = IF acknowledged /\ tx[Mqtt].event \notin seen
                    THEN lost \union {Head(toMes)} ELSE lost
  /\ tx' = [tx EXCEPT ![Mqtt] = NoTransaction]
  /\ UNCHANGED <<orders, seen, invalid, retained, toStation, connected, spent>>
-----------------------------------------------------------------------------
(* The MES's connection                                                    *)

Disconnect ==
  /\ connected /\ Fault
  /\ connected' = FALSE
  /\ UNCHANGED <<mes, invalid, retained, toStation, toMes>>

\* A crash: open transactions roll back, syncs that were due are not run.
MesCrash ==
  /\ Fault
  /\ tx' = [t \in Threads |-> NoTransaction]
  /\ connected' = FALSE
  /\ UNCHANGED <<orders, seen, lost, invalid, retained, toStation, toMes>>

\* connectComplete runs syncAll before any report is delivered.
Reconnect ==
  /\ ~connected /\ tx[Mqtt].at = "idle"
  /\ connected' = TRUE
  /\ tx' = [tx EXCEPT ![Mqtt] = [NoTransaction EXCEPT !.at = "sync", !.syncs = 1]]
  /\ UNCHANGED <<orders, seen, lost, invalid, retained, toStation, toMes, spent>>
-----------------------------------------------------------------------------
RestStep ==
  \E c \in Clients :
    \/ \E n \in 1..MaxOrders : Release(c, n)
    \/ \E w \in Orders : CancelOrder(c, w)
    \/ LookForActive(c) \/ LookForQueued(c) \/ Insert(c)

ReportStep ==
  \/ SkipDuplicate
  \/ OnAccepted \/ OnRejected \/ OnCancelled \/ OnCompleted \/ OnResult
  \/ Return

TransactionStep ==
  \E t \in Threads :
    Promote(t) \/ Dispatch(t) \/ Commit(t) \/ RollBack(t) \/ ReadActive(t) \/ Publish(t)

ConnectionStep == Disconnect \/ MesCrash \/ Reconnect

WorkOrdersStep == RestStep \/ ReportStep \/ TransactionStep \/ ConnectionStep
=============================================================================
