----------------------------- MODULE MesProtocol -----------------------------
(***************************************************************************)
(* The MES and one station over the broker, and what the two of them       *)
(* together promise about work orders.                                     *)
(***************************************************************************)
EXTENDS WorkOrders, MesLink

vars == <<broker, mes, station>>

Init == BrokerInit /\ WorkOrdersInit /\ MesLinkInit

Next ==
  \/ WorkOrdersStep /\ UNCHANGED station
  \/ MesLinkStep /\ UNCHANGED mes

Spec == Init /\ [][Next]_vars
-----------------------------------------------------------------------------
\* The types of both sides' variables.
ProtocolTypeOK ==
  /\ BrokerTypeOK
  /\ orders \in [Orders -> Rows]
  /\ seen \subseteq 1..issued
  /\ lost \subseteq Reports
  /\ work_order \in [order : Orders \union {Empty}, done : Nat,
                     status : {"NONE", "IN_PROGRESS", "COMPLETED", "CANCELLED"}]
  /\ outbox \in Seq(Reports)
  /\ issued \in Nat /\ produced \in [Orders -> Nat]
  /\ tx \in [Threads -> Transactions]
  /\ \A t \in Clients : tx[t].event = 0

\* Orders are dispatched in the order of their numbers: while one is active, none
\* with a lower number is still waiting.
FirstComeFirst ==
  \A v, w \in Orders : v < w /\ IsActive(orders[w]) => orders[v].status # "QUEUED"

\* However many consoles release and cancel at once, an order that has waited goes out
\* in its turn: promoteNext leaves none with a lower number waiting behind it, although
\* it looked for the first one some time before the commit that sends it.
NextInLine ==
  [][\A w \in Orders :
       orders[w].status = "QUEUED" /\ orders'[w].status = "RELEASED" =>
         \A v \in Orders : v < w => orders'[v].status # "QUEUED"
    ]_vars

\* Only what a committed transaction dispatched ever reaches the broker or the
\* station (AfterCommit): no order is published, worked on or reported early.
PublishedIsCommitted ==
  \A w \in Orders :
    (\/ w = retained \/ w = work_order.order
     \/ \E i \in DOMAIN toStation : toStation[i] = w)
    => orders[w].status \notin {"NONE", "QUEUED"}

\* What is over stays as it was, and counts never go back: no transaction writes
\* over another's change (WorkOrder's @Version).
FinishedStaysFinished ==
  [][\A w \in Orders :
       /\ orders[w] # NoRow => orders'[w].done >= orders[w].done /\ orders'[w] # NoRow
       /\ orders[w].status \in {"COMPLETED", "CANCELLED", "REJECTED"} => orders'[w] = orders[w]
    ]_vars

\* The MES's count is one of products that were really made, whatever is sent or
\* handled twice, and an order is complete just when the count says so.
CountIsProduced ==
  \A w \in Orders :
    /\ orders[w].done <= produced[w]
    /\ orders[w].status = "COMPLETED" => orders[w].done = Quantity[w]
    /\ IsActive(orders[w]) => orders[w].done < Quantity[w]

\* A report is still in the outbox, at the broker, or recorded, or it is one the
\* MES acknowledged and rolled back.
Events(reports) == {reports[i].event : i \in DOMAIN reports}
Pending == Events(outbox) \union Events(toMes)
NoReportVanishes == 1..issued \subseteq Pending \union seen \union {m.event : m \in lost}

\* Once all is told, an order the station has completed is not waited for by the
\* MES, whatever was cut short, sent twice or never acknowledged on the way.
StationDoneMesDone ==
  work_order.status = "COMPLETED" /\ Pending = {} /\ lost = {} => ~IsActive(orders[work_order.order])

Book == INSTANCE OrderBook WITH book <- orders, made <- produced

\* Whatever threads are at it, each commit changes the list as a single request or
\* report would: new orders take the next numbers, or one order goes one step on its
\* way (accept, countResult, reject, cancel of WorkOrder) and lets the next one go.
ImplementsOrderBook == Book!Spec

\* A station has at most one order on it (WorkOrderStatus.active).
OneActive == \A v, w \in Orders : IsActive(orders[v]) /\ IsActive(orders[w]) => v = w

\* An order is refused only for its recipe: the MES offers the station no order
\* while it is at work on another.
RefusedOnlyIfInvalid == \A w \in Orders : orders[w].status = "REJECTED" => w \in invalid

\* No result is lost while its order waits for it.
ResultsReachTheOrder ==
  \A m \in lost : m.kind = "RESULT" => ~IsActive(orders[m.order])
=============================================================================
