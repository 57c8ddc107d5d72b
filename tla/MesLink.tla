------------------------------- MODULE MesLink -------------------------------
(***************************************************************************)
(* web/mes_link.py: the station's work order and its outbox.               *)
(*                                                                         *)
(* The work order is saved with every change before the lock is given up,  *)
(* so memory and database differ only inside a step; a crash there leaves  *)
(* the writes made so far, which is what the Cut... actions do.  The       *)
(* station is then started again and resubscribes.                         *)
(***************************************************************************)
EXTENDS Broker

VARIABLES
  work_order,   \* MesLink.work_order
  outbox,       \* the rows of the outbox not marked as sent, oldest first
  issued,       \* event ids given out so far
  produced      \* history: products completed for each order

station == <<work_order, outbox, issued, produced>>

NoWorkOrder == [order |-> Empty, done |-> 0, status |-> "NONE"]
InProgress == work_order.status = "IN_PROGRESS"

MesLinkInit ==
  /\ work_order = NoWorkOrder
  /\ outbox = <<>> /\ issued = 0
  /\ produced = [w \in Orders |-> 0]

\* Each report gets an event id of its own (uuid4).
Enqueue(kinds, w) ==
  /\ issued + Len(kinds) <= MaxReports
  /\ outbox' = outbox \o [i \in 1..Len(kinds) |-> [event |-> issued + i, kind |-> kinds[i], order |-> w]]
  /\ issued' = issued + Len(kinds)
-----------------------------------------------------------------------------
(* on_message                                                              *)

Message == Head(toStation)
Arrives == toStation # <<>>
Taken == toStation' = Tail(toStation)

\* An order: the current one again.
Redelivered(w) == w = work_order.order

\* A callback the station dies in has not acknowledged its message.
Restarted == toStation' = Resubscribed(toStation)

\* _clear: an order in progress is cancelled.
ClearOrder ==
  /\ Arrives /\ Message = Empty /\ InProgress
  /\ work_order' = [work_order EXCEPT !.status = "CANCELLED"]
  /\ Enqueue(<<"CANCELLED">>, work_order.order)
  /\ Taken /\ UNCHANGED <<produced, invalid, retained, toMes, connected, spent>>

CutClearOrder ==
  /\ Arrives /\ Message = Empty /\ InProgress /\ Fault
  /\ work_order' = [work_order EXCEPT !.status = "CANCELLED"]
  /\ Restarted /\ UNCHANGED <<outbox, issued, produced, invalid, retained, toMes, connected>>

\* Nothing in progress to clear, or the current order again (which only renews
\* the list of what comes next).
IgnoreMessage ==
  /\ Arrives
  /\ IF Message = Empty THEN ~InProgress ELSE Redelivered(Message)
  /\ Taken /\ UNCHANGED <<station, invalid, retained, toMes, connected, spent>>

RefuseBusy ==
  /\ Arrives /\ Message # Empty /\ ~Redelivered(Message) /\ InProgress
  /\ Enqueue(<<"BUSY">>, Message)
  /\ Taken /\ UNCHANGED <<work_order, produced, invalid, retained, toMes, connected, spent>>

RefuseInvalid ==
  /\ Arrives /\ Message # Empty /\ ~Redelivered(Message) /\ ~InProgress
  /\ Message \in invalid
  /\ Enqueue(<<"REJECTED">>, Message)
  /\ Taken /\ UNCHANGED <<work_order, produced, invalid, retained, toMes, connected, spent>>

Acceptable ==
  /\ Arrives /\ Message # Empty /\ ~Redelivered(Message) /\ ~InProgress
  /\ Message \notin invalid

AcceptOrder ==
  /\ Acceptable
  /\ work_order' = [order |-> Message, done |-> 0, status |-> "IN_PROGRESS"]
  /\ Enqueue(<<"ACCEPTED">>, Message)
  /\ Taken /\ UNCHANGED <<produced, invalid, retained, toMes, connected, spent>>

CutAcceptOrder ==
  /\ Acceptable /\ Fault
  /\ work_order' = [order |-> Message, done |-> 0, status |-> "IN_PROGRESS"]
  /\ Restarted /\ UNCHANGED <<outbox, issued, produced, invalid, retained, toMes, connected>>
-----------------------------------------------------------------------------
(* product_completed                                                       *)

Fulfilled == work_order.done + 1 >= Quantity[work_order.order]

\* What a completed product reports.
ProductReports == IF Fulfilled THEN <<"RESULT", "COMPLETED">> ELSE <<"RESULT">>

Produce == produced' = [produced EXCEPT ![work_order.order] = @ + 1]

ProductCompleted ==
  /\ InProgress
  /\ Enqueue(ProductReports, work_order.order)
  /\ work_order' = [work_order EXCEPT !.done = @ + 1,
                                      !.status = IF Fulfilled THEN "COMPLETED" ELSE @]
  /\ Produce /\ UNCHANGED broker

\* The reports are rows of the outbox before the order is saved.
CutProductCompleted ==
  /\ InProgress /\ Fault
  /\ \E n \in 1..Len(ProductReports) : Enqueue(SubSeq(ProductReports, 1, n), work_order.order)
  /\ Produce /\ Restarted
  /\ UNCHANGED <<work_order, invalid, retained, toMes, connected>>
-----------------------------------------------------------------------------
(* flush                                                                   *)

\* The oldest report is published, and marked once the broker has answered.
FaultySendReport ==
  /\ outbox # <<>>
  /\ outbox' = Tail(outbox)
  /\ \/ toMes' = Append(toMes, Head(outbox)) /\ UNCHANGED spent
     \/ Fault /\ UNCHANGED toMes
  /\ UNCHANGED <<work_order, issued, produced, invalid, retained, toStation, connected>>

SendReport ==
  /\ outbox # <<>>
  /\ outbox' = Tail(outbox)
  /\ toMes' = Append(toMes, Head(outbox))
  /\ UNCHANGED <<work_order, issued, produced, invalid, retained, toStation, connected, spent>>

\* The answer does not come in time, or the station dies first: the broker has
\* the report, the outbox still has it too.
SendUnanswered ==
  /\ outbox # <<>> /\ Fault
  /\ toMes' = Append(toMes, Head(outbox))
  /\ UNCHANGED <<station, invalid, retained, toStation, connected>>

\* The station reconnects, or is started again.
Resubscribe ==
  /\ Fault /\ Restarted
  /\ UNCHANGED <<station, invalid, retained, toMes, connected>>
-----------------------------------------------------------------------------
MessageStep ==
  \/ ClearOrder \/ CutClearOrder \/ IgnoreMessage
  \/ RefuseBusy \/ RefuseInvalid \/ AcceptOrder \/ CutAcceptOrder

MesLinkStep ==
  \/ MessageStep
  \/ ProductCompleted \/ CutProductCompleted
  \/ SendReport \/ SendUnanswered \/ Resubscribe
=============================================================================
