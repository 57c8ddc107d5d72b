------------------------------ MODULE OrderBook ------------------------------
(***************************************************************************)
(* What the MES promises of its work orders to who reads the list and to   *)
(* who works at the station, whatever threads, transactions and messages   *)
(* bring it about: the abstract specification that MesProtocol implements. *)
(*                                                                         *)
(* The list changes at once and by one thing only: new orders are written  *)
(* at its end, or one order is told of or cancelled; either may send one   *)
(* order on its way.  Nothing is counted that was not made, and nothing is *)
(* made for an order that was not sent.                                    *)
(***************************************************************************)
EXTENDS Integers

CONSTANTS Orders, Quantity

VARIABLES
  book,   \* the list, by number
  made    \* products made for each order

Active == {"RELEASED", "IN_PROGRESS"}
Over == {"COMPLETED", "CANCELLED", "REJECTED"}

NoOrder == [status |-> "NONE", done |-> 0]
Entries == [status : {"NONE", "QUEUED"} \union Active \union Over, done : Nat]

\* What may become of an order: the entry before and after.
Issued(old, new) == old = NoOrder /\ new.status \in {"QUEUED", "RELEASED"} /\ new.done = 0

Dispatched(old, new) == old.status = "QUEUED" /\ new = [old EXCEPT !.status = "RELEASED"]

Accepted(old, new) == old.status = "RELEASED" /\ new = [old EXCEPT !.status = "IN_PROGRESS"]

Refused(old, new) == old.status = "RELEASED" /\ new = [old EXCEPT !.status = "REJECTED"]

Cancelled(old, new) ==
  old.status \in {"QUEUED"} \union Active /\ new = [old EXCEPT !.status = "CANCELLED"]

Counted(w, old, new) ==
  /\ old.status \in Active
  /\ new = [status |-> IF old.done + 1 = Quantity[w] THEN "COMPLETED" ELSE "IN_PROGRESS",
            done |-> old.done + 1]

Told(w, old, new) ==
  Accepted(old, new) \/ Refused(old, new) \/ Cancelled(old, new) \/ Counted(w, old, new)
-----------------------------------------------------------------------------
Init == book = [w \in Orders |-> NoOrder] /\ made = [w \in Orders |-> 0]

\* The station completes a product of an order it was sent.
Make(w) ==
  /\ book[w].status \notin {"NONE", "QUEUED"}
  /\ made' = [made EXCEPT ![w] = @ + 1]
  /\ UNCHANGED book

Stays(w) == book'[w] = book[w]
Sent(w) == ~Stays(w) /\ book'[w].status = "RELEASED"

\* A new list, with at most one order sent on its way.
Rewrite ==
  /\ book' \in [Orders -> Entries]
  /\ \A v, w \in Orders : Sent(v) /\ Sent(w) => v = w
  /\ UNCHANGED made

\* New orders take the next numbers.
Issue ==
  /\ Rewrite
  /\ \A w \in Orders : Stays(w) \/ Issued(book[w], book'[w]) \/ Dispatched(book[w], book'[w])
  /\ \A v, w \in Orders : v < w /\ book'[w] # NoOrder => book'[v] # NoOrder

\* An order is told of or cancelled; once it is over another may follow.
Tell(w) ==
  /\ Rewrite
  /\ Told(w, book[w], book'[w]) /\ book'[w].done <= made[w]
  /\ \A v \in Orders \ {w} :
       \/ Stays(v)
       \/ book'[w].status \in Over /\ Dispatched(book[v], book'[v])

Next == Issue \/ \E w \in Orders : Make(w) \/ Tell(w)

Spec == Init /\ [][Next]_<<book, made>>
=============================================================================
