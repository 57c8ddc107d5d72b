------------------------------- MODULE Broker -------------------------------
(***************************************************************************)
(* What the station and the MES share: the vocabulary of their messages    *)
(* and the MQTT broker between them.  The broker is not part of the        *)
(* repository; it does what both sides ask of it (QoS 1, sessions that     *)
(* outlive a connection, one retained message per topic).                  *)
(*                                                                         *)
(* One station, as every query of the MES is about one station.            *)
(***************************************************************************)
EXTENDS Integers, Sequences, FiniteSets

CONSTANTS
  MaxOrders,    \* bound: work orders ever asked for, together with the faults below
  Quantity,     \* the quantity of each order
  Suspect,      \* orders whose recipe the station's rules might refuse
  MaxReports    \* bound: reports the station ever issues

Orders == 1..MaxOrders

ASSUME BrokerAssumption ==
  /\ MaxOrders \in Nat /\ MaxReports \in Nat
  /\ Quantity \in [Orders -> Nat \ {0}]
  /\ Suspect \subseteq Orders

VARIABLES
  invalid,      \* those it does refuse; set once
  retained,     \* the retained message of the workorder topic
  toStation,    \* publications the broker still has to deliver to the station
  toMes,        \* reports it still has to deliver to the MES
  connected,    \* whether the MES is connected
  spent         \* bound counter: order lines asked for, crashes, disconnections
                \* and unanswered publications

broker == <<invalid, retained, toStation, toMes, connected, spent>>

\* The empty message, "no work order".
Empty == 0

\* The kinds of ack and result; BUSY is a REJECTED whose reason begins so.
Kinds == {"ACCEPTED", "REJECTED", "BUSY", "CANCELLED", "COMPLETED", "RESULT"}
Reports == [event : Nat, kind : Kinds, order : Orders]

BrokerTypeOK ==
  /\ invalid \subseteq Suspect
  /\ retained \in Orders \union {Empty}
  /\ toStation \in Seq(Orders \union {Empty})
  /\ toMes \in Seq(Reports)
  /\ connected \in BOOLEAN
  /\ spent \in 0..MaxOrders

BrokerInit ==
  /\ invalid \in SUBSET Suspect
  /\ retained = Empty /\ toStation = <<>> /\ toMes = <<>>
  /\ connected = TRUE /\ spent = 0

\* A retained publication replaces the retained message and goes to the subscriber.
Distribute(m) ==
  /\ retained' = m
  /\ toStation' = Append(toStation, m)

\* A new subscription is sent the retained message, if there is one, after what
\* the session still holds.
Resubscribed(queue) == IF retained = Empty THEN queue ELSE Append(queue, retained)

Fault == spent < MaxOrders /\ spent' = spent + 1
=============================================================================
