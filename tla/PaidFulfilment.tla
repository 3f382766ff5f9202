--------------------------- MODULE PaidFulfilment ---------------------------
(***************************************************************************)
(* What both payment flows of the server promise to a buyer: an order is   *)
(* fulfilled (gems credited, tickets issued) only after PortOne, the       *)
(* payment gateway, has taken the money for it, and what was fulfilled is  *)
(* not taken back.  The promise is the weak one: an order may be fulfilled *)
(* several times, because PortOne delivers its webhooks at least once and  *)
(* neither flow remembers which orders it has already served.              *)
(***************************************************************************)

CONSTANT Orders         \* orders a client can open with PortOne

VARIABLES paidOrders,   \* orders PortOne has taken money for
          fulfilments   \* one receipt for each fulfilment: [no, order]

vars == <<paidOrders, fulfilments>>

Init ==
  /\ paidOrders = {}
  /\ fulfilments = {}

TakeMoney(o) ==
  /\ paidOrders' = paidOrders \cup {o}
  /\ UNCHANGED fulfilments

\* A receipt with a number of its own is issued for a paid order.
Fulfil(o) ==
  /\ o \in paidOrders
  /\ \E r \in fulfilments' \ fulfilments :
       /\ r.order = o
       /\ \A q \in fulfilments : q.no # r.no
       /\ fulfilments' = fulfilments \cup {r}
  /\ UNCHANGED paidOrders

Next == \E o \in Orders : TakeMoney(o) \/ Fulfil(o)

Spec == Init /\ [][Next]_vars
=============================================================================
