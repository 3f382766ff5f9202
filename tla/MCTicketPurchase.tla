-------------------------- MODULE MCTicketPurchase --------------------------
(***************************************************************************)
(* Instances of TicketPurchase for TLC.                                    *)
(***************************************************************************)
EXTENDS TicketPurchase, TLC

Counts == [o \in Orders |-> 3]
=============================================================================
