------------------------------- MODULE OrderLedger -------------------------------
(***************************************************************************)
(* What the payment service promises for balance orders, with none of its  *)
(* handlers: a user pays an order, and afterwards the order's amount is    *)
(* credited, once.                                                         *)
(***************************************************************************)
EXTENDS Naturals

CONSTANT Orders

VARIABLES
  paid,    \* the orders whose payment was made
  credit   \* how often each order was credited

Init ==
  /\ paid = {}
  /\ credit = [o \in Orders |-> 0]

Pay(o) ==
  /\ o \notin paid
  /\ paid' = paid \cup {o}
  /\ UNCHANGED credit

Credit(o) ==
  /\ o \in paid
  /\ credit[o] = 0
  /\ credit' = [credit EXCEPT ![o] = 1]
  /\ UNCHANGED paid

Next == \E o \in Orders : Pay(o) \/ Credit(o)

Spec == Init /\ [][Next]_<<paid, credit>>

=============================================================================
