---------------------------- MODULE RefundLedger ----------------------------
(***************************************************************************)
(* What refunds promise about one paid order, with no handlers, provider   *)
(* or store: amounts are reserved up to the order's amount, a reservation  *)
(* is released when its refund fails, and the order becomes REFUNDED, once *)
(* and for good, only when all of its amount is reserved.                  *)
(***************************************************************************)
EXTENDS Naturals, OrderStateMachine

CONSTANT Amount   \* the order's amount, in minor units

VARIABLES
  status,     \* the order's status
  refunded    \* order.refundedAmount

rvars == <<status, refunded>>

Open == status \in {"PAID", "FULFILLED"}

Init == Open /\ refunded = 0

\* A settled refund that completes the amount also closes the order.
Reserve(a) ==
  /\ Open
  /\ refunded + a <= Amount
  /\ refunded' = refunded + a
  /\ status' = status \/ (status' = "REFUNDED" /\ refunded' = Amount)

Release(a) ==
  /\ a <= refunded
  /\ refunded' = refunded - a
  /\ UNCHANGED status

Close ==
  /\ Open
  /\ refunded = Amount
  /\ status' = "REFUNDED"
  /\ UNCHANGED refunded

Next ==
  \/ \E a \in 1..Amount : Reserve(a) \/ Release(a)
  \/ Close

Spec == Init /\ [][Next]_rvars

=============================================================================
