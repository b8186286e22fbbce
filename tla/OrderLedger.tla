----------------------------- MODULE OrderLedger -----------------------------
(***************************************************************************)
(* What settlement promises about an order, with no handlers, locks,       *)
(* stores or instances: the order is opened once, is then either paid or   *)
(* closed, never both, and a paid order adds its plan's duration to the    *)
(* buyer's subscription exactly once before it becomes FULFILLED.          *)
(* OrderSettlement is shown to implement this specification.               *)
(***************************************************************************)
EXTENDS Naturals, OrderStateMachine

CONSTANT Orders

VARIABLES
  status,    \* [Orders -> OrderStatus \cup {"NONE"}]; "NONE" before orders.create
  credits    \* [Orders -> Nat]: how often the order's duration was granted

lvars == <<status, credits>>

Init ==
  /\ status = [o \in Orders |-> "NONE"]
  /\ credits = [o \in Orders |-> 0]

Move(o, from, to) ==
  /\ status[o] = from
  /\ status' = [status EXCEPT ![o] = to]

Open(o) == Move(o, "NONE", "PENDING") /\ UNCHANGED credits

TakePayment(o) == Move(o, "PENDING", "PAID") /\ UNCHANGED credits

\* The payment window elapsed, or the provider refused the payment intent.
Close(o) ==
  /\ Move(o, "PENDING", "EXPIRED") \/ Move(o, "PENDING", "FAILED")
  /\ UNCHANGED credits

Grant(o) ==
  /\ status[o] = "PAID"
  /\ credits[o] = 0
  /\ credits' = [credits EXCEPT ![o] = 1]
  /\ UNCHANGED status

Fulfil(o) ==
  /\ credits[o] = 1
  /\ Move(o, "PAID", "FULFILLED")
  /\ UNCHANGED credits

Next == \E o \in Orders :
  Open(o) \/ TakePayment(o) \/ Close(o) \/ Grant(o) \/ Fulfil(o)

Spec == Init /\ [][Next]_lvars

=============================================================================
