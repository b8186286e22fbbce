-------------------------- MODULE OrderStateMachine --------------------------
(***************************************************************************)
(* The order state machine of core/orderStateMachine.ts: the transition    *)
(* table and the three functions that read it.  Pure; every module that    *)
(* writes an order's status goes through it, as the services do.           *)
(***************************************************************************)

OrderStatus ==
  {"PENDING", "PAID", "FULFILLED", "EXPIRED", "CANCELLED", "REFUNDED", "FAILED"}

TRANSITIONS ==
  [s \in OrderStatus |->
     CASE s = "PENDING"   -> {"PAID", "EXPIRED", "CANCELLED", "FAILED"}
       [] s = "PAID"      -> {"FULFILLED", "REFUNDED"}
       [] s = "FULFILLED" -> {"REFUNDED"}
       [] OTHER           -> {}]

canTransition(from, to) == to \in TRANSITIONS[from]

isTerminal(s) == TRANSITIONS[s] = {}

\* assertTransition returns normally: the same state again, or an allowed move.
assertTransition(from, to) == from = to \/ canTransition(from, to)

=============================================================================
