------------------------------ MODULE MCRefunds ------------------------------
(* Instances of Refunds for TLC. *)
EXTENDS Refunds, TLC

CONSTANTS r1, r2, t1, t2, t3, i1, i2

MCOneInstance  == [t \in Tasks |-> i1]
MCTwoInstances == [t \in Tasks |-> IF t = t1 THEN i1 ELSE i2]

\* The awaits of an interrupted handler that leave nothing behind: the ones
\* before the provider takes a refund or the refund row changes.
BeforeEffects == {"want", "readOrder", "refund", "findRefund", "readRefund", "writeRefund"}

Symmetry == Permutations(Tasks) \cup Permutations(RefundNos)

=============================================================================
