-------------------------- MODULE MCOrderSettlement --------------------------
(* Instances of OrderSettlement for TLC. *)
EXTENDS OrderSettlement, TLC

CONSTANTS o1, o2, u1, u2, n1, n2, t1, t2, t3, i1, i2

MCOneUser   == [o \in Orders |-> u1]
MCNoticesO1 == [n \in Notices |-> o1]
MCOneInstance  == [t \in Tasks |-> i1]
MCTwoInstances == [t \in Tasks |-> IF t = t1 THEN i1 ELSE i2]

TaskSymmetry == Permutations(Tasks)

=============================================================================
