--------------------------- MODULE MCSubscriptions ---------------------------
(* Instances of Subscriptions for TLC. *)
EXTENDS Subscriptions, TLC

CONSTANTS o1, o2, o3, u1, u2, p1, p2

\* The run of the violation: two orders of one buyer, of different plans, and one
\* of another.
MCUserOf == [o \in Orders |-> IF o = o3 THEN u2 ELSE u1]
MCDays   == [o \in Orders |-> IF o = o2 THEN 2 ELSE 1]

\* The passing run: orders of one buyer.  Of three, two are of one plan, so that two
\* renewals may overwrite one another and end on the same day.
MCUser      == [o \in Orders |-> u1]
MCSamePlans == [o \in Orders |-> IF o = o1 THEN 2 ELSE 1]

\* Passes are alike, and so are the two orders of one plan.
PassesAndOrdersAlike == Permutations(Passes) \cup Permutations({o2, o3})

\* The production store alone.
SqlSpec == Init /\ store = "sql" /\ [][Next]_vars
=============================================================================
