------------------------------- MODULE MCIntake -------------------------------
(* Instances of Intake for TLC: two calls with one key and one without.     *)
EXTENDS Intake
CONSTANTS o1, o2, o3, k1
MCkeyOf == [o \in {o1, o2, o3} |-> IF o = o3 THEN None ELSE k1]
=============================================================================
