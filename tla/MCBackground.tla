----------------------------- MODULE MCBackground -----------------------------
(* The instance of Background for TLC. *)
EXTENDS Background

CONSTANTS c1, c2, j1, j2

=============================================================================
