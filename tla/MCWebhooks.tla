------------------------------ MODULE MCWebhooks ------------------------------
(* Instances of Webhooks for TLC. *)
EXTENDS Webhooks

CONSTANTS e1, e2, w1, w2

=============================================================================
