------------------------------- MODULE MCSweep -------------------------------
(* Instances of Sweep for TLC. *)
EXTENDS Sweep

CONSTANTS p1, p2

\* Every await, the one between a broadcast and its record included.
Anywhere == PC \ {"idle"}

\* The awaits a process can die at without forgetting a broadcast: such deaths
\* repeated for ever would be broadcasts for ever, beyond any bound.
BeforeBroadcast ==
  {"create", "balance", "trx", "fuelGas", "sweepTrc20", "gasConfirmed", "sweepConfirmed"}

=============================================================================
