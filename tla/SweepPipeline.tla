---------------------------- MODULE SweepPipeline ----------------------------
(***************************************************************************)
(* What the sweep pipeline promises about one deposit: the job moves along *)
(* the status diagram of domain/deposit.ts, only an operator reopens it,   *)
(* and only after it failed.                                               *)
(***************************************************************************)
CONSTANT NoStatus    \* no job is queued yet

VARIABLE status

Waiting == {"PENDING", "GAS_FUELING", "SWEEPING"}

Init == status = NoStatus

Move(from, to) == status \in from /\ status' = to

Enqueue == Move({NoStatus}, "PENDING")

Advance ==
  \/ Move({"PENDING"}, "EMPTY")
  \/ Move({"PENDING"}, "GAS_FUELING")
  \/ Move({"PENDING", "GAS_FUELING"}, "SWEEPING")
  \/ Move({"SWEEPING"}, "SWEPT")

\* The error of a step that had advanced the job is recorded with that step.
Exhaust == Move(Waiting, "FAILED")

Requeue == Move({"FAILED"}, "PENDING")

Next == Enqueue \/ Advance \/ Exhaust \/ Requeue

Spec == Init /\ [][Next]_status

=============================================================================
