--------------------------- MODULE MCWorkflowAdmin ---------------------------
(* Instances of WorkflowAdmin for TLC. *)
EXTENDS WorkflowAdmin, TLC

RowSymmetry == Permutations(RowIds)

\* the kinds of report each instance emits
DeleteKinds == {"job_started", "job_info", "error"}
PruneKinds  == {"job_started", "job_finished", "error"}
=============================================================================
