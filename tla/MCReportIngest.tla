--------------------------- MODULE MCReportIngest ---------------------------
(* Instances of ReportIngest for TLC. *)
EXTENDS ReportIngest, TLC

\* row keys are only compared with each other
RowSymmetry == Permutations(RowIds)

\* the kinds of report each instance emits
JobKinds   == {"job_started", "job_finished", "job_error", "group_error"}
ErrorKinds == AllKinds
PairKinds  == {"job_started", "job_info", "job_finished"}
=============================================================================
