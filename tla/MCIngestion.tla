----------------------------- MODULE MCIngestion -----------------------------
(* Model-checking instances of Ingestion. *)
EXTENDS Ingestion, TLC

\* CPU workers are interchangeable (used by a safety run only).
Symmetry == Permutations(CpuWorkers)

\* What the scan and the GPU workers put into the table.
NewRows == {NewRow}
FreshRows == {NewRow, GpuRow}
=============================================================================
