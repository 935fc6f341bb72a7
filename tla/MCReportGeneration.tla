--------------------------- MODULE MCReportGeneration ---------------------------
(* ReportGeneration with symmetries of its requests. *)
EXTENDS ReportGeneration

Symmetry == Permutations(Writer)

=============================================================================
