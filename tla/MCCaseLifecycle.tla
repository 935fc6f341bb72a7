--------------------------- MODULE MCCaseLifecycle ---------------------------
(* CaseLifecycle on small sets of cases and requests. *)
EXTENDS CaseLifecycle, TLC

Symmetry == Permutations(Case) \union Permutations(Request)

=============================================================================
