-------------------------- MODULE MCEvidenceStorage --------------------------
(* EvidenceStorage with a few registrations of one case. *)
EXTENDS EvidenceStorage, TLC

Symmetry == Permutations(Registration)

=============================================================================
