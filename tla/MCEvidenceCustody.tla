-------------------------- MODULE MCEvidenceCustody --------------------------
(* EvidenceCustody on one or two cases and three requests. *)
EXTENDS EvidenceCustody, TLC

Symmetry == Permutations(Case) \union Permutations(Request) \union Permutations(Content)

=============================================================================
