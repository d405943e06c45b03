-------------------------- MODULE MCOfferRevisions --------------------------
(* Small instances of OfferRevisions; the runs are interchangeable.        *)
EXTENDS OfferRevisions, TLC

Symmetry == Permutations(Runs)
=============================================================================
