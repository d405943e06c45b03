-------------------------- MODULE MCStorageBilling --------------------------
(* Small instances of StorageBilling.  Calls of one kind are alike.        *)
EXTENDS StorageBilling, TLC

MCDates == {<<1, 2>>, <<2, LastDay + 1>>}
Symmetry == Permutations(Manual) \union Permutations(Deciders)
=============================================================================
