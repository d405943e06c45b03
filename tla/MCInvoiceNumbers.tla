-------------------------- MODULE MCInvoiceNumbers --------------------------
(* Small instances of InvoiceNumbers.  The requests are interchangeable.   *)
EXTENDS InvoiceNumbers, TLC

MCYears == {2026}
MCEveryKind == AllKinds
MCTyped == {"plain", "padded", "free"}
Symmetry == Permutations(Requests)
=============================================================================
