-------------------------- MODULE MCInvoiceBilling --------------------------
(* Small instances of InvoiceBilling: an Anzahlung a and its               *)
(* Schlussrechnung s, or one full invoice.                                 *)
EXTENDS InvoiceBilling, TLC
CONSTANTS a, s

MCPair == {a, s}
MCPairPart == a :> "partial_first" @@ s :> "partial_final"
MCOne == {a}
MCOnePart == a :> "partial_first"

MCAllOps == AllOps
MCRegister == {"send", "register", "dun"}
MCVoid == {"void"}
MCBack == {"completed", "other"}
MCByHand == {"completed", "paid"}
Symmetry == Permutations(Calls)
=============================================================================
