--------------------------- MODULE MCOfferRouting ---------------------------
(* Small instances of OfferRouting.                                        *)
EXTENDS OfferRouting

MCEveryFault == AllFaults
=============================================================================
