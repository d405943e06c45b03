--------------------------- MODULE MCEventOutbox ---------------------------
(* Small instances of EventOutbox.                                         *)
EXTENDS EventOutbox
=============================================================================
