-------------------------- MODULE MCPendingActions --------------------------
(* Small instances of PendingActions.                                      *)
EXTENDS PendingActions
=============================================================================
