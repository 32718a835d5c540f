--------------------------- MODULE MCExplorerCron ---------------------------
(* Small instances of ExplorerCron. *)
EXTENDS ExplorerCron, TLC

CONSTANTS v1, v2, a, b
=============================================================================
