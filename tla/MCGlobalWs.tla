----------------------------- MODULE MCGlobalWs -----------------------------
(* TLC instances of GlobalWs.                                              *)
EXTENDS GlobalWs

CONSTANTS off, on                       \* two statuses
=============================================================================
