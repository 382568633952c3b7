------------------------- MODULE MCControllerManager -------------------------
(* TLC instances of ControllerManager.                                     *)
EXTENDS ControllerManager

CONSTANTS off, on                       \* two statuses
=============================================================================
