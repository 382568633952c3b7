--------------------------- MODULE MCControllerWs ---------------------------
(* TLC instance of ControllerWs.                                           *)
EXTENDS ControllerWs

CONSTANTS c1, f1, f2    \* a connection, frames
=============================================================================
