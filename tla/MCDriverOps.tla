---------------------------- MODULE MCDriverOps -----------------------------
(* TLC instance of DriverOps: two dongles of different kinds, one of       *)
(* which has a driver of its vendor.                                       *)
EXTENDS DriverOps

CONSTANTS csr, realtek, r1, r2, b1      \* kinds, requests, a browser

MCKindOf == [d \in Dongles |-> IF d = 2 THEN realtek ELSE csr]
=============================================================================
