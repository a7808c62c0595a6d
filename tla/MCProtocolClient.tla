------------------------- MODULE MCProtocolClient -------------------------
(* A small instance of ProtocolClient. *)
EXTENDS ProtocolClient, TLC

CONSTANTS c1, c2, r1, r2
===========================================================================
