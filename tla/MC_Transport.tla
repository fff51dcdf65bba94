---------------------------- MODULE MC_Transport ----------------------------
(* Small instances of Transport.                                           *)
EXTENDS Transport

CONSTANTS w1, w2
=============================================================================
