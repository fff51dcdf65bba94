---------------------------- MODULE MC_SPIDump -----------------------------
(* The instance of SPIDump that TLC checks: a flash of eight bytes, read   *)
(* three at a time, with offsets of more than one digit.                   *)
EXTENDS SPIDump
=============================================================================
