---------------------------- MODULE MC_Session ----------------------------
(* Small instances of Session.                                             *)
EXTENDS Session

CONSTANTS w1, b1
=============================================================================
