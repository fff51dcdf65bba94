------------------------------- MODULE MC_MCU -------------------------------
(* Small instances of MCU.                                                 *)
EXTENDS MCU

CONSTANT f1
=============================================================================
