----------------------------- MODULE MC_IPProxy -----------------------------
(* Small instances of IPProxy.                                             *)
EXTENDS IPProxy
=============================================================================
