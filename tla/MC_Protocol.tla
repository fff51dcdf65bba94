---------------------------- MODULE MC_Protocol ----------------------------
(* Small instances of Protocol.                                            *)
EXTENDS Protocol, MC_Reports, TLC

CONSTANTS u1, u2, w1, w2

Symmetry == Permutations({u1, u2}) \cup Permutations({w1, w2})
=============================================================================
