---------------------------- MODULE MC_Semaphore ----------------------------
(* A small instance of MySemaphore.                                        *)
EXTENDS MySemaphore

CONSTANTS t1, t2, t3, t4
=============================================================================
