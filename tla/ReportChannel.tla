--------------------------- MODULE ReportChannel ---------------------------
(***************************************************************************)
(* What the protocol may rely on when it calls transport.write(): a write  *)
(* is under way until its report is sent or the write is given up, and no  *)
(* more than Capacity reports have been sent and not been reported         *)
(* complete.  Transport implements this.                                   *)
(***************************************************************************)
EXTENDS Integers

CONSTANTS Tasks, Capacity

VARIABLES
    busy,    \* the tasks inside write()
    flight   \* the reports sent and not known to be complete

channelVars == <<busy, flight>>

Init ==
    /\ busy = {}
    /\ flight = 0

(* write() suspends. *)
Begin(t) ==
    /\ t \notin busy
    /\ busy' = busy \cup {t}
    /\ UNCHANGED flight

(* The report is sent, at once or after write() was suspended. *)
Send(t) ==
    /\ flight < Capacity
    /\ busy' = busy \ {t}
    /\ flight' = flight + 1

(* The write ends without: the connection is lost or the task cancelled. *)
Lose(t) ==
    /\ t \in busy
    /\ busy' = busy \ {t}
    /\ UNCHANGED flight

Complete(n) ==
    /\ n <= flight
    /\ flight' = flight - n
    /\ UNCHANGED busy

Next ==
    \/ \E t \in Tasks : Begin(t) \/ Send(t) \/ Lose(t)
    \/ \E n \in 1 .. Capacity : Complete(n)

Spec == Init /\ [][Next]_channelVars
=============================================================================
