------------------------------ MODULE LossyFIFO ------------------------------
(***************************************************************************)
(* What a relay of packets promises to the devices at its ends: packets    *)
(* come out in the order they went in, none twice and none that did not go *)
(* in; some may be lost on the way.  IPProxy implements this.              *)
(***************************************************************************)
EXTENDS Integers, Sequences

VARIABLES
    accepted,  \* how many packets went in; they are numbered from 1
    pending,   \* those that may still come out
    delivered  \* those that came out, in that order

fifoVars == <<accepted, pending, delivered>>

Init ==
    /\ accepted = 0
    /\ pending = {}
    /\ delivered = << >>

Accept ==
    /\ accepted' = accepted + 1
    /\ pending' = pending \cup {accepted + 1}
    /\ UNCHANGED delivered

(* Nothing overtakes: what is older than n is lost by now, or was out.     *)
Deliver(n) ==
    /\ n \in pending
    /\ \A m \in pending : n <= m
    /\ pending' = pending \ {n}
    /\ delivered' = Append(delivered, n)
    /\ UNCHANGED accepted

Lose ==
    /\ pending' \subseteq pending
    /\ UNCHANGED <<accepted, delivered>>

Next ==
    \/ Accept
    \/ \E n \in pending : Deliver(n)
    \/ Lose

Spec == Init /\ [][Next]_fifoVars
=============================================================================
