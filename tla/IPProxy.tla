------------------------------- MODULE IPProxy -------------------------------
(***************************************************************************)
(* src/scripts/joycon_ip_proxy.py: two instances that forward the packets  *)
(* between a Joy-Con and a Switch over UDP.  The near one is connected to  *)
(* the Joy-Con, the far one to the Switch.  This is the way of the input   *)
(* reports, near to far; the way back is the same without the handshake.   *)
(*                                                                         *)
(* On its way a packet passes                                              *)
(*   "near"  the near instance's jc_queue, and the hand of recv_to_queue() *)
(*   "link"  the network, which keeps the order but may lose datagrams     *)
(*   "read"  readQueue of the far instance's NoDatagramProtocol            *)
(*   "far"   the far instance's jc_queue, and the hand of recv_to_queue()  *)
(*   "out"   the hand of send_from_queue(), inside sock_sendall()          *)
(*                                                                         *)
(* A packet of the Joy-Con is its number.  Two more things travel: the     *)
(* packet that connectEth() sends to test the connection, and the empty    *)
(* data that a closed socket returns.                                      *)
(***************************************************************************)
EXTENDS Integers, Sequences, SequencesExt

CONSTANTS
    Buffer,      \* the size of the queues (-B)
    ReadBuffer,  \* the size of readQueue
    MaxPackets,  \* bound: packets of the Joy-Con
    MaxLink,     \* bound: datagrams on the network
    MaxStops     \* bound: times each instance stops

ASSUME IPProxyAssumption ==
    /\ {Buffer, ReadBuffer, MaxLink} \subseteq Nat \ {0}
    /\ {MaxPackets, MaxStops} \subseteq Nat

Test == 0
Empty == -1

VARIABLES
    accepted,   \* the packets the Joy-Con has sent
    closed,     \* whether its socket was closed
    near, far,  \* where each instance is
    pipe,       \* the packets at each stage
    putting,    \* the recv_to_queue() tasks that wait in queue.put(): the last
                \* packet of their stage is not in the queue yet
    delivered,  \* the packets that were sent to the Switch
    strayed,    \* whether the packet of a test was sent to it, too
    nearStops, farStops

switchVars == <<delivered, strayed>>
stopVars == <<nearStops, farStops>>
vars == <<accepted, closed, near, far, pipe, putting, switchVars, stopVars>>

Stages == {"near", "link", "read", "far", "out"}
Queues == {"near", "far"}

Init ==
    /\ accepted = 0
    /\ closed = FALSE
    /\ near = "down"
    /\ far = "down"
    /\ pipe = [s \in Stages |-> << >>]
    /\ putting = {}
    /\ delivered = << >>
    /\ strayed = FALSE
    /\ nearStops = 0 /\ farStops = 0

----------------------------------------------------------------------------
(* recv_to_queue() and send_from_queue()                                   *)

(* Faulty: the packet is put whether or not there is room. *)
PutWithoutWaiting(s, p, others) ==
    /\ s \notin putting
    /\ pipe' = [others EXCEPT ![s] = Append(@, p)]
    /\ UNCHANGED putting

(* src() returned p: it is put into the queue, at once or when there is    *)
(* room.                                                                   *)
Put(s, p, others) ==
    /\ s \notin putting
    /\ pipe' = [others EXCEPT ![s] = Append(@, p)]
    /\ putting' = IF Len(pipe[s]) < Buffer THEN putting ELSE putting \cup {s}

(* Faulty: the task goes on only when there is room for another packet. *)
ResumePutLate(s) ==
    /\ s \in putting
    /\ Len(pipe[s]) < Buffer
    /\ putting' = putting \ {s}
    /\ UNCHANGED <<accepted, closed, near, far, pipe, switchVars, stopVars>>

(* A get() made room.                                                      *)
ResumePut(s) ==
    /\ s \in putting
    /\ Len(pipe[s]) <= Buffer
    /\ putting' = putting \ {s}
    /\ UNCHANGED <<accepted, closed, near, far, pipe, switchVars, stopVars>>

(* Whether there is something in the queue for get().                      *)
CanGet(s) == Len(pipe[s]) > IF s \in putting THEN 1 ELSE 0

Without(s) == [pipe EXCEPT ![s] = Tail(@)]

----------------------------------------------------------------------------
(* The near instance                                                       *)

(* A datagram is lost when nobody has the port open.                       *)
Datagram(p, others) ==
    pipe' = IF far = "down" \/ p = Empty THEN others
            ELSE [others EXCEPT !["link"] = Append(@, p)]

(* connect_bt() of the Joy-Con, then connectEth() as the client.           *)
StartNear ==
    /\ near = "down"
    /\ Len(pipe["link"]) < MaxLink
    /\ near' = "forwarding"
    /\ closed' = FALSE
    /\ Datagram(Test, pipe)
    /\ UNCHANGED <<accepted, far, putting, switchVars, stopVars>>

(* The Joy-Con sends a packet.                                             *)
Accept ==
    /\ near = "forwarding" /\ ~ closed
    /\ accepted < MaxPackets
    /\ accepted' = accepted + 1
    /\ Put("near", accepted + 1, pipe)
    /\ UNCHANGED <<closed, near, far, switchVars, stopVars>>

(* The Joy-Con disconnects: from then on sock_recv() returns at once, with *)
(* nothing, and the loop goes on.                                          *)
JoyconDisconnects ==
    /\ near = "forwarding" /\ ~ closed
    /\ closed' = TRUE
    /\ UNCHANGED <<accepted, near, far, pipe, putting, switchVars, stopVars>>

AcceptNothing ==
    /\ near = "forwarding" /\ closed
    /\ Put("near", Empty, pipe)
    /\ UNCHANGED <<accepted, closed, near, far, switchVars, stopVars>>

(* get() and write() to the datagram endpoint, which does not wait; empty  *)
(* data is not sent.                                                       *)
SendDatagram ==
    /\ near = "forwarding" /\ CanGet("near")
    /\ Len(pipe["link"]) < MaxLink
    /\ Datagram(Head(pipe["near"]), Without("near"))
    /\ UNCHANGED <<accepted, closed, near, far, putting, switchVars, stopVars>>

(* A task of the four raises, or the program is interrupted: gather()      *)
(* raises and everything that was in it is gone.                           *)
NearStops ==
    /\ near = "forwarding" /\ nearStops < MaxStops
    /\ near' = "down"
    /\ nearStops' = nearStops + 1
    /\ pipe' = [pipe EXCEPT !["near"] = << >>]
    /\ putting' = putting \ {"near"}
    /\ UNCHANGED <<accepted, closed, far, switchVars, farStops>>

----------------------------------------------------------------------------
(* The network                                                             *)

LoseDatagram ==
    /\ \E i \in 1 .. Len(pipe["link"]) : pipe' = [pipe EXCEPT !["link"] = RemoveAt(@, i)]
    /\ UNCHANGED <<accepted, closed, near, far, putting, switchVars, stopVars>>

(* datagram_received(): what does not fit is dropped.                      *)
DatagramReceived ==
    /\ pipe["link"] # << >>
    /\ pipe' = IF far # "down" /\ Len(pipe["read"]) < ReadBuffer
               THEN [Without("link") EXCEPT !["read"] = Append(@, Head(pipe["link"]))]
               ELSE Without("link")
    /\ UNCHANGED <<accepted, closed, near, far, putting, switchVars, stopVars>>

----------------------------------------------------------------------------
(* The far instance                                                        *)

(* connectEth() as the server.                                             *)
OpenFar ==
    /\ far = "down"
    /\ far' = "handshake"
    /\ UNCHANGED <<accepted, closed, near, pipe, putting, switchVars, stopVars>>

(* Faulty: the handshake looks at the packet and leaves it. *)
HandshakePeeking ==
    /\ far = "handshake" /\ pipe["read"] # << >>
    /\ far' = "connecting"
    /\ UNCHANGED <<accepted, closed, near, pipe, putting, switchVars, stopVars>>

(* Whatever is received first is taken for the packet that tests the       *)
(* connection.                                                             *)
Handshake ==
    /\ far = "handshake" /\ pipe["read"] # << >>
    /\ far' = "connecting"
    /\ pipe' = Without("read")
    /\ UNCHANGED <<accepted, closed, near, putting, switchVars, stopVars>>

(* accept_bt() or connect_bt() of the Switch returns.                      *)
SwitchConnects ==
    /\ far = "connecting"
    /\ far' = "forwarding"
    /\ UNCHANGED <<accepted, closed, near, pipe, putting, switchVars, stopVars>>

(* read() of the datagram endpoint, by recv_to_queue().                    *)
Read ==
    /\ far = "forwarding" /\ pipe["read"] # << >>
    /\ Put("far", Head(pipe["read"]), Without("read"))
    /\ UNCHANGED <<accepted, closed, near, far, switchVars, stopVars>>

Get ==
    /\ CanGet("far") /\ pipe["out"] = << >>
    /\ pipe' = [Without("far") EXCEPT !["out"] = <<Head(pipe["far"])>>]
    /\ UNCHANGED <<accepted, closed, near, far, putting, switchVars, stopVars>>

(* Faulty: what was sent may be sent again. *)
DeliverAgain ==
    /\ pipe["out"] # << >>
    /\ IF Head(pipe["out"]) = Test
       THEN strayed' = TRUE /\ UNCHANGED delivered
       ELSE delivered' = Append(delivered, Head(pipe["out"])) /\ UNCHANGED strayed
    /\ pipe' \in {pipe, Without("out")}
    /\ UNCHANGED <<accepted, closed, near, far, putting, stopVars>>

(* sock_sendall() to the Switch returns.                                   *)
Deliver ==
    /\ pipe["out"] # << >>
    /\ IF Head(pipe["out"]) = Test
       THEN strayed' = TRUE /\ UNCHANGED delivered
       ELSE delivered' = Append(delivered, Head(pipe["out"])) /\ UNCHANGED strayed
    /\ pipe' = Without("out")
    /\ UNCHANGED <<accepted, closed, near, far, putting, stopVars>>

FarStops ==
    /\ far # "down" /\ farStops < MaxStops
    /\ far' = "down"
    /\ farStops' = farStops + 1
    /\ pipe' = [s \in Stages |-> IF s \in {"read", "far", "out"} THEN << >> ELSE pipe[s]]
    /\ putting' = putting \ {"far"}
    /\ UNCHANGED <<accepted, closed, near, switchVars, nearStops>>

Next ==
    \/ StartNear \/ Accept \/ JoyconDisconnects \/ AcceptNothing \/ SendDatagram \/ NearStops
    \/ LoseDatagram \/ DatagramReceived
    \/ OpenFar \/ Handshake \/ SwitchConnects \/ Read \/ Get \/ Deliver \/ FarStops
    \/ \E s \in Queues : ResumePut(s)

Spec == Init /\ [][Next]_vars

(* The loops run their tasks and the network moves what it has; nothing is *)
(* assumed of the user, the Joy-Con or of when the Switch connects, but a  *)
(* Switch that is connected takes what it is sent.                         *)
Fairness ==
    /\ WF_vars(SendDatagram) /\ WF_vars(DatagramReceived)
    /\ WF_vars(Handshake) /\ WF_vars(Read) /\ WF_vars(Get) /\ WF_vars(Deliver)
    /\ \A s \in Queues : WF_vars(ResumePut(s))

FairSpec == Spec /\ Fairness

----------------------------------------------------------------------------
(* The types; a queue holds no more than it may, and one more is in the    *)
(* hand of its putter exactly while that waits or is about to go on.       *)
TypeOK ==
    /\ accepted \in 0 .. MaxPackets
    /\ closed \in BOOLEAN /\ strayed \in BOOLEAN
    /\ near \in {"down", "forwarding"}
    /\ far \in {"down", "handshake", "connecting", "forwarding"}
    /\ pipe \in [Stages -> Seq(0 .. accepted \cup {Empty})]
    /\ putting \subseteq Queues
    /\ delivered \in Seq(1 .. accepted)
    /\ nearStops \in 0 .. MaxStops /\ farStops \in 0 .. MaxStops
    /\ \A s \in Queues : Len(pipe[s]) <= Buffer + (IF s \in putting THEN 1 ELSE 0)
    /\ \A s \in putting : pipe[s] # << >>
    /\ Len(pipe["link"]) <= MaxLink
    /\ Len(pipe["read"]) <= ReadBuffer
    /\ Len(pipe["out"]) <= 1

(* Through queues that fill up, datagrams that get lost or do not fit, and *)
(* instances that stop and are started again, nothing is forwarded out of  *)
(* order or twice.                                                         *)
InPipe(n) == \E s \in Stages : \E i \in 1 .. Len(pipe[s]) : pipe[s][i] = n

fifo == INSTANCE LossyFIFO WITH pending <- {n \in 1 .. accepted : InPipe(n)}

ImplementsFIFO == fifo!Spec

(* The packet of the test never gets to the Switch as an input report      *)
(* (connectEth(): "just sending a single packet to test the connection     *)
(* beforehand"), unless the near instance was started anew.                *)
TestStaysInside == nearStops = 0 => ~ strayed

(* No packet gets stuck: every one is delivered or lost, even when empty   *)
(* data floods the queue behind it, or if the Switch does not connect.     *)
NothingStuck ==
    \A n \in 1 .. MaxPackets : InPipe(n) ~> (~ InPipe(n) \/ far = "connecting")
=============================================================================
