-------------------------------- MODULE MCU --------------------------------
(***************************************************************************)
(* MicroControllerUnit of joycontrol/mcu.py: the NFC reader of the         *)
(* controller.  The console's requests arrive in sub commands and 0x11     *)
(* reports; the answers are queued and leave one by one in the regular     *)
(* input reports of mode 0x31.  A write to the tag arrives in several      *)
(* packets and is applied by a task of its own, process_nfc_write().       *)
(*                                                                         *)
(* A handler never awaits, so it is one action; the task that applies a    *)
(* write runs some time after it was created.  The tag and its files are   *)
(* NFCTag.  A write request is Packets packets that carry its number; what *)
(* is left of it when some are missing or doubled parses as anything.      *)
(*                                                                         *)
(* The console is external.  What this module assumes of it: it sends the  *)
(* packets of a request in order and may repeat the latest one; in         *)
(* LossySpec one may also not arrive.  With Interrupts it may abandon a    *)
(* request in the middle, for a new one or to set the MCU up anew.  It     *)
(* polls for the tag as often as it likes ("up to 8 times a frame").       *)
(***************************************************************************)
EXTENDS Integers, Sequences, FiniteSets

CONSTANTS
    Files, Cut, NoTag, IOFails,  \* see NFCTag
    Torn,         \* the content a write that is not whole makes
    Packets,      \* packets of a write request
    MaxRequests,  \* bound: write requests
    MaxQueue,     \* max_response_queue_len
    MaxForced,    \* bound: the queue's length, forced responses included
    MaxTasks,     \* bound: process_nfc_write() tasks not run yet
    Countdown,    \* the status requests a write takes to process
    Removals,     \* the polls answered with the empty amiibo after a write
    Interrupts

(* A request in one packet takes another way: WriteSinglePacket.           *)
ASSUME MCUAssumption ==
    /\ Packets \in Nat \ {0, 1}
    /\ {MaxQueue, Countdown, Removals} \subseteq Nat \ {0}
    /\ {MaxRequests, MaxForced, MaxTasks} \subseteq Nat
    /\ {IOFails, Interrupts} \subseteq BOOLEAN
    /\ Cut \notin (0 .. MaxRequests) \cup {Torn}
    /\ {"empty", "none"} \cap Files = {}

VARIABLES
    tag, disk, backups, held,  \* NFCTag
    power,       \* power_state
    nfc,         \* nfc_state
    counter,     \* nfc_counter, which matters only above zero
    lastUid,     \* _last_poll_uid
    removing,    \* _pending_active_remove
    ack,         \* ack_seq_no
    received,    \* received_data, as the packets it was put together from
    tasks,       \* the process_nfc_write() tasks created and not yet run
    queue,       \* response_queue
    request,     \* the number of the console's latest write request
    sent,        \* the packets of it the console has sent; one more stands
                 \* for a request in one packet, or abandoned
    reported,    \* the tag the last report told of, if any, and the writes before
    removalSeen, \* one told the console of the removal, since the last write
    lost         \* the answers that were to tell it since then and never will

tagVars == <<tag, disk, backups, held>>
nfcVars == <<nfc, counter, lastUid, removing>>
writeVars == <<ack, received, tasks>>
consoleVars == <<request, sent>>
reportVars == <<reported, removalSeen, lost>>
vars == <<tagVars, power, nfcVars, writeVars, queue, consoleVars, reportVars>>

amiibo == INSTANCE NFCTag WITH Contents <- (0 .. MaxRequests) \cup {Torn}

(* The UID is that of the file; "empty" is the amiibo of zeros that stands *)
(* for a removed one.                                                      *)
Uids == Files \cup {"empty", "none"}

UidOf(t) == IF t = NoTag THEN "none" ELSE t.source

(* The states in which a status request polls for the tag.                 *)
Polling == {"POLL", "POLL_AGAIN"}

(* A response: what it is; and of the answer to a poll the UID, and how    *)
(* many writes had been received before it.                                *)
Received == IF request = 0 \/ sent >= Packets THEN request ELSE request - 1

Response(what) == [what |-> what, uid |-> "none", after |-> 0]

PollAnswer(u) == [what |-> "poll", uid |-> u, after |-> Received]

NoResponse == Response("nothing")

NothingSeen == [uid |-> "none", after |-> 0]

ReadAnswer == <<"read1", "read2", "read3">>

Init ==
    /\ amiibo!Init
    /\ disk = [f \in Files |-> 0]
    /\ power = "SUSPENDED"
    /\ nfc = "NONE" /\ counter = 0 /\ lastUid = "none" /\ removing = 0
    /\ ack = 0 /\ received = <<>> /\ tasks = <<>>
    /\ queue = <<>>
    /\ request = 0 /\ sent = 0
    /\ reported = NothingSeen /\ removalSeen = TRUE /\ lost = 0

----------------------------------------------------------------------------
(* The response queue                                                      *)

(* _queue_response: a full queue drops the response.                       *)
QueueResponse(q, r) == IF Len(q) < MaxQueue THEN Append(q, r) ELSE q

(* _get_status_data                                                        *)
StatusData(p) == IF p = "SUSPENDED" THEN NoResponse ELSE Response("status")

(* The answers in q that tell of the removal.                              *)
Empties(q) == Cardinality({i \in DOMAIN q : q[i].uid = "empty"})

(* n answers that tell of the removal are dropped or flushed.  (They are   *)
(* counted up to Removals, until the console has seen one.)                *)
LoseAnswers(n) ==
    lost' = IF removalSeen THEN lost ELSE IF lost + n < Removals THEN lost + n ELSE Removals

(* get_data(): the report of mode 0x31 takes the next response with it.    *)
GetData ==
    /\ LET r == IF queue = <<>> THEN NoResponse ELSE Head(queue) IN
       /\ reported' = IF r.uid \in Files THEN [uid |-> r.uid, after |-> r.after] ELSE NothingSeen
       /\ removalSeen' = (removalSeen \/ r.uid = "empty")
       /\ lost' = IF r.uid = "empty" THEN 0 ELSE lost
    /\ queue' = IF queue = <<>> THEN <<>> ELSE Tail(queue)
    /\ UNCHANGED <<tagVars, power, nfcVars, writeVars, consoleVars>>

----------------------------------------------------------------------------
(* Power and configuration                                                 *)

Midway == sent \in 1 .. Packets - 1

Abandon == sent' = (IF Midway THEN Packets + 1 ELSE sent) /\ UNCHANGED request

(* set_power_state_cmd(); a state that is not implemented sets READY.      *)
SetPowerState(p) ==
    /\ Midway => Interrupts
    /\ power' = IF p = "SUSPENDED" THEN p ELSE "READY"
    /\ queue' = QueueResponse(<<>>, StatusData(power'))
    /\ LoseAnswers(Empties(queue))
    /\ Abandon
    /\ UNCHANGED <<tagVars, nfcVars, writeVars, reported, removalSeen>>

(* set_config_cmd(); outside READY it does nothing.                        *)
SetConfig(p) ==
    /\ power = "READY"
    /\ Midway => Interrupts
    /\ power' = IF p = "CONFIGURED_NFC" THEN p ELSE "READY"
    /\ IF p = "CONFIGURED_NFC"
       THEN nfc' = "NONE" /\ counter' = 0 /\ ack' = 0
       ELSE UNCHANGED <<nfc, counter, ack>>
    /\ queue' = QueueResponse(queue, StatusData(power'))
    /\ Abandon
    /\ UNCHANGED <<tagVars, lastUid, removing, received, tasks, reportVars>>

(* received_11 with a status request.                                      *)
StatusRequest ==
    /\ queue' = QueueResponse(queue, StatusData(power))
    /\ UNCHANGED <<tagVars, power, nfcVars, writeVars, consoleVars, reportVars>>

----------------------------------------------------------------------------
(* NFC commands                                                            *)

(* Faulty: only a tag that was taken away is removed. *)
RemovingAbsentTag(s) == s \in Polling /\ removing > 0 /\ tag = NoTag

(* Faulty: the removal has no end. *)
RemovingForever(s) == s \in Polling

(* The UID that _get_nfc_status_data tells in state s: the empty amiibo    *)
(* while a removal is pending (remove_nfc_after_write is always set).      *)
Removing(s) == s \in Polling /\ removing > 0

SeenUid(s) == IF Removing(s) THEN "empty" ELSE UidOf(tag)

(* Command 0x04: _get_nfc_status_data in the state nfc.  A write that was  *)
(* processed leads to NONE; POLL and POLL_AGAIN tell whether the UID is    *)
(* the one polled before.  The poll counts even if its answer is dropped.  *)
NfcStatusRequest ==
    /\ power = "CONFIGURED_NFC"
    /\ LET uid == SeenUid(nfc)
           again == uid # "none" /\ uid = lastUid IN
       /\ nfc' = CASE nfc = "PROCESSING_WRITE" /\ counter <= 1 -> "NONE"
                   [] nfc \in Polling -> IF again THEN "POLL_AGAIN" ELSE "POLL"
                   [] OTHER -> nfc
       /\ lastUid' = IF nfc \in Polling THEN uid ELSE lastUid
       /\ queue' = QueueResponse(queue, IF nfc' \in Polling THEN PollAnswer(uid) ELSE Response("nfc"))
    /\ removing' = IF Removing(nfc) THEN removing - 1 ELSE removing
    /\ LoseAnswers(IF Removing(nfc) /\ Len(queue) >= MaxQueue THEN 1 ELSE 0)
    /\ counter' = IF counter > 0 THEN counter - 1 ELSE 0
    /\ UNCHANGED <<tagVars, power, writeVars, consoleVars, reported, removalSeen>>

(* Command 0x01.                                                           *)
StartPolling ==
    /\ power = "CONFIGURED_NFC"
    /\ nfc' = "POLL"
    /\ UNCHANGED <<tagVars, power, counter, lastUid, removing, writeVars, queue,
                   consoleVars, reportVars>>

(* Command 0x02.                                                           *)
StopPolling ==
    /\ power = "CONFIGURED_NFC"
    /\ nfc' = "NONE" /\ lastUid' = "none"
    /\ UNCHANGED <<tagVars, power, counter, removing, writeVars, queue, consoleVars,
                   reportVars>>

(* Faulty: the answer joins the queue like any other. *)
ReadTagUnforced ==
    /\ power = "CONFIGURED_NFC"
    /\ tag # NoTag
    /\ queue' = QueueResponse(QueueResponse(QueueResponse(queue,
                    Response("read1")), Response("read2")), Response("read3"))
    /\ UNCHANGED <<tagVars, power, nfcVars, writeVars, consoleVars, reportVars>>

(* Command 0x06 with a UID of zeros reads the tag: three forced responses  *)
(* in a queue of their own.                                                *)
ReadTag ==
    /\ power = "CONFIGURED_NFC"
    /\ tag # NoTag
    /\ queue' = [i \in 1 .. 3 |-> Response(ReadAnswer[i])]
    /\ LoseAnswers(Empties(queue))
    /\ UNCHANGED <<tagVars, power, nfcVars, writeVars, consoleVars, reported, removalSeen>>

(* A task holds a reference to received_data: Shared is the list that is   *)
(* received_data now; once there is a new list, the old one stays as it is.*)
Shared == <<0>>

Data(d) == IF d = Shared THEN received ELSE d

(* Command 0x06 with another UID announces a write; ack_seq_no stays.      *)
SetUpWrite ==
    /\ power = "CONFIGURED_NFC"
    /\ tag # NoTag
    /\ Midway => Interrupts
    /\ request < MaxRequests
    /\ Len(queue) < MaxForced
    /\ received' = <<>>
    /\ tasks' = [i \in DOMAIN tasks |-> [tasks[i] EXCEPT !.data = Data(@)]]
    /\ nfc' = "AWAITING_WRITE"
    /\ queue' = Append(queue, Response("setup"))
    /\ request' = request + 1 /\ sent' = 0
    /\ UNCHANGED <<tagVars, power, counter, lastUid, removing, ack, reportVars>>

(* Packet k is stored if it is the next one; one that was seen before is   *)
(* left, and any other makes the count start over, which stores nothing    *)
(* and forgets nothing.                                                    *)
NewAck(k) == IF k <= ack THEN ack ELSE IF k = ack + 1 THEN k ELSE 0

(* Faulty: a packet that was seen before is stored again. *)
NewDataRepeated(k) == IF k <= ack + 1 THEN Append(received, k) ELSE received

NewData(k) == IF k = ack + 1 THEN Append(received, k) ELSE received

(* Faulty: the count is not reset after the last packet. *)
WritePacketKeepingAck(k) ==
    /\ power = "CONFIGURED_NFC"
    /\ request > 0
    /\ k \in {sent, sent + 1} \ {0} /\ k <= Packets
    /\ Len(queue) < MaxForced
    /\ sent' = k
    /\ received' = NewData(k)
    /\ ack' = NewAck(k)
    /\ queue' = Append(queue, Response("nfc"))
    /\ IF k < Packets
       THEN /\ nfc' = "WRITING"
            /\ counter' = IF counter > 0 THEN counter - 1 ELSE 0
            /\ UNCHANGED <<tasks, removing, removalSeen, lost>>
       ELSE /\ nfc' = "PROCESSING_WRITE"
            /\ counter' = Countdown
            /\ removing' = Removals
            /\ removalSeen' = (removalSeen /\ k = sent)
            /\ lost' = IF k = sent THEN lost ELSE 0
            /\ Len(tasks) < MaxTasks
            /\ tasks' = Append(tasks, [data |-> Shared, number |-> request])
    /\ UNCHANGED <<tagVars, power, lastUid, request, reported>>

(* Command 0x08 with packet k: a forced status in state WRITING, with the  *)
(* new count; the last packet ends the sequence and creates the task.      *)
WritePacket(k) ==
    /\ power = "CONFIGURED_NFC"
    /\ request > 0
    /\ k \in {sent, sent + 1} \ {0} /\ k <= Packets
    /\ Len(queue) < MaxForced
    /\ sent' = k
    /\ received' = NewData(k)
    /\ queue' = Append(queue, Response("nfc"))
    /\ IF k < Packets
       THEN /\ ack' = NewAck(k)
            /\ nfc' = "WRITING"
            /\ counter' = IF counter > 0 THEN counter - 1 ELSE 0
            /\ UNCHANGED <<tasks, removing, removalSeen, lost>>
       ELSE /\ ack' = 0
            /\ nfc' = "PROCESSING_WRITE"
            /\ counter' = Countdown
            /\ removing' = Removals
            /\ removalSeen' = (removalSeen /\ k = sent)
            /\ lost' = IF k = sent THEN lost ELSE 0
            /\ Len(tasks) < MaxTasks
            /\ tasks' = Append(tasks, [data |-> Shared, number |-> request])
    /\ UNCHANGED <<tagVars, power, lastUid, request, reported>>

(* Command 0x08 that is a whole request in one packet: no answer, and no   *)
(* change of state.                                                        *)
Whole == [k \in 1 .. Packets |-> k]

WriteSinglePacket ==
    /\ power = "CONFIGURED_NFC"
    /\ ~ Midway
    /\ request < MaxRequests
    /\ Len(tasks) < MaxTasks
    /\ tasks' = Append(tasks, [data |-> Whole, number |-> request + 1])
    /\ request' = request + 1 /\ sent' = Packets + 1
    /\ UNCHANGED <<tagVars, power, nfcVars, ack, received, queue, reportVars>>

LosePacket ==
    /\ request > 0 /\ sent < Packets
    /\ sent' = sent + 1
    /\ UNCHANGED <<tagVars, power, nfcVars, writeVars, queue, request, reportVars>>

(* The next process_nfc_write() task runs, on the tag of this moment.  A   *)
(* wrong UID is only logged; a wrong length of it ends the task.           *)
RunWrite ==
    /\ tasks # <<>>
    /\ tasks' = Tail(tasks)
    /\ LET data == Data(Head(tasks).data)
           result == IF data = Whole /\ tag.data \notin {Torn, Cut}
                     THEN Head(tasks).number ELSE Torn IN
       \/ tag = NoTag /\ UNCHANGED tagVars
       \/ tag # NoTag /\ data # Whole /\ UNCHANGED tagVars
       \/ amiibo!WriteTag(result)
       \/ amiibo!SaveFails(result)
       \/ amiibo!BackupFails
    /\ UNCHANGED <<power, nfcVars, ack, received, queue, consoleVars, reportVars>>

(* The nfc command of the application.                                     *)
SetNfc ==
    /\ amiibo!RemoveNfc \/ \E f \in Files : amiibo!LoadAmiibo(f)
    /\ UNCHANGED <<power, nfcVars, writeVars, queue, consoleVars, reportVars>>

----------------------------------------------------------------------------
Next ==
    \/ GetData
    \/ \E p \in {"SUSPENDED", "READY"} : SetPowerState(p)
    \/ \E p \in {"READY", "CONFIGURED_NFC"} : SetConfig(p)
    \/ StatusRequest
    \/ NfcStatusRequest
    \/ StartPolling
    \/ StopPolling
    \/ ReadTag
    \/ SetUpWrite
    \/ \E k \in 1 .. Packets : WritePacket(k)
    \/ WriteSinglePacket
    \/ RunWrite
    \/ SetNfc

Spec == Init /\ [][Next]_vars

LossySpec == Init /\ [][Next \/ LosePacket]_vars

----------------------------------------------------------------------------
States == {"NONE", "POLL", "POLL_AGAIN", "AWAITING_WRITE", "WRITING", "PROCESSING_WRITE"}

Responses == [what : {"nothing", "status", "nfc", "poll", "setup", "read1", "read2", "read3"},
              uid : Uids, after : 0 .. MaxRequests]

(* The types; the removal ends after Removals polls.                       *)
TypeOK ==
    /\ amiibo!TypeOK
    /\ power \in {"SUSPENDED", "READY", "CONFIGURED_NFC"}
    /\ nfc \in States
    /\ counter \in 0 .. Countdown
    /\ lastUid \in Uids
    /\ removing \in 0 .. Removals
    /\ ack \in 0 .. Packets - 1
    /\ received \in Seq(1 .. Packets)
    /\ tasks \in Seq([data : Seq(0 .. Packets), number : 1 .. MaxRequests])
    /\ queue \in Seq(Responses)
    /\ request \in 0 .. MaxRequests
    /\ sent \in 0 .. Packets + 1
    /\ reported \in [uid : Uids, after : 0 .. MaxRequests]
    /\ removalSeen \in BOOLEAN
    /\ lost \in 0 .. Removals

(* "After all data regarding the write to the tag has been received":      *)
(* every task that waits to apply a write holds the whole request, up to   *)
(* the moment it runs, although it shares its list with the packets that   *)
(* still arrive (process_nfc_write(), line 225).                           *)
WritesAreComplete == \A i \in DOMAIN tasks : Data(tasks[i].data) = Whole

(* What the MCU would acknowledge of the present request, it has stored    *)
(* (ack_seq_no against received_data).                                     *)
AckCoversData == \A k \in 1 .. ack : \E i \in DOMAIN received : received[i] = k

(* The three parts of a read are queued together and stay together and in  *)
(* order, whatever else is queued, dropped or flushed, until they leave.   *)
ReadAnswerWhole ==
    \A i \in DOMAIN queue : \A n \in 1 .. 2 :
        queue[i].what = ReadAnswer[n] =>
            i < Len(queue) /\ queue[i + 1].what = ReadAnswer[n + 1]

(* Whatever the console asks for, and whatever backup or save fails        *)
(* underneath, nothing a file ever contained is lost: it is still there,   *)
(* or in a backup (set_mutable() and create_backup(): "to prevent          *)
(* corruption").                                                           *)
TagLosesNothing == amiibo!NoContentLost

(* "After writing we need to "remove" the amiibo": a poll that comes after *)
(* a write does not show the console a tag before one showed it the empty  *)
(* amiibo (_pending_active_remove, line 127).  Unless all the answers that *)
(* were to tell of it were lost: each poll counts, but a full queue drops  *)
(* the answer, and a read or a change of the power state flushes it.       *)
TagReappearsRemoved ==
    (/\ reported.uid \in Files
     /\ reported.after = request
     /\ lost < Removals) => removalSeen
=============================================================================
