----------------------------- MODULE MCUProofs ------------------------------
(***************************************************************************)
(* Proofs about MCU, for any number of packets, requests, removals and any *)
(* length of the queue: the types; that the tag is written as NFCTag says; *)
(* that a console which completes its requests has them applied whole;     *)
(* that the parts of a read stay together; and that a console sees the tag *)
(* removed after a write, unless every answer that tells of it is lost.    *)
(***************************************************************************)
EXTENDS MCU, SequenceTheorems, FiniteSetTheorems, TLAPS

N == INSTANCE NFCTagProofs WITH Contents <- (0 .. MaxRequests) \cup {Torn}

LEMMA TagAssumption == N!NFCTagAssumption
  BY MCUAssumption DEF N!NFCTagAssumption

LEMMA Numbers ==
    /\ Packets \in Nat /\ Packets > 1
    /\ Countdown \in Nat /\ Countdown > 0
    /\ Removals \in Nat /\ Removals > 0
    /\ MaxQueue \in Nat /\ MaxRequests \in Nat
  BY MCUAssumption

(* What a sequence is made of.                                             *)
LEMMA Elements ==
    ASSUME NEW S, NEW s \in Seq(S)
    PROVE  /\ \A i \in DOMAIN s : s[i] \in S
           /\ s # <<>> => Head(s) \in S /\ Tail(s) \in Seq(S)
           /\ \A e \in S : Append(s, e) \in Seq(S)
  OBVIOUS

(* The members of s and e are those of Append(s, e).                       *)
LEMMA Appended ==
    ASSUME NEW S, NEW s \in Seq(S), NEW e
    PROVE  \A i \in DOMAIN Append(s, e) :
               (i \in DOMAIN s /\ Append(s, e)[i] = s[i]) \/ Append(s, e)[i] = e
  OBVIOUS

Tasks == [data : Seq(0 .. Packets), number : 1 .. MaxRequests]

----------------------------------------------------------------------------
(* The tag                                                                 *)

TagStep == N!Next \/ UNCHANGED tagVars

LEMMA Result ==
    ASSUME TypeOK, tasks # <<>>
    PROVE  Head(tasks).number \in (0 .. MaxRequests) \cup {Torn}
<1>1. tasks \in Seq(Tasks)
  BY DEF TypeOK, Tasks
<1>2. Head(tasks) \in Tasks
  BY <1>1, Elements
<1> QED
  BY <1>2, Numbers DEF Tasks

LEMMA TagSteps ==
    ASSUME TypeOK, [Next]_vars
    PROVE  TagStep
<1>1. CASE RunWrite
  <2>1. CASE UNCHANGED tagVars
    BY <2>1 DEF TagStep
  <2>2. ASSUME NEW c \in (0 .. MaxRequests) \cup {Torn},
               amiibo!WriteTag(c) \/ amiibo!SaveFails(c) \/ amiibo!BackupFails
        PROVE  TagStep
    BY <2>2 DEF TagStep, N!Next, amiibo!WriteTag, amiibo!SaveFails, amiibo!BackupFails,
                amiibo!Backup, amiibo!Save, N!WriteTag, N!SaveFails, N!BackupFails,
                N!Backup, N!Save
  <2> QED
    BY <1>1, <2>1, <2>2, Result DEF RunWrite
<1>2. CASE SetNfc
  BY <1>2 DEF SetNfc, TagStep, N!Next, amiibo!RemoveNfc, amiibo!LoadAmiibo, N!RemoveNfc,
              N!LoadAmiibo
<1>3. CASE UNCHANGED tagVars
  BY <1>3 DEF TagStep
<1> QED
  BY <1>1, <1>2, <1>3
     DEF Next, vars, GetData, SetPowerState, SetConfig, StatusRequest, NfcStatusRequest,
         StartPolling, StopPolling, ReadTag, SetUpWrite, WritePacket, WriteSinglePacket

(* So whatever NFCTag preserves is preserved here.                         *)
LEMMA TagInvariant ==
    ASSUME N!Inv, TypeOK, [Next]_vars
    PROVE  N!Inv' /\ amiibo!TypeOK'
<1>1. N!Next \/ UNCHANGED N!vars
  BY TagSteps DEF TagStep, N!vars, tagVars
<1>2. N!Inv'
  BY <1>1, N!Inductive, TagAssumption
<1> QED
  BY <1>2 DEF N!Inv, N!TypeOK, N!Tags, amiibo!TypeOK, amiibo!Tags

----------------------------------------------------------------------------
(* The types                                                               *)

LEMMA Typed ==
    ASSUME TypeOK
    PROVE  /\ UidOf(tag) \in Uids
           /\ \A s : SeenUid(s) \in Uids
           /\ Received \in 0 .. MaxRequests
           /\ \A w \in {"nothing", "status", "nfc", "setup", "read1", "read2", "read3"} :
                 Response(w) \in Responses
           /\ \A u \in Uids : PollAnswer(u) \in Responses
           /\ \A p : StatusData(p) \in Responses
<1>1. UidOf(tag) \in Uids
  BY DEF TypeOK, amiibo!TypeOK, amiibo!Tags, UidOf, Uids
<1>2. \A s : SeenUid(s) \in Uids
  BY <1>1 DEF SeenUid, Uids
<1>3. Received \in 0 .. MaxRequests
  BY Numbers DEF TypeOK, Received
<1>4. \A w \in {"nothing", "status", "nfc", "setup", "read1", "read2", "read3"} :
          Response(w) \in Responses
  BY Numbers DEF Response, Responses, Uids
<1>5. \A u \in Uids : PollAnswer(u) \in Responses
  BY <1>3 DEF PollAnswer, Responses
<1>6. \A p : StatusData(p) \in Responses
  BY <1>4 DEF StatusData, NoResponse
<1> QED
  BY <1>1, <1>2, <1>3, <1>4, <1>5, <1>6

(* _queue_response adds its response at the end, or nothing.               *)
LEMMA Queued ==
    ASSUME NEW q \in Seq(Responses), NEW r \in Responses
    PROVE  /\ QueueResponse(q, r) \in Seq(Responses)
           /\ QueueResponse(q, r) = q \/ QueueResponse(q, r) = Append(q, r)
           /\ Len(q) < MaxQueue => QueueResponse(q, r) = Append(q, r)
BY DEF QueueResponse

LEMMA LostTyped ==
    ASSUME TypeOK, NEW n \in Nat, LoseAnswers(n)
    PROVE  lost' \in 0 .. Removals
BY Numbers DEF TypeOK, LoseAnswers

LEMMA GetDataTypes == ASSUME TypeOK, amiibo!TypeOK', GetData PROVE TypeOK'
<1> DEFINE r == IF queue = <<>> THEN NoResponse ELSE Head(queue)
<1>1. r \in Responses
  BY Typed, Elements DEF TypeOK, NoResponse
<1>2. reported' \in [uid : Uids, after : 0 .. MaxRequests]
  BY <1>1, Numbers DEF GetData, Responses, Uids, NothingSeen
<1>3. queue' \in Seq(Responses)
  BY Elements DEF GetData, TypeOK
<1>4. removalSeen' \in BOOLEAN /\ lost' \in 0 .. Removals
  BY Numbers DEF GetData, TypeOK
<1> QED
  BY <1>2, <1>3, <1>4
     DEF TypeOK, GetData, nfcVars, writeVars, consoleVars

(* How many answers tell of the removal.                                   *)
LEMMA Counted ==
    ASSUME NEW q \in Seq(Responses)
    PROVE  /\ IsFiniteSet({i \in DOMAIN q : q[i].uid = "empty"})
           /\ Empties(q) \in Nat
<1>1. IsFiniteSet(DOMAIN q)
  <2>1. DOMAIN q = 1 .. Len(q) /\ Len(q) \in Nat
    OBVIOUS
  <2> QED
    BY <2>1, FS_Interval
<1>2. IsFiniteSet({i \in DOMAIN q : q[i].uid = "empty"})
  BY <1>1, FS_Subset
<1> QED
  BY <1>2, FS_CardinalityType DEF Empties

LEMMA SetPowerStateTypes ==
    ASSUME TypeOK, amiibo!TypeOK', NEW p \in {"SUSPENDED", "READY"}, SetPowerState(p)
    PROVE  TypeOK'
<1>1. power' \in {"SUSPENDED", "READY", "CONFIGURED_NFC"}
  BY DEF SetPowerState
<1>2. queue' \in Seq(Responses)
  <2>1. <<>> \in Seq(Responses)
    OBVIOUS
  <2> QED
    BY <1>1, <2>1, Typed, Queued DEF SetPowerState
<1>3. sent' \in 0 .. Packets + 1 /\ request' = request
  BY Numbers DEF TypeOK, SetPowerState, Abandon
<1>4. lost' \in 0 .. Removals
  BY Counted, LostTyped DEF TypeOK, SetPowerState
<1> QED
  BY <1>1, <1>2, <1>3, <1>4 DEF TypeOK, SetPowerState, nfcVars, writeVars

LEMMA SetConfigTypes ==
    ASSUME TypeOK, amiibo!TypeOK', NEW p \in {"READY", "CONFIGURED_NFC"}, SetConfig(p)
    PROVE  TypeOK'
<1>1. power' \in {"SUSPENDED", "READY", "CONFIGURED_NFC"}
  BY DEF SetConfig
<1>2. queue' \in Seq(Responses)
  BY <1>1, Typed, Queued DEF SetConfig, TypeOK
<1>3. sent' \in 0 .. Packets + 1 /\ request' = request
  BY Numbers DEF TypeOK, SetConfig, Abandon
<1>4. nfc' \in States /\ counter' \in 0 .. Countdown /\ ack' \in 0 .. Packets - 1
  BY Numbers DEF TypeOK, SetConfig, States
<1> QED
  BY <1>1, <1>2, <1>3, <1>4 DEF TypeOK, SetConfig, reportVars

LEMMA StatusRequestTypes == ASSUME TypeOK, amiibo!TypeOK', StatusRequest PROVE TypeOK'
<1>1. queue' \in Seq(Responses)
  BY Typed, Queued DEF StatusRequest, TypeOK
<1> QED
  BY <1>1 DEF TypeOK, StatusRequest, nfcVars, writeVars, consoleVars, reportVars

LEMMA NfcStatusRequestTypes == ASSUME TypeOK, amiibo!TypeOK', NfcStatusRequest PROVE TypeOK'
<1>1. nfc' \in States
  BY DEF TypeOK, NfcStatusRequest, States
<1>2. lastUid' \in Uids
  BY Typed DEF TypeOK, NfcStatusRequest
<1>3. queue' \in Seq(Responses)
  <2>1. (IF nfc' \in Polling THEN PollAnswer(SeenUid(nfc)) ELSE Response("nfc")) \in Responses
    BY Typed
  <2> QED
    BY <2>1, Queued DEF TypeOK, NfcStatusRequest
<1>4. removing' \in 0 .. Removals /\ counter' \in 0 .. Countdown
  BY Numbers, SMTT(30) DEF TypeOK, NfcStatusRequest, Removing
<1>5. lost' \in 0 .. Removals
  BY LostTyped DEF NfcStatusRequest
<1> QED
  BY <1>1, <1>2, <1>3, <1>4, <1>5
     DEF TypeOK, NfcStatusRequest, writeVars, consoleVars

LEMMA PollingTypes ==
    ASSUME TypeOK, amiibo!TypeOK', StartPolling \/ StopPolling
    PROVE  TypeOK'
BY DEF TypeOK, StartPolling, StopPolling, States, Uids, writeVars, consoleVars, reportVars

LEMMA ReadTagTypes == ASSUME TypeOK, amiibo!TypeOK', ReadTag PROVE TypeOK'
<1>1. \A i \in 1 .. 3 : Response(ReadAnswer[i]) \in Responses
  BY Typed DEF ReadAnswer
<1>2. queue' \in Seq(Responses)
  BY <1>1 DEF ReadTag
<1>3. lost' \in 0 .. Removals
  BY Counted, LostTyped DEF TypeOK, ReadTag
<1> QED
  BY <1>2, <1>3 DEF TypeOK, ReadTag, nfcVars, writeVars, consoleVars

(* What the tasks will write stays a sequence of packets.                  *)
LEMMA DataTyped ==
    ASSUME TypeOK, NEW d \in Seq(0 .. Packets)
    PROVE  Data(d) \in Seq(0 .. Packets)
<1>1. received \in Seq(0 .. Packets)
  BY Numbers DEF TypeOK
<1> QED
  BY <1>1 DEF Data

LEMMA SetUpWriteTypes == ASSUME TypeOK, amiibo!TypeOK', SetUpWrite PROVE TypeOK'
<1>1. tasks' \in Seq([data : Seq(0 .. Packets), number : 1 .. MaxRequests])
  <2>1. tasks \in Seq(Tasks)
    BY DEF TypeOK, Tasks
  <2>2. ASSUME NEW i \in DOMAIN tasks
        PROVE  [tasks[i] EXCEPT !.data = Data(@)] \in Tasks
    <3>1. tasks[i] \in Tasks
      BY <2>1, <2>2, Elements
    <3> QED
      BY <3>1, DataTyped DEF Tasks
  <2>3. tasks' = [i \in DOMAIN tasks |-> [tasks[i] EXCEPT !.data = Data(@)]]
    BY DEF SetUpWrite
  <2>4. DOMAIN tasks = 1 .. Len(tasks) /\ Len(tasks) \in Nat
    BY <2>1
  <2> QED
    BY <2>2, <2>3, <2>4 DEF Tasks
<1>2. queue' \in Seq(Responses)
  <2>1. Response("setup") \in Responses
    BY Typed
  <2> QED
    BY <2>1 DEF TypeOK, SetUpWrite
<1>3. request' \in 0 .. MaxRequests /\ sent' \in 0 .. Packets + 1
  <2>1. request \in 0 .. MaxRequests /\ request < MaxRequests
        /\ request' = request + 1 /\ sent' = 0
    BY DEF TypeOK, SetUpWrite
  <2> QED
    BY ONLY <2>1, Numbers
<1> QED
  BY <1>1, <1>2, <1>3 DEF TypeOK, SetUpWrite, States, reportVars

LEMMA WritePacketTypes ==
    ASSUME TypeOK, amiibo!TypeOK', NEW k \in 1 .. Packets, WritePacket(k)
    PROVE  TypeOK'
<1>1. received' \in Seq(1 .. Packets)
  <2>1. received' = received \/ received' = Append(received, k)
    BY DEF WritePacket, NewData
  <2>2. received \in Seq(1 .. Packets)
    BY DEF TypeOK
  <2>3. Append(received, k) \in Seq(1 .. Packets)
    BY <2>2, Elements
  <2> QED
    BY <2>1, <2>2, <2>3
<1>2. queue' \in Seq(Responses)
  <2>1. Response("nfc") \in Responses
    BY Typed
  <2> QED
    BY <2>1 DEF TypeOK, WritePacket
<1>3. ack' \in 0 .. Packets - 1
  BY Numbers DEF TypeOK, WritePacket, NewAck
<1>4. tasks' \in Seq([data : Seq(0 .. Packets), number : 1 .. MaxRequests])
  <2>1. [data |-> Shared, number |-> request] \in Tasks
    BY Numbers DEF TypeOK, WritePacket, Shared, Tasks
  <2>2. tasks' = tasks \/ tasks' = Append(tasks, [data |-> Shared, number |-> request])
    BY DEF WritePacket
  <2>3. tasks \in Seq(Tasks)
    BY DEF TypeOK, Tasks
  <2>4. tasks' \in Seq(Tasks)
    BY <2>1, <2>2, <2>3, Elements
  <2> QED
    BY <2>4 DEF Tasks
<1>5. sent' \in 0 .. Packets + 1
  BY Numbers DEF WritePacket
<1>6. nfc' \in States /\ counter' \in 0 .. Countdown /\ removing' \in 0 .. Removals
  BY Numbers DEF TypeOK, WritePacket, States
<1>7. removalSeen' \in BOOLEAN
  BY Zenon DEF TypeOK, WritePacket
<1>8. lost' \in 0 .. Removals
  BY Numbers DEF TypeOK, WritePacket
<1> QED
  BY <1>1, <1>2, <1>3, <1>4, <1>5, <1>6, <1>7, <1>8 DEF TypeOK, WritePacket

LEMMA WriteSinglePacketTypes ==
    ASSUME TypeOK, amiibo!TypeOK', WriteSinglePacket
    PROVE  TypeOK'
<1>1. Whole \in Seq(0 .. Packets)
  BY Numbers DEF Whole
<1>2. tasks' \in Seq([data : Seq(0 .. Packets), number : 1 .. MaxRequests])
  <2>1. [data |-> Whole, number |-> request + 1]
            \in [data : Seq(0 .. Packets), number : 1 .. MaxRequests]
    BY <1>1, Numbers DEF TypeOK, WriteSinglePacket
  <2> QED
    BY <2>1 DEF TypeOK, WriteSinglePacket
<1>3. request' \in 0 .. MaxRequests /\ sent' \in 0 .. Packets + 1
  BY Numbers DEF TypeOK, WriteSinglePacket
<1> QED
  BY <1>2, <1>3 DEF TypeOK, WriteSinglePacket, nfcVars, reportVars

LEMMA RunWriteTypes == ASSUME TypeOK, amiibo!TypeOK', RunWrite PROVE TypeOK'
<1>1. tasks' \in Seq([data : Seq(0 .. Packets), number : 1 .. MaxRequests])
  BY DEF TypeOK, RunWrite
<1> QED
  BY <1>1 DEF TypeOK, RunWrite, nfcVars, consoleVars, reportVars

LEMMA Types ==
    ASSUME TypeOK, amiibo!TypeOK', [Next]_vars
    PROVE  TypeOK'
<1>1. CASE SetNfc
  BY <1>1 DEF TypeOK, SetNfc, nfcVars, writeVars, consoleVars, reportVars
<1>2. CASE UNCHANGED vars
  BY <1>2 DEF TypeOK, vars, nfcVars, writeVars, consoleVars, reportVars
<1> QED
  BY <1>1, <1>2, GetDataTypes, SetPowerStateTypes, SetConfigTypes, StatusRequestTypes,
     NfcStatusRequestTypes, PollingTypes, ReadTagTypes, SetUpWriteTypes, WritePacketTypes,
     WriteSinglePacketTypes, RunWriteTypes
     DEF Next

LEMMA InitialTypes == Init => TypeOK /\ N!Inv
<1> SUFFICES ASSUME Init PROVE TypeOK /\ N!Inv
  OBVIOUS
<1>1. N!Inv
  BY N!Initially, TagAssumption DEF Init, amiibo!Init, N!Init
<1>2. amiibo!TypeOK
  BY <1>1 DEF N!Inv, N!TypeOK, N!Tags, amiibo!TypeOK, amiibo!Tags
<1>3. NothingSeen \in [uid : Uids, after : 0 .. MaxRequests]
  BY Numbers DEF NothingSeen, Uids
<1> QED
  BY <1>1, <1>2, <1>3, Numbers DEF Init, TypeOK, States, Uids

----------------------------------------------------------------------------
(* The parts of a read                                                     *)

ReadsWhole(q) ==
    \A i \in DOMAIN q : \A n \in 1 .. 2 :
        q[i].what = ReadAnswer[n] => i < Len(q) /\ q[i + 1].what = ReadAnswer[n + 1]

(* A response that is no first or second part may join the queue.          *)
LEMMA ReadsAppend ==
    ASSUME NEW q \in Seq(Responses), ReadsWhole(q), NEW r \in Responses,
           r.what \notin {"read1", "read2"}
    PROVE  ReadsWhole(Append(q, r))
<1> SUFFICES ASSUME NEW i \in DOMAIN Append(q, r), NEW n \in 1 .. 2,
                    Append(q, r)[i].what = ReadAnswer[n]
             PROVE  /\ i < Len(Append(q, r))
                    /\ Append(q, r)[i + 1].what = ReadAnswer[n + 1]
  BY DEF ReadsWhole
<1>1. i # Len(q) + 1
  BY DEF ReadAnswer
<1>2. i \in DOMAIN q /\ Append(q, r)[i] = q[i] /\ Len(q) \in Nat
  BY <1>1
<1>3. i < Len(q) /\ q[i + 1].what = ReadAnswer[n + 1]
  BY <1>2 DEF ReadsWhole
<1> QED
  BY <1>2, <1>3

LEMMA ReadsTail ==
    ASSUME NEW q \in Seq(Responses), q # <<>>, ReadsWhole(q)
    PROVE  ReadsWhole(Tail(q))
<1> SUFFICES ASSUME NEW i \in DOMAIN Tail(q), NEW n \in 1 .. 2,
                    Tail(q)[i].what = ReadAnswer[n]
             PROVE  /\ i < Len(Tail(q))
                    /\ Tail(q)[i + 1].what = ReadAnswer[n + 1]
  BY DEF ReadsWhole
<1>1. /\ Len(q) \in Nat /\ Len(Tail(q)) = Len(q) - 1
      /\ i \in 1 .. Len(q) - 1
      /\ Tail(q)[i] = q[i + 1]
  OBVIOUS
<1>2. i + 1 < Len(q) /\ q[i + 2].what = ReadAnswer[n + 1]
  <2>1. i + 1 \in DOMAIN q /\ q[i + 1].what = ReadAnswer[n] /\ (i + 1) + 1 = i + 2
    BY <1>1
  <2>2. i + 1 < Len(q) /\ q[(i + 1) + 1].what = ReadAnswer[n + 1]
    BY <2>1 DEF ReadsWhole
  <2> QED
    BY <2>1, <2>2
<1>3. Tail(q)[i + 1] = q[i + 2]
  BY <1>1, <1>2
<1> QED
  BY <1>1, <1>2, <1>3

LEMMA ReadsKept ==
    ASSUME TypeOK, [Next]_vars, ReadsWhole(queue)
    PROVE  ReadsWhole(queue')
<1> USE Typed
<1>1. queue \in Seq(Responses) /\ ReadsWhole(<<>>) /\ <<>> \in Seq(Responses)
  BY DEF TypeOK, ReadsWhole
<1>2. \A q \in Seq(Responses), r \in Responses :
          ReadsWhole(q) /\ r.what \notin {"read1", "read2"} => ReadsWhole(QueueResponse(q, r))
  BY Queued, ReadsAppend
<1>3. \A p : StatusData(p).what \notin {"read1", "read2"}
  BY DEF StatusData, Response, NoResponse
<1>4. CASE GetData
  BY <1>1, <1>4, ReadsTail DEF GetData
<1>5. ASSUME NEW p \in {"SUSPENDED", "READY"}, SetPowerState(p)
      PROVE  ReadsWhole(queue')
  BY <1>1, <1>2, <1>3, <1>5 DEF SetPowerState
<1>6. ASSUME NEW p \in {"READY", "CONFIGURED_NFC"}, SetConfig(p)
      PROVE  ReadsWhole(queue')
  BY <1>1, <1>2, <1>3, <1>6 DEF SetConfig
<1>7. CASE StatusRequest
  BY <1>1, <1>2, <1>3, <1>7 DEF StatusRequest, TypeOK
<1>8. CASE NfcStatusRequest
  <2> DEFINE r == IF nfc' \in Polling THEN PollAnswer(SeenUid(nfc)) ELSE Response("nfc")
  <2>1. r \in Responses /\ r.what \notin {"read1", "read2"}
    BY DEF PollAnswer, Response
  <2>2. queue' = QueueResponse(queue, r)
    BY <1>8 DEF NfcStatusRequest
  <2> QED
    BY <1>1, <1>2, <2>1, <2>2
<1>9. CASE ReadTag
  BY <1>9 DEF ReadTag, ReadsWhole, ReadAnswer, Response
<1>10. CASE SetUpWrite
  <2>1. Response("setup").what \notin {"read1", "read2"}
    BY DEF Response
  <2> QED
    BY <1>1, <1>10, <2>1, ReadsAppend DEF SetUpWrite
<1>11. ASSUME NEW k \in 1 .. Packets, WritePacket(k)
       PROVE  ReadsWhole(queue')
  <2>1. Response("nfc").what \notin {"read1", "read2"}
    BY DEF Response
  <2>2. Response("nfc") \in Responses
    OBVIOUS
  <2> QED
    BY <1>1, <1>11, <2>1, <2>2, ReadsAppend DEF WritePacket
<1>12. CASE UNCHANGED queue
  BY <1>1, <1>12
<1> QED
  BY <1>4, <1>5, <1>6, <1>7, <1>8, <1>9, <1>10, <1>11, <1>12
     DEF Next, vars, StartPolling, StopPolling, WriteSinglePacket, RunWrite, SetNfc

----------------------------------------------------------------------------
(* Writes, by a console that completes its requests                        *)

(* While a request arrives, what is stored is what was sent and what is    *)
(* acknowledged; afterwards the count is zero, and a task that shares the  *)
(* list finds a whole request in it until a new request has its own.       *)
WriteInv ==
    /\ sent < Packets => ack = sent /\ received = [k \in 1 .. sent |-> k]
    /\ sent >= Packets => ack = 0
    /\ sent = Packets => received = Whole
    /\ \A i \in DOMAIN tasks :
           \/ tasks[i].data = Whole
           \/ tasks[i].data = Shared /\ sent >= Packets /\ received = Whole

LEMMA SharedIsNotWhole == Shared # Whole
<1>1. Whole[1] = 1 /\ Shared[1] = 0
  BY Numbers DEF Whole, Shared
<1> QED
  BY <1>1

LEMMA WritesFollow ==
    ASSUME TypeOK, WriteInv, ~ Interrupts, [Next]_vars
    PROVE  WriteInv'
<1> USE Numbers
<1>1. sent \in 0 .. Packets + 1 /\ tasks \in Seq(Tasks)
  BY DEF TypeOK, Tasks
<1>2. CASE UNCHANGED <<sent, ack, received, tasks>>
  BY <1>2 DEF WriteInv
<1>3. ASSUME NEW p \in {"SUSPENDED", "READY"}, SetPowerState(p)
      PROVE  WriteInv'
  <2>1. UNCHANGED <<sent, ack, received, tasks>>
    BY <1>3 DEF SetPowerState, Abandon, writeVars
  <2> QED
    BY <2>1, <1>2
<1>4. ASSUME NEW p \in {"READY", "CONFIGURED_NFC"}, SetConfig(p)
      PROVE  WriteInv'
  <2>1. UNCHANGED <<sent, received, tasks>> /\ (ack' = 0 \/ ack' = ack)
    BY <1>4 DEF SetConfig, Abandon
  <2>2. sent = 0 \/ sent >= Packets
    BY <1>1, <1>4 DEF SetConfig, Midway
  <2>3. ack' = ack
    BY <2>1, <2>2 DEF WriteInv
  <2> QED
    BY <1>2, <2>1, <2>3
<1>5. CASE SetUpWrite
  <2>1. sent = 0 \/ sent >= Packets
    BY <1>1, <1>5 DEF SetUpWrite, Midway
  <2>2. ack' = 0 /\ sent' = 0 /\ received' = <<>>
    BY <1>5, <2>1 DEF SetUpWrite, WriteInv
  <2>3. ASSUME NEW i \in DOMAIN tasks'
        PROVE  tasks'[i].data = Whole
    <3>1. /\ DOMAIN tasks' = DOMAIN tasks
          /\ tasks'[i] = [tasks[i] EXCEPT !.data = Data(@)]
      BY <1>5, <2>3 DEF SetUpWrite
    <3>2. tasks[i] \in Tasks
      BY <3>1, <2>3, Elements DEF TypeOK, Tasks
    <3>3. tasks'[i].data = Data(tasks[i].data)
      BY <3>1, <3>2 DEF Tasks
    <3> QED
      BY <3>1, <3>3, <2>3, SharedIsNotWhole DEF WriteInv, Data
  <2>4. received' = [k \in 1 .. sent' |-> k]
    BY <2>2
  <2> QED
    BY <2>2, <2>3, <2>4 DEF WriteInv
<1>6. ASSUME NEW k \in 1 .. Packets, WritePacket(k)
      PROVE  WriteInv'
  <2>1. (k = sent \/ k = sent + 1) /\ sent' = k /\ sent <= Packets /\ received' = NewData(k)
    BY <1>1, <1>6 DEF WritePacket
  <2>2. CASE sent = Packets
    <3>1. k = Packets /\ ack = 0 /\ received = Whole
      BY <2>1, <2>2 DEF WriteInv
    <3>2. received' = Whole
      BY <2>1, <3>1 DEF NewData
    <3>3. tasks' = Append(tasks, [data |-> Shared, number |-> request]) /\ ack' = 0
      BY <1>6, <3>1 DEF WritePacket
    <3>4. \A i \in DOMAIN tasks' : tasks'[i].data = Whole \/ tasks'[i].data = Shared
      <4>1. \A i \in DOMAIN tasks : tasks[i].data = Whole \/ tasks[i].data = Shared
        BY DEF WriteInv
      <4>2. [data |-> Shared, number |-> request].data = Shared
        OBVIOUS
      <4> QED
        BY <1>1, <3>3, <4>1, <4>2, Appended
    <3> QED
      BY <2>1, <3>1, <3>2, <3>3, <3>4 DEF WriteInv
  <2>3. CASE sent < Packets
    <3>1. ack = sent /\ received = [j \in 1 .. sent |-> j]
      BY <2>3 DEF WriteInv
    <3>2. received' = [j \in 1 .. k |-> j]
      <4>1. CASE k = sent
        BY <4>1, <2>1, <3>1 DEF NewData
      <4>2. CASE k = sent + 1
        <5>1. received' = Append([j \in 1 .. sent |-> j], k)
          BY <4>2, <2>1, <3>1 DEF NewData
        <5> QED
          BY <5>1, <4>2, <1>1
      <4> QED
        BY <4>1, <4>2, <2>1
    <3>3. \A i \in DOMAIN tasks : tasks[i].data = Whole
      BY <2>3 DEF WriteInv
    <3>4. CASE k < Packets
      <4>1. tasks' = tasks /\ ack' = k
        BY <1>6, <2>1, <3>1, <3>4 DEF WritePacket, NewAck
      <4> QED
        BY <2>1, <3>2, <3>3, <3>4, <4>1 DEF WriteInv
    <3>5. CASE k = Packets
      <4>1. tasks' = Append(tasks, [data |-> Shared, number |-> request]) /\ ack' = 0
        BY <1>6, <3>5 DEF WritePacket
      <4>2. \A i \in DOMAIN tasks' : tasks'[i].data = Whole \/ tasks'[i].data = Shared
        BY <1>1, <3>3, <4>1, Appended
      <4>3. received' = Whole
        BY <3>2, <3>5 DEF Whole
      <4> QED
        BY <2>1, <3>5, <4>1, <4>2, <4>3 DEF WriteInv
    <3> QED
      BY <3>4, <3>5
  <2> QED
    BY <2>1, <2>2, <2>3, <1>1
<1>7. CASE WriteSinglePacket
  <2>1. tasks' = Append(tasks, [data |-> Whole, number |-> request + 1])
    BY <1>7 DEF WriteSinglePacket
  <2>2. ack' = 0 /\ received' = received /\ sent' = Packets + 1
    BY <1>1, <1>7 DEF WriteSinglePacket, Midway, WriteInv
  <2>3. \A i \in DOMAIN tasks' :
            \/ tasks'[i].data = Whole
            \/ tasks'[i].data = Shared /\ received = Whole
    BY <1>1, <2>1, Appended DEF WriteInv
  <2> QED
    BY <2>2, <2>3 DEF WriteInv
<1>8. CASE RunWrite
  <2>1. UNCHANGED <<sent, ack, received>> /\ tasks' = Tail(tasks) /\ tasks # <<>>
    BY <1>8 DEF RunWrite, consoleVars
  <2>2. \A i \in DOMAIN tasks' : i + 1 \in DOMAIN tasks /\ tasks'[i] = tasks[i + 1]
    BY <1>1, <2>1
  <2> QED
    BY <2>1, <2>2 DEF WriteInv
<1> QED
  BY <1>2, <1>3, <1>4, <1>5, <1>6, <1>7, <1>8
     DEF Next, vars, GetData, StatusRequest, NfcStatusRequest, StartPolling, StopPolling,
         ReadTag, SetNfc, writeVars, consoleVars

LEMMA WritesWhole ==
    ASSUME TypeOK, WriteInv
    PROVE  WritesAreComplete /\ AckCoversData
<1>1. WritesAreComplete
  BY SharedIsNotWhole DEF WritesAreComplete, WriteInv, Data
<1>2. AckCoversData
  BY Numbers, SMTT(30) DEF AckCoversData, WriteInv, TypeOK
<1> QED
  BY <1>1, <1>2

----------------------------------------------------------------------------
(* The removal after a write                                               *)

Emptied(q) == \E i \in DOMAIN q : q[i].uid = "empty"

(* The answers of q that come before the empty amiibo tell of a time with  *)
(* less than w writes.                                                     *)
Old(q, w) ==
    \A i \in DOMAIN q : q[i].uid \in Files =>
        q[i].after < w \/ \E j \in 1 .. i - 1 : q[j].uid = "empty"

(* The console has seen no tag since write w, and in the queue an empty    *)
(* amiibo comes before the first one.                                      *)
Pending(w) ==
    /\ reported.uid \in Files => reported.after < w
    /\ Old(queue, w)

(* The Removals answers that are to tell of a write are yet to be made, in *)
(* the queue, or lost.                                                     *)
Accounted == removing + Empties(queue) + lost >= Removals

RemovalInv ==
    /\ reported.after <= Received
    /\ \A i \in DOMAIN queue : queue[i].after <= Received
    /\ ~ removalSeen => Accounted
    /\ ~ removalSeen /\ lost < Removals => \E w \in 0 .. Received : Pending(w)

LEMMA SomeEmpty ==
    ASSUME NEW q \in Seq(Responses), Empties(q) > 0
    PROVE  Emptied(q)
<1> SUFFICES ASSUME ~ Emptied(q) PROVE FALSE
  OBVIOUS
<1>1. {i \in DOMAIN q : q[i].uid = "empty"} = {}
  BY DEF Emptied
<1>2. Empties(q) = 0
  BY <1>1, FS_EmptySet DEF Empties
<1> QED
  BY <1>2

LEMMA EmptiesJoin ==
    ASSUME NEW q \in Seq(Responses), NEW r \in Responses
    PROVE  Empties(Append(q, r)) = Empties(q) + IF r.uid = "empty" THEN 1 ELSE 0
<1> DEFINE S == {i \in DOMAIN q : q[i].uid = "empty"}
           T == {i \in DOMAIN Append(q, r) : Append(q, r)[i].uid = "empty"}
           n == Len(q) + 1
<1>1. /\ Len(q) \in Nat /\ DOMAIN q = 1 .. Len(q)
      /\ DOMAIN Append(q, r) = 1 .. Len(q) + 1
      /\ \A i \in 1 .. Len(q) : Append(q, r)[i] = q[i]
      /\ Append(q, r)[n] = r
  OBVIOUS
<1>2. IsFiniteSet(S) /\ Empties(q) \in Nat /\ Empties(q) = Cardinality(S)
      /\ Empties(Append(q, r)) = Cardinality(T)
  BY Counted DEF Empties
<1>3. ASSUME r.uid = "empty"
      PROVE  T = S \cup {n} /\ n \notin S
  BY <1>1, <1>3
<1>4. ASSUME r.uid # "empty"
      PROVE  T = S
  BY <1>1, <1>4
<1> HIDE DEF S, T, n
<1>5. Cardinality(S \cup {n}) = IF n \in S THEN Cardinality(S) ELSE Cardinality(S) + 1
  BY <1>2, FS_AddElement
<1>6. CASE r.uid = "empty"
  <2>1. Empties(Append(q, r)) = Empties(q) + 1
    BY <1>2, <1>3, <1>5, <1>6
  <2> QED
    BY <2>1, <1>6, Zenon
<1>7. CASE r.uid # "empty"
  <2>1. Empties(Append(q, r)) = Empties(q) + 0
    BY <1>2, <1>4, <1>7
  <2> QED
    BY <2>1, <1>7, Zenon
<1> QED
  BY <1>6, <1>7

LEMMA EmptiesLeave ==
    ASSUME NEW q \in Seq(Responses), q # <<>>, q[1].uid # "empty"
    PROVE  Empties(Tail(q)) >= Empties(q)
<1> DEFINE S == {i \in DOMAIN q : q[i].uid = "empty"}
           T == {i \in DOMAIN Tail(q) : Tail(q)[i].uid = "empty"}
           f == [i \in S |-> i - 1]
<1>1. /\ Len(q) \in Nat \ {0} /\ DOMAIN q = 1 .. Len(q)
      /\ DOMAIN Tail(q) = 1 .. Len(q) - 1
      /\ \A i \in 1 .. Len(q) - 1 : Tail(q)[i] = q[i + 1]
  OBVIOUS
<1>2. ASSUME NEW i \in S
      PROVE  i \in Nat /\ i - 1 \in T
  <2>1. i \in 1 .. Len(q) /\ i # 1 /\ q[i].uid = "empty"
    BY <1>1
  <2>2. i - 1 \in 1 .. Len(q) - 1 /\ (i - 1) + 1 = i
    BY <1>1, <2>1
  <2>3. Tail(q)[i - 1] = q[i]
    BY <1>1, <2>2
  <2> QED
    BY <1>1, <2>1, <2>2, <2>3
<1>3. Tail(q) \in Seq(Responses)
  BY Elements
<1>4. IsFiniteSet(T) /\ Empties(q) = Cardinality(S) /\ Empties(Tail(q)) = Cardinality(T)
  BY <1>3, Counted DEF Empties
<1> HIDE DEF S, T
<1>5. f \in [S -> T]
  BY <1>2
<1>6. \A a, b \in S : f[a] = f[b] => a = b
  BY <1>2
<1> HIDE DEF f
<1>7. f \in Injection(S, T)
  BY <1>5, <1>6 DEF Injection, IsInjective
<1>8. Cardinality(S) <= Cardinality(T)
  BY <1>4, <1>7, FS_Injection
<1> QED
  BY <1>4, <1>8

LEMMA JoinsQueue ==
    ASSUME NEW q \in Seq(Responses), NEW r \in Responses, NEW w \in Nat, Old(q, w),
           r.uid \in Files => Emptied(q)
    PROVE  Old(Append(q, r), w)
<1>1. /\ Len(q) \in Nat /\ DOMAIN q = 1 .. Len(q)
      /\ DOMAIN Append(q, r) = 1 .. Len(q) + 1
      /\ \A i \in 1 .. Len(q) : Append(q, r)[i] = q[i]
      /\ Append(q, r)[Len(q) + 1] = r
  OBVIOUS
<1> SUFFICES ASSUME NEW i \in 1 .. Len(q) + 1, Append(q, r)[i].uid \in Files
             PROVE  \/ Append(q, r)[i].after < w
                    \/ \E j \in 1 .. i - 1 : Append(q, r)[j].uid = "empty"
  BY <1>1 DEF Old
<1>2. CASE i = Len(q) + 1
  <2>1. PICK j \in 1 .. Len(q) : q[j].uid = "empty"
    BY <1>1, <1>2 DEF Emptied
  <2> QED
    BY <1>1, <1>2, <2>1
<1>3. CASE i \in 1 .. Len(q)
  <2>1. q[i].after < w \/ \E j \in 1 .. i - 1 : q[j].uid = "empty"
    BY <1>1, <1>3 DEF Old
  <2> QED
    BY <1>1, <1>3, <2>1
<1> QED
  BY <1>1, <1>2, <1>3

LEMMA LeavesQueue ==
    ASSUME NEW q \in Seq(Responses), q # <<>>, NEW w \in Nat, Old(q, w),
           q[1].uid # "empty"
    PROVE  /\ Old(Tail(q), w)
           /\ q[1].uid \in Files => q[1].after < w
<1>1. /\ Len(q) \in Nat \ {0} /\ DOMAIN q = 1 .. Len(q)
      /\ DOMAIN Tail(q) = 1 .. Len(q) - 1
      /\ \A i \in 1 .. Len(q) - 1 : Tail(q)[i] = q[i + 1]
  OBVIOUS
<1>2. Old(Tail(q), w)
  <2> SUFFICES ASSUME NEW i \in 1 .. Len(q) - 1, Tail(q)[i].uid \in Files
               PROVE  \/ Tail(q)[i].after < w
                      \/ \E j \in 1 .. i - 1 : Tail(q)[j].uid = "empty"
    BY <1>1 DEF Old
  <2>1. q[i + 1].after < w \/ \E j \in 1 .. (i + 1) - 1 : q[j].uid = "empty"
    BY <1>1 DEF Old
  <2>2. ASSUME NEW j \in 1 .. (i + 1) - 1, q[j].uid = "empty"
        PROVE  \E m \in 1 .. i - 1 : Tail(q)[m].uid = "empty"
    <3>1. j - 1 \in 1 .. i - 1 /\ (j - 1) + 1 = j
      BY <2>2
    <3> QED
      BY <1>1, <2>2, <3>1
  <2> QED
    BY <1>1, <2>1, <2>2
<1>3. q[1].uid \in Files => q[1].after < w
  BY <1>1 DEF Old
<1> QED
  BY <1>2, <1>3

LEMMA ReceivedGrows ==
    ASSUME TypeOK, TypeOK', [Next]_vars
    PROVE  Received <= Received' /\ Received \in Nat /\ Received' \in Nat
<1> USE Numbers
<1>0. request \in Nat /\ sent \in Nat /\ Received \in Nat
  BY Typed DEF TypeOK
<1>1. CASE UNCHANGED consoleVars
  <2>1. Received' = Received
    BY <1>1 DEF Received, consoleVars
  <2> QED
    BY <1>0, <2>1
<1>2. CASE Abandon
  BY <1>0, <1>2 DEF Received, Abandon, Midway
<1>3. CASE SetUpWrite \/ WriteSinglePacket
  <2>1. request \in Nat /\ request' = request + 1 /\ (sent' = 0 \/ sent' = Packets + 1)
    BY <1>3 DEF TypeOK, SetUpWrite, WriteSinglePacket
  <2>2. Received \in {request, request - 1} /\ (Received = request - 1 => request # 0)
    BY DEF Received
  <2>3. Received' \in {request, request + 1}
    BY <2>1 DEF Received
  <2> QED
    BY <2>1, <2>2, <2>3
<1>4. ASSUME NEW k \in 1 .. Packets, WritePacket(k)
      PROVE  Received <= Received' /\ Received \in Nat /\ Received' \in Nat
  BY <1>0, <1>4 DEF Received, WritePacket
<1> QED
  BY <1>1, <1>2, <1>3, <1>4
     DEF Next, vars, GetData, SetPowerState, SetConfig, StatusRequest, NfcStatusRequest,
         StartPolling, StopPolling, ReadTag, RunWrite, SetNfc

(* What the invariant is about, and its types.                             *)
LEMMA RemovalTyped ==
    ASSUME TypeOK
    PROVE  /\ queue \in Seq(Responses) /\ Received \in Nat /\ removing \in Nat
           /\ lost \in Nat /\ lost <= Removals /\ removalSeen \in BOOLEAN
           /\ reported.after \in Nat /\ request \in Nat
           /\ \A i \in DOMAIN queue : queue[i].after \in Nat
           /\ \A r \in Responses : r.after \in Nat
           /\ Empties(queue) \in Nat
<1>1. queue \in Seq(Responses) /\ reported.after \in Nat
  BY DEF TypeOK
<1>2. \A r \in Responses : r.after \in Nat
  BY DEF Responses
<1>3. \A i \in DOMAIN queue : queue[i] \in Responses
  BY <1>1, Elements
<1>4. Empties(queue) \in Nat
  BY <1>1, Counted
<1>5. /\ Received \in Nat /\ removing \in Nat /\ request \in Nat
      /\ lost \in Nat /\ lost <= Removals
  BY Typed, Numbers DEF TypeOK
<1> QED
  BY <1>1, <1>2, <1>3, <1>4, <1>5 DEF TypeOK

(* A response joins the queue, or is dropped and told of nothing; one that *)
(* shows the console a tag does so only when no removal is pending.  An    *)
(* answer that tells of the removal is one of those that were to come.     *)
LEMMA Joining ==
    ASSUME TypeOK, RemovalInv, Received <= Received', Received' \in Nat,
           NEW r \in Responses, r.after <= Received, removing' \in Nat,
           r.uid \in Files => removing = 0,
           \/ queue' = Append(queue, r)
           \/ queue' = queue /\ removing' >= removing,
           \/ removing' >= removing
           \/ r.uid = "empty" /\ removing' = removing - 1,
           UNCHANGED reportVars
    PROVE  RemovalInv'
<1> USE RemovalTyped, Numbers
<1>1. reported'.after <= Received'
  BY DEF RemovalInv, reportVars
<1>2. \A i \in DOMAIN queue' : queue'[i].after <= Received'
  <2>1. CASE queue' = queue
    BY <2>1 DEF RemovalInv
  <2>2. CASE queue' = Append(queue, r)
    <3>1. \A i \in DOMAIN queue' :
              (i \in DOMAIN queue /\ queue'[i] = queue[i]) \/ queue'[i] = r
      BY <2>2, Appended
    <3> QED
      BY <3>1 DEF RemovalInv
  <2> QED
    BY <2>1, <2>2
<1>3. ~ removalSeen' => Accounted'
  <2> SUFFICES ASSUME ~ removalSeen PROVE Accounted'
    BY DEF reportVars
  <2>1. removing + Empties(queue) + lost >= Removals /\ lost' = lost
    BY DEF RemovalInv, Accounted, reportVars
  <2>2. CASE queue' = queue /\ removing' >= removing
    BY <2>1, <2>2 DEF Accounted
  <2>3. CASE queue' = Append(queue, r)
    <3>1. Empties(queue') = Empties(queue) + IF r.uid = "empty" THEN 1 ELSE 0
      BY <2>3, EmptiesJoin
    <3> QED
      BY <2>1, <3>1 DEF Accounted
  <2> QED
    BY <2>2, <2>3
<1>4. ASSUME ~ removalSeen', lost' < Removals
      PROVE  \E w \in 0 .. Received' : Pending(w)'
  <2>1. ~ removalSeen /\ lost < Removals /\ reported' = reported
    BY <1>4 DEF reportVars
  <2>2. PICK w \in 0 .. Received : Pending(w)
    BY <2>1 DEF RemovalInv
  <2>3. w \in 0 .. Received' /\ w \in Nat
    OBVIOUS
  <2>4. r.uid \in Files => Emptied(queue)
    <3>1. ASSUME removing = 0 PROVE Empties(queue) > 0
      BY <2>1, <3>1 DEF RemovalInv, Accounted
    <3> QED
      BY <3>1, SomeEmpty
  <2>5. Old(queue', w)
    BY <2>2, <2>3, <2>4, JoinsQueue DEF Pending
  <2> QED
    BY <2>1, <2>2, <2>3, <2>5 DEF Pending
<1> QED
  BY <1>1, <1>2, <1>3, <1>4 DEF RemovalInv

(* Answers that tell of the removal are lost: that of a poll which meets a *)
(* full queue, or those of a queue that is flushed.                        *)
LEMMA Losing ==
    ASSUME TypeOK, TypeOK', RemovalInv, Received <= Received', Received' \in Nat,
           NEW n \in Nat, LoseAnswers(n),
           removing' + Empties(queue') + n >= removing + Empties(queue),
           \A i \in DOMAIN queue' : queue'[i].after <= Received,
           \A w \in Nat : Old(queue, w) => Old(queue', w),
           UNCHANGED <<reported, removalSeen>>
    PROVE  RemovalInv'
<1> USE RemovalTyped, Numbers
<1>1. Empties(queue') \in Nat /\ removing' \in Nat /\ lost' \in Nat
  <2>1. queue' \in Seq(Responses) /\ removing' \in 0 .. Removals /\ lost' \in 0 .. Removals
    BY DEF TypeOK
  <2>2. Empties(queue') \in Nat
    BY <2>1, Counted
  <2> QED
    BY <2>1, <2>2
<1>2. \A i \in DOMAIN queue' : queue'[i].after \in Nat
  BY Elements DEF TypeOK
<1>3. reported'.after <= Received' /\ \A i \in DOMAIN queue' : queue'[i].after <= Received'
  BY <1>2 DEF RemovalInv
<1>4. ASSUME ~ removalSeen'
      PROVE  Accounted'
  <2>1. removing + Empties(queue) + lost >= Removals
    BY <1>4 DEF RemovalInv, Accounted
  <2>2. lost' = lost + n \/ lost' = Removals
    BY <1>4 DEF LoseAnswers
  <2>3. /\ removing \in Nat /\ Empties(queue) \in Nat /\ lost \in Nat /\ Removals \in Nat
        /\ removing' + Empties(queue') + n >= removing + Empties(queue)
    OBVIOUS
  <2>4. removing' + Empties(queue') + lost' >= Removals
    BY ONLY <1>1, <2>1, <2>2, <2>3, n \in Nat
  <2> QED
    BY <2>4, Zenon DEF Accounted
<1>5. ASSUME ~ removalSeen', lost' < Removals
      PROVE  \E w \in 0 .. Received' : Pending(w)'
  <2>1. ~ removalSeen /\ lost < Removals
    BY <1>5 DEF LoseAnswers
  <2>2. PICK w \in 0 .. Received : Pending(w)
    BY <2>1 DEF RemovalInv
  <2>3. w \in 0 .. Received' /\ w \in Nat
    OBVIOUS
  <2> QED
    BY <2>2, <2>3 DEF Pending
<1> QED
  BY <1>3, <1>4, <1>5 DEF RemovalInv

(* The queue is emptied; none of the answers now in it is that to a poll.  *)
LEMMA Flushing ==
    ASSUME TypeOK, TypeOK', RemovalInv, Received <= Received', Received' \in Nat,
           LoseAnswers(Empties(queue)),
           \A i \in DOMAIN queue' : queue'[i].uid = "none" /\ queue'[i].after = 0,
           UNCHANGED <<removing, reported, removalSeen>>
    PROVE  RemovalInv'
<1> USE RemovalTyped
<1>1. Empties(queue') \in Nat
  BY Counted DEF TypeOK
<1>2. \A w \in Nat : Old(queue', w)
  BY MCUAssumption DEF Old
<1>3. removing' + Empties(queue') + Empties(queue) >= removing + Empties(queue)
  BY <1>1
<1>4. \A i \in DOMAIN queue' : queue'[i].after <= Received
  OBVIOUS
<1> QED
  BY <1>2, <1>3, <1>4, Losing

LEMMA GetDataRemoval ==
    ASSUME TypeOK, RemovalInv, Received' = Received, GetData
    PROVE  RemovalInv'
<1> USE RemovalTyped
<1>1. removing' = removing /\ {"none", "empty"} \cap Files = {}
  BY MCUAssumption DEF GetData, nfcVars
<1>2. CASE queue = <<>>
  <2>1. NoResponse.uid = "none"
    BY DEF NoResponse, Response
  <2>2. /\ reported' = NothingSeen /\ (removalSeen' <=> removalSeen)
        /\ lost' = lost /\ queue' = queue
    BY <1>1, <1>2, <2>1 DEF GetData
  <2>3. reported'.after = 0 /\ reported'.uid = "none"
    BY <2>2 DEF NothingSeen
  <2>4. \A w \in 0 .. Received : Pending(w) => Pending(w)'
    BY <1>1, <2>2, <2>3 DEF Pending
  <2>5. Accounted => Accounted'
    BY <1>1, <2>2 DEF Accounted
  <2> QED
    BY <2>2, <2>3, <2>4, <2>5 DEF RemovalInv
<1>3. CASE queue # <<>>
  <2> DEFINE r == queue[1]
  <2>1. /\ r \in Responses /\ 1 \in DOMAIN queue
        /\ reported' = (IF r.uid \in Files THEN [uid |-> r.uid, after |-> r.after]
                        ELSE NothingSeen)
        /\ removalSeen' = (removalSeen \/ r.uid = "empty")
        /\ lost' = IF r.uid = "empty" THEN 0 ELSE lost
        /\ queue' = Tail(queue)
    BY <1>3, Elements DEF GetData
  <2>2. reported'.after <= Received'
    BY <2>1 DEF RemovalInv, NothingSeen
  <2>3. \A i \in DOMAIN queue' : i + 1 \in DOMAIN queue /\ queue'[i] = queue[i + 1]
    BY <1>3, <2>1
  <2>4. \A i \in DOMAIN queue' : queue'[i].after <= Received'
    BY <2>3 DEF RemovalInv
  <2>5. ASSUME ~ removalSeen'
        PROVE  Accounted'
    <3>1. ~ removalSeen /\ r.uid # "empty" /\ lost' = lost
      BY <2>1, <2>5
    <3>2. Empties(queue') >= Empties(queue) /\ Empties(queue') \in Nat
      BY <1>3, <2>1, <3>1, EmptiesLeave, Elements, Counted
    <3> QED
      BY <1>1, <3>1, <3>2, Numbers DEF RemovalInv, Accounted
  <2>6. ASSUME ~ removalSeen', lost' < Removals
        PROVE  \E w \in 0 .. Received' : Pending(w)'
    <3>1. ~ removalSeen /\ r.uid # "empty" /\ lost' = lost
      BY <2>1, <2>6
    <3>2. PICK w \in 0 .. Received : Pending(w)
      BY <2>6, <3>1 DEF RemovalInv
    <3>3. w \in Nat
      OBVIOUS
    <3>4. Old(queue', w) /\ (r.uid \in Files => r.after < w)
      BY <1>3, <2>1, <3>1, <3>2, <3>3, LeavesQueue DEF Pending
    <3>5. reported'.uid \in Files => reported'.after < w
      BY <1>1, <2>1, <3>4 DEF NothingSeen
    <3> QED
      BY <3>2, <3>4, <3>5 DEF Pending
  <2> QED
    BY <2>2, <2>4, <2>5, <2>6 DEF RemovalInv
<1> QED
  BY <1>2, <1>3

(* The poll: while a removal is pending its answer is the empty amiibo,    *)
(* which joins the queue or, when the queue is full, is lost.              *)
LEMMA NfcStatusRequestRemoval ==
    ASSUME TypeOK, TypeOK', RemovalInv, Received' = Received, NfcStatusRequest
    PROVE  RemovalInv'
<1> DEFINE r == IF nfc' \in Polling THEN PollAnswer(SeenUid(nfc)) ELSE Response("nfc")
<1> USE RemovalTyped, Numbers
<1>0. Received <= Received' /\ Received' \in Nat
  OBVIOUS
<1>1. nfc' \in Polling <=> nfc \in Polling
  BY DEF NfcStatusRequest, Polling
<1>2. r \in Responses /\ r.after <= Received
  <2>1. PollAnswer(SeenUid(nfc)) \in Responses /\ Response("nfc") \in Responses
    BY Typed
  <2> QED
    BY <2>1 DEF PollAnswer, Response
<1>3. queue' = QueueResponse(queue, r)
  BY DEF NfcStatusRequest
<1>4. "empty" \notin Files /\ "none" \notin Files
  BY MCUAssumption
<1>shows. ~ Removing(nfc) /\ r.uid \in Files => removing = 0
  BY <1>1, <1>4 DEF Removing, PollAnswer, Response
<1>empty. Removing(nfc) => r.uid = "empty" /\ removing' = removing - 1 /\ removing > 0
  BY <1>1 DEF NfcStatusRequest, Removing, SeenUid, PollAnswer
<1> HIDE DEF r
<1>5. CASE ~ Removing(nfc)
  <2>1. r.uid \in Files => removing = 0
    BY <1>shows, <1>5
  <2>2. /\ removing' = removing /\ LoseAnswers(0)
        /\ removing' \in Nat /\ removing' >= removing
    BY <1>5 DEF NfcStatusRequest
  <2>3. UNCHANGED reportVars
    BY <2>2 DEF NfcStatusRequest, LoseAnswers, reportVars
  <2>4. queue' = queue \/ queue' = Append(queue, r)
    BY <1>3 DEF QueueResponse
  <2> QED
    BY ONLY TypeOK, RemovalInv, <1>0, <1>2, <2>1, <2>2, <2>3, <2>4, Joining, Zenon
<1>6. CASE Removing(nfc)
  <2>1. /\ r.uid = "empty" /\ removing' = removing - 1 /\ removing > 0
        /\ r.uid \notin Files /\ removing' \in Nat
    BY <1>empty, <1>4, <1>6
  <2>2. CASE Len(queue) < MaxQueue
    <3>1. queue' = Append(queue, r)
      BY <1>3, <2>2 DEF QueueResponse
    <3>2. LoseAnswers(0)
      BY <2>2 DEF NfcStatusRequest
    <3>3. UNCHANGED reportVars
      BY <3>2 DEF NfcStatusRequest, LoseAnswers, reportVars
    <3> QED
      BY ONLY TypeOK, RemovalInv, <1>0, <1>2, <2>1, <3>1, <3>3, Joining, Zenon
  <2>3. CASE Len(queue) >= MaxQueue
    <3>1. queue' = queue
      BY <1>3, <2>3 DEF QueueResponse
    <3>2. LoseAnswers(1) /\ UNCHANGED <<reported, removalSeen>>
      BY <1>6, <2>3 DEF NfcStatusRequest
    <3>3. removing' + Empties(queue') + 1 >= removing + Empties(queue)
      BY <2>1, <3>1
    <3>4. \A i \in DOMAIN queue' : queue'[i].after <= Received
      BY <3>1 DEF RemovalInv
    <3>5. \A w \in Nat : Old(queue, w) => Old(queue', w)
      BY <3>1
    <3> QED
      BY <3>2, <3>3, <3>4, <3>5, Losing
  <2> QED
    BY <2>2, <2>3
<1> QED
  BY <1>5, <1>6

(* The last packet of a request: every answer so far is older than this    *)
(* write, and the next polls are to tell of the removal.                   *)
LEMMA WritePacketRemoval ==
    ASSUME TypeOK, TypeOK', RemovalInv, Received <= Received', Received' \in Nat,
           NEW k \in 1 .. Packets, WritePacket(k)
    PROVE  RemovalInv'
<1> DEFINE r == Response("nfc")
<1> USE RemovalTyped, Numbers
<1>1. r \in Responses /\ r.after = 0 /\ r.uid = "none" /\ "none" \notin Files
  BY Typed, MCUAssumption DEF Response
<1>2. queue' = Append(queue, r) /\ reported' = reported
  BY DEF WritePacket
<1>3. CASE k = Packets /\ k # sent
  <2>1. Received' = Received + 1
    BY <1>3 DEF WritePacket, Received, TypeOK
  <2>2. removing' = Removals /\ lost' = 0
    BY <1>3 DEF WritePacket
  <2>3. \A i \in DOMAIN queue' : queue'[i].after < Received'
    <3>1. \A i \in DOMAIN queue : queue[i].after < Received'
      BY <2>1 DEF RemovalInv
    <3>2. r.after < Received'
      BY <1>1, <2>1
    <3> QED
      BY <1>2, <3>1, <3>2, Appended
  <2>4. reported'.after < Received'
    BY <1>2, <2>1 DEF RemovalInv
  <2>5. Pending(Received)'
    BY <2>3, <2>4 DEF Pending, Old
  <2>6. \A i \in DOMAIN queue' : queue'[i].after <= Received'
    <3>1. \A i \in DOMAIN queue' : queue'[i].after \in Nat
      <4>1. queue' \in Seq(Responses)
        BY DEF TypeOK
      <4> QED
        BY <4>1, Elements
    <3> QED
      BY <2>3, <3>1
  <2>7. Accounted'
    <3>1. Empties(queue') \in Nat
      BY Counted DEF TypeOK
    <3>2. Removals + Empties(queue') + 0 >= Removals
      BY <3>1
    <3> QED
      BY <2>2, <3>2, Zenon DEF Accounted
  <2>8. Received' \in 0 .. Received'
    OBVIOUS
  <2>9. reported'.after <= Received'
    BY <1>2, <2>4
  <2> QED
    BY <2>5, <2>6, <2>7, <2>8, <2>9, Zenon DEF RemovalInv
<1>4. CASE k < Packets \/ k = sent
  <2>1. removing' = removing \/ removing' = Removals
    BY <1>4 DEF WritePacket
  <2>2. removing' >= removing /\ removing' \in Nat
    BY <2>1 DEF TypeOK
  <2>3. lost' = lost /\ (removalSeen' <=> removalSeen)
    BY <1>4 DEF WritePacket
  <2>4. UNCHANGED reportVars
    BY <1>2, <2>3 DEF reportVars, TypeOK
  <2>5. r.after <= Received
    BY <1>1
  <2> HIDE DEF r
  <2> QED
    BY ONLY TypeOK, RemovalInv, Received <= Received', Received' \in Nat,
            <1>1, <1>2, <2>2, <2>4, <2>5, Joining, Zenon
<1> QED
  BY <1>3, <1>4

LEMMA StatusAnswer ==
    ASSUME TypeOK, NEW p
    PROVE  LET r == StatusData(p) IN
               /\ r \in Responses /\ r.after = 0 /\ r.uid = "none"
               /\ r.after <= Received /\ r.uid \notin Files
<1>1. StatusData(p) \in Responses /\ Received \in Nat
  BY Typed
<1> QED
  BY <1>1, MCUAssumption DEF StatusData, NoResponse, Response

LEMMA RemovalFollows ==
    ASSUME TypeOK, TypeOK', RemovalInv, [Next]_vars
    PROVE  RemovalInv'
<1> USE RemovalTyped
<1>1. /\ Received <= Received' /\ Received' \in Nat
      /\ removing' = removing => removing' \in Nat /\ removing' >= removing
  BY ReceivedGrows
<1>2. UNCHANGED consoleVars => Received' = Received
  BY DEF consoleVars, Received
<1>3. CASE UNCHANGED <<queue, removing, reportVars>>
  <2>1. \A w \in 0 .. Received : w \in 0 .. Received' /\ (Pending(w) => Pending(w)')
    BY <1>1, <1>3 DEF Pending, reportVars
  <2>2. Accounted => Accounted'
    BY <1>3 DEF Accounted, reportVars
  <2> QED
    BY <1>1, <1>3, <2>1, <2>2 DEF RemovalInv, reportVars
<1>4. CASE GetData
  BY <1>2, <1>4, GetDataRemoval DEF GetData
<1>5. ASSUME NEW p \in {"SUSPENDED", "READY"}, SetPowerState(p)
      PROVE  RemovalInv'
  <2> DEFINE r == StatusData(power')
  <2>1. queue' = <<>> \/ queue' = <<r>>
    BY <1>5 DEF SetPowerState, QueueResponse
  <2>2. \A i \in DOMAIN queue' : queue'[i].uid = "none" /\ queue'[i].after = 0
    BY <2>1, StatusAnswer
  <2>3. LoseAnswers(Empties(queue)) /\ UNCHANGED <<removing, reported, removalSeen>>
    BY <1>5 DEF SetPowerState, nfcVars
  <2> QED
    BY <1>1, <2>2, <2>3, Flushing
<1>6. ASSUME NEW p \in {"READY", "CONFIGURED_NFC"}, SetConfig(p)
      PROVE  RemovalInv'
  <2> DEFINE r == StatusData(power')
  <2>1. r \in Responses /\ r.after <= Received /\ r.uid \notin Files
    BY StatusAnswer
  <2>2. /\ queue' = queue \/ queue' = Append(queue, r)
        /\ UNCHANGED <<removing, reportVars>>
    BY <1>6 DEF SetConfig, QueueResponse
  <2> HIDE DEF r
  <2> QED
    BY ONLY TypeOK, RemovalInv, <1>1, <2>1, <2>2, Joining, Zenon
<1>7. CASE StatusRequest
  <2> DEFINE r == StatusData(power)
  <2>1. r \in Responses /\ r.after <= Received /\ r.uid \notin Files
    BY StatusAnswer
  <2>2. /\ queue' = queue \/ queue' = Append(queue, r)
        /\ UNCHANGED <<removing, reportVars>>
    BY <1>7 DEF StatusRequest, QueueResponse, nfcVars
  <2> HIDE DEF r
  <2> QED
    BY ONLY TypeOK, RemovalInv, <1>1, <2>1, <2>2, Joining, Zenon
<1>8. CASE NfcStatusRequest
  BY <1>2, <1>8, NfcStatusRequestRemoval DEF NfcStatusRequest
<1>9. CASE ReadTag
  <2>1. \A i \in DOMAIN queue' : queue'[i].uid = "none" /\ queue'[i].after = 0
    BY <1>9 DEF ReadTag, Response
  <2>2. LoseAnswers(Empties(queue)) /\ UNCHANGED <<removing, reported, removalSeen>>
    BY <1>9 DEF ReadTag, nfcVars
  <2> QED
    BY <1>1, <2>1, <2>2, Flushing
<1>10. CASE SetUpWrite
  <2> DEFINE r == Response("setup")
  <2>1. r \in Responses /\ r.after <= Received /\ r.uid \notin Files
    BY Typed, MCUAssumption DEF Response
  <2>2. queue' = Append(queue, r) /\ UNCHANGED <<removing, reportVars>>
    BY <1>10 DEF SetUpWrite
  <2> HIDE DEF r
  <2> QED
    BY ONLY TypeOK, RemovalInv, <1>1, <2>1, <2>2, Joining, Zenon
<1>11. ASSUME NEW k \in 1 .. Packets, WritePacket(k)
       PROVE  RemovalInv'
  BY <1>1, <1>11, WritePacketRemoval
<1> QED
  BY <1>3, <1>4, <1>5, <1>6, <1>7, <1>8, <1>9, <1>10, <1>11
     DEF Next, vars, StartPolling, StopPolling, WriteSinglePacket, RunWrite, SetNfc,
         nfcVars, reportVars

LEMMA RemovalIsSeen ==
    ASSUME TypeOK, RemovalInv
    PROVE  TagReappearsRemoved
<1> USE RemovalTyped
<1>1. Received <= request
  BY DEF Received
<1>2. ASSUME ~ removalSeen, lost < Removals, reported.uid \in Files, reported.after = request
      PROVE  FALSE
  <2>1. PICK w \in 0 .. Received : Pending(w)
    BY <1>2 DEF RemovalInv
  <2> QED
    BY <1>1, <1>2, <2>1 DEF Pending
<1> QED
  BY <1>2 DEF TagReappearsRemoved

----------------------------------------------------------------------------
(* The theorems                                                            *)

Inv == TypeOK /\ N!Inv /\ ReadsWhole(queue)

LEMMA Initially == Init => Inv
BY InitialTypes DEF Init, Inv, ReadsWhole

LEMMA Inductive == Inv /\ [Next]_vars => Inv'
BY TagInvariant, Types, ReadsKept DEF Inv

LEMMA Invariant == Spec => []Inv
BY Initially, Inductive, PTL DEF Spec

(* The MCU keeps its types: _pending_active_remove and nfc_counter never   *)
(* leave their range, and every response in the queue is well formed.      *)
THEOREM MCUTypeOK == Spec => []TypeOK
BY Invariant, PTL DEF Inv

(* Whatever the console asks for, and however fast, and whatever fails     *)
(* underneath, a write to the tag loses nothing a file contained.          *)
THEOREM MCUWritesLoseNothing == Spec => []TagLosesNothing
<1>1. Inv => TagLosesNothing
  BY DEF Inv, N!Inv, N!NoContentLost, TagLosesNothing, amiibo!NoContentLost
<1> QED
  BY Invariant, <1>1, PTL

(* The three parts of a read stay together, whatever is queued around them.*)
THEOREM ReadsStayTogether == Spec => []ReadAnswerWhole
<1>1. Inv => ReadAnswerWhole
  BY DEF Inv, ReadsWhole, ReadAnswerWhole
<1> QED
  BY Invariant, <1>1, PTL

LEMMA WriteInvariant ==
    ASSUME ~ Interrupts
    PROVE  Spec => [](TypeOK /\ WriteInv)
<1>1. Init => WriteInv
  BY Numbers DEF Init, WriteInv
<1>2. Inv /\ WriteInv /\ [Next]_vars => WriteInv'
  BY WritesFollow DEF Inv
<1>3. Inv => TypeOK
  BY DEF Inv
<1> QED
  BY Invariant, <1>1, <1>2, <1>3, PTL DEF Spec

(* A console that completes its requests has them applied whole, although  *)
(* the task that applies one shares its list with the packets that still   *)
(* arrive.                                                                 *)
THEOREM CompleteRequestsAreAppliedWhole ==
    ASSUME ~ Interrupts
    PROVE  Spec => []WritesAreComplete
<1>1. TypeOK /\ WriteInv => WritesAreComplete
  BY WritesWhole
<1> QED
  BY WriteInvariant, <1>1, PTL

(* What such a console is told was received is stored.                     *)
THEOREM AcknowledgedIsStored ==
    ASSUME ~ Interrupts
    PROVE  Spec => []AckCoversData
<1>1. TypeOK /\ WriteInv => AckCoversData
  BY WritesWhole
<1> QED
  BY WriteInvariant, <1>1, PTL

(* However fast the console polls, it sees the empty amiibo after a write  *)
(* before it sees a tag again, unless every answer that was to show it the *)
(* empty one was dropped by a full queue or flushed.                       *)
THEOREM RemovalIsShown == Spec => []TagReappearsRemoved
<1>1. Init => RemovalInv
  <2> SUFFICES ASSUME Init PROVE RemovalInv
    OBVIOUS
  <2>1. Received = 0 /\ NothingSeen.after = 0
    BY DEF Init, Received, NothingSeen
  <2> QED
    BY <2>1 DEF Init, RemovalInv
<1>2. Inv /\ Inv' /\ RemovalInv /\ [Next]_vars => RemovalInv'
  BY RemovalFollows DEF Inv
<1>3. Inv /\ RemovalInv => TagReappearsRemoved
  BY RemovalIsSeen DEF Inv
<1> QED
  BY Invariant, <1>1, <1>2, <1>3, PTL DEF Spec

(* The tag is used as NFCTag specifies and in no other way, so that what   *)
(* NFCTagProofs proves of it holds under the MCU.                          *)
THEOREM MCUUsesTag == Spec => N!Spec
<1>1. Init => N!Init
  BY DEF Init, amiibo!Init, N!Init
<1>2. TypeOK /\ [Next]_vars => [N!Next]_(N!vars)
  BY TagSteps DEF TagStep, N!vars, tagVars
<1>3. Inv => TypeOK
  BY DEF Inv
<1> QED
  BY Invariant, <1>1, <1>2, <1>3, PTL DEF Spec, N!Spec
=============================================================================
