------------------------------ MODULE SPIDump ------------------------------
(***************************************************************************)
(* scripts/dump_spi_flash.py: the flash memory of a controller is read in  *)
(* chunks over an unreliable link and written to a file.  Two tasks share  *)
(* the pending request and its event: the sender asks for a chunk and asks *)
(* again when a second has passed, the reader writes what answers the      *)
(* pending request.  The file is what FlashMemory of joycontrol/memory.py  *)
(* loads.  The controller may be the emulated one of joycontrol/protocol.py*)
(* or a real one, which may also refuse.                                   *)
(*                                                                         *)
(* An action is one run of a task from a suspension point to the next.     *)
(* Event.set() makes the sender ready; the reader may go on before the     *)
(* sender runs.  The byte at an address is named by the address.  Reports  *)
(* that are no answers to a read are skipped and left out.                 *)
(***************************************************************************)
EXTENDS Integers, Sequences

CONSTANTS
    FlashSize,   \* SPI_FLASH_SIZE
    ChunkSize,   \* 0x1D
    Byte,        \* the values of a byte, 0x100
    MaxTraffic,  \* bound: requests, and answers, under way
    Faults,      \* whether the controller may refuse and the device fail
    NoRequest

ASSUME SPIDumpAssumption ==
    /\ FlashSize \in Nat \ {0}
    /\ ChunkSize \in Nat \ {0}
    /\ Byte \in Nat \ {0, 1}
    /\ FlashSize <= Byte * Byte * Byte * Byte
    /\ ChunkSize < Byte
    /\ ChunkSize <= FlashSize
    /\ MaxTraffic \in Nat \ {0}
    /\ Faults \in BOOLEAN
    /\ NoRequest \notin [offset : Nat, size : Nat]

VARIABLES
    chunk,     \* the chunk the sender is at
    pending,   \* pending_request
    event,     \* its reply_event.is_set()
    sender,    \* where dump_spi_flash() is
    reader,    \* where receive_data() is
    requests,  \* requests on their way to the controller
    answers,   \* answers on their way to the reader
    file       \* the pieces written to the output file

linkVars == <<requests, answers>>
vars == <<chunk, pending, event, sender, reader, linkVars, file>>

----------------------------------------------------------------------------
(* The chunks: as many whole ones as there are, and the remainder.         *)
Whole == FlashSize \div ChunkSize
Remainder == FlashSize % ChunkSize

(* Faulty: the remainder is left out. *)
ChunksWhole == Whole

Chunks == IF Remainder = 0 THEN Whole ELSE Whole + 1

Chunk(k) ==
    IF k <= Whole
    THEN [offset |-> (k - 1) * ChunkSize, size |-> ChunkSize]
    ELSE [offset |-> FlashSize - 1 - Remainder, size |-> Remainder]

(* An offset travels as four bytes, least significant first.               *)
ToBytes(n) ==
    [i \in 1 .. 4 |-> (n \div (IF i = 1 THEN 1 ELSE IF i = 2 THEN Byte
                               ELSE IF i = 3 THEN Byte * Byte
                               ELSE Byte * Byte * Byte)) % Byte]

FromBytes(b) ==
    b[1] + b[2] * Byte + b[3] * Byte * Byte + b[4] * Byte * Byte * Byte

(* The bytes of the flash that a request names.                            *)
Slice(r) == [i \in 1 .. r.size |-> r.offset + i - 1]

(* The request report, and the controller's answer to it.                  *)
RequestReport(c) == [bytes |-> ToBytes(c.offset), size |-> c.size]

Answer(r) ==
    LET offset == FromBytes(r.bytes) IN
    [ack |-> TRUE, bytes |-> ToBytes(offset), size |-> r.size,
     data |-> Slice([offset |-> offset, size |-> r.size])]

Refusal(r) == [ack |-> FALSE, bytes |-> r.bytes, size |-> 0, data |-> <<>>]

Init ==
    /\ chunk = 1
    /\ pending = Chunk(1)
    /\ event = FALSE
    /\ sender = "writing"
    /\ reader = "reading"
    /\ requests = <<>>
    /\ answers = <<>>
    /\ file = <<>>

----------------------------------------------------------------------------
(* The link and the controller, which may lose what they are given.        *)

ControllerAnswers ==
    /\ requests # <<>>
    /\ Len(answers) < MaxTraffic
    /\ requests' = Tail(requests)
    /\ answers' = Append(answers, Answer(Head(requests)))
    /\ UNCHANGED <<chunk, pending, event, sender, reader, file>>

ControllerRefuses ==
    /\ Faults
    /\ requests # <<>>
    /\ Len(answers) < MaxTraffic
    /\ requests' = Tail(requests)
    /\ answers' = Append(answers, Refusal(Head(requests)))
    /\ UNCHANGED <<chunk, pending, event, sender, reader, file>>

AnswerIsLost ==
    /\ requests # <<>>
    /\ requests' = Tail(requests)
    /\ UNCHANGED <<chunk, pending, event, sender, reader, answers, file>>

----------------------------------------------------------------------------
(* send_spi_read_request()                                                 *)

(* The write is over, and the sender waits for the event; if that was set  *)
(* meanwhile the wait is over at once.                                     *)
Waits == sender' = IF event THEN "replied" ELSE "waiting"

WriteRequest ==
    /\ sender = "writing"
    /\ Len(requests) < MaxTraffic
    /\ requests' = Append(requests, RequestReport(pending))
    /\ Waits
    /\ UNCHANGED <<chunk, pending, event, reader, answers, file>>

RequestIsLost ==
    /\ sender = "writing"
    /\ Waits
    /\ UNCHANGED <<chunk, pending, event, reader, linkVars, file>>

(* Faulty: the wait has no end. *)
TimesOutNever == FALSE /\ UNCHANGED vars

(* The second is over.  That may also end a wait whose event was set just  *)
(* now.  The event stays set.                                              *)
TimesOut ==
    /\ sender = "waiting"
    /\ sender' = "writing"
    /\ UNCHANGED <<chunk, pending, event, reader, linkVars, file>>

(* Faulty: one chunk too many is asked for. *)
ReplyArrivesPastEnd ==
    /\ sender \in {"waiting", "replied"} /\ event
    /\ IF chunk <= Chunks
       THEN /\ pending' = Chunk(chunk + 1)
            /\ event' = FALSE
            /\ sender' = "writing"
       ELSE /\ pending' = NoRequest
            /\ sender' = "closing"
            /\ UNCHANGED event
    /\ chunk' = chunk + 1
    /\ UNCHANGED <<reader, linkVars, file>>

(* The sender runs after its event was set: the next chunk, or close().    *)
ReplyArrives ==
    /\ sender \in {"waiting", "replied"} /\ event
    /\ IF chunk < Chunks
       THEN /\ pending' = Chunk(chunk + 1)
            /\ event' = FALSE
            /\ sender' = "writing"
       ELSE /\ pending' = NoRequest
            /\ sender' = "closing"
            /\ UNCHANGED event
    /\ chunk' = chunk + 1
    /\ UNCHANGED <<reader, linkVars, file>>

(* The task is cancelled: close(), but the pending request stays.          *)
Interrupt ==
    /\ sender \in {"writing", "waiting", "replied"}
    /\ sender' = "closing"
    /\ UNCHANGED <<chunk, pending, event, reader, linkVars, file>>

(* The write raises: close() as well, and the exception goes on.           *)
WriteFails ==
    /\ Faults
    /\ sender = "writing"
    /\ sender' = "failing"
    /\ UNCHANGED <<chunk, pending, event, reader, linkVars, file>>

Closing == sender \in {"closing", "failing"}

(* The reader has ended; awaiting it raises what ended it.                 *)
Finish ==
    /\ Closing
    /\ reader # "reading"
    /\ sender' = IF sender = "failing" \/ reader = "failed" THEN "raised" ELSE "done"
    /\ UNCHANGED <<chunk, pending, event, reader, linkVars, file>>

----------------------------------------------------------------------------
(* receive_data()                                                          *)

(* Faulty: an answer is matched by its size only. *)
RequestedSize(a) == pending # NoRequest /\ pending.size = a.size

(* Whether an answer is what the pending request asks for.                 *)
Requested(a) ==
    pending # NoRequest /\ pending = [offset |-> FromBytes(a.bytes), size |-> a.size]

(* An answer arrives before close(): one that is not refused and answers   *)
(* the pending request is written; a refusal fails the assertion.          *)
Receive ==
    /\ reader = "reading" /\ ~Closing
    /\ answers # <<>>
    /\ answers' = Tail(answers)
    /\ LET a == Head(answers) IN
       /\ reader' = IF a.ack THEN reader ELSE "failed"
       /\ IF a.ack /\ Requested(a)
          THEN event' = TRUE /\ file' = Append(file, a.data)
          ELSE UNCHANGED <<event, file>>
    /\ UNCHANGED <<chunk, pending, sender, requests>>

(* The first read to return after close(), with data or without.           *)
StopReading ==
    /\ reader = "reading" /\ Closing
    /\ reader' = "closed"
    /\ UNCHANGED <<chunk, pending, event, sender, linkVars, file>>

(* The read raises.                                                        *)
ReadFails ==
    /\ Faults
    /\ reader = "reading"
    /\ reader' = "failed"
    /\ UNCHANGED <<chunk, pending, event, sender, linkVars, file>>

----------------------------------------------------------------------------
Next ==
    \/ ControllerAnswers
    \/ ControllerRefuses
    \/ AnswerIsLost
    \/ WriteRequest
    \/ RequestIsLost
    \/ TimesOut
    \/ ReplyArrives
    \/ Interrupt
    \/ WriteFails
    \/ Finish
    \/ Receive
    \/ StopReading
    \/ ReadFails

Spec == Init /\ [][Next]_vars

(* The loop runs what is ready and the second ends; a request that is made *)
(* again and again gets through some time, and so does its answer.         *)
Fairness ==
    /\ SF_vars(WriteRequest)
    /\ SF_vars(ControllerAnswers)
    /\ WF_vars(TimesOut)
    /\ WF_vars(ReplyArrives)
    /\ WF_vars(Receive)
    /\ WF_vars(StopReading)
    /\ WF_vars(Finish)

FairSpec == Spec /\ Fairness

----------------------------------------------------------------------------
(* The types.                                                              *)
Pieces == {Chunk(k) : k \in 1 .. Chunks}

TypeOK ==
    /\ chunk \in 1 .. Chunks + 1
    /\ pending \in Pieces \cup {NoRequest}
    /\ event \in BOOLEAN
    /\ sender \in {"writing", "waiting", "replied", "closing", "failing", "done", "raised"}
    /\ reader \in {"reading", "closed", "failed"}
    /\ \A i \in DOMAIN requests : requests[i] \in {RequestReport(c) : c \in Pieces}
    /\ \A i \in DOMAIN answers :
           answers[i].ack => answers[i] \in {Answer(RequestReport(c)) : c \in Pieces}
    /\ \A i \in DOMAIN file : file[i] \in {Slice(c) : c \in Pieces}

(* Through losses, repeats and late answers no chunk is skipped and none   *)
(* comes out of order: each piece of the file is the chunk of the one      *)
(* before it again, or the next one; the last is the present chunk exactly *)
(* when its event is set (pending_request against the late answers).       *)
NothingSkipped ==
    LET number == [i \in DOMAIN file |->
                       CHOOSE k \in 1 .. Chunks : Slice(Chunk(k)) = file[i]]
        last == IF file = <<>> THEN 0 ELSE number[Len(file)] IN
    /\ file # <<>> => number[1] = 1
    /\ \A i \in 1 .. Len(file) - 1 : number[i + 1] \in {number[i], number[i] + 1}
    /\ last = IF event /\ pending # NoRequest THEN chunk ELSE chunk - 1

(* When every chunk was answered, no byte of the flash is missing in the   *)
(* file but the last: with a remainder, dump_spi_flash() asks for the      *)
(* bytes before it, and no repeat or late answer ever brings it.           *)
OnlyLastByteMissing ==
    LET InFile(a) == \E i \in DOMAIN file : \E j \in DOMAIN file[i] : file[i][j] = a IN
    /\ chunk > Chunks => \A a \in 0 .. FlashSize - 2 : InFile(a)
    /\ Remainder # 0 => ~ InFile(FlashSize - 1)

(* The dump ends, however often the link loses a request or an answer.     *)
(* Only a reader that failed leaves the sender asking for ever             *)
(* (send_spi_read_request()).                                              *)
DumpEnds == <>(sender \in {"done", "raised"} \/ reader = "failed")

(* "data from a memory dump (can be created using dump_spi_flash.py)",     *)
(* memory.py, line 5: when every chunk was answered, the pieces of the     *)
(* file are the flash, one ChunkSize after the other.                      *)
DumpIsFlash ==
    chunk > Chunks =>
        /\ Len(file) = Chunks
        /\ \A k \in 1 .. Chunks :
               file[k] = Slice([offset |-> (k - 1) * ChunkSize,
                                size |-> IF k <= Whole THEN ChunkSize ELSE Remainder])
=============================================================================
