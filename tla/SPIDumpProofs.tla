---------------------------- MODULE SPIDumpProofs ----------------------------
(***************************************************************************)
(* Proofs about SPIDump, for a flash, chunks and bytes of any size and any *)
(* number of losses and repeats: the types, that no chunk is skipped and   *)
(* none comes out of order, and which bytes of the flash the file lacks.   *)
(***************************************************************************)
EXTENDS SPIDump, SequenceTheorems, TLAPS

(* Which chunk a piece of the file is.                                     *)
Number(p) == CHOOSE k \in 1 .. Chunks : Slice(Chunk(k)) = p

Reports == {RequestReport(c) : c \in Pieces}
Answers == {Answer(r) : r \in Reports}
Refusals == {Refusal(r) : r \in Reports}
Slices == {Slice(c) : c \in Pieces}

(* The pending request is the one for the present chunk, also after an     *)
(* interrupt, and there is none exactly when the last has been answered.   *)
Places ==
    /\ chunk \in 1 .. Chunks + 1
    /\ pending = IF chunk <= Chunks THEN Chunk(chunk) ELSE NoRequest
    /\ event \in BOOLEAN
    /\ sender \in {"writing", "waiting", "replied", "closing", "failing", "done", "raised"}
    /\ reader \in {"reading", "closed", "failed"}
    /\ sender \in {"writing", "waiting", "replied"} => chunk <= Chunks

Traffic ==
    /\ requests \in Seq(Reports)
    /\ answers \in Seq(Answers \cup Refusals)
    /\ file \in Seq(Slices)

(* NothingSkipped without its local definitions: f is the file and last    *)
(* the number of its last piece; every chunk up to it is there.            *)
Consecutive(f, last) ==
    /\ f # << >> => Number(f[1]) = 1
    /\ \A i \in 1 .. Len(f) - 1 : Number(f[i + 1]) \in {Number(f[i]), Number(f[i]) + 1}
    /\ last = IF f = << >> THEN 0 ELSE Number(f[Len(f)])
    /\ \A k \in 1 .. last : \E i \in 1 .. Len(f) : f[i] = Slice(Chunk(k))

InOrder == Consecutive(file, IF event /\ chunk <= Chunks THEN chunk ELSE chunk - 1)

Inv == Places /\ Traffic /\ InOrder

----------------------------------------------------------------------------
(* The chunks                                                              *)

LEMMA DivMod ==
    ASSUME NEW n \in Nat, NEW d \in Nat \ {0}
    PROVE  /\ n \div d \in Nat /\ n % d \in 0 .. d - 1
           /\ n = d * (n \div d) + (n % d)
OBVIOUS

LEMMA Quotient ==
    ASSUME NEW d \in Nat \ {0}, NEW q \in Nat, NEW r \in 0 .. d - 1, NEW n \in Nat, n = d * q + r
    PROVE  n \div d = q /\ n % d = r
OBVIOUS

LEMMA Monotonic ==
    ASSUME NEW a \in Nat, NEW b \in Nat, NEW c \in Nat, a < b
    PROVE  a * c + c <= b * c
OBVIOUS

LEMMA ChunkCounts ==
    /\ Whole \in Nat \ {0} /\ Remainder \in 0 .. ChunkSize - 1
    /\ FlashSize = Whole * ChunkSize + Remainder
    /\ Chunks \in Nat \ {0}
    /\ Remainder = 0 => Chunks = Whole
    /\ Remainder # 0 => Chunks = Whole + 1
<1>1. /\ FlashSize \in Nat /\ ChunkSize \in Nat \ {0} /\ ChunkSize <= FlashSize
  BY SPIDumpAssumption
<1>2. /\ Whole \in Nat /\ Remainder \in 0 .. ChunkSize - 1
      /\ FlashSize = ChunkSize * Whole + Remainder
  BY <1>1, DivMod DEF Whole, Remainder
<1>3. Whole # 0
  BY <1>1, <1>2
<1>4. FlashSize = Whole * ChunkSize + Remainder
  BY <1>1, <1>2
<1> QED
  BY <1>2, <1>3, <1>4 DEF Chunks

(* No chunk is empty, all lie within the flash, and no two begin at the    *)
(* same address, although the last begins before its place.                *)
LEMMA ChunksLieWithin ==
    ASSUME NEW k \in 1 .. Chunks
    PROVE  /\ Chunk(k).offset \in 0 .. FlashSize - 1
           /\ Chunk(k).size \in 1 .. ChunkSize
           /\ Chunk(k) \in [offset : Nat, size : Nat]
<1>1. /\ FlashSize \in Nat \ {0} /\ ChunkSize \in Nat \ {0}
  BY SPIDumpAssumption
<1>2. CASE k <= Whole
  <2>1. Chunk(k) = [offset |-> (k - 1) * ChunkSize, size |-> ChunkSize]
    BY <1>2 DEF Chunk
  <2>2. (k - 1) * ChunkSize \in Nat /\ (k - 1) * ChunkSize + ChunkSize <= Whole * ChunkSize
    BY <1>1, <1>2, ChunkCounts, Monotonic
  <2>3. (k - 1) * ChunkSize < FlashSize
    BY <1>1, <2>2, ChunkCounts
  <2> QED
    BY <1>1, <2>1, <2>2, <2>3
<1>3. CASE ~ k <= Whole
  <2>1. Chunk(k) = [offset |-> FlashSize - 1 - Remainder, size |-> Remainder] /\ Remainder # 0
    BY <1>3, ChunkCounts DEF Chunk
  <2>2. Whole * ChunkSize \in Nat \ {0}
    BY <1>1, ChunkCounts
  <2>3. FlashSize - 1 - Remainder \in 0 .. FlashSize - 1 /\ Remainder \in 1 .. ChunkSize
    BY <1>1, <2>1, <2>2, ChunkCounts
  <2> QED
    BY <2>1, <2>3
<1> QED
  BY <1>2, <1>3

LEMMA OffsetsGrow ==
    ASSUME NEW k \in 1 .. Chunks, NEW m \in 1 .. Chunks, k < m
    PROVE  Chunk(k).offset < Chunk(m).offset
<1>1. ChunkSize \in Nat \ {0} /\ Chunks \in Nat
  BY SPIDumpAssumption, ChunkCounts
<1>2. k <= Whole
  BY <1>1, ChunkCounts
<1>3. Chunk(k).offset = (k - 1) * ChunkSize
  BY <1>2 DEF Chunk
<1>4. CASE m <= Whole
  <2>1. Chunk(m).offset = (m - 1) * ChunkSize
    BY <1>4 DEF Chunk
  <2>2. (k - 1) * ChunkSize + ChunkSize <= (m - 1) * ChunkSize
    BY <1>1, Monotonic
  <2>3. (k - 1) * ChunkSize \in Nat /\ (m - 1) * ChunkSize \in Nat
    BY <1>1
  <2> QED
    BY <1>1, <1>3, <2>1, <2>2, <2>3
<1>5. CASE ~ m <= Whole
  <2>1. Chunk(m).offset = FlashSize - 1 - Remainder /\ Remainder # 0
    BY <1>5, ChunkCounts DEF Chunk
  <2>2. (k - 1) * ChunkSize + ChunkSize <= Whole * ChunkSize
    BY <1>1, <1>2, ChunkCounts, Monotonic
  <2>3. (k - 1) * ChunkSize \in Nat /\ Whole * ChunkSize \in Nat /\ Remainder \in Nat
    BY <1>1, ChunkCounts
  <2>4. FlashSize - 1 - Remainder = Whole * ChunkSize - 1 /\ ChunkSize > 1
    BY <1>1, <2>1, <2>3, ChunkCounts
  <2> QED
    BY <1>1, <1>3, <2>1, <2>2, <2>3, <2>4
<1> QED
  BY <1>4, <1>5

LEMMA NumberOfChunk ==
    ASSUME NEW k \in 1 .. Chunks
    PROVE  Number(Slice(Chunk(k))) = k
<1>1. ASSUME NEW m \in 1 .. Chunks
      PROVE  Slice(Chunk(m))[1] = Chunk(m).offset
  <2>1. Chunk(m).size \in Nat \ {0} /\ Chunk(m).offset \in Nat
    BY SPIDumpAssumption, ChunksLieWithin
  <2> QED
    BY <2>1 DEF Slice
<1>2. ASSUME NEW m \in 1 .. Chunks, Slice(Chunk(m)) = Slice(Chunk(k))
      PROVE  m = k
  <2>1. Chunk(m).offset = Chunk(k).offset
    BY <1>1, <1>2
  <2>2. Chunk(m).offset \in Int /\ Chunk(k).offset \in Int
    BY SPIDumpAssumption, ChunksLieWithin
  <2>3. ~ m < k
    BY <2>1, <2>2, OffsetsGrow
  <2>4. ~ k < m
    BY <2>1, <2>2, OffsetsGrow
  <2> QED
    BY <2>3, <2>4, ChunkCounts
<1> QED
  BY <1>2 DEF Number

----------------------------------------------------------------------------
(* The digits                                                              *)

LEMMA Nested ==
    ASSUME NEW n \in Nat, NEW c \in Nat \ {0}, NEW d \in Nat \ {0}
    PROVE  n \div (c * d) = (n \div c) \div d
<1> DEFINE q == n \div c
           r == n % c
           p == q \div d
           t == q % d
<1>1. q \in Nat /\ r \in 0 .. c - 1 /\ n = c * q + r
  BY DivMod
<1>2. p \in Nat /\ t \in 0 .. d - 1 /\ q = d * p + t
  BY <1>1, DivMod
<1> HIDE DEF q, r, p, t
<1>3. c * d \in Nat \ {0}
  OBVIOUS
<1>4. n = (c * d) * p + (c * t + r)
  <2>1. c * (d * p + t) = (c * d) * p + c * t
    BY <1>2
  <2> QED
    BY <1>1, <1>2, <2>1
<1>5. c * t + r \in 0 .. c * d - 1
  <2>1. t * c + c <= d * c
    BY <1>2, Monotonic
  <2>2. c * t \in Nat /\ c * t = t * c /\ d * c = c * d
    BY <1>2
  <2> QED
    BY <1>1, <1>3, <2>1, <2>2
<1> QED
  BY <1>1, <1>2, <1>3, <1>4, <1>5, Quotient DEF p, q

(* The four bytes of an offset read as it: report.py and the reader of the *)
(* dump agree.                                                             *)
LEMMA OffsetArrives ==
    ASSUME NEW n \in Nat, n < Byte * Byte * Byte * Byte
    PROVE  FromBytes(ToBytes(n)) = n
<1>1. Byte \in Nat \ {0}
  BY SPIDumpAssumption
<1> DEFINE a == n \div Byte
           b == a \div Byte
           c == b \div Byte
<1>2. /\ a \in Nat /\ n % Byte \in 0 .. Byte - 1 /\ n = Byte * a + (n % Byte)
  BY <1>1, DivMod
<1>3. /\ b \in Nat /\ a % Byte \in 0 .. Byte - 1 /\ a = Byte * b + (a % Byte)
  BY <1>1, <1>2, DivMod
<1>4. /\ c \in Nat /\ b % Byte \in 0 .. Byte - 1 /\ b = Byte * c + (b % Byte)
  BY <1>1, <1>3, DivMod
<1>5. Byte * Byte \in Nat \ {0} /\ Byte * Byte * Byte \in Nat \ {0}
  BY <1>1
<1>6. n \div (Byte * Byte) = b
  BY <1>1, Nested
<1>7. n \div (Byte * Byte * Byte) = c
  <2>1. \A e \in Nat \ {0} : n \div (e * Byte) = (n \div e) \div Byte
    BY <1>1, Nested
  <2>2. n \div (Byte * Byte * Byte) = (n \div (Byte * Byte)) \div Byte
    BY <1>5, <2>1, Zenon
  <2> HIDE DEF b
  <2> QED
    BY <1>6, <2>2
<1>8. ToBytes(n) = [i \in 1 .. 4 |-> IF i = 1 THEN n % Byte ELSE IF i = 2 THEN a % Byte
                                      ELSE IF i = 3 THEN b % Byte ELSE c % Byte]
  <2>1. n \div 1 = n
    OBVIOUS
  <2> HIDE DEF b, c
  <2> QED
    BY <1>6, <1>7, <2>1 DEF ToBytes
<1> HIDE DEF a, b, c
<1>9. c < Byte
  <2>1. SUFFICES ASSUME Byte <= c PROVE FALSE
    BY <1>1, <1>4
  <2>2. Byte * Byte <= b
    <3>1. Byte * Byte <= Byte * c /\ Byte * Byte \in Nat /\ Byte * c \in Nat
      BY <1>1, <1>4, <2>1
    <3> QED
      BY <1>4, <3>1
  <2>3. Byte * Byte * Byte <= a
    <3>1. Byte * Byte * Byte <= Byte * b /\ Byte * b \in Nat
      BY <1>1, <1>3, <1>5, <2>2
    <3> QED
      BY <1>3, <1>5, <3>1
  <2>4. Byte * Byte * Byte * Byte <= n
    <3>1. Byte * Byte * Byte * Byte <= Byte * a /\ Byte * a \in Nat /\ Byte * Byte * Byte * Byte \in Nat
      BY <1>1, <1>2, <1>5, <2>3
    <3> QED
      BY <1>2, <3>1
  <2> QED
    BY <1>1, <1>5, <2>4
<1>10. c % Byte = c
  BY <1>1, <1>4, <1>9
<1>11. FromBytes(ToBytes(n)) = (n % Byte) + (a % Byte) * Byte + (b % Byte) * Byte * Byte + c * Byte * Byte * Byte
  BY <1>8, <1>10 DEF FromBytes
<1>12. (b % Byte) + c * Byte = b /\ (a % Byte) + b * Byte = a /\ (n % Byte) + a * Byte = n
  BY <1>1, <1>2, <1>3, <1>4
<1>13. ASSUME NEW x \in Int, NEW y \in Int, NEW z \in Int, NEW w \in Int, NEW d \in Int
       PROVE  x + y * d + z * d * d + w * d * d * d = x + (y + (z + w * d) * d) * d
  OBVIOUS
<1>14. (n % Byte) + (a % Byte) * Byte + (b % Byte) * Byte * Byte + c * Byte * Byte * Byte
         = (n % Byte) + ((a % Byte) + ((b % Byte) + c * Byte) * Byte) * Byte
  BY <1>1, <1>2, <1>3, <1>4, <1>13
<1> QED
  BY <1>11, <1>12, <1>14

----------------------------------------------------------------------------
(* Requests and answers                                                    *)

LEMMA PiecesAreChunks ==
    ASSUME NEW c \in Pieces
    PROVE  /\ c \in [offset : Nat, size : Nat] /\ c.size \in Nat
           /\ FromBytes(ToBytes(c.offset)) = c.offset
<1>1. PICK k \in 1 .. Chunks : c = Chunk(k)
  BY DEF Pieces
<1>2. c.offset \in 0 .. FlashSize - 1 /\ c.size \in Nat /\ c \in [offset : Nat, size : Nat]
  BY <1>1, ChunksLieWithin
<1>3. c.offset \in Nat /\ c.offset < Byte * Byte * Byte * Byte
  <2>1. Byte \in Nat /\ FlashSize \in Nat /\ FlashSize <= Byte * Byte * Byte * Byte
    BY SPIDumpAssumption
  <2>2. Byte * Byte * Byte * Byte \in Nat
    BY <2>1
  <2> HIDE DEF Pieces
  <2> QED
    BY <1>2, <2>1, <2>2
<1> QED
  BY <1>2, <1>3, OffsetArrives

(* An answer tells the chunk that was asked for, and brings it.            *)
LEMMA AnswerBringsChunk ==
    ASSUME NEW c \in Pieces
    PROVE  /\ Answer(RequestReport(c)).ack = TRUE
           /\ Answer(RequestReport(c)).size = c.size
           /\ FromBytes(Answer(RequestReport(c)).bytes) = c.offset
           /\ Answer(RequestReport(c)).data = Slice(c)
<1>1. FromBytes(ToBytes(c.offset)) = c.offset /\ c = [offset |-> c.offset, size |-> c.size]
  BY PiecesAreChunks
<1>2. RequestReport(c).bytes = ToBytes(c.offset) /\ RequestReport(c).size = c.size
  BY DEF RequestReport
<1>3. Answer(RequestReport(c)) =
         [ack |-> TRUE, bytes |-> ToBytes(c.offset), size |-> c.size,
          data |-> Slice([offset |-> c.offset, size |-> c.size])]
  BY <1>1, <1>2 DEF Answer
<1> QED
  BY <1>1, <1>3

(* What the reader writes is the pending chunk.                            *)
LEMMA RequestedIsPending ==
    ASSUME NEW a \in Answers \cup Refusals, a.ack, Requested(a), NoRequest \notin Pieces
    PROVE  pending \in Pieces /\ a.data = Slice(pending)
<1>1. a \in Answers
  BY DEF Refusals, Refusal
<1>2. PICK c \in Pieces : a = Answer(RequestReport(c))
  BY <1>1 DEF Answers, Reports
<1>3. a.size = c.size /\ FromBytes(a.bytes) = c.offset /\ a.data = Slice(c)
  BY <1>2, AnswerBringsChunk
<1>4. pending = [offset |-> c.offset, size |-> c.size]
  BY <1>3 DEF Requested
<1>5. pending = c
  BY <1>4, PiecesAreChunks
<1> QED
  BY <1>3, <1>5

LEMMA PendingIsChunk ==
    ASSUME Places
    PROVE  /\ chunk \in Nat /\ Chunks \in Nat
           /\ NoRequest \notin Pieces
           /\ chunk <= Chunks => chunk \in 1 .. Chunks /\ pending = Chunk(chunk) /\ pending \in Pieces
           /\ pending # NoRequest <=> chunk <= Chunks
<1>1. chunk \in 1 .. Chunks + 1 /\ Chunks \in Nat
  BY ChunkCounts DEF Places
<1>2. NoRequest \notin Pieces
  BY PiecesAreChunks, SPIDumpAssumption
<1>3. chunk <= Chunks => chunk \in 1 .. Chunks /\ pending = Chunk(chunk) /\ pending \in Pieces
  BY <1>1 DEF Places, Pieces
<1>4. ~ chunk <= Chunks => pending = NoRequest
  BY DEF Places
<1> QED
  BY <1>1, <1>2, <1>3, <1>4

----------------------------------------------------------------------------
(* The steps                                                               *)

LEMMA InitInv == Init => Inv
<1> SUFFICES ASSUME Init PROVE Inv
  OBVIOUS
<1>1. 1 \in 1 .. Chunks /\ 1 <= Chunks
  BY ChunkCounts
<1>2. Places
  <2>1. chunk = 1 /\ pending = Chunk(1) /\ event = FALSE /\ sender = "writing" /\ reader = "reading"
    BY DEF Init
  <2>2. 1 \in 1 .. Chunks + 1
    BY ChunkCounts
  <2> QED
    BY <1>1, <2>1, <2>2 DEF Places
<1>3. Traffic
  BY DEF Init, Traffic
<1>4. InOrder
  <2>1. file = << >> /\ Len(file) = 0 /\ chunk - 1 = 0 /\ event = FALSE
    BY DEF Init
  <2> QED
    BY <2>1 DEF InOrder, Consecutive
<1> QED
  BY <1>2, <1>3, <1>4 DEF Inv

(* The steps that leave the file and the requests' places alone.           *)
LEMMA OtherSteps ==
    ASSUME Inv,
           \/ ControllerAnswers \/ ControllerRefuses \/ AnswerIsLost \/ WriteRequest \/ RequestIsLost
           \/ TimesOut \/ Interrupt \/ WriteFails \/ Finish \/ StopReading \/ ReadFails
           \/ UNCHANGED vars
    PROVE  Inv'
<1> USE DEF ControllerAnswers, ControllerRefuses, AnswerIsLost, WriteRequest, RequestIsLost, Waits,
            TimesOut, Interrupt, WriteFails, Finish, StopReading, ReadFails, vars, linkVars
<1>1. UNCHANGED <<chunk, pending, event, file>>
  OBVIOUS
<1>2. Places'
  <2>1. /\ sender' \in {"writing", "waiting", "replied", "closing", "failing", "done", "raised"}
        /\ sender' \in {"writing", "waiting", "replied"} => sender \in {"writing", "waiting", "replied"}
    BY DEF Inv, Places
  <2>2. reader' \in {"reading", "closed", "failed"}
    BY DEF Inv, Places
  <2> QED
    BY <1>1, <2>1, <2>2 DEF Inv, Places
<1>3. /\ requests \in Seq(Reports) /\ answers \in Seq(Answers \cup Refusals)
      /\ requests # << >> => /\ Tail(requests) \in Seq(Reports)
                             /\ Head(requests) \in Reports
  BY HeadTailProperties DEF Inv, Traffic
<1>4. requests' \in Seq(Reports)
  <2>1. CASE WriteRequest
    <3>1. pending \in Pieces
      BY <2>1, PendingIsChunk DEF Inv, Places
    <3>2. RequestReport(pending) \in Reports
      BY <3>1 DEF Reports
    <3> QED
      BY <1>3, <2>1, <3>2, AppendProperties
  <2>2. CASE ~ WriteRequest
    BY <1>3, <2>2
  <2> QED
    BY <2>1, <2>2
<1>5. answers' \in Seq(Answers \cup Refusals)
  <2>1. CASE ControllerAnswers \/ ControllerRefuses
    <3>1. Answer(Head(requests)) \in Answers /\ Refusal(Head(requests)) \in Refusals
      BY <1>3, <2>1 DEF Answers, Refusals
    <3>2. PICK a \in Answers \cup Refusals : answers' = Append(answers, a)
      BY <2>1, <3>1
    <3>3. Append(answers, a) \in Seq(Answers \cup Refusals)
      BY <1>3, <3>2, AppendProperties
    <3> QED
      BY <3>2, <3>3
  <2>2. CASE ~ (ControllerAnswers \/ ControllerRefuses)
    <3>1. answers' = answers
      BY <2>2
    <3> QED
      BY <1>3, <3>1
  <2> QED
    BY <2>1, <2>2
<1>6. Traffic'
  BY <1>1, <1>4, <1>5 DEF Inv, Traffic
<1>7. InOrder'
  BY <1>1 DEF Inv, InOrder
<1> QED
  BY <1>2, <1>6, <1>7 DEF Inv

LEMMA ReplyArrivesStep ==
    ASSUME Inv, ReplyArrives
    PROVE  Inv'
<1>1. /\ chunk \in Nat /\ Chunks \in Nat /\ chunk \in 1 .. Chunks /\ event = TRUE
  BY PendingIsChunk DEF Inv, Places, ReplyArrives
<1>2. /\ chunk' = chunk + 1 /\ UNCHANGED <<reader, requests, answers, file>>
      /\ IF chunk < Chunks
         THEN pending' = Chunk(chunk + 1) /\ event' = FALSE /\ sender' = "writing"
         ELSE pending' = NoRequest /\ sender' = "closing" /\ UNCHANGED event
  BY DEF ReplyArrives, linkVars
<1>3. Places'
  <2>1. CASE chunk < Chunks
    <3>1. chunk' \in 1 .. Chunks /\ chunk' <= Chunks /\ chunk' \in 1 .. Chunks + 1
      BY <1>1, <1>2, <2>1
    <3> QED
      BY <1>2, <2>1, <3>1 DEF Inv, Places
  <2>2. CASE ~ chunk < Chunks
    <3>1. ~ chunk' <= Chunks /\ chunk' \in 1 .. Chunks + 1
      BY <1>1, <1>2, <2>2
    <3> QED
      BY <1>2, <2>2, <3>1 DEF Inv, Places
  <2> QED
    BY <2>1, <2>2
<1>4. Traffic'
  BY <1>2 DEF Inv, Traffic
<1>5. InOrder'
  <2>1. (IF event' /\ chunk' <= Chunks THEN chunk' ELSE chunk' - 1) = chunk
    <3>1. ~ (event' /\ chunk' <= Chunks)
      <4>1. CASE chunk < Chunks
        BY <1>2, <4>1
      <4>2. CASE ~ chunk < Chunks
        BY <1>1, <1>2, <4>2
      <4> QED
        BY <4>1, <4>2
    <3>2. chunk' - 1 = chunk
      BY <1>1, <1>2
    <3> QED
      BY <3>1, <3>2
  <2>2. (IF event /\ chunk <= Chunks THEN chunk ELSE chunk - 1) = chunk
    BY <1>1
  <2> QED
    BY <1>2, <2>1, <2>2 DEF Inv, InOrder
<1> QED
  BY <1>3, <1>4, <1>5 DEF Inv

(* The piece that is written is the present chunk: the first answer to it  *)
(* or, when its event is set already, one more.                            *)
LEMMA WrittenStep ==
    ASSUME Inv, chunk \in 1 .. Chunks, file' = Append(file, Slice(Chunk(chunk))), event' = TRUE,
           chunk' = chunk
    PROVE  InOrder'
<1> DEFINE p == Slice(Chunk(chunk))
           n == Len(file)
<1>1. Number(p) = chunk /\ chunk \in Nat /\ chunk <= Chunks
  BY NumberOfChunk, ChunkCounts
<1>2. file \in Seq(Slices) /\ p \in Slices /\ n \in Nat /\ (file = << >> <=> n = 0)
  BY EmptySeq, LenProperties DEF Inv, Traffic, Slices, Pieces
<1>3. /\ Len(file') = n + 1 /\ file' # << >>
      /\ \A i \in 1 .. n : file'[i] = file[i]
      /\ file'[n + 1] = p
  BY <1>2, AppendProperties, EmptySeq
<1> DEFINE last == IF event /\ chunk <= Chunks THEN chunk ELSE chunk - 1
<1>4. /\ \A k \in 1 .. last : \E i \in 1 .. n : file[i] = Slice(Chunk(k))
      /\ file # << >> => Number(file[1]) = 1
      /\ \A i \in 1 .. n - 1 : Number(file[i + 1]) \in {Number(file[i]), Number(file[i]) + 1}
      /\ (IF file = << >> THEN 0 ELSE Number(file[n]))
            = last
  BY DEF Inv, InOrder, Consecutive
<1>5. last \in {chunk, chunk - 1} /\ (IF file = << >> THEN 0 ELSE Number(file[n])) \in {chunk, chunk - 1}
  BY <1>4
<1> HIDE DEF p, n, last
<1>6. Number(file'[1]) = 1
  <2>1. CASE n = 0
    BY <1>1, <1>2, <1>3, <1>5, <2>1
  <2>2. CASE n # 0
    BY <1>2, <1>3, <1>4, <2>2
  <2> QED
    BY <2>1, <2>2
<1>7. ASSUME NEW i \in 1 .. Len(file') - 1
      PROVE  Number(file'[i + 1]) \in {Number(file'[i]), Number(file'[i]) + 1}
  <2>1. CASE i = n
    <3>1. Number(file[n]) \in {chunk, chunk - 1} /\ n \in 1 .. n
      BY <1>2, <1>5, <2>1
    <3> QED
      BY <1>1, <1>3, <2>1, <3>1
  <2>2. CASE i # n
    <3>1. i \in 1 .. n - 1 /\ i \in 1 .. n /\ i + 1 \in 1 .. n
      BY <1>2, <1>3, <2>2
    <3> QED
      BY <1>3, <1>4, <3>1
  <2> QED
    BY <2>1, <2>2
<1>8. Number(file'[Len(file')]) = chunk
  BY <1>1, <1>3
<1>9. ASSUME NEW k \in 1 .. chunk
      PROVE  \E i \in 1 .. Len(file') : file'[i] = Slice(Chunk(k))
  <2>1. CASE k = chunk
    <3>1. n + 1 \in 1 .. Len(file') /\ file'[n + 1] = Slice(Chunk(k))
      BY <1>2, <1>3, <2>1 DEF p
    <3> QED
      BY <3>1
  <2>2. CASE k # chunk
    <3>1. k \in 1 .. last
      BY <1>1, <1>5, <2>2
    <3>2. PICK i \in 1 .. n : file[i] = Slice(Chunk(k))
      BY <1>4, <3>1
    <3>3. i \in 1 .. Len(file') /\ file'[i] = file[i]
      BY <1>2, <1>3
    <3> QED
      BY <3>2, <3>3
  <2> QED
    BY <2>1, <2>2
<1> QED
  BY <1>1, <1>3, <1>6, <1>7, <1>8, <1>9 DEF InOrder, Consecutive

LEMMA ReceiveStep ==
    ASSUME Inv, Receive
    PROVE  Inv'
<1>1. /\ reader = "reading" /\ answers # << >> /\ answers' = Tail(answers)
      /\ reader' = IF Head(answers).ack THEN reader ELSE "failed"
      /\ IF Head(answers).ack /\ Requested(Head(answers))
         THEN event' = TRUE /\ file' = Append(file, Head(answers).data)
         ELSE UNCHANGED <<event, file>>
      /\ UNCHANGED <<chunk, pending, sender, requests>>
  BY DEF Receive
<1>2. Head(answers) \in Answers \cup Refusals /\ Tail(answers) \in Seq(Answers \cup Refusals)
  BY <1>1, HeadTailProperties DEF Inv, Traffic
<1>3. Places'
  BY <1>1 DEF Inv, Places
<1>4. CASE Head(answers).ack /\ Requested(Head(answers))
  <2>1. pending \in Pieces /\ Head(answers).data = Slice(pending) /\ NoRequest \notin Pieces
    BY <1>2, <1>4, PendingIsChunk, RequestedIsPending DEF Inv
  <2>2. chunk \in 1 .. Chunks /\ pending = Chunk(chunk)
    BY <2>1, PendingIsChunk DEF Inv
  <2>3. InOrder'
    BY <1>1, <1>4, <2>1, <2>2, WrittenStep
  <2>4. file' \in Seq(Slices)
    <3>1. file \in Seq(Slices) /\ Slice(pending) \in Slices /\ file' = Append(file, Slice(pending))
      BY <1>1, <1>4, <2>1 DEF Inv, Traffic, Slices
    <3> QED
      BY ONLY <3>1, AppendProperties
  <2>5. Traffic'
    BY <1>1, <1>2, <2>4 DEF Inv, Traffic
  <2> QED
    BY <1>3, <2>3, <2>5 DEF Inv
<1>5. CASE ~ (Head(answers).ack /\ Requested(Head(answers)))
  <2>1. Traffic'
    BY <1>1, <1>2, <1>5 DEF Inv, Traffic
  <2>2. InOrder'
    BY <1>1, <1>5 DEF Inv, InOrder
  <2> QED
    BY <1>3, <2>1, <2>2 DEF Inv
<1> QED
  BY <1>4, <1>5

LEMMA Invariance == Spec => []Inv
<1>1. Inv /\ [Next]_vars => Inv'
  BY OtherSteps, ReplyArrivesStep, ReceiveStep DEF Next
<1> QED
  BY InitInv, <1>1, PTL DEF Spec

(* The requests, answers and pieces of the file are always those of chunks *)
(* of the flash.                                                           *)
THEOREM DumpTypes == Spec => []TypeOK
<1>1. ASSUME Inv PROVE TypeOK
  <2>1. Places /\ Traffic
    BY <1>1 DEF Inv
  <2>2. pending \in Pieces \cup {NoRequest}
    BY <2>1, PendingIsChunk DEF Places
  <2>3. \A i \in DOMAIN requests : requests[i] \in {RequestReport(c) : c \in Pieces}
    BY <2>1, ElementOfSeq DEF Traffic, Reports
  <2>4. ASSUME NEW i \in DOMAIN answers, answers[i].ack
        PROVE  answers[i] \in {Answer(RequestReport(c)) : c \in Pieces}
    <3>1. answers[i] \in Answers \cup Refusals
      BY <2>1, ElementOfSeq DEF Traffic
    <3>2. answers[i] \in Answers
      BY <2>4, <3>1 DEF Refusals, Refusal
    <3> QED
      BY <3>2 DEF Answers, Reports
  <2>5. \A i \in DOMAIN file : file[i] \in {Slice(c) : c \in Pieces}
    BY <2>1, ElementOfSeq DEF Traffic, Slices
  <2> QED
    BY <2>1, <2>2, <2>3, <2>4, <2>5 DEF TypeOK, Places
<1> QED
  BY Invariance, <1>1, PTL

(* However often the link loses a request or an answer and whatever comes  *)
(* late, the file is the chunks from the first to the present one, in      *)
(* their order, each once or several times in a row.                       *)
THEOREM NoChunkIsSkipped == Spec => []NothingSkipped
<1>1. ASSUME Inv PROVE NothingSkipped
  <2> DEFINE number == [i \in DOMAIN file |-> CHOOSE k \in 1 .. Chunks : Slice(Chunk(k)) = file[i]]
  <2>1. DOMAIN file = 1 .. Len(file) /\ Len(file) \in Nat /\ (file = << >> <=> Len(file) = 0)
    BY <1>1, EmptySeq, LenProperties DEF Inv, Traffic
  <2>2. \A i \in 1 .. Len(file) : number[i] = Number(file[i])
    BY <2>1 DEF Number
  <2>3. InOrder /\ (pending # NoRequest <=> chunk <= Chunks)
    BY <1>1, PendingIsChunk DEF Inv
  <2> HIDE DEF number
  <2>4. file # << >> => number[1] = 1
    BY <2>1, <2>2, <2>3 DEF InOrder, Consecutive
  <2>5. \A i \in 1 .. Len(file) - 1 : number[i + 1] \in {number[i], number[i] + 1}
    BY <2>1, <2>2, <2>3 DEF InOrder, Consecutive
  <2>6. (IF file = << >> THEN 0 ELSE number[Len(file)])
           = IF event /\ pending # NoRequest THEN chunk ELSE chunk - 1
    BY <2>1, <2>2, <2>3 DEF InOrder, Consecutive
  <2> QED
    BY <2>4, <2>5, <2>6 DEF NothingSkipped, number
<1> QED
  BY Invariance, <1>1, PTL

----------------------------------------------------------------------------
(* The bytes                                                               *)

(* The last byte is in no chunk when there is a remainder.                 *)
LEMMA LastByteIsNotAsked ==
    ASSUME Remainder # 0, NEW k \in 1 .. Chunks, NEW j \in DOMAIN Slice(Chunk(k))
    PROVE  Slice(Chunk(k))[j] # FlashSize - 1
<1>1. /\ ChunkSize \in Nat \ {0} /\ Whole \in Nat /\ Remainder \in Nat \ {0}
      /\ FlashSize = Whole * ChunkSize + Remainder /\ Whole * ChunkSize \in Nat /\ FlashSize \in Nat
  BY SPIDumpAssumption, ChunkCounts
<1>2. /\ j \in 1 .. Chunk(k).size /\ Slice(Chunk(k))[j] = Chunk(k).offset + j - 1
      /\ Chunk(k).offset \in Nat /\ Chunk(k).size \in Nat
  BY ChunksLieWithin, SPIDumpAssumption DEF Slice
<1>3. Chunk(k).offset + Chunk(k).size <= FlashSize - 1
  <2>1. CASE k <= Whole
    <3>1. Chunk(k).offset = (k - 1) * ChunkSize /\ Chunk(k).size = ChunkSize
      BY <2>1 DEF Chunk
    <3>2. (k - 1) * ChunkSize + ChunkSize <= Whole * ChunkSize /\ (k - 1) * ChunkSize \in Nat
      <4>1. k - 1 \in Nat /\ k - 1 < Whole
        BY <1>1, <2>1
      <4> QED
        BY <1>1, <4>1, Monotonic
    <3> QED
      BY <1>1, <3>1, <3>2
  <2>2. CASE ~ k <= Whole
    <3>1. Chunk(k).offset = FlashSize - 1 - Remainder /\ Chunk(k).size = Remainder
      BY <2>2 DEF Chunk
    <3> QED
      BY <1>1, <3>1
  <2> QED
    BY <2>1, <2>2
<1> QED
  BY <1>1, <1>2, <1>3

(* Every other byte is in one.                                             *)
LEMMA OtherBytesAreAsked ==
    ASSUME NEW a \in 0 .. FlashSize - 2
    PROVE  \E k \in 1 .. Chunks : \E j \in DOMAIN Slice(Chunk(k)) : Slice(Chunk(k))[j] = a
<1>1. /\ ChunkSize \in Nat \ {0} /\ Whole \in Nat \ {0} /\ Remainder \in Nat /\ Chunks \in Nat
      /\ FlashSize = Whole * ChunkSize + Remainder /\ Whole * ChunkSize \in Nat /\ FlashSize \in Nat
  BY SPIDumpAssumption, ChunkCounts
<1>2. ASSUME NEW k \in 1 .. Chunks, NEW j \in 1 .. Chunk(k).size, Chunk(k).offset + j - 1 = a
      PROVE  \E h \in DOMAIN Slice(Chunk(k)) : Slice(Chunk(k))[h] = a
  BY <1>2 DEF Slice
<1>3. CASE a < Whole * ChunkSize
  <2> DEFINE q == a \div ChunkSize
             r == a % ChunkSize
  <2>1. q \in Nat /\ r \in 0 .. ChunkSize - 1 /\ a = ChunkSize * q + r
    <3>1. a \in Nat
      BY <1>1
    <3> QED
      BY <1>1, <3>1, DivMod
  <2> HIDE DEF q, r
  <2>2. q < Whole
    <3>1. ASSUME Whole < q PROVE FALSE
      <4>1. Whole * ChunkSize + ChunkSize <= q * ChunkSize
        BY <1>1, <2>1, <3>1, Monotonic
      <4>2. q * ChunkSize = ChunkSize * q /\ ChunkSize * q \in Nat
        BY <1>1, <2>1
      <4> QED
        BY <1>1, <1>3, <2>1, <4>1, <4>2
    <3>2. ASSUME Whole = q PROVE FALSE
      <4>1. ChunkSize * q = Whole * ChunkSize
        BY <1>1, <2>1, <3>2
      <4> QED
        BY <1>1, <1>3, <2>1, <4>1
    <3> QED
      BY <1>1, <2>1, <3>1, <3>2
  <2>3. PICK k \in 1 .. Chunks : k = q + 1 /\ k <= Whole
    BY <1>1, <2>1, <2>2, ChunkCounts
  <2>4. Chunk(k).offset = (k - 1) * ChunkSize /\ Chunk(k).size = ChunkSize
    BY <2>3 DEF Chunk
  <2>5. (k - 1) * ChunkSize = ChunkSize * q /\ ChunkSize * q \in Nat
    BY <1>1, <2>1, <2>3
  <2>6. r + 1 \in 1 .. Chunk(k).size /\ Chunk(k).offset + (r + 1) - 1 = a
    BY <1>1, <2>1, <2>4, <2>5
  <2> QED
    BY <1>2, <2>6
<1>4. CASE ~ a < Whole * ChunkSize
  <2>1. Remainder # 0
    BY <1>1, <1>4
  <2>2. Whole + 1 \in 1 .. Chunks /\ ~ Whole + 1 <= Whole
    BY <1>1, <2>1, ChunkCounts
  <2>3. Chunk(Whole + 1).offset = FlashSize - 1 - Remainder /\ Chunk(Whole + 1).size = Remainder
    BY <2>2 DEF Chunk
  <2> DEFINE j == a - (FlashSize - 1 - Remainder) + 1
  <2>4. j \in 1 .. Remainder /\ FlashSize - 1 - Remainder + j - 1 = a
    BY <1>1, <1>4
  <2> QED
    BY <1>2, <2>2, <2>3, <2>4
<1> QED
  BY <1>3, <1>4

(* A dump that got every answer has every byte of the flash but, with a    *)
(* remainder, the last, which dump_spi_flash() never asks for.             *)
THEOREM DumpLacksOnlyTheEnd == Spec => []OnlyLastByteMissing
<1>1. ASSUME Inv PROVE OnlyLastByteMissing
  <2> DEFINE InFile(a) == \E i \in DOMAIN file : \E j \in DOMAIN file[i] : file[i][j] = a
  <2>1. DOMAIN file = 1 .. Len(file) /\ \A i \in DOMAIN file : file[i] \in Slices
    BY <1>1, LenProperties, ElementOfSeq DEF Inv, Traffic
  <2>2. ASSUME chunk > Chunks, NEW a \in 0 .. FlashSize - 2
        PROVE  InFile(a)
    <3>1. chunk - 1 = Chunks /\ ~ chunk <= Chunks
      BY <1>1, <2>2, ChunkCounts DEF Inv, Places
    <3>2. \A k \in 1 .. Chunks : \E i \in 1 .. Len(file) : file[i] = Slice(Chunk(k))
      BY <1>1, <3>1 DEF Inv, InOrder, Consecutive
    <3>3. PICK k \in 1 .. Chunks : \E j \in DOMAIN Slice(Chunk(k)) : Slice(Chunk(k))[j] = a
      BY OtherBytesAreAsked
    <3> QED
      BY <2>1, <3>2, <3>3
  <2>3. ASSUME Remainder # 0, InFile(FlashSize - 1)
        PROVE  FALSE
    <3>1. PICK i \in DOMAIN file : \E j \in DOMAIN file[i] : file[i][j] = FlashSize - 1
      BY <2>3
    <3>2. PICK k \in 1 .. Chunks : file[i] = Slice(Chunk(k))
      BY <2>1 DEF Slices, Pieces
    <3> QED
      BY <2>3, <3>1, <3>2, LastByteIsNotAsked
  <2> QED
    BY <2>2, <2>3 DEF OnlyLastByteMissing
<1> QED
  BY Invariance, <1>1, PTL
=============================================================================
