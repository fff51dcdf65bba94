---------------------------- MODULE ReportsProofs ----------------------------
(***************************************************************************)
(* Proofs about ControllerState and Reports.  For every value of a stick   *)
(* and every calibration: a report carries exactly the stick, when its     *)
(* coordinates are 12 bits wide; where they are not, the assertion of      *)
(* __bytes__ finds out, except for a stick that is too far to the right;   *)
(* and no calibration moves a stick to where neither is the answer.        *)
(* An answer leaves the regular part of its report alone and is sent as a  *)
(* whole, a regular report shows exactly the buttons and sticks, and the   *)
(* request of a flash dump arrives as it was meant, with an answer the     *)
(* controller can give.                                                    *)
(***************************************************************************)
EXTENDS Reports, SequenceTheorems, TLAPS

Sticks == [h : Values, v : Values]

(* Where a calibrated stick may end up.                                    *)
Reach == -4095 .. 8190

----------------------------------------------------------------------------
(* Division by the literals                                                *)

LEMMA Split ==
    ASSUME NEW n \in 0 .. 15, NEW x \in 0 .. 15
    PROVE  /\ (x + 16 * n) % 16 = x
           /\ (x + 16 * n) \div 16 = n
           /\ x + 16 * n \in Bytes
  BY DEF Bytes

LEMMA MiddleByte ==
    ASSUME NEW n \in 0 .. 15, NEW x \in -16 .. 31
    PROVE  /\ x < 0 => OrShifted(x, n) < 0
           /\ x \in 0 .. 15 => OrShifted(x, n) = x + 16 * n
           /\ x > 15 => OrShifted(x, n) \in Bytes /\ OrShifted(x, n) % 16 = x - 16
<1>1. CASE x < 0
  <2>1. x % 16 \in 0 .. 15
    OBVIOUS
  <2> QED
    BY <1>1, <2>1 DEF OrShifted
<1>2. CASE x \in 0 .. 15
  <2>1. x % 16 = x
    BY <1>2
  <2> QED
    BY <1>2, <2>1 DEF OrShifted
<1>3. CASE x \in 16 .. 31
  <2> DEFINE m == 2 * (n \div 2) + 1
  <2>1. x % 16 = x - 16 /\ x - 16 \in 0 .. 15 /\ m \in 0 .. 15
    BY <1>3
  <2>2. OrShifted(x, n) = (x - 16) + 16 * m
    BY <1>3, <2>1 DEF OrShifted
  <2> HIDE DEF m
  <2>3. ((x - 16) + 16 * m) % 16 = x - 16 /\ (x - 16) + 16 * m \in Bytes
    BY <2>1, Split
  <2> QED
    BY <1>3, <2>2, <2>3
<1> QED
  BY <1>1, <1>2, <1>3

(* The three bytes of a stick within its 12 bits, and what they read as.   *)
LEMMA BytesOfStick ==
    ASSUME NEW h \in Values, NEW v \in Values
    PROVE  LET b == StickBytes([h |-> h, v |-> v]) IN
           AssertionHolds(b) /\ FromBytes(b) = [h |-> h, v |-> v]
<1>1. h \in 0 .. 4095 /\ v \in 0 .. 4095
  BY DEF Values
<1>2. PICK x \in 0 .. 15, low \in 0 .. 255 :
          h = 256 * x + low /\ x = h \div 256 /\ low = h % 256
  <2>1. /\ h = 256 * (h \div 256) + (h % 256)
        /\ h \div 256 \in 0 .. 15 /\ h % 256 \in 0 .. 255
    BY <1>1
  <2> USE <2>1
  <2> WITNESS h \div 256 \in 0 .. 15, h % 256 \in 0 .. 255
  <2> QED
    BY <2>1
<1>3. PICK n \in 0 .. 15, high \in 0 .. 255 :
          v = 16 * high + n /\ high = v \div 16 /\ n = v % 16
  <2>1. /\ v = 16 * (v \div 16) + (v % 16)
        /\ v % 16 \in 0 .. 15 /\ v \div 16 \in 0 .. 255
    BY <1>1
  <2> USE <2>1
  <2> WITNESS v % 16 \in 0 .. 15, v \div 16 \in 0 .. 255
  <2> QED
    BY <2>1
<1>4. OrShifted(x, n) = x + 16 * n
  BY MiddleByte
<1>5. StickBytes([h |-> h, v |-> v]) = <<low, x + 16 * n, high>>
  BY <1>2, <1>3, <1>4 DEF StickBytes
<1>6. AssertionHolds(<<low, x + 16 * n, high>>)
  BY Split DEF AssertionHolds, Bytes
<1>7. FromBytes(<<low, x + 16 * n, high>>) = [h |-> h, v |-> v]
  <2>1. low + 256 * x = h /\ n + 16 * high = v
    BY <1>2, <1>3
  <2>2. (x + 16 * n) % 16 = x /\ (x + 16 * n) \div 16 = n
    OBVIOUS
  <2> QED
    BY <2>1, <2>2 DEF FromBytes
<1> QED
  BY <1>5, <1>6, <1>7

(* Neither coordinate of a stick leaves a mark in the other: a report      *)
(* carries both, although they share a byte.                               *)
THEOREM ReportCarriesStick ==
    \A s \in Sticks : AssertionHolds(StickBytes(s)) /\ FromBytes(StickBytes(s)) = s
<1> SUFFICES ASSUME NEW s \in Sticks
             PROVE  AssertionHolds(StickBytes(s)) /\ FromBytes(StickBytes(s)) = s
  OBVIOUS
<1>1. s.h \in Values /\ s.v \in Values /\ s = [h |-> s.h, v |-> s.v]
  BY DEF Sticks
<1> QED
  BY <1>1, BytesOfStick

(* The assertion in __bytes__ stops a stick that is too high, too low or   *)
(* too far to the left.  One that is too far to the right passes, and is   *)
(* shown on the left.                                                      *)
THEOREM AssertionMissesTheRight ==
    \A h, v \in Reach :
        LET b == StickBytes([h |-> h, v |-> v]) IN
        /\ AssertionHolds(b) <=> h >= 0 /\ v \in Values
        /\ h > 4095 /\ v \in Values => FromBytes(b).h = h - 4096
<1> SUFFICES ASSUME NEW h \in Reach, NEW v \in Reach
             PROVE  LET b == StickBytes([h |-> h, v |-> v]) IN
                    /\ AssertionHolds(b) <=> h >= 0 /\ v \in Values
                    /\ h > 4095 /\ v \in Values => FromBytes(b).h = h - 4096
  OBVIOUS
<1>1. h \in -4095 .. 8190 /\ v \in -4095 .. 8190
  BY DEF Reach
<1> DEFINE x == h \div 256
           low == h % 256
           n == v % 16
           high == v \div 16
<1>2. /\ h = 256 * x + low /\ low \in 0 .. 255 /\ x \in -16 .. 31
      /\ h < 0 => x < 0
      /\ h \in 0 .. 4095 => x \in 0 .. 15
      /\ h > 4095 => x > 15
  <2>1. h = 256 * x + low /\ low \in 0 .. 255
    BY <1>1
  <2>2. x \in -16 .. 31 /\ (h < 0 => x < 0)
    BY <1>1
  <2>3. h \in 0 .. 4095 => x \in 0 .. 15
    BY <1>1
  <2>4. h > 4095 => x > 15
    BY <1>1
  <2> QED
    BY <2>1, <2>2, <2>3, <2>4
<1>3. n \in 0 .. 15 /\ high \in Int /\ (v \in Values <=> high \in Bytes)
  <2>1. /\ n \in 0 .. 15 /\ high \in Int
        /\ v < 0 => high < 0
        /\ v \in 0 .. 4095 => high \in 0 .. 255
        /\ v > 4095 => high > 255
    BY <1>1
  <2> QED
    BY <1>1, <2>1 DEF Values, Bytes
<1>4. StickBytes([h |-> h, v |-> v]) = <<low, OrShifted(x, n), high>>
  BY DEF StickBytes
<1> HIDE DEF x, low, n, high
<1>5. AssertionHolds(<<low, OrShifted(x, n), high>>)
          <=> OrShifted(x, n) \in Bytes /\ v \in Values
  <2>1. low \in Bytes
    BY <1>2 DEF Bytes
  <2> QED
    BY <1>3, <2>1 DEF AssertionHolds
<1>6. OrShifted(x, n) \in Bytes <=> h >= 0
  <2>0. /\ x < 0 => OrShifted(x, n) < 0
        /\ x \in 0 .. 15 => OrShifted(x, n) = x + 16 * n
        /\ x > 15 => OrShifted(x, n) \in Bytes
    BY <1>2, <1>3, MiddleByte
  <2>1. CASE h < 0
    <3>1. x < 0
      BY <1>2, <2>1
    <3> QED
      BY <1>1, <2>0, <2>1, <3>1 DEF Bytes
  <2>2. CASE h \in 0 .. 4095
    <3>1. x \in 0 .. 15
      BY <1>2, <2>2
    <3> QED
      BY <1>3, <2>0, <2>2, <3>1 DEF Bytes
  <2>3. CASE h > 4095
    <3>1. x > 15
      BY <1>2, <2>3
    <3> QED
      BY <1>1, <2>0, <2>3, <3>1
  <2> QED
    BY <1>1, <2>1, <2>2, <2>3
<1>7. ASSUME h > 4095
      PROVE  FromBytes(<<low, OrShifted(x, n), high>>).h = h - 4096
  <2>1. OrShifted(x, n) % 16 = x - 16
    <3>1. x > 15
      BY <1>2, <1>7
    <3> QED
      BY <1>2, <1>3, <3>1, MiddleByte
  <2>2. FromBytes(<<low, OrShifted(x, n), high>>).h = low + 256 * (x - 16)
    BY <2>1 DEF FromBytes
  <2> QED
    BY <1>2, <2>2
<1> QED
  BY <1>4, <1>5, <1>6, <1>7

----------------------------------------------------------------------------
(* Calibration                                                             *)

LEMMA PairIsStick ==
    ASSUME NEW a \in Bytes, NEW b \in Bytes, NEW c \in Bytes
    PROVE  FromBytes(<<a, b, c>>) \in Sticks
<1>1. b % 16 \in 0 .. 15 /\ b \div 16 \in 0 .. 15
  BY DEF Bytes
<1>2. a + 256 * (b % 16) \in Values /\ (b \div 16) + 16 * c \in Values
  BY <1>1 DEF Bytes, Values
<1>3. FromBytes(<<a, b, c>>) = [h |-> a + 256 * (b % 16), v |-> (b \div 16) + 16 * c]
  BY DEF FromBytes
<1> QED
  BY <1>2, <1>3 DEF Sticks

LEMMA CalibrationIsSticks ==
    ASSUME NEW side \in {"left", "right"}, NEW data \in [1 .. 9 -> Bytes]
    PROVE  Calibration(side, data) \in [above : Sticks, center : Sticks, below : Sticks]
<1>1. /\ data[1] \in Bytes /\ data[2] \in Bytes /\ data[3] \in Bytes
      /\ data[4] \in Bytes /\ data[5] \in Bytes /\ data[6] \in Bytes
      /\ data[7] \in Bytes /\ data[8] \in Bytes /\ data[9] \in Bytes
  OBVIOUS
<1> DEFINE first == FromBytes(<<data[1], data[2], data[3]>>)
           second == FromBytes(<<data[4], data[5], data[6]>>)
           third == FromBytes(<<data[7], data[8], data[9]>>)
<1>2. first \in Sticks /\ second \in Sticks /\ third \in Sticks
  BY <1>1, PairIsStick
<1>3. /\ FromBytes(<<data[3 * 0 + 1], data[3 * 0 + 2], data[3 * 0 + 3]>>) = first
      /\ FromBytes(<<data[3 * 1 + 1], data[3 * 1 + 2], data[3 * 1 + 3]>>) = second
      /\ FromBytes(<<data[3 * 2 + 1], data[3 * 2 + 2], data[3 * 2 + 3]>>) = third
  BY SMT
<1> HIDE DEF first, second, third
<1>4. Calibration(side, data) =
          IF side = "left" THEN [above |-> first, center |-> second, below |-> third]
                           ELSE [center |-> first, below |-> second, above |-> third]
  BY <1>3 DEF Calibration
<1> QED
  BY <1>2, <1>4

LEMMA Sums ==
    ASSUME NEW k \in Values, NEW m \in Values
    PROVE  k + m - 0 \in Reach /\ k + 0 - m \in Reach /\ k + 0 - 0 \in Values \cap Reach
<1>1. k \in 0 .. 4095 /\ m \in 0 .. 4095
  BY DEF Values
<1>2. k + m - 0 \in Reach
  BY <1>1 DEF Reach
<1>3. k + 0 - m \in Reach
  BY <1>1 DEF Reach
<1>4. k + 0 - 0 = k /\ k \in Reach
  BY <1>1 DEF Reach
<1> QED
  BY <1>2, <1>3, <1>4

(* Whatever the calibration contains, a stick moved by it ends up where    *)
(* AssertionMissesTheRight says what becomes of it, and its center lies    *)
(* within the 12 bits: a controller starts with a report it can show.      *)
THEOREM CalibratedReach ==
    \A side \in {"left", "right"}, data \in [1 .. 9 -> Bytes] :
        LET c == Calibration(side, data) IN
        /\ Moved(c, "center") \in Sticks
        /\ \A d \in Directions : Moved(c, d) \in [h : Reach, v : Reach]
<1> SUFFICES ASSUME NEW side \in {"left", "right"}, NEW data \in [1 .. 9 -> Bytes]
             PROVE  LET c == Calibration(side, data) IN
                    /\ Moved(c, "center") \in Sticks
                    /\ \A d \in Directions : Moved(c, d) \in [h : Reach, v : Reach]
  OBVIOUS
<1> DEFINE c == Calibration(side, data)
<1>1. c.above \in Sticks /\ c.center \in Sticks /\ c.below \in Sticks
  BY CalibrationIsSticks
<1> HIDE DEF c
<1>2. PICK ch \in Values, cv \in Values, ah \in Values, av \in Values,
           bh \in Values, bv \in Values :
          /\ c.center.h = ch /\ c.center.v = cv
          /\ c.above.h = ah /\ c.above.v = av
          /\ c.below.h = bh /\ c.below.v = bv
  BY <1>1 DEF Sticks
<1>3. Moved(c, "center") = [h |-> ch + 0 - 0, v |-> cv + 0 - 0]
  BY <1>2 DEF Moved
<1>4. Moved(c, "up") = [h |-> ch + 0 - 0, v |-> cv + av - 0]
  BY <1>2 DEF Moved
<1>5. Moved(c, "down") = [h |-> ch + 0 - 0, v |-> cv + 0 - bv]
  BY <1>2 DEF Moved
<1>6. Moved(c, "left") = [h |-> ch + 0 - bh, v |-> cv + 0 - 0]
  BY <1>2 DEF Moved
<1>7. Moved(c, "right") = [h |-> ch + ah - 0, v |-> cv + 0 - 0]
  BY <1>2 DEF Moved
<1>8. /\ ch + 0 - 0 \in Values \cap Reach /\ cv + 0 - 0 \in Values \cap Reach
      /\ cv + av - 0 \in Reach /\ cv + 0 - bv \in Reach
      /\ ch + 0 - bh \in Reach /\ ch + ah - 0 \in Reach
  BY Sums
<1>9. Moved(c, "center") \in Sticks
  BY <1>3, <1>8 DEF Sticks
<1>10. ASSUME NEW d \in Directions
       PROVE  Moved(c, d) \in [h : Reach, v : Reach]
  BY <1>3, <1>4, <1>5, <1>6, <1>7, <1>8 DEF Directions
<1> QED
  BY <1>9, <1>10 DEF c

----------------------------------------------------------------------------
(* Writing into a report                                                   *)

FullReports == [0 .. 362 -> Bytes]

(* What Written() is for the n bytes.                                      *)
Over(data, at, bytes, n) ==
    [j \in 0 .. 362 |-> IF j - at + 1 \in 1 .. n THEN bytes[j - at + 1] ELSE data[j]]

LEMMA WrittenIs ==
    ASSUME NEW data \in FullReports, NEW at \in Nat, NEW bytes \in Seq(Bytes),
           NEW n \in Nat, n = Len(bytes)
    PROVE  Written(data, at, bytes) = Over(data, at, bytes, n)
<1>1. DOMAIN data = 0 .. 362
  BY DEF FullReports
<1>2. DOMAIN bytes = 1 .. n
  OBVIOUS
<1> QED
  BY <1>1, <1>2 DEF Written, Over

LEMMA WrittenIsFull ==
    ASSUME NEW data \in FullReports, NEW at \in Nat, NEW bytes \in Seq(Bytes)
    PROVE  Written(data, at, bytes) \in FullReports
<1>1. PICK n \in Nat : n = Len(bytes)
  OBVIOUS
<1>2. \A k \in 1 .. n : bytes[k] \in Bytes
  BY <1>1
<1>3. \A i \in 0 .. 362 : data[i] \in Bytes
  BY DEF FullReports
<1>4. Written(data, at, bytes) = Over(data, at, bytes, n)
  BY <1>1, WrittenIs
<1>5. ASSUME NEW j \in 0 .. 362
      PROVE  (IF j - at + 1 \in 1 .. n THEN bytes[j - at + 1] ELSE data[j]) \in Bytes
  BY <1>2, <1>3
<1> QED
  BY <1>4, <1>5 DEF FullReports, Over

(* What is around the bytes stays.                                         *)
(* Every acknowledgement is two bytes.                                     *)
LEMMA AcksAreBytes ==
    ASSUME NEW sub \in SubCommands
    PROVE  Acks[sub] \in Seq(Bytes) /\ Len(Acks[sub]) = 2
<1>1. sub \in {"device_info", "set_mode", "elapsed_time", "shipment", "flash_read",
                "mcu_config", "mcu_state", "player_lights", "sensor", "vibration"}
  BY DEF SubCommands, Acks
<1> DEFINE TwoBytes(x) == x \in Seq(Bytes) /\ Len(x) = 2
<1>2. /\ TwoBytes(Acks["device_info"]) /\ TwoBytes(Acks["set_mode"])
      /\ TwoBytes(Acks["elapsed_time"]) /\ TwoBytes(Acks["shipment"])
      /\ TwoBytes(Acks["flash_read"]) /\ TwoBytes(Acks["mcu_config"])
      /\ TwoBytes(Acks["mcu_state"]) /\ TwoBytes(Acks["player_lights"])
      /\ TwoBytes(Acks["sensor"]) /\ TwoBytes(Acks["vibration"])
  BY DEF Acks, Bytes
<1> HIDE DEF TwoBytes
<1>3. TwoBytes(Acks[sub])
  BY <1>1, <1>2
<1> QED
  BY <1>3 DEF TwoBytes

----------------------------------------------------------------------------
(* Answers                                                                 *)

(* Whatever sub command is answered, with whatever payload of up to 35     *)
(* bytes: the buttons, sticks, id and timer of the report stay as they     *)
(* were, and all of the payload is sent (sub_0x* of InputReport and        *)
(* __bytes__).                                                             *)
THEOREM AnswersKeepTheReport ==
    ASSUME NEW report \in FullReports, report[1] = 33,
           NEW sub \in SubCommands,
           NEW payload \in Seq(Bytes), Len(payload) <= 35
    PROVE  LET answer == Answered(report, sub, payload) IN
           /\ answer \in FullReports
           /\ \A i \in 0 .. 13 : answer[i] = report[i]
           /\ \A k \in 1 .. Len(payload) : Sent(answer)[15 + k] = payload[k]
<1> DEFINE bytes == Acks[sub] \o payload
           answer == Answered(report, sub, payload)
<1>1. Acks[sub] \in Seq(Bytes) /\ Len(Acks[sub]) = 2
  BY AcksAreBytes
<1>2. PICK n \in Nat : n = Len(payload)
  OBVIOUS
<1>3. n \in Nat /\ n <= 35
  BY <1>2, SMT
<1>4. PICK m \in Nat : m = n + 2
  BY <1>3
<1>5. m \in Nat /\ m = n + 2 /\ 14 + m <= 363
  BY <1>3, <1>4
<1>6. /\ bytes \in Seq(Bytes) /\ m = Len(bytes)
      /\ \A i \in 1 .. m : bytes[i] = IF i <= 2 THEN Acks[sub][i] ELSE payload[i - 2]
  <2>1. /\ Acks[sub] \o payload \in Seq(Bytes)
        /\ Len(Acks[sub] \o payload) = Len(Acks[sub]) + Len(payload)
        /\ \A i \in 1 .. Len(Acks[sub]) + Len(payload) :
              (Acks[sub] \o payload)[i] =
                  IF i <= Len(Acks[sub]) THEN Acks[sub][i] ELSE payload[i - Len(Acks[sub])]
    BY <1>1, ConcatProperties
  <2>2. Len(Acks[sub]) + Len(payload) = m
    BY <1>1, <1>2, <1>5
  <2> QED
    BY <1>1, <2>1, <2>2
<1> HIDE DEF bytes
<1>7. answer = Written(report, 14, bytes) /\ answer = Over(report, 14, bytes, m)
  <2>1. answer = Written(report, 14, bytes)
    BY DEF Answered, bytes
  <2>2. 14 \in Nat
    OBVIOUS
  <2> QED
    BY <1>6, <2>1, <2>2, WrittenIs
<1> HIDE DEF answer
<1>8. answer \in FullReports
  BY <1>6, <1>7, WrittenIsFull, 14 \in Nat
<1>9. ASSUME NEW i \in 0 .. 13
      PROVE  answer[i] = report[i]
  <2>1. i \in 0 .. 362 /\ i - 14 + 1 \notin 1 .. m
    OBVIOUS
  <2> QED
    BY <1>7, <2>1 DEF Over
<1>10. Sent(answer) = [i \in 0 .. 50 |-> answer[i]]
  <2>1. answer[1] = 33
    BY <1>9
  <2> QED
    BY <2>1 DEF Sent, SentSize
<1>11. ASSUME NEW k \in 1 .. n
       PROVE  Sent(answer)[15 + k] = payload[k]
  <2>1. /\ 2 + k \in 1 .. m /\ 14 + (2 + k) - 1 = 15 + k /\ 15 + k \in 0 .. 50
        /\ 15 + k \in 0 .. 362 /\ ~ (2 + k <= 2) /\ (2 + k) - 2 = k
    BY <1>3, <1>5
  <2>2. answer[15 + k] = bytes[2 + k]
    <3>1. PICK j \in 0 .. 362, q \in 1 .. m : j = 15 + k /\ q = 2 + k
      BY <2>1
    <3>2. j - 14 + 1 = q
      BY <3>1
    <3>3. answer[j] = bytes[q]
      BY <1>7, <3>2 DEF Over
    <3> QED
      BY <3>1, <3>3
  <2>3. bytes[2 + k] = payload[k]
    BY <1>6, <2>1
  <2> QED
    BY <1>10, <2>1, <2>2, <2>3
<1> QED
  BY <1>2, <1>8, <1>9, <1>11 DEF answer

----------------------------------------------------------------------------
(* Numbers                                                                 *)

(* A number below 2^32 survives its four bytes: the offset that            *)
(* sub_0x10_spi_flash_read() writes by repeated division is the one that   *)
(* _command_spi_flash_read() adds up, and the dump finds in the answer.    *)
InFourBytes(n) == n \in Nat /\ n < 65536 * 65536

LEMMA FourBytesRead ==
    ASSUME NEW n, InFourBytes(n)
    PROVE  \E a, b, c, d \in 0 .. 255 :
               LittleEndian4(n) = <<a, b, c, d>> /\ Number4(<<a, b, c, d>>) = n
<1> USE DEF InFourBytes
<1> DEFINE a == n % 256
           b == (n \div 256) % 256
           c == (n \div 65536) % 256
           d == (n \div 16777216) % 256
<1>1. a \in 0 .. 255 /\ b \in 0 .. 255 /\ c \in 0 .. 255 /\ d \in 0 .. 255
  BY SMT
<1>2. n = a + 256 * b + 65536 * c + 16777216 * d
  BY SMT
<1>3. LittleEndian4(n) = <<a, b, c, d>>
  BY SMT DEF LittleEndian4
<1> HIDE DEF a, b, c, d
<1>4. Number4(<<a, b, c, d>>) = n
  BY <1>1, <1>2, SMT DEF Number4
<1> USE <1>1
<1> WITNESS a \in 0 .. 255, b \in 0 .. 255, c \in 0 .. 255, d \in 0 .. 255
<1> QED
  BY <1>3, <1>4, SMT

(* A time that is accepted is shown to the console in steps of 10 ms       *)
(* (sub_0x04_trigger_buttons_elapsed_time).                                *)
THEOREM TimeIsShown ==
    ASSUME NEW ms \in Nat, ms <= 655350
    PROVE  \E a, b \in 0 .. 255 :
               Time(ms) = <<a, b>> /\ 10 * (a + 256 * b) = ms - (ms % 10)
<1>1. PICK t \in Nat : t = ms \div 10
  BY SMT
<1>2. t <= 65535 /\ 10 * t = ms - (ms % 10)
  BY <1>1, SMT
<1> DEFINE a == t % 256
           b == (t \div 256) % 256
<1>3. Time(ms) = <<a, b>>
  BY <1>1, SMT DEF Time, LittleEndian2
<1>4. a \in 0 .. 255 /\ b \in 0 .. 255 /\ t = a + 256 * b
  BY <1>2, SMT
<1> HIDE DEF a, b
<1> USE <1>4
<1> WITNESS a \in 0 .. 255, b \in 0 .. 255
<1> QED
  BY <1>2, <1>3, SMT

----------------------------------------------------------------------------
(* The request of the flash dump                                           *)

(* Whatever request OutputReport.sub_0x10_spi_flash_read() makes, the      *)
(* controller reads the same range out of it, and can answer it.           *)
THEOREM FlashRequestArrives ==
    ASSUME NEW offset \in Nat, NEW size \in Nat, ~ RequestRefused(offset, size)
    PROVE  /\ RequestedOffset(FlashRequest(offset, size)) = offset
           /\ RequestedSize(FlashRequest(offset, size)) = size
           /\ ~ ReadRefused(offset, size, TRUE)
<1>1. offset + size <= 524288 /\ size <= 29
  BY SMT DEF RequestRefused, FlashSize
<1>2. PICK a, b, c, d \in 0 .. 255 :
          LittleEndian4(offset) = <<a, b, c, d>> /\ Number4(<<a, b, c, d>>) = offset
  <2>1. InFourBytes(offset)
    BY <1>1, SMT DEF InFourBytes
  <2> QED
    BY <2>1, FourBytesRead
<1> DEFINE data == FlashRequest(offset, size)
<1>3. data[12] = a /\ data[13] = b /\ data[14] = c /\ data[15] = d /\ data[16] = size
  BY <1>2, SMT DEF FlashRequest, Written
<1> HIDE DEF data
<1>4. RequestedOffset(data) = Number4(<<a, b, c, d>>)
  BY <1>3, SMT DEF RequestedOffset, Number4
<1>5. ~ ReadRefused(offset, size, TRUE)
  BY <1>1, SMT DEF ReadRefused, FlashSize
<1>6. RequestedOffset(data) = offset
  BY <1>2, <1>4, SMT
<1>7. RequestedSize(data) = size
  BY <1>3, SMT DEF RequestedSize
<1> QED
  BY <1>5, <1>6, <1>7, Zenon DEF data

----------------------------------------------------------------------------
(* Regular reports                                                         *)

Showing(b, l, r) == [buttons |-> b, left |-> StickBytes(l), right |-> StickBytes(r)]

(* A report of any mode but 0x3F shows the console its mode, the three     *)
(* bytes of the buttons and both sticks as they are in the controller      *)
(* state, whatever the MCU has to say and however short the report is cut  *)
(* (_generate_input_report and __bytes__).                                 *)
THEOREM ReportShowsState ==
    ASSUME NEW mode \in {33, 48, 49, 50, 51}, NEW timer \in Bytes,
           NEW b1 \in Bytes, NEW b2 \in Bytes, NEW b3 \in Bytes,
           NEW l \in Sticks, NEW r \in Sticks, NEW mcu \in Seq(Bytes)
    PROVE  LET s == Sent(Generated(mode, timer, Showing(<<b1, b2, b3>>, l, r), mcu)) IN
           /\ s[1] = mode /\ <<s[4], s[5], s[6]>> = <<b1, b2, b3>>
           /\ FromBytes(<<s[7], s[8], s[9]>>) = l
           /\ FromBytes(<<s[10], s[11], s[12]>>) = r
<1> DEFINE x == StickBytes(l)
           y == StickBytes(r)
           header == [Written(Blank, 1, <<mode>>) EXCEPT ![2] = timer, ![3] = 142, ![13] = 128]
           w1 == Written(header, 4, <<b1, b2, b3>>)
           w2 == Written(w1, 7, x)
           w3 == Written(w2, 10, y)
           g == Generated(mode, timer, Showing(<<b1, b2, b3>>, l, r), mcu)
<1>1. x = <<x[1], x[2], x[3]>> /\ y = <<y[1], y[2], y[3]>>
  BY DEF StickBytes
<1>2. FromBytes(x) = l /\ FromBytes(y) = r
  BY ReportCarriesStick
<1>3. g = IF mode = 49 THEN Written(w3, 50, mcu) ELSE w3
  BY DEF Generated, Showing
<1> HIDE DEF x, y, g
<1>4. DOMAIN header = 0 .. 362 /\ header[1] = mode
  <2>1. DOMAIN Blank = 0 .. 362
    BY DEF Blank, Size
  <2>2. DOMAIN Written(Blank, 1, <<mode>>) = 0 .. 362 /\ Written(Blank, 1, <<mode>>)[1] = mode
    BY <2>1 DEF Written
  <2> QED
    BY <2>2
<1> HIDE DEF header
<1>5. /\ DOMAIN w1 = 0 .. 362 /\ w1[1] = mode
      /\ w1[4] = b1 /\ w1[5] = b2 /\ w1[6] = b3
  BY <1>4 DEF Written
<1> HIDE DEF w1
<1>6. /\ DOMAIN w2 = 0 .. 362 /\ w2[1] = mode
      /\ w2[4] = b1 /\ w2[5] = b2 /\ w2[6] = b3
      /\ w2[7] = x[1] /\ w2[8] = x[2] /\ w2[9] = x[3]
  BY <1>1, <1>5 DEF Written
<1> HIDE DEF w2
<1>7. /\ DOMAIN w3 = 0 .. 362 /\ w3[1] = mode
      /\ w3[4] = b1 /\ w3[5] = b2 /\ w3[6] = b3
      /\ w3[7] = x[1] /\ w3[8] = x[2] /\ w3[9] = x[3]
      /\ w3[10] = y[1] /\ w3[11] = y[2] /\ w3[12] = y[3]
  BY <1>1, <1>6 DEF Written
<1> HIDE DEF w3
<1>8. \A i \in 0 .. 13 : g[i] = w3[i]
  <2>1. \A i \in 0 .. 13 : i - 50 + 1 \notin DOMAIN mcu
    OBVIOUS
  <2>2. ASSUME NEW i \in 0 .. 13
        PROVE  Written(w3, 50, mcu)[i] = w3[i]
    <3>1. i \in DOMAIN w3
      BY <1>7
    <3>2. i - 50 + 1 \notin DOMAIN mcu
      BY <2>1
    <3> QED
      BY <3>1, <3>2, Zenon DEF Written
  <2> QED
    BY <1>3, <2>2
<1>9. \A i \in 0 .. 13 : Sent(g)[i] = g[i]
  BY <1>7, <1>8, SMTT(30) DEF Sent, SentSize, Size
<1>10. /\ Sent(g)[1] = mode
       /\ Sent(g)[4] = b1 /\ Sent(g)[5] = b2 /\ Sent(g)[6] = b3
       /\ Sent(g)[7] = x[1] /\ Sent(g)[8] = x[2] /\ Sent(g)[9] = x[3]
       /\ Sent(g)[10] = y[1] /\ Sent(g)[11] = y[2] /\ Sent(g)[12] = y[3]
  BY <1>7, <1>8, <1>9
<1> QED
  BY <1>1, <1>2, <1>10 DEF g

(* A report of mode 0x3F does not have its id: the slice that was meant to *)
(* follow it replaces it.                                                  *)
THEOREM ConstantsReplaceTheId ==
    ASSUME NEW timer, NEW state, NEW mcu
    PROVE  LET g == Generated(63, timer, state, mcu) IN
           DOMAIN g = 0 .. 364 /\ g[1] = 40 /\ DOMAIN Sent(g) = 0 .. 50 /\ Sent(g)[1] = 40
<1> DEFINE once == Spliced(Written(Blank, 1, <<63>>), 363, 1, 3, <<40, 202, 8>>)
           g == Generated(63, timer, state, mcu)
<1>1. g = Spliced(once, 364, 4, 11, <<64, 138, 79, 138, 208, 126, 223, 127>>)
  BY DEF Generated, Size
<1> HIDE DEF g
<1>2. once[1] = 40
  BY DEF Spliced
<1> HIDE DEF once
<1>3. DOMAIN g = 0 .. 364 /\ g[1] = 40
  BY <1>1, <1>2 DEF Spliced
<1>4. DOMAIN Sent(g) = 0 .. 50 /\ Sent(g)[1] = 40
  BY <1>3 DEF Sent, SentSize
<1> QED
  BY <1>3, <1>4 DEF g
=============================================================================
