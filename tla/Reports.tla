------------------------------- MODULE Reports -------------------------------
(***************************************************************************)
(* The bytes of joycontrol/report.py and of the answers and regular        *)
(* reports that joycontrol/protocol.py writes with it, as pure operators.  *)
(* The data of a report are a function from their Python indices.  The     *)
(* clock and the contents that come from the MCU are parameters.           *)
(***************************************************************************)
EXTENDS ControllerState

(* self.data[at : at + len(bytes)] = bytes, inside the list.               *)
Written(data, at, bytes) ==
    [i \in DOMAIN data |-> IF i - at + 1 \in DOMAIN bytes THEN bytes[i - at + 1] ELSE data[i]]

(* self.data[from : to] = bytes: the list grows or shrinks.                *)
Spliced(data, size, from, to, bytes) ==
    LET by == Len(bytes) - (to - from) IN
    [i \in 0 .. size + by - 1 |->
        IF i < from THEN data[i]
        ELSE IF i < from + Len(bytes) THEN bytes[i - from + 1]
        ELSE data[i - by]]

(* The bytes of a number, the lowest first.                                *)
LittleEndian2(n) == << n % 256, (n \div 256) % 256 >>

LittleEndian4(n) ==
    << n % 256, (n \div 256) % 256, (n \div 65536) % 256, (n \div 16777216) % 256 >>

Number4(b) == b[1] + 256 * b[2] + 65536 * b[3] + 16777216 * b[4]

----------------------------------------------------------------------------
(* Input reports                                                           *)

Size == 363

Blank == [i \in 0 .. Size - 1 |-> IF i = 0 THEN 161 ELSE 0]

(* __bytes__: what is sent of a report.  One of mode 0x30 ends before the  *)
(* sensor data that set_6axis_data() put there.                            *)
SentSize(id) == CASE id = 48 -> 14 [] id = 49 -> Size [] OTHER -> 51

Sent(data) == [i \in 0 .. SentSize(data[1]) - 1 |-> data[i]]

(* _generate_input_report() in the mode; state has the bytes of buttons    *)
(* and sticks.  The slices of mode 0x3F take two bytes for three and seven *)
(* for eight.  The sensor data are zeros over zeros.                       *)
Generated(mode, timer, state, mcu) ==
    LET report == Written(Blank, 1, <<mode>>)
        header == [report EXCEPT ![2] = timer, ![3] = 142, ![13] = 128]
        standard == Written(Written(Written(header, 4, state.buttons),
                                    7, state.left), 10, state.right) IN
    IF mode = 63
    THEN Spliced(Spliced(report, Size, 1, 3, <<40, 202, 8>>), Size + 1, 4, 11,
                 <<64, 138, 79, 138, 208, 126, 223, 127>>)
    ELSE IF mode = 49 THEN Written(standard, 50, mcu) ELSE standard

(* close_pairing_masks, and the test of _write() on the button bytes.      *)
PairingMask(controller) ==
    CASE controller = "JOYCON_R" -> <<10, 16, 0>>
      [] controller = "JOYCON_L" -> <<0, 0, 9>>
      [] controller = "PRO_CONTROLLER" -> <<12, 16, 0>>

EndsPairing(controller, data) ==
    \E i \in 1 .. 3, n \in 0 .. 7 :
        GetBit(PairingMask(controller)[i], n) /\ GetBit(data[3 + i], n)

----------------------------------------------------------------------------
(* Answers to sub commands                                                 *)

(* The acknowledgement and the id each answer has.                         *)
Acks == [device_info |-> <<130, 2>>, set_mode |-> <<128, 3>>, elapsed_time |-> <<131, 4>>,
         shipment |-> <<128, 8>>, flash_read |-> <<144, 16>>, mcu_config |-> <<160, 33>>,
         mcu_state |-> <<128, 34>>, player_lights |-> <<128, 48>>,
         sensor |-> <<128, 64>>, vibration |-> <<128, 72>>]

SubCommands == DOMAIN Acks

DeviceInfo(controller, mac) == <<4, 0, controller, 2>> \o mac \o <<1, 1>>

FlashRead(offset, bytes) == LittleEndian4(offset) \o <<Len(bytes)>> \o bytes

(* The times in ms of L, R, ZL, ZR, SL, SR and HOME.                       *)
Time(ms) == LittleEndian2(ms \div 10)

ElapsedTimes(t) == Time(t[1]) \o Time(t[2]) \o Time(t[3]) \o Time(t[4])
                   \o Time(t[5]) \o Time(t[6]) \o Time(t[7])

PairingTimes(controller) ==
    ElapsedTimes(IF controller = "PRO_CONTROLLER" THEN <<3000, 3000, 0, 0, 0, 0, 0>>
                 ELSE <<0, 0, 0, 0, 3000, 3000, 0>>)

McuConfig == [i \in 1 .. 34 |-> CASE i = 1 -> 1 [] i = 3 -> 255 [] i = 5 -> 8 [] i = 7 -> 27
                                  [] i = 8 -> 1 [] i = 34 -> 200 [] OTHER -> 0]

(* The answer of the sub command with the payload, in the 0x21 report.     *)
Answered(report, sub, payload) == Written(report, 14, Acks[sub] \o payload)

(* The flash to read from: without one it is all zeros.  A range past its  *)
(* end gives fewer bytes than asked for, which is refused, as is a size    *)
(* above 0x1D.                                                             *)
FlashSize == 524288

ReadRefused(offset, size, hasFlash) ==
    size > 29 \/ (hasFlash /\ offset + size > FlashSize /\ size > 0)

----------------------------------------------------------------------------
(* Output reports                                                          *)

(* What becomes of received data in report_received(), up to the handler   *)
(* of the sub command; nfc is whether the MCU is configured for NFC.  No   *)
(* data at all stand for a blank report.  What raises ends the reader.     *)
Known == {Acks[s][2] : s \in SubCommands}

Outcome(data, nfc) ==
    IF data = << >> \/ data[1] # 162 THEN "ignored"
    ELSE IF Len(data) = 1 THEN "raises"
    ELSE IF data[2] \notin {1, 17} THEN "ignored"
    ELSE IF Len(data) < 12 THEN "raises"
    ELSE IF data[2] = 17
    THEN IF data[12] \notin {1, 2} \/ (data[12] = 2 /\ ~ nfc) THEN "ignored"
         ELSE IF data[12] = 2 /\ Len(data) = 12 THEN "raises" ELSE "mcu"
    ELSE IF data[12] \notin Known THEN "ignored"
    ELSE IF Len(data) = 12 THEN "raises" ELSE "answered"

(* OutputReport.sub_0x10_spi_flash_read() on a blank report, which raises  *)
(* for what RequestRefused says, and how _command_spi_flash_read() reads   *)
(* it.                                                                     *)
RequestRefused(offset, size) == size > 29 \/ offset + size > FlashSize

FlashRequest(offset, size) ==
    LET blank == [i \in 0 .. 49 |-> IF i = 0 THEN 162 ELSE 0] IN
    Written([blank EXCEPT ![1] = 1, ![11] = 16, ![16] = size], 12, LittleEndian4(offset))

RequestedOffset(data) == Number4([i \in 1 .. 4 |-> data[11 + i]])

RequestedSize(data) == data[16]
=============================================================================
