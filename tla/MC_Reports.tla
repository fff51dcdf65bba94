------------------------------ MODULE MC_Reports ------------------------------
(* The operators of Reports on small inputs.                               *)
EXTENDS Reports, MC_ControllerState

StandardModes == {33, 48, 49, 50}

Zeros(n) == [i \in 1 .. n |-> 0]

(* The bytes of the buttons that are pressed.                              *)
ButtonBytes(c, pressed) ==
    LET Byte(i) ==
            LET bits == {p[2] : p \in {q \in UNION {Places(c, b) : b \in pressed} : q[1] = i}}
                sum[n \in 0 .. 8] ==
                    IF n = 0 THEN 0 ELSE SetBit(sum[n - 1], n - 1, (n - 1) \in bits) IN
            sum[8] IN
    <<Byte(1), Byte(2), Byte(3)>>

Showing(c, pressed) ==
    [buttons |-> ButtonBytes(c, pressed), left |-> Zeros(3), right |-> <<0, 8, 128>>]

(* close_pairing_menu_map                                                  *)
PairingButtons(c) ==
    CASE c = "JOYCON_R" -> {"x", "a", "home"}
      [] c = "JOYCON_L" -> {"down", "left"}
      [] c = "PRO_CONTROLLER" -> {"a", "b", "home"}

(* What Protocol takes from the bytes: a report ends the pairing exactly   *)
(* when it shows a button of the menu, answers to sub commands included;   *)
(* one of mode 0x3F, whose bytes are constants, always does on a left      *)
(* Joy-Con and never on the others.                                        *)
ASSUME PairingEndsWithItsButtons ==
    \A c \in Controllers, m \in StandardModes : \A b, d \in Available(c) :
        EndsPairing(c, Generated(m, 7, Showing(c, {b, d}), Zeros(313)))
            <=> {b, d} \cap PairingButtons(c) # {}

ASSUME ConstantsEndPairing ==
    \A c \in Controllers : \A b \in Available(c) :
        EndsPairing(c, Generated(63, 7, Showing(c, {b}), << >>)) <=> c = "JOYCON_L"

(* The reports without a mode, which create_hid_server() writes, end none. *)
ASSUME EmptyReportsKeepPairing == \A c \in Controllers : ~ EndsPairing(c, Blank)

(* The list of mode 0x3F has two bytes more; they are not sent.            *)
ASSUME ReportSizes ==
    /\ \A m \in StandardModes \cup {63} :
          LET r == Generated(m, 255, Showing("JOYCON_R", {"x"}), Zeros(313)) IN
          /\ DOMAIN r = 0 .. (IF m = 63 THEN 364 ELSE 362)
          /\ \A i \in DOMAIN r : r[i] \in Bytes
    /\ {SentSize(m) : m \in StandardModes \cup {0, 40}} = {14, 51, 363}

(* The edges of what the setters of the report take.                       *)
ASSUME TimesReadBack ==
    \A ms \in {0, 9, 10, 2559, 2560, 3000, 655350} :
        LET b == Time(ms) IN
        b[1] \in Bytes /\ b[2] \in Bytes /\ 10 * (b[1] + 256 * b[2]) = ms - (ms % 10)

ASSUME RequestsReadBack ==
    \A offset \in {0, 255, 256, 65535, 65536, 524259, 524287, 524288}, size \in {0, 1, 29, 30} :
        ~ RequestRefused(offset, size) =>
            LET data == FlashRequest(offset, size) IN
            /\ RequestedOffset(data) = offset /\ RequestedSize(data) = size
            /\ ~ ReadRefused(offset, size, TRUE)
            /\ Outcome([i \in 1 .. 50 |-> data[i - 1]], FALSE) = "answered"

(* Every payload fits behind the header, see AnswersKeepTheReport, and the *)
(* times of the pairing are 3 s for two buttons.                           *)
ASSUME PayloadsFit ==
    \A c \in Controllers :
        LET payloads == {DeviceInfo(3, <<1, 2, 3, 4, 5, 6>>), FlashRead(524287, Zeros(29)),
                         PairingTimes(c), McuConfig} IN
        /\ \A p \in payloads : Len(p) <= 35 /\ \A k \in DOMAIN p : p[k] \in Bytes
        /\ Cardinality({k \in 1 .. 7 : PairingTimes(c)[2 * k] = 300 \div 256}) = 2
        /\ \A p \in payloads, s \in SubCommands :
              Answered(Generated(33, 7, Showing(c, {}), << >>), s, p)[15] = Acks[s][2]

(* Only data cut short within the part that tells what they are for can    *)
(* end the reader before a handler runs: whatever is as long as a console  *)
(* sends it does not, and neither does the end of the connection.          *)
ASSUME OnlyShortReportsRaise ==
    \A first \in {161, 162}, id \in {0, 1, 16, 17, 33}, sub \in {1, 2, 16, 33, 255},
       n \in 0 .. 14, nfc \in BOOLEAN :
        LET data == [i \in 1 .. n |-> CASE i = 1 -> first [] i = 2 -> id [] i = 12 -> sub
                                        [] OTHER -> 0] IN
        Outcome(data, nfc) = "raises" => n \in 1 .. 12 /\ first = 162
=============================================================================
