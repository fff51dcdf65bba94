--------------------------- MODULE ControllerState --------------------------
(***************************************************************************)
(* The data of joycontrol/controller_state.py that a report carries, as    *)
(* pure operators: the bits of the buttons, the bytes of a stick, and the  *)
(* calibration that joycontrol/memory.py reads from the flash.  Bytes are  *)
(* numbers; Python's >> and & of powers of two are \div and %, which round *)
(* down for negative numbers too.                                          *)
(***************************************************************************)
EXTENDS Integers, Sequences

Bytes == 0 .. 255

Power == <<1, 2, 4, 8, 16, 32, 64, 128>>

----------------------------------------------------------------------------
(* Buttons                                                                 *)

(* utils.get_bit and utils.flip_bit, for a bit of a byte.                  *)
GetBit(byte, n) == (byte \div Power[n + 1]) % 2 = 1

FlipBit(byte, n) == IF GetBit(byte, n) THEN byte - Power[n + 1] ELSE byte + Power[n + 1]

(* The setter that button_method_factory makes.                            *)
SetBit(byte, n, pushed) == IF pushed # GetBit(byte, n) THEN FlipBit(byte, n) ELSE byte

(* The buttons of each controller by byte and bit; "" has no method.       *)
Buttons(controller) ==
    LET right == controller # "JOYCON_L"
        left == controller # "JOYCON_R"
        pro == controller = "PRO_CONTROLLER"
        On(part, names) == [n \in 1 .. Len(names) |-> IF part THEN names[n] ELSE ""] IN
    << On(right, <<"y", "x", "b", "a">>)
           \o On(right /\ ~ pro, <<"sr", "sl">>) \o On(right, <<"r", "zr">>),
       <<"minus", "plus", "r_stick", "l_stick">>
           \o On(right, <<"home">>) \o On(left, <<"capture">>),
       On(left, <<"down", "up", "right", "left">>)
           \o On(left /\ ~ pro, <<"sr", "sl">>) \o On(left, <<"l", "zl">>) >>

(* _available_buttons                                                      *)
Available(controller) ==
    CASE controller = "PRO_CONTROLLER" ->
             {"y", "x", "b", "a", "r", "zr", "minus", "plus", "r_stick", "l_stick", "home",
              "capture", "down", "up", "right", "left", "l", "zl"}
      [] controller = "JOYCON_R" ->
             {"y", "x", "b", "a", "sr", "sl", "r", "zr", "plus", "r_stick", "home"}
      [] controller = "JOYCON_L" ->
             {"minus", "l_stick", "capture", "down", "up", "right", "left", "sr", "sl", "l", "zl"}

(* The byte and the bit of a button.                                       *)
Places(controller, button) ==
    {p \in (1 .. 3) \X (0 .. 7) :
        /\ p[2] + 1 \in DOMAIN Buttons(controller)[p[1]]
        /\ Buttons(controller)[p[1]][p[2] + 1] = button}

----------------------------------------------------------------------------
(* Sticks                                                                  *)

Values == 0 .. 4095

(* x | n << 4 of the middle byte.  A bit of x above the fourth is or-ed    *)
(* into n, and a negative x is all ones up there.                          *)
OrShifted(x, n) ==
    (x % 16) + 16 * (IF x < 0 THEN -1 ELSE IF x < 16 THEN n ELSE 2 * (n \div 2) + 1)

(* StickState.__bytes__, without its assertion.                            *)
StickBytes(s) == << s.h % 256, OrShifted(s.h \div 256, s.v % 16), s.v \div 16 >>

AssertionHolds(bytes) == \A i \in 1 .. 3 : bytes[i] \in Bytes

(* StickState.from_bytes; a calibration reads its pairs the same way.      *)
FromBytes(bytes) == [h |-> bytes[1] + 256 * (bytes[2] % 16),
                     v |-> (bytes[2] \div 16) + 16 * bytes[3]]

----------------------------------------------------------------------------
(* Calibration                                                             *)

(* LeftStickCalibration and RightStickCalibration: the three pairs come in *)
(* an order of their own on each side.                                     *)
Calibration(side, data) ==
    LET pair(k) == FromBytes(<<data[3 * k + 1], data[3 * k + 2], data[3 * k + 3]>>) IN
    IF side = "left"
    THEN [above |-> pair(0), center |-> pair(1), below |-> pair(2)]
    ELSE [center |-> pair(0), below |-> pair(1), above |-> pair(2)]

(* set_center and its like.                                                *)
Moved(c, direction) ==
    [h |-> c.center.h + (IF direction = "right" THEN c.above.h ELSE 0)
                      - (IF direction = "left" THEN c.below.h ELSE 0),
     v |-> c.center.v + (IF direction = "up" THEN c.above.v ELSE 0)
                      - (IF direction = "down" THEN c.below.v ELSE 0)]

Directions == {"center", "up", "down", "left", "right"}

(* The stick command of the command line: where the stick is afterwards.   *)
(* A value that is missing, no number or not of a stick, and a direction   *)
(* that there is not, raise before the stick is touched.                   *)
SetStick(s, c, direction, value) ==
    IF direction \in Directions THEN Moved(c, direction)
    ELSE IF direction = "horizontal" /\ value \in Values THEN [s EXCEPT !.h = value]
    ELSE IF direction = "vertical" /\ value \in Values THEN [s EXCEPT !.v = value]
    ELSE s

(* Where the two signatures and calibrations of the user begin, and the    *)
(* two of the factory; a blank flash is all ones but for the latter.       *)
UserAt(side) == IF side = "left" THEN 32784 ELSE 32795

FactoryAt(side) == IF side = "left" THEN 24637 ELSE 24646

CalibrationPart == (24637 .. 24654) \cup (32784 .. 32805)

BlankFlash ==
    LET sticks == <<0, 7, 112, 0, 8, 128, 0, 7, 112,
                    0, 8, 128, 0, 7, 112, 0, 7, 112>> IN
    [a \in CalibrationPart |->
        IF a < UserAt("left") THEN sticks[a - FactoryAt("left") + 1] ELSE 255]

(* get_user_*_stick_calibration(), or else the factory's.                  *)
StickData(side, flash) ==
    LET from == IF flash[UserAt(side)] = 178 /\ flash[UserAt(side) + 1] = 161
                THEN UserAt(side) + 2 ELSE FactoryAt(side) IN
    [i \in 1 .. 9 |-> flash[from + i - 1]]

(* What a stick tells the console in the reports that follow a move.       *)
Shown(side, flash, direction) ==
    StickBytes(Moved(Calibration(side, StickData(side, flash)), direction))
=============================================================================
