--------------------------- MODULE MC_ControllerState -----------------------
(* The operators of ControllerState on small inputs: every byte, every     *)
(* button, and the sticks around the borders of their bytes.               *)
EXTENDS ControllerState, FiniteSets, Bitwise

Controllers == {"PRO_CONTROLLER", "JOYCON_R", "JOYCON_L"}

Edges == {0, 1, 15, 16, 255, 256, 257, 1792, 2048, 3840, 4080, 4094, 4095}

(* Every button that a controller announces has one bit, so that pushing   *)
(* it shows no other button; what has a bit and is not announced is only a *)
(* button of byte 2 that this side of the pair does not have.              *)
ASSUME ButtonsHaveOnePlace ==
    \A c \in Controllers :
        /\ \A b \in Available(c) : Cardinality(Places(c, b)) = 1
        /\ \A b, d \in Available(c) : b # d => Places(c, b) \cap Places(c, d) = {}

ASSUME UnannouncedButtons ==
    \A c \in Controllers : \A i \in 1 .. 3 : \A n \in DOMAIN Buttons(c)[i] :
        LET b == Buttons(c)[i][n] IN
        b \in Available(c) \cup {""} \/ (i = 2 /\ c # "PRO_CONTROLLER")

(* A setter leaves the bit as asked and every other bit alone, and flips   *)
(* as the xor does.                                                        *)
ASSUME SettersTouchOneBit ==
    \A byte \in Bytes, n \in 0 .. 7, pushed \in BOOLEAN :
        LET after == SetBit(byte, n, pushed) IN
        /\ after \in Bytes
        /\ \A m \in 0 .. 7 : GetBit(after, m) = (IF m = n THEN pushed ELSE GetBit(byte, m))
        /\ FlipBit(byte, n) = byte ^^ Power[n + 1]

(* The middle byte is the or of the two halves.                            *)
ASSUME MiddleByteIsOr ==
    \A x \in 0 .. 31, n \in 0 .. 15 : OrShifted(x, n) = x | (16 * n)

(* What the theorem ReportCarriesStick says of all sticks.                 *)
ASSUME ReportCarriesEdges ==
    \A h, v \in Edges :
        LET bytes == StickBytes([h |-> h, v |-> v]) IN
        AssertionHolds(bytes) /\ FromBytes(bytes) = [h |-> h, v |-> v]

(* With a blank flash no direction leaves the 12 bits: no report is        *)
(* refused and every stick is shown where it is.                           *)
ASSUME BlankFlashIsShown ==
    \A side \in {"left", "right"}, d \in Directions :
        LET stick == Moved(Calibration(side, StickData(side, BlankFlash)), d)
            bytes == Shown(side, BlankFlash, d) IN
        /\ stick.h \in Values /\ stick.v \in Values
        /\ AssertionHolds(bytes) /\ FromBytes(bytes) = stick
        /\ (d = "center") <=> (stick = [h |-> 2048, v |-> 2048])

(* With it no two stick commands take a stick anywhere its reports would   *)
(* not show: a value is refused before it can leave the 12 bits.           *)
ASSUME CommandsKeepTheStick ==
    \A side \in {"left", "right"} :
        LET c == Calibration(side, StickData(side, BlankFlash))
            ways == Directions \cup {"horizontal", "vertical", "sideways"} IN
        \A d, e \in ways : \A x, y \in {-1, 0, 255, 4095, 4096} :
            LET stick == SetStick(SetStick(Moved(c, "center"), c, d, x), c, e, y)
                bytes == StickBytes(stick) IN
            AssertionHolds(bytes) /\ FromBytes(bytes) = stick
=============================================================================
