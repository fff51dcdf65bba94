------------------------------ MODULE Session ------------------------------
(***************************************************************************)
(* One run of src/run_controller_cli.py: create_hid_server() of            *)
(* joycontrol/server.py gets the connection, a task of it writes empty     *)
(* reports beside everything else, and when the console has answered the   *)
(* command line of joycontrol/command_line_interface.py pushes, holds and  *)
(* releases buttons and pauses the regular input, on top of Protocol.      *)
(*                                                                         *)
(* The console, the user and the Bluetooth adapter are external.  Commands *)
(* that do not reach the protocol (help, nfc, amiibo, debug) change        *)
(* nothing here.  Commands of a line that do not suspend are actions of    *)
(* their own, so that other tasks come between them more often than the    *)
(* loop lets them, and the prompt is one of these moments.                 *)
(***************************************************************************)
EXTENDS Protocol

CONSTANTS
    CLI,         \* the task of the command line, one of the Users
    Greeter,     \* the task of _send_empty_input_reports()
    Buttons,
    MenuButtons, \* those that close the pairing menu
    MaxGreets    \* bound: empty reports (the code writes ten)

ASSUME SessionAssumption ==
    /\ CLI \in Users /\ Greeter \notin Tasks
    /\ MenuButtons \subseteq Buttons
    /\ MaxGreets \in Nat

VARIABLES
    server,     \* where create_hid_server() is
    advertised, \* whether the adapter is discoverable and pairable
    received,   \* sig_data_received.is_set()
    greeter, greets, \* where the Greeter is, and the reports it has begun
    cli,        \* where the command line is
    op, args,   \* its command and the buttons of it
    pressed,    \* the buttons that are pressed
    held        \* those the user holds: hold without release

serverVars == <<server, advertised, received>>
greeterVars == <<greeter, greets>>
lineVars == <<cli, op, args, pressed, held>>
sessionVars == <<vars, serverVars, greeterVars, lineVars>>

(* The commands about buttons.  mash repeats a push until the user presses *)
(* Enter, as test_buttons does with several.                               *)
Commands == {"hold", "release", "click", "mash"}

(* Until the connection is made nobody looks at Protocol's variables:      *)
(* attached stands for what connection_made() makes it.                    *)
SessionInit ==
    /\ Init
    /\ server = "start" /\ advertised = FALSE /\ received = FALSE
    /\ greeter = "off" /\ greets = 0
    /\ cli = "off" /\ op = "none" /\ args = {}
    /\ pressed = {} /\ held = {}

(* The tasks of the connection run.                                        *)
Up == server \in {"greeting", "returned"} /\ cli # "ended"

----------------------------------------------------------------------------
(* create_hid_server()                                                     *)

(* Both sockets are bound, if need be after a restart of Bluetooth.  To    *)
(* reconnect they are connected instead.                                   *)
Listen ==
    /\ server = "start" /\ ~ Reconnect
    /\ server' = "control"
    /\ advertised' = TRUE
    /\ UNCHANGED <<vars, received, greeterVars, lineVars>>

AcceptControl ==
    /\ server = "control"
    /\ server' = "interrupt"
    /\ UNCHANGED <<vars, advertised, received, greeterVars, lineVars>>

(* connection_made(), and the same run goes on into the wait for a report, *)
(* which forgets what was received before: the reader has not run yet.     *)
ConnectionMade ==
    /\ server = IF Reconnect THEN "start" ELSE "interrupt"
    /\ server' = "greeting"
    /\ advertised' = FALSE
    /\ received' = FALSE
    /\ greeter' = "ready"
    /\ UNCHANGED <<vars, greets, lineVars>>

(* A D-Bus call, a bind or a connect raises, or the second channel is not  *)
(* of the console that has the first.  Nothing is undone.                  *)
SetUpFails ==
    /\ server \in {"start", "control", "interrupt"}
    /\ server' = "failed"
    /\ UNCHANGED <<vars, advertised, received, greeterVars, lineVars>>

HandshakeEnds ==
    /\ server = "greeting" /\ received
    /\ server' = "returned"
    /\ cli' = "line"
    /\ UNCHANGED <<vars, advertised, received, greeterVars, op, args, pressed, held>>

----------------------------------------------------------------------------
(* _send_empty_input_reports(), which nobody cancels                       *)

(* transport.write() calls connection_lost(), as in WriteFails.            *)
GreetFails ==
    /\ MayBeLost
    /\ attached' = FALSE
    /\ greeter' = IF attached /\ sender THEN "dead" ELSE "ready"

Greet ==
    /\ Up /\ greeter = "ready" /\ greets < MaxGreets
    /\ greets' = greets + 1
    /\ \/ attached /\ channel!Send(Greeter) /\ greeter' = "ready" /\ UNCHANGED attached
       \/ channel!Begin(Greeter) /\ greeter' = "write" /\ UNCHANGED attached
       \/ GreetFails /\ UNCHANGED channelVars
    /\ UNCHANGED <<modeVars, notPaused, started, userVars, phase, shown, nap, seen,
                   serverVars, lineVars>>

FinishGreet ==
    /\ Up /\ greeter = "write"
    /\ \/ attached /\ channel!Send(Greeter) /\ greeter' = "ready" /\ UNCHANGED attached
       \/ channel!Lose(Greeter) /\ GreetFails
    /\ UNCHANGED <<modeVars, notPaused, started, userVars, phase, shown, nap, seen,
                   serverVars, greets, lineVars>>

----------------------------------------------------------------------------
(* The tasks of the connection                                             *)

(* A step of Protocol that is none of the session's.                       *)
Runs(step) == Up /\ step /\ UNCHANGED <<serverVars, greeterVars, lineVars>>

(* Every report sets sig_data_received first, whatever comes of it; one    *)
(* without a sub command does nothing else here.                           *)
ReportReceived ==
    /\ Up
    /\ \/ AnswerSubCommand
       \/ \E m \in Modes : SetInputReportMode(m)
       \/ \E w \in WriterTasks : SetPlayerLights(w)
       \/ ReaderFails
       \/ phase[Reader] = "reading" /\ UNCHANGED vars
    /\ received' = TRUE
    /\ UNCHANGED <<server, advertised, greeterVars, lineVars>>

(* The end of the connection is handed on as a report, too, if neither     *)
(* connection_lost() nor the first getpeername() after it raises.          *)
ConnectionEnds ==
    /\ Up /\ ReadEOF
    /\ received' \in {received} \cup IF attached /\ sender THEN {} ELSE {TRUE}
    /\ UNCHANGED <<server, advertised, greeterVars, lineVars>>

----------------------------------------------------------------------------
(* ControllerCLI.run() and the commands of run_controller_cli.py           *)

PauseInput == cli = "line" /\ Runs(Pause)
UnpauseInput == cli = "line" /\ Runs(Unpause)

(* stick(), with a value the calibration puts out of 12 bits.              *)
StickCommand == cli = "line" /\ Runs(MoveStick)

(* The loop prints the exceptions of a command and goes on; those of the   *)
(* buttons at the end of a line, and NotConnectedError, end it.            *)
Raised(o) == IF o \in Commands THEN "line" ELSE "ended"

(* The buttons p are set and send() is called.  It raises if the transport *)
(* is gone, and if it must write a report itself and cannot generate it.   *)
Send(p, stage) ==
    /\ pressed' = p
    /\ LET b == IF p = pressed THEN buttons ELSE Changed(p \cap MenuButtons # {}) IN
       \/ cli' = stage /\ (CallSend(CLI, b) \/ SendWhilePaused(CLI, b))
       \/ /\ ~ attached \/ (~ notPaused /\ MayNotReport(b))
          /\ cli' = Raised(op')
          /\ attached' = (attached /\ cli' # "ended")
          /\ buttons' = b
          /\ UNCHANGED <<channelVars, modeVars, notPaused, started, isSend, sender,
                         asked, phase, shown, nap, seen>>
    /\ UNCHANGED <<serverVars, greeterVars>>

(* button_press() and button_release() of the command o.                   *)
Press(o, bs) ==
    /\ op' = o /\ args' = bs
    /\ held' = IF o = "hold" THEN held \cup bs ELSE held
    /\ Send(pressed \cup bs, "press")

Release(o, bs) ==
    /\ op' = o /\ args' = bs
    /\ held' = IF o = "release" THEN held \ bs ELSE held
    /\ Send(pressed \ bs, "release")

Begin(o, bs) == IF o = "release" THEN Release(o, bs) ELSE Press(o, bs)

(* A command; it waits for sig_input_ready.                                *)
StartCommand(o, b) ==
    /\ Up /\ cli = "line"
    /\ IF started # {} THEN Begin(o, {b})
       ELSE /\ cli' = "connect" /\ op' = o /\ args' = {b}
            /\ UNCHANGED <<vars, serverVars, greeterVars, pressed, held>>

InputReady ==
    /\ Up /\ cli = "connect" /\ started # {}
    /\ Begin(op, args)

(* The end of a line: its buttons are pushed or, if there are none, the    *)
(* state is sent.                                                          *)
EndLine(bs) ==
    /\ Up /\ cli = "line"
    /\ IF bs = {}
       THEN op' = "send" /\ args' = {} /\ held' = held /\ Send(pressed, "send")
       ELSE Press("push", bs)

(* Faulty: a command does not wait to release what it pressed. *)
AfterSendForgetting ==
    IF cli = "press" THEN {"line"}
    ELSE IF cli = "release" /\ op = "mash" THEN {"rest", "line"}
    ELSE {"line"}

(* Where the command line goes on when send() has returned: a mash rests   *)
(* before it pushes again.                                                 *)
AfterSend ==
    IF cli = "press" /\ op # "hold" THEN {"sleep"}
    ELSE IF cli = "release" /\ op = "mash" THEN {"rest", "line"}
    ELSE {"line"}

(* send() returns or, once the transport is gone, may have raised, see     *)
(* Raises.                                                                 *)
SendReturns ==
    /\ Up /\ cli \in {"press", "release", "send"}
    /\ phase[CLI] = "idle"
    /\ cli' \in AfterSend \cup IF attached THEN {} ELSE {Raised(op)}
    /\ IF cli' \in {"line", "ended"} THEN op' = "none" /\ args' = {} ELSE UNCHANGED <<op, args>>
    /\ UNCHANGED <<vars, serverVars, greeterVars, pressed, held>>

(* The sleeps between press, release and the next press.                   *)
SleepEnds ==
    /\ Up
    /\ \/ cli = "sleep" /\ Release(op, args)
       \/ cli = "rest" /\ Press(op, args)

(* The transport is closed and the program ends, as it does after an       *)
(* exception of run().                                                     *)
Exit ==
    /\ Up /\ cli = "line"
    /\ cli' = "ended"
    /\ attached' = FALSE
    /\ UNCHANGED <<channelVars, modeVars, notPaused, started, userVars, phase, shown,
                   nap, seen, serverVars, greeterVars, op, args, pressed, held>>

----------------------------------------------------------------------------
SessionNext ==
    \/ Listen \/ AcceptControl \/ ConnectionMade \/ SetUpFails \/ HandshakeEnds
    \/ Greet \/ FinishGreet
    \/ ReportReceived \/ ConnectionEnds
    \/ \E t \in Tasks : Runs(FinishWrite(t))
    \/ \E w \in WriterTasks : Runs(BeginWait(w)) \/ Runs(Turn(w)) \/ Runs(Continue(w))
    \/ \E u \in Users : Runs(StartWaiting(u)) \/ Runs(ReturnFromSend(u))
    \/ \E n \in 1 .. Capacity : Runs(Complete(n))
    \/ Runs(CloseTransport)
    \/ PauseInput \/ UnpauseInput \/ StickCommand \/ Exit
    \/ \E o \in Commands, b \in Buttons : StartCommand(o, b)
    \/ \E bs \in SUBSET Buttons : EndLine(bs)
    \/ InputReady \/ SendReturns \/ SleepEnds

(* As in Protocol; the user and the console do what they like.             *)
SessionFairness ==
    /\ \A w \in WriterTasks :
          /\ WF_sessionVars(Runs(BeginWait(w)))
          /\ WF_sessionVars(Runs(Turn(w))) /\ WF_sessionVars(Runs(Continue(w)))
    /\ \A u \in Users : WF_sessionVars(Runs(StartWaiting(u))) /\ WF_sessionVars(Runs(ReturnFromSend(u)))
    /\ WF_sessionVars(attached /\ (FinishGreet \/ \E t \in Tasks : Runs(FinishWrite(t))))
    /\ WF_sessionVars(\E n \in 1 .. Capacity : Runs(Complete(n)))
    /\ WF_sessionVars(HandshakeEnds)
    /\ WF_sessionVars(SendReturns) /\ WF_sessionVars(SleepEnds)

SessionSpec == SessionInit /\ [][SessionNext]_sessionVars /\ SessionFairness

----------------------------------------------------------------------------
(* The types; the channel has busy who is inside write(), the Greeter      *)
(* included, and the command line is inside a send only where it called    *)
(* one.                                                                    *)
SessionTypeOK ==
    /\ server \in {"start", "control", "interrupt", "greeting", "returned", "failed"}
    /\ advertised \in BOOLEAN /\ received \in BOOLEAN
    /\ greeter \in {"off", "ready", "write", "dead"} /\ greets \in 0 .. MaxGreets
    /\ cli \in {"off", "line", "connect", "press", "sleep", "release", "rest", "send",
                "ended"}
    /\ op \in Commands \cup {"none", "push", "send"}
    /\ {args, pressed, held} \subseteq SUBSET Buttons
    /\ busy = {t \in Tasks : phase[t] = "write"} \cup
              (IF greeter = "write" THEN {Greeter} ELSE {})
    /\ flight \in 0 .. Capacity
    /\ buttons.menu = (pressed \cap MenuButtons # {})
    /\ phase[CLI] # "idle" => cli \in {"press", "release", "send"}

(* Back at its prompt, or between two commands, the command line has       *)
(* released what it pushed: nothing is pressed that the user does not      *)
(* hold.  (Where a report cannot be generated while the input is paused, a *)
(* click raises between press and release: before the console has set a    *)
(* mode, in the mode 0x00, or with a stick that does not fit.)             *)
ReleasedAtPrompt ==
    (ModeFirst /\ "x00" \notin Modes /\ attached /\ ~ buttons.stray /\ cli = "line") =>
        pressed \subseteq held

(* While the connection stands and the console did its part, a command     *)
(* that was not begun while the input is paused ends, with every report    *)
(* the Greeter or a reply may get in between, as long as the sticks fit.   *)
CommandsEnd ==
    (cli \in {"press", "sleep", "release", "send"} /\ notPaused /\ started # {}) ~>
        (cli \notin {"press", "sleep", "release", "send"} \/ ~ attached \/ buttons.stray)

(* Every change of the buttons reaches the console, itself or in a later   *)
(* one, though no report is sent for it: the writer was about to write the *)
(* buttons before it, or was asleep, and the report that woke the sender   *)
(* may have been an older one (SendShowsButtons).  Not so while the input  *)
(* is paused, before the console turned the regular input on, when a stick *)
(* does not fit the report, or when the connection or the program ends.    *)
ButtonsGetShown ==
    \A n \in 1 .. MaxState :
        (buttons.n >= n /\ started # {}) ~>
            (seen >= n \/ ~ notPaused \/ ~ attached \/ buttons.stray)
=============================================================================
