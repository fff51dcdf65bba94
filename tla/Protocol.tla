------------------------------ MODULE Protocol ------------------------------
(***************************************************************************)
(* ControllerProtocol of joycontrol/protocol.py: the writers that send the *)
(* regular input reports, the reader's task that answers sub commands, and *)
(* the tasks of the application that change the buttons, call              *)
(* send_controller_state() and pause the regular input.                    *)
(*                                                                         *)
(* An action is one run of a task from a suspension point to the next.     *)
(* The transport is the ReportChannel it implements: transport.write()     *)
(* either returns without suspending, or suspends and ends later, in any   *)
(* order; when the connection is lost it calls connection_lost() and       *)
(* swallows the error.                                                     *)
(*                                                                         *)
(* A report is abstracted to the buttons it shows.  The button state is    *)
(* its version n, counted up by every change, whether a button that closes *)
(* the pairing menu is pressed, and whether a stick has been moved where   *)
(* its calibration puts it out of 12 bits (stray; the command may put it   *)
(* back).  A report of mode 0x3F shows constants.  The debug hook          *)
(* get_delay() is not overridden.  wait_for() is that of Python up to      *)
(* 3.11, which makes a task of what it waits for; a later one starts the   *)
(* wait at once, which is one of the orders below.                         *)
(***************************************************************************)
EXTENDS Integers, FiniteSets

CONSTANTS
    Users,       \* tasks of the application that send the controller state
    WriterTasks, \* the _writer() tasks; each SET_PLAYER_LIGHTS starts one
    Reader,      \* the transport's reader task, inside report_received()
    Capacity,    \* reports under way before write() suspends
    Modes,       \* the input report modes the console asks for
    Reconnect,   \* the reconnect argument
    LeftJoycon,  \* JOYCON_L, whose menu mask meets the constants of mode 0x3F
    ModeFirst,   \* whether the console sets a mode before the player lights
    MayBeLost,   \* whether the connection can be lost
    MaxState     \* bound: changes that make a new version of the button state

Delays == [none |-> "inf", x3F |-> "1", x21 |-> "inf", x30 |-> "1/60", x31 |-> "1/60",
           x32 |-> "1/15", x00 |-> "1/15"]

ASSUME ProtocolAssumption ==
    /\ Reader \notin Users \cup WriterTasks
    /\ Users \cap WriterTasks = {}
    /\ Capacity \in Nat \ {0}
    /\ Modes \subseteq DOMAIN Delays \ {"none"}
    /\ {Reconnect, LeftJoycon, ModeFirst, MayBeLost} \subseteq BOOLEAN
    /\ MaxState \in Nat

Tasks == Users \cup WriterTasks \cup {Reader}

VARIABLES
    busy, flight, \* the transport, see ReportChannel
    attached,     \* transport is not None
    mode,         \* _input_report_mode
    pairing,      \* _is_pairing
    sendDelay,    \* send_delay
    wakeup,       \* _input_report_wakeup.is_set()
    notPaused,    \* _not_paused.is_set()
    started,      \* the writers started; sig_input_ready is set with the first
    buttons,      \* _controller_state.button_state
    isSend,       \* _controller_state.sig_is_send.is_set()
    sender,       \* _controller_state_sender is not None
    phase,        \* where each task is
    shown,        \* the version in the report each task is inside write() with
    nap,          \* the delay each writer sleeps for
    asked,        \* the version at each user's call, until it returns
    seen          \* the latest version a report of ours showed to the console

channelVars == <<busy, flight>>
modeVars == <<mode, pairing, sendDelay, wakeup>>
userVars == <<buttons, isSend, sender, asked>>
vars == <<channelVars, attached, modeVars, notPaused, started, userVars,
          phase, shown, nap, seen>>

channel == INSTANCE ReportChannel

(* Writers: "run" at the top of the loop (of one not started: created);    *)
(* "paused" in _not_paused.wait(); "unpaused" that wait is over; "called"  *)
(* wait_for() has created the task of _input_report_wakeup.wait(); "sleep" *)
(* that task waits for the event; "woken" the event came.                  *)
(* Users: "called" the task of sig_is_send.wait() is created; "waiting" it *)
(* waits; "woken" it is done.  Everyone: "write" in transport.write().     *)
Phases == {"run", "paused", "unpaused", "write", "sleep", "woken", "dead",
           "idle", "called", "waiting", "reading", "failed", "stopped"}

DelayOf(m, p) == IF p THEN "1/15" ELSE Delays[m]

Init ==
    /\ channel!Init
    /\ attached = TRUE
    /\ mode = "none"
    /\ pairing = ~ Reconnect
    /\ sendDelay = DelayOf("none", ~ Reconnect)
    /\ wakeup = TRUE
    /\ notPaused = TRUE
    /\ started = {}
    /\ buttons = [n |-> 0, menu |-> FALSE, stray |-> FALSE]
    /\ isSend = FALSE
    /\ sender = FALSE
    /\ phase = [t \in Tasks |-> IF t \in Users THEN "idle"
                                ELSE IF t \in WriterTasks THEN "run" ELSE "reading"]
    /\ shown = [t \in Tasks |-> 0]
    /\ nap = [w \in WriterTasks |-> "inf"]
    /\ asked = [u \in Users |-> 0]
    /\ seen = 0

----------------------------------------------------------------------------
(* _write()                                                                *)

Sees(n) == seen' = IF n > seen THEN n ELSE seen

(* Task t is at p now.  If w, _input_report_wakeup was set, and if s,      *)
(* sig_is_send was: that makes ready whoever waits for it by then.         *)
Moves(t, p, w, s) ==
    /\ phase' = [x \in Tasks |->
                    IF x = t THEN p
                    ELSE IF \/ w /\ phase[x] = "sleep"
                            \/ s /\ phase[x] = "waiting" THEN "woken"
                    ELSE phase[x]]
    /\ isSend' = (isSend \/ s)

(* Where t goes on when its _write() has returned.  A writer computes its  *)
(* delay then, and the task that is to wait for the event is created; if   *)
(* the write took too long, that task is cancelled before it has begun.    *)
AfterWrite(t) ==
    IF t \in Users THEN {"idle"}
    ELSE IF t = Reader THEN {"reading"}
    ELSE {"called"} \cup IF sendDelay' # "inf" THEN {"run"} ELSE {}

Returns(t, w, n) ==
    /\ \E p \in AfterWrite(t) : Moves(t, p, w, TRUE)
    /\ nap' = [x \in WriterTasks |-> IF x = t THEN sendDelay' ELSE nap[x]]
    /\ Sees(n)

(* connection_lost(): close() of the transport is scheduled.  With a       *)
(* sender registered, its set_exception() raises.                          *)
Raises(t, w) ==
    /\ Moves(t, IF t \in Users THEN "idle" ELSE IF t = Reader THEN "failed" ELSE "dead", w, FALSE)
    /\ UNCHANGED <<nap, seen>>

(* The transport swallows its error, so _write() goes on as if it had sent *)
(* the report, except when connection_lost() raises.                       *)
WriteFails(t, w) ==
    /\ MayBeLost
    /\ attached' = FALSE
    /\ IF attached /\ sender THEN Raises(t, w) ELSE Returns(t, w, 0)

(* The report that shows the buttons b in mode m.                          *)
Report(m, b) == IF m = "x3F" THEN [n |-> 0, menu |-> LeftJoycon, stray |-> FALSE] ELSE b

(* Faulty: a pairing that ends leaves the writers asleep. *)
PutQuietly(t, r, m, set, wk) ==
    LET leave == pairing /\ r.menu
        p == pairing /\ ~ leave IN
    /\ pairing' = p
    /\ mode' = m
    /\ sendDelay' = IF set \/ leave THEN DelayOf(m, p) ELSE sendDelay
    /\ wakeup' = (wk \/ set)
    /\ \/ channel!Send(t) /\ Returns(t, set, r.n) /\ UNCHANGED <<attached, shown>>
       \/ /\ channel!Begin(t)
          /\ Moves(t, "write", set, FALSE)
          /\ shown' = [shown EXCEPT ![t] = r.n]
          /\ UNCHANGED <<attached, nap, seen>>
       \/ WriteFails(t, set) /\ UNCHANGED <<channelVars, shown>>

(* Task t writes the report r; in the same run it called _set_mode(m)      *)
(* before if set, and m is the mode now; wk is the wakeup event.  A report *)
(* that shows a button of the pairing menu ends the pairing, which sets    *)
(* the mode, with its delay, again.                                        *)
Put(t, r, m, set, wk) ==
    LET leave == pairing /\ r.menu
        p == pairing /\ ~ leave
        w == set \/ leave IN
    /\ pairing' = p
    /\ mode' = m
    /\ sendDelay' = IF w THEN DelayOf(m, p) ELSE sendDelay
    /\ wakeup' = (wk \/ w)
    /\ \/ channel!Send(t) /\ Returns(t, w, r.n) /\ UNCHANGED <<attached, shown>>
       \/ /\ channel!Begin(t)
          /\ Moves(t, "write", w, FALSE)
          /\ shown' = [shown EXCEPT ![t] = r.n]
          /\ UNCHANGED <<attached, nap, seen>>
       \/ WriteFails(t, w) /\ UNCHANGED <<channelVars, shown>>

(* A write that was suspended ends.                                        *)
FinishWrite(t) ==
    /\ phase[t] = "write"
    /\ shown' = [shown EXCEPT ![t] = 0]
    /\ UNCHANGED <<modeVars, notPaused, started, buttons, sender, asked>>
    /\ \/ attached /\ channel!Send(t) /\ Returns(t, FALSE, shown[t]) /\ UNCHANGED attached
       \/ channel!Lose(t) /\ WriteFails(t, FALSE)

----------------------------------------------------------------------------
(* _writer()                                                               *)

(* Faulty: the writer sends only what somebody waits for. *)
EmitWhenAsked(w, wk) ==
    IF attached /\ sender /\ mode \notin {"none", "x00"}
    THEN Put(w, Report(mode, buttons), mode, FALSE, wk)
    ELSE /\ Moves(w, IF attached /\ mode \notin {"none", "x00"} THEN "called" ELSE "dead", FALSE, FALSE)
         /\ nap' = [nap EXCEPT ![w] = sendDelay]
         /\ wakeup' = wk
         /\ UNCHANGED <<channelVars, attached, mode, pairing, sendDelay, shown, seen>>

(* _generate_input_report() may raise: without a mode, or with a stick     *)
(* that does not fit.                                                      *)
MayNotReport(b) == mode \in {"none", "x00"} \/ Report(mode, b).stray

(* The report of this turn.  What generating it raises is not caught and   *)
(* ends the writer, as the lost connection does.                           *)
Emit(w, wk) ==
    \/ /\ attached /\ mode \notin {"none", "x00"}
       /\ Put(w, Report(mode, buttons), mode, FALSE, wk)
    \/ /\ ~ attached \/ MayNotReport(buttons)
       /\ Moves(w, "dead", FALSE, FALSE)
       /\ wakeup' = wk
       /\ UNCHANGED <<channelVars, attached, mode, pairing, sendDelay, shown, nap, seen>>

(* The writer is ready, or its sleep may time out.                         *)
Due(w) ==
    /\ w \in started
    /\ \/ phase[w] \in {"run", "woken"}
       \/ phase[w] = "sleep" /\ nap[w] # "inf"

(* What the wait for the delay leaves of the event.  A writer whose wait   *)
(* is over clears it.  One that timed out does not, and the timer may even *)
(* come between the event and the task that was to see it.                 *)
AfterWait(w) ==
    {wakeup /\ phase[w] # "woken"} \cup IF nap[w] # "inf" THEN {wakeup} ELSE {}

(* The task created by wait_for() runs: Event.wait() looks at the event.   *)
BeginWait(w) ==
    /\ phase[w] = "called"
    /\ Moves(w, IF wakeup THEN "woken" ELSE "sleep", FALSE, FALSE)
    /\ UNCHANGED <<channelVars, attached, modeVars, notPaused, started, buttons, sender,
                   asked, shown, nap, seen>>

(* Faulty: the writer gives up while the input is paused. *)
TurnEndsOnPause(w) ==
    /\ Due(w)
    /\ \E wk \in AfterWait(w) :
          IF attached /\ ~ notPaused
          THEN /\ Moves(w, "dead", FALSE, FALSE)
               /\ wakeup' = wk
               /\ UNCHANGED <<channelVars, attached, mode, pairing, sendDelay, shown, nap, seen>>
          ELSE Emit(w, wk)
    /\ UNCHANGED <<notPaused, started, buttons, sender, asked>>

(* A turn of the loop, after the wait for the delay.                       *)
Turn(w) ==
    /\ Due(w)
    /\ \E wk \in AfterWait(w) :
          IF attached /\ ~ notPaused
          THEN /\ Moves(w, "paused", FALSE, FALSE)
               /\ wakeup' = wk
               /\ UNCHANGED <<channelVars, attached, mode, pairing, sendDelay, shown, nap, seen>>
          ELSE Emit(w, wk)
    /\ UNCHANGED <<notPaused, started, buttons, sender, asked>>

(* _not_paused.wait() is over; nothing looks at the event again.           *)
Continue(w) ==
    /\ phase[w] = "unpaused"
    /\ Emit(w, wakeup)
    /\ UNCHANGED <<notPaused, started, buttons, sender, asked>>

----------------------------------------------------------------------------
(* report_received()                                                       *)

(* The reply shows the buttons as they were before the command's effect.   *)
Reply(m, set) ==
    /\ attached /\ phase[Reader] = "reading"
    /\ Put(Reader, buttons, m, set, wakeup)
    /\ UNCHANGED <<notPaused, buttons, sender, asked>>

(* Every sub command that only answers.                                    *)
AnswerSubCommand == Reply(mode, FALSE) /\ UNCHANGED started

SetInputReportMode(m) == Reply(m, TRUE) /\ UNCHANGED started

SetPlayerLights(w) ==
    /\ w \notin started
    /\ ModeFirst => mode # "none"
    /\ started' = started \cup {w}
    /\ Reply(mode, FALSE)

(* What report_received() raises ends the reader: a report the handlers do *)
(* not expect, a stick that does not fit the reply, or a sub command after *)
(* the transport is gone, whose handler has done its part by then.         *)
ReaderFails ==
    /\ phase[Reader] = "reading"
    /\ \/ /\ Moves(Reader, "failed", FALSE, FALSE)
          /\ UNCHANGED <<modeVars, started>>
       \/ \E m \in Modes :
             /\ ~ attached
             /\ mode' = m
             /\ sendDelay' = DelayOf(m, pairing)
             /\ wakeup' = TRUE
             /\ Moves(Reader, "failed", TRUE, FALSE)
             /\ UNCHANGED <<pairing, started>>
       \/ \E w \in WriterTasks :
             /\ ~ attached
             /\ ModeFirst => mode # "none"
             /\ started' = started \cup {w}
             /\ Moves(Reader, "failed", FALSE, FALSE)
             /\ UNCHANGED modeVars
    /\ UNCHANGED <<channelVars, attached, notPaused, buttons, sender, asked, shown, nap, seen>>

(* read() finds the connection closed, and does so again at once until     *)
(* connection_lost() or getpeername() raises.                              *)
ReadEOF ==
    /\ MayBeLost
    /\ phase[Reader] = "reading"
    /\ attached' = FALSE
    /\ Moves(Reader, "failed", FALSE, FALSE)
    /\ UNCHANGED <<channelVars, modeVars, notPaused, started, buttons, sender,
                   asked, shown, nap, seen>>

(* Faulty: the reader is stopped without its write. *)
CloseTransportKeepingWrite ==
    /\ ~ attached
    /\ phase[Reader] \in {"reading", "write"}
    /\ Moves(Reader, "stopped", FALSE, FALSE)
    /\ UNCHANGED <<channelVars, attached, modeVars, notPaused, started, buttons, sender,
                   asked, shown, nap, seen>>

(* close() of the transport, scheduled by connection_lost().               *)
CloseTransport ==
    /\ ~ attached
    /\ phase[Reader] \in {"reading", "write"}
    /\ Moves(Reader, "stopped", FALSE, FALSE)
    /\ IF phase[Reader] = "write" THEN channel!Lose(Reader) ELSE UNCHANGED channelVars
    /\ shown' = [shown EXCEPT ![Reader] = 0]
    /\ UNCHANGED <<attached, modeVars, notPaused, started, buttons, sender,
                   asked, nap, seen>>

----------------------------------------------------------------------------
(* The application                                                         *)

(* Every change makes a new version, up to the bound; further changes are   *)
(* told apart only by the buttons of the pairing menu.                     *)
Changed(menu) ==
    [buttons EXCEPT !.n = IF buttons.n < MaxState THEN buttons.n + 1 ELSE buttons.n,
                    !.menu = menu]

SetButtons(menu) ==
    /\ buttons' = Changed(menu)
    /\ UNCHANGED <<channelVars, attached, modeVars, notPaused, started, isSend, sender,
                   asked, phase, shown, nap, seen>>

(* A stick is moved out of its 12 bits.                                    *)
MoveStick ==
    /\ ~ buttons.stray
    /\ buttons' = [buttons EXCEPT !.stray = TRUE]
    /\ UNCHANGED <<channelVars, attached, modeVars, notPaused, started, isSend, sender,
                   asked, phase, shown, nap, seen>>

(* send_controller_state(), for the buttons b, while the input is not      *)
(* paused: the event is cleared and a task created to wait for it.         *)
CallSend(u, b) ==
    /\ attached /\ notPaused
    /\ phase[u] = "idle"
    /\ isSend' = FALSE
    /\ sender' = TRUE
    /\ buttons' = b
    /\ asked' = [asked EXCEPT ![u] = b.n]
    /\ phase' = [phase EXCEPT ![u] = "called"]
    /\ UNCHANGED <<channelVars, attached, modeVars, notPaused, started, shown, nap, seen>>

StartWaiting(u) ==
    /\ phase[u] = "called"
    /\ Moves(u, IF isSend THEN "woken" ELSE "waiting", FALSE, FALSE)
    /\ UNCHANGED <<channelVars, attached, modeVars, notPaused, started, buttons, sender,
                   asked, shown, nap, seen>>

(* Faulty: the sender is not forgotten. *)
ReturnFromSendRemembering(u) ==
    /\ phase[u] = "woken"
    /\ Moves(u, "idle", FALSE, FALSE)
    /\ UNCHANGED <<channelVars, attached, modeVars, notPaused, started, buttons, sender,
                   asked, shown, nap, seen>>

(* send_controller_state() returns to its caller.                          *)
ReturnFromSend(u) ==
    /\ phase[u] = "woken"
    /\ sender' = FALSE
    /\ asked' = [asked EXCEPT ![u] = 0]
    /\ Moves(u, "idle", FALSE, FALSE)
    /\ UNCHANGED <<channelVars, attached, modeVars, notPaused, started, buttons,
                   shown, nap, seen>>

(* While paused it writes one report itself.  (If none can be generated    *)
(* the call raises and nothing has changed.)                               *)
SendWhilePaused(u, b) ==
    /\ attached /\ ~ notPaused
    /\ phase[u] = "idle"
    /\ mode \notin {"none", "x00"}
    /\ buttons' = b
    /\ Put(u, Report(mode, b), mode, FALSE, wakeup)
    /\ UNCHANGED <<notPaused, started, sender, asked>>

Pause ==
    /\ notPaused
    /\ notPaused' = FALSE
    /\ UNCHANGED <<channelVars, attached, modeVars, started, userVars, phase, shown, nap, seen>>

Unpause ==
    /\ ~ notPaused
    /\ notPaused' = TRUE
    /\ phase' = [t \in Tasks |-> IF phase[t] = "paused" THEN "unpaused" ELSE phase[t]]
    /\ UNCHANGED <<channelVars, attached, modeVars, started, userVars, shown, nap, seen>>

(* The adapter reports packets complete.                                   *)
Complete(n) ==
    /\ channel!Complete(n)
    /\ UNCHANGED <<attached, modeVars, notPaused, started, userVars, phase, shown, nap, seen>>

Next ==
    \/ \E t \in Tasks : FinishWrite(t)
    \/ \E w \in WriterTasks : BeginWait(w) \/ Turn(w) \/ Continue(w) \/ SetPlayerLights(w)
    \/ \E m \in Modes : SetInputReportMode(m)
    \/ \E u \in Users : \/ CallSend(u, buttons)
                        \/ StartWaiting(u)
                        \/ ReturnFromSend(u)
                        \/ SendWhilePaused(u, buttons)
    \/ \E menu \in BOOLEAN : SetButtons(menu)
    \/ MoveStick
    \/ \E n \in 1 .. Capacity : Complete(n)
    \/ AnswerSubCommand
    \/ ReaderFails
    \/ ReadEOF
    \/ CloseTransport
    \/ Pause
    \/ Unpause

Spec == Init /\ [][Next]_vars

(* The loop runs every task that is ready and every sleep ends.  While the *)
(* connection is up the transport gets some write out (WritesGoOn of       *)
(* Transport), not necessarily each.                                       *)
Fairness ==
    /\ \A w \in WriterTasks : WF_vars(BeginWait(w)) /\ WF_vars(Turn(w)) /\ WF_vars(Continue(w))
    /\ \A u \in Users : WF_vars(StartWaiting(u)) /\ WF_vars(ReturnFromSend(u))
    /\ WF_vars(attached /\ \E t \in Tasks : FinishWrite(t))
    /\ WF_vars(\E n \in 1 .. Capacity : Complete(n))
    /\ WF_vars(CloseTransport)

FairSpec == Spec /\ Fairness

----------------------------------------------------------------------------
(* The types; the tasks inside write() are those the channel has busy.     *)
TypeOK ==
    /\ busy = {t \in Tasks : phase[t] = "write"}
    /\ flight \in 0 .. Capacity
    /\ {attached, pairing, wakeup, notPaused, isSend, sender, buttons.menu,
        buttons.stray} \subseteq BOOLEAN
    /\ mode \in Modes \cup {"none"}
    /\ sendDelay \in {"inf", "1", "1/15", "1/60"}
    /\ started \subseteq WriterTasks
    /\ buttons.n \in 0 .. MaxState
    /\ phase \in [Tasks -> Phases]
    /\ shown \in [Tasks -> 0 .. buttons.n]
    /\ nap \in [WriterTasks -> {"inf", "1", "1/15", "1/60"}]
    /\ asked \in [Users -> 0 .. buttons.n]
    /\ seen \in 0 .. buttons.n

(* A writer that sleeps, or is about to, with a delay that is not today's. *)
Behind(w) == phase[w] \in {"called", "sleep"} /\ nap[w] # sendDelay

(* A change of the delay, by a mode the console sets or by the end of the  *)
(* pairing in whatever write that is noticed, is not slept through: while  *)
(* the event stands nobody waits for it, and once a writer has cleared it  *)
(* some writer follows the new delay.  (Not every writer.  One whose wait  *)
(* has not begun when the delay changes finds the event cleared by         *)
(* another, and sleeps with the old delay; with one writer none can.)      *)
SomeWriterFollowsMode ==
    /\ sendDelay = DelayOf(mode, pairing)
    /\ wakeup => \A w \in WriterTasks : phase[w] # "sleep"
    /\ (started # {} /\ ~ wakeup) => \E w \in started : ~ Behind(w)

(* With a console that sets a mode before it sets the lights, no writer    *)
(* ends while the connection stands and the sticks fit.                    *)
WritersSurvive ==
    (ModeFirst /\ "x00" \notin Modes /\ attached /\ ~ buttons.stray) =>
        \A w \in started : phase[w] # "dead"

(* Unless there is a user in it, no sender is registered, so the next      *)
(* connection_lost() does not raise.  (With several users the converse     *)
(* fails: the first to return forgets the sender of the others.)           *)
SenderBelongsToUser ==
    sender => \E u \in Users : phase[u] \in {"called", "waiting", "woken"}

(* "Returns after the controller state was send": when a send is over,     *)
(* the console has been shown the buttons as they were at the call, or     *)
(* later ones (controller_state.py, line 63).                              *)
SendShowsButtons ==
    \A u \in Users : phase[u] = "woken" => seen >= asked[u]

(* "Raises NotConnected exception if [...] the connection was lost": a     *)
(* send that waits when the connection is lost ends (protocol.py, line     *)
(* 306).                                                                   *)
LossEndsSends ==
    \A u \in Users :
        (~ attached /\ phase[u] \in {"called", "waiting"}) ~> phase[u] = "idle"
=============================================================================
