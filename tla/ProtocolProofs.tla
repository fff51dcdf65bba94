--------------------------- MODULE ProtocolProofs ---------------------------
(***************************************************************************)
(* Proofs about Protocol and about Session, which is built on it.  The     *)
(* steps that both take keep an invariant of the protocol's variables that *)
(* does not mind who else is in the channel (Keeps...); what is left for   *)
(* each of the two specifications is to go through its actions.            *)
(***************************************************************************)
EXTENDS Session, TLAPS

DelayTypes == {"inf", "1", "1/15", "1/60"}

ButtonStates == [n : 0 .. MaxState, menu : BOOLEAN, stray : BOOLEAN]

(* The versions of the buttons only go up, and no stick is put back.       *)
Later(b) ==
    /\ b \in ButtonStates
    /\ b.n \in buttons.n .. MaxState
    /\ buttons.stray => b.stray

(* The types of Protocol.  Whoever else uses the channel is not among its  *)
(* tasks.                                                                  *)
Types ==
    /\ busy \cap Tasks = {t \in Tasks : phase[t] = "write"}
    /\ flight \in 0 .. Capacity
    /\ attached \in BOOLEAN /\ pairing \in BOOLEAN /\ wakeup \in BOOLEAN
    /\ notPaused \in BOOLEAN /\ isSend \in BOOLEAN /\ sender \in BOOLEAN
    /\ buttons \in ButtonStates
    /\ mode \in Modes \cup {"none"}
    /\ sendDelay \in DelayTypes
    /\ started \subseteq WriterTasks
    /\ phase \in [Tasks -> Phases]
    /\ shown \in [Tasks -> 0 .. buttons.n]
    /\ nap \in [WriterTasks -> DelayTypes]
    /\ asked \in [Users -> 0 .. buttons.n]
    /\ seen \in 0 .. buttons.n

(* No writer runs before SET_PLAYER_LIGHTS started it, and a console that  *)
(* sets the mode first has set one by then.                                *)
StartedInMode ==
    /\ \A w \in WriterTasks \ started : phase[w] = "run"
    /\ (ModeFirst /\ started # {}) => mode # "none"

Inv == Types /\ SomeWriterFollowsMode /\ SenderBelongsToUser /\ StartedInMode /\ WritersSurvive

(* The command line runs on a connection; it is inside one of the commands *)
(* that has the stage it is at, and a command has writers to show its      *)
(* buttons.                                                                *)
LineFollowsCommand ==
    /\ server # "returned" => cli = "off"
    /\ cli = "press" => op \in {"hold", "click", "mash", "push"}
    /\ cli = "sleep" => op \in {"click", "mash", "push"}
    /\ cli = "release" => op \in {"release", "click", "mash", "push"}
    /\ cli = "rest" => op = "mash"
    /\ cli = "connect" => op \in Commands
    /\ cli \in {"press", "sleep", "release", "rest"} /\ op \in Commands => started # {}

(* Nobody greets before there is a connection.                             *)
GreeterFollowsConnection == server \notin {"greeting", "returned"} => greeter = "off"

(* What a command has pushed stays among its arguments until it is         *)
(* released, and everything else is held.                                  *)
PressedIsAccounted ==
    (ModeFirst /\ "x00" \notin Modes /\ attached /\ ~ buttons.stray) =>
        pressed \subseteq IF cli \in {"press", "sleep"} /\ op # "hold" THEN held \cup args
                         ELSE held

SessionInv ==
    Inv /\ SessionTypeOK /\ GreeterFollowsConnection /\ LineFollowsCommand /\ PressedIsAccounted

----------------------------------------------------------------------------
(* Delays                                                                  *)

LEMMA DelaysAreTyped ==
    \A m \in DOMAIN Delays : Delays[m] \in DelayTypes
BY DEF Delays, DelayTypes

LEMMA DelayOfTyped ==
    ASSUME ProtocolAssumption, NEW m \in Modes \cup {"none"}, NEW p \in BOOLEAN
    PROVE  DelayOf(m, p) \in DelayTypes
<1>1. m \in DOMAIN Delays
  BY DEF ProtocolAssumption, Delays
<1> QED
  BY <1>1, DelaysAreTyped DEF DelayOf, DelayTypes

(* The steps of several tasks: t goes to p, and an event that is set makes *)
(* ready whoever waits for it (Event.set()).                               *)
LEMMA MovesEffect ==
    ASSUME phase \in [Tasks -> Phases], NEW t \in Tasks, NEW p \in Phases,
           NEW w \in BOOLEAN, NEW s \in BOOLEAN, isSend \in BOOLEAN, Moves(t, p, w, s)
    PROVE  /\ phase' \in [Tasks -> Phases]
           /\ phase'[t] = p
           /\ \A x \in Tasks \ {t} :
                 \/ phase'[x] = phase[x]
                 \/ phase[x] \in {"sleep", "waiting"} /\ phase'[x] = "woken"
           /\ w => \A x \in Tasks \ {t} : phase'[x] # "sleep"
           /\ isSend' \in BOOLEAN
<1>1. \A x \in Tasks : phase'[x] = IF x = t THEN p
                    ELSE IF \/ w /\ phase[x] = "sleep"
                            \/ s /\ phase[x] = "waiting" THEN "woken"
                    ELSE phase[x]
  BY DEF Moves
<1>2. phase' \in [Tasks -> Phases]
  BY DEF Moves, Phases
<1> QED
  BY <1>1, <1>2 DEF Moves, Phases

(* What a step of t does before t moves: it may change the mode and the    *)
(* delay, and sets the event if it does (w); it may clear the event if it  *)
(* is a writer whose wait is over; and it may start a writer.              *)
Prepares(t, w) ==
    /\ flight' \in 0 .. Capacity
    /\ attached' \in BOOLEAN /\ (attached' => attached)
    /\ pairing' \in BOOLEAN /\ wakeup' \in BOOLEAN /\ notPaused' = notPaused
    /\ mode' \in Modes \cup {"none"} /\ (mode' = "none" => mode = "none")
    /\ sendDelay' = DelayOf(mode', pairing')
    /\ ~ w => sendDelay' = sendDelay
    /\ w => wakeup'
    /\ wakeup' => wakeup \/ w
    /\ wakeup /\ ~ wakeup' => t \in started /\ phase[t] # "called"
    /\ started \subseteq started' /\ started' \subseteq WriterTasks
    /\ ModeFirst /\ started' # {} => mode' # "none"
    /\ t \in WriterTasks => t \in started

(* The step moves t to p.                                                  *)
Steps(t, p, w, s) ==
    /\ Prepares(t, w)
    /\ Moves(t, p, w, s)
    /\ sender' \in BOOLEAN
    /\ sender' => sender /\ (t \in Users => phase[t] \notin {"called", "waiting", "woken"} \/ p \in {"waiting", "woken"})
    /\ busy' = IF p = "write" THEN busy \cup {t} ELSE busy \ {t}
    /\ nap' \in [WriterTasks -> DelayTypes]
    /\ \A x \in WriterTasks : nap'[x] = nap[x] \/ x = t
    /\ t \in WriterTasks /\ p \in {"called", "sleep"} =>
           nap'[t] = sendDelay' \/ (phase[t] = "called" /\ nap'[t] = nap[t])
    /\ p = "sleep" => ~ wakeup'
    /\ (ModeFirst /\ "x00" \notin Modes /\ attached' /\ ~ buttons'.stray) => p # "dead"

Versions ==
    /\ Later(buttons')
    /\ shown' \in [Tasks -> 0 .. buttons'.n] /\ asked' \in [Users -> 0 .. buttons'.n]
    /\ seen' \in 0 .. buttons'.n

LEMMA ButtonsNow ==
    ASSUME ProtocolAssumption, Inv
    PROVE  /\ Later(buttons) /\ buttons.n \in 0 .. MaxState
           /\ buttons' = buttons => Later(buttons')
BY DEF Inv, Types, ProtocolAssumption, Later, ButtonStates

LEMMA StepKeeps ==
    ASSUME ProtocolAssumption, Inv, NEW t \in Tasks, NEW p \in Phases,
           NEW w \in BOOLEAN, NEW s \in BOOLEAN, Steps(t, p, w, s), Versions
    PROVE  Inv'
<1> USE DEF Inv, Steps, Prepares
<1>0. /\ phase \in [Tasks -> Phases]
      /\ isSend \in BOOLEAN
  BY DEF Types
<1>1. Moves(t, p, w, s)
  OBVIOUS
<1>2. /\ phase' \in [Tasks -> Phases]
      /\ phase'[t] = p
      /\ \A x \in Tasks \ {t} :
            \/ phase'[x] = phase[x]
            \/ phase[x] \in {"sleep", "waiting"} /\ phase'[x] = "woken"
      /\ w => \A x \in Tasks \ {t} : phase'[x] # "sleep"
      /\ isSend' \in BOOLEAN
  <2> HIDE DEF Steps, Inv
  <2> QED
    BY <1>0, <1>1, MovesEffect
<1> HIDE DEF Inv, Steps, Prepares
<1>3. Types'
  <2>1. (busy \cap Tasks = {x \in Tasks : phase[x] = "write"})'
    <3>1. \A x \in Tasks : x \in busy <=> phase[x] = "write"
      BY DEF Inv, Types
    <3>2. \A x \in Tasks : x \in busy' <=> phase'[x] = "write"
      BY <1>2, <3>1 DEF Steps, Prepares
    <3> QED
      BY <3>2
  <2>2. sendDelay' \in DelayTypes
    BY DelayOfTyped DEF Steps, Prepares
  <2> QED
    BY <1>2, <2>1, <2>2 DEF Types, Inv, Steps, Prepares, Versions, Later
<1>4. SomeWriterFollowsMode'
  <2>0. WriterTasks \subseteq Tasks /\ started \subseteq WriterTasks
    BY DEF Tasks, Inv, Types
  <2>1. sendDelay' = DelayOf(mode', pairing')
    BY DEF Steps, Prepares
  <2>2. ASSUME wakeup', NEW x \in WriterTasks
        PROVE  phase'[x] # "sleep"
    <3>1. x = t => phase'[x] # "sleep"
      BY <1>2, <2>2 DEF Steps
    <3>2. w \/ (wakeup /\ phase[x] # "sleep")
      BY <2>2 DEF Steps, Prepares, Inv, SomeWriterFollowsMode
    <3> QED
      BY <1>2, <2>0, <3>1, <3>2
  <2>3. ASSUME started' # {}, ~ wakeup'
        PROVE  \E x \in started' : ~ Behind(x)'
    <3>1. ~ w /\ sendDelay' = sendDelay /\ started \subseteq started'
      BY <2>3 DEF Steps, Prepares
    <3>2. ASSUME NEW x \in WriterTasks, x # t, ~ Behind(x)
          PROVE  ~ Behind(x)'
      <4>1. nap'[x] = nap[x]
        BY <3>2 DEF Steps
      <4>2. phase'[x] = phase[x] \/ phase'[x] = "woken"
        BY <1>2, <2>0, <3>2
      <4> QED
        BY <3>1, <3>2, <4>1, <4>2 DEF Behind
    <3>3. ASSUME t \in WriterTasks, phase[t] # "called" \/ ~ Behind(t)
          PROVE  ~ Behind(t)'
      <4>1. p \in {"called", "sleep"} =>
                nap'[t] = sendDelay' \/ (phase[t] = "called" /\ nap'[t] = nap[t])
        BY <3>3 DEF Steps
      <4> QED
        BY <1>2, <3>1, <3>3, <4>1 DEF Behind
    <3>4. CASE wakeup
      <4>1. t \in started /\ phase[t] # "called"
        BY <2>3, <3>4 DEF Steps, Prepares
      <4> QED
        BY <2>0, <3>1, <3>3, <4>1
    <3>5. CASE ~ wakeup /\ started # {}
      <4>1. PICK x \in started : ~ Behind(x)
        BY <3>5 DEF Inv, SomeWriterFollowsMode
      <4> QED
        BY <2>0, <3>1, <3>2, <3>3, <4>1
    <3>6. CASE started = {}
      <4>1. PICK x \in started' : x \in WriterTasks
        BY <2>3 DEF Steps, Prepares
      <4>2. phase[x] = "run" /\ x # t
        BY <3>6, <4>1 DEF Steps, Prepares, Inv, StartedInMode
      <4>3. ~ Behind(x)
        BY <4>2 DEF Behind
      <4> QED
        BY <3>2, <4>1, <4>2, <4>3
    <3> QED
      BY <3>4, <3>5, <3>6
  <2> QED
    BY <2>1, <2>2, <2>3 DEF SomeWriterFollowsMode
<1>5. SenderBelongsToUser'
  BY <1>2 DEF Inv, Steps, Prepares, SenderBelongsToUser, Tasks
<1>6. StartedInMode'
  BY <1>2 DEF Inv, Steps, Prepares, StartedInMode, Tasks
<1>7. WritersSurvive'
  BY <1>2 DEF Inv, Steps, Prepares, StartedInMode, WritersSurvive, Tasks, Versions, Later
<1> QED
  BY <1>3, <1>4, <1>5, <1>6, <1>7 DEF Inv

----------------------------------------------------------------------------
(* transport.write() inside _write()                                       *)

LEMMA WriteReturns ==
    ASSUME ProtocolAssumption, Inv, NEW t \in Tasks, NEW w \in BOOLEAN, NEW n \in 0 .. buttons'.n,
           Prepares(t, w), t \in Users => phase[t] \notin {"called", "waiting", "woken"},
           Returns(t, w, n), busy' = busy \ {t}, sender' = sender,
           Later(buttons'),
           shown' \in [Tasks -> 0 .. buttons'.n], asked' \in [Users -> 0 .. buttons'.n]
    PROVE  Inv'
<1>1. PICK p \in AfterWrite(t) : Moves(t, p, w, TRUE)
  BY DEF Returns
<1>2. p \in Phases /\ p \notin {"write", "dead", "sleep"}
  BY <1>1 DEF AfterWrite, Phases
<1>3. sendDelay' \in DelayTypes
  BY DelayOfTyped DEF Prepares
<1>4. Steps(t, p, w, TRUE)
  <2>1. sender \in BOOLEAN /\ nap \in [WriterTasks -> DelayTypes]
    BY DEF Inv, Types
  <2>2. nap' = [x \in WriterTasks |-> IF x = t THEN sendDelay' ELSE nap[x]]
    BY DEF Returns
  <2>3. nap' \in [WriterTasks -> DelayTypes] /\ \A x \in WriterTasks : nap'[x] = nap[x] \/ x = t
    BY <1>3, <2>1, <2>2
  <2>4. t \in WriterTasks => nap'[t] = sendDelay'
    BY <2>2
  <2> QED
    BY ONLY <1>1, <1>2, <2>1, <2>3, <2>4, Prepares(t, w), busy' = busy \ {t}, sender' = sender,
            t \in Users => phase[t] \notin {"called", "waiting", "woken"} DEF Steps
<1>5. Versions
  <2>1. seen \in 0 .. buttons.n /\ buttons.n \in 0 .. MaxState /\ buttons'.n \in buttons.n .. MaxState
    BY ButtonsNow DEF Inv, Types, Later
  <2>2. seen' \in 0 .. buttons'.n
    BY <2>1 DEF Returns, Sees, ProtocolAssumption
  <2> QED
    BY <2>2 DEF Versions
<1>6. \A s \in BOOLEAN : Steps(t, p, w, s) => Inv'
  BY <1>2, <1>5, StepKeeps
<1> QED
  BY <1>4, <1>6

LEMMA WriteSuspends ==
    ASSUME ProtocolAssumption, Inv, NEW t \in Tasks, NEW w \in BOOLEAN,
           Prepares(t, w), t \in Users => phase[t] \notin {"called", "waiting", "woken"},
           Moves(t, "write", w, FALSE), busy' = busy \cup {t}, sender' = sender,
           UNCHANGED nap, Versions
    PROVE  Inv'
<1>1. Steps(t, "write", w, FALSE)
  BY DEF Steps, Prepares, Inv, Types
<1> QED
  BY <1>1, StepKeeps DEF Phases

LEMMA WriteRaisesOrReturns ==
    ASSUME ProtocolAssumption, Inv, NEW t \in Tasks, NEW w \in BOOLEAN,
           Prepares(t, w), t \in Users => phase[t] \notin {"called", "waiting", "woken"},
           WriteFails(t, w), busy' = busy \ {t}, sender' = sender,
           Later(buttons'),
           shown' \in [Tasks -> 0 .. buttons'.n], asked' \in [Users -> 0 .. buttons'.n]
    PROVE  Inv'
<1>1. CASE Returns(t, w, 0)
  <2>1. 0 \in 0 .. buttons'.n
    BY ButtonsNow DEF Later, ProtocolAssumption
  <2> QED
    BY <1>1, <2>1, WriteReturns
<1>2. CASE Raises(t, w)
  <2> DEFINE p == IF t \in Users THEN "idle" ELSE IF t = Reader THEN "failed" ELSE "dead"
  <2>1. /\ p \in Phases /\ p # "write"
        /\ Moves(t, p, w, FALSE) /\ UNCHANGED <<nap, seen>>
    BY <1>2 DEF Raises, Phases
  <2>2. ~ attached' /\ p # "sleep"
    BY DEF WriteFails
  <2>3. Steps(t, p, w, FALSE)
    <3>1. sender \in BOOLEAN /\ nap \in [WriterTasks -> DelayTypes]
      BY DEF Inv, Types
    <3>2. p \notin {"called", "write", "sleep"}
      OBVIOUS
    <3> HIDE DEF p
    <3> QED
      BY <2>1, <2>2, <3>1, <3>2 DEF Steps
  <2>4. Versions
    <3>1. seen \in 0 .. buttons.n /\ buttons.n \in 0 .. MaxState /\ buttons'.n \in buttons.n .. MaxState
      BY ButtonsNow DEF Inv, Types, Later
    <3> HIDE DEF p
    <3> QED
      BY <2>1, <3>1 DEF Versions, ProtocolAssumption
  <2> HIDE DEF p
  <2>5. \A s \in BOOLEAN : Steps(t, p, w, s) => Inv'
    BY <2>1, <2>4, StepKeeps
  <2> QED
    BY <2>3, <2>5
<1> QED
  BY <1>1, <1>2 DEF WriteFails

(* _write() keeps the invariant, for whichever task, report and mode.      *)
LEMMA PutKeeps ==
    ASSUME ProtocolAssumption, Inv, NEW t \in Tasks, NEW r, NEW m \in Modes \cup {"none"},
           NEW set \in BOOLEAN, NEW wk \in BOOLEAN, Put(t, r, m, set, wk),
           phase[t] \notin {"write", "called", "waiting"} /\ (t \in Users => phase[t] # "woken"),
           IF set THEN m # "none" ELSE m = mode,
           r.n \in 0 .. buttons'.n, r.menu \in BOOLEAN,
           Later(buttons'),
           UNCHANGED <<notPaused, sender, asked>>,
           started \subseteq started', started' \subseteq WriterTasks,
           ModeFirst /\ started' # {} => m # "none",
           t \in WriterTasks => t \in started,
           wk => wakeup, wakeup /\ ~ wk => t \in started
    PROVE  Inv'
<1> DEFINE leave == pairing /\ r.menu
           p == pairing /\ ~ leave
           w == set \/ leave
<1> USE DEF Inv
<1>1. /\ p \in BOOLEAN /\ w \in BOOLEAN
      /\ pairing' = p /\ mode' = m /\ wakeup' = (wk \/ w)
      /\ sendDelay' = IF w THEN DelayOf(m, p) ELSE sendDelay
      /\ \/ channel!Send(t) /\ Returns(t, w, r.n) /\ UNCHANGED <<attached, shown>>
         \/ /\ channel!Begin(t)
            /\ Moves(t, "write", w, FALSE)
            /\ shown' = [shown EXCEPT ![t] = r.n]
            /\ UNCHANGED <<attached, nap, seen>>
         \/ WriteFails(t, w) /\ UNCHANGED <<channelVars, shown>>
  BY DEF Put, Types
<1>2. (p = pairing /\ m = mode) \/ w
  BY DEF Types
<1>3. /\ sendDelay' = DelayOf(mode', pairing')
      /\ ~ w => sendDelay' = sendDelay
  <2> HIDE DEF p, w
  <2> QED
    BY <1>1, <1>2 DEF SomeWriterFollowsMode
<1>event. /\ w => wakeup'
          /\ wakeup' => wakeup \/ w
          /\ wakeup /\ ~ wakeup' => t \in started /\ phase[t] # "called"
  BY <1>1
<1> HIDE DEF p, w, leave
<1>4. /\ flight' \in 0 .. Capacity /\ attached' \in BOOLEAN /\ (attached' => attached)
  <2>1. flight \in 0 .. Capacity /\ attached \in BOOLEAN /\ Capacity \in Nat
    BY DEF Types, ProtocolAssumption
  <2>2. \/ flight < Capacity /\ flight' = flight + 1
        \/ flight' = flight
    BY <1>1 DEF channel!Send, channel!Begin, channelVars
  <2>3. attached' = attached \/ attached' = FALSE
    BY <1>1 DEF WriteFails
  <2>4. flight' \in 0 .. Capacity
    BY <2>1, <2>2
  <2>5. attached' \in BOOLEAN /\ (attached' => attached)
    <3>1. CASE attached' = attached
      BY <2>1, <3>1
    <3>2. CASE attached' = FALSE
      BY <3>2
    <3> QED
      BY <2>3, <3>1, <3>2
  <2> QED
    BY <2>4, <2>5
<1>5. Prepares(t, w)
  BY <1>1, <1>3, <1>4, <1>event DEF Prepares, Types
<1>6. t \notin busy /\ (t \in Users => phase[t] \notin {"called", "waiting", "woken"})
  BY DEF Types, ProtocolAssumption
<1>7. /\ asked' \in [Users -> 0 .. buttons'.n]
      /\ shown \in [Tasks -> 0 .. buttons'.n]
      /\ 0 \in 0 .. buttons'.n /\ seen \in 0 .. buttons'.n
  BY DEF Types, Later, ButtonStates
<1>8. CASE channel!Send(t) /\ Returns(t, w, r.n) /\ UNCHANGED <<attached, shown>>
  <2>1. busy' = busy \ {t}
    BY <1>8 DEF channel!Send
  <2> QED
    BY <1>1, <1>5, <1>6, <1>7, <1>8, <2>1, WriteReturns
<1>9. CASE /\ channel!Begin(t)
           /\ Moves(t, "write", w, FALSE)
           /\ shown' = [shown EXCEPT ![t] = r.n]
           /\ UNCHANGED <<attached, nap, seen>>
  <2>1. busy' = busy \cup {t}
    BY <1>9 DEF channel!Begin
  <2>2. Versions
    BY <1>7, <1>9 DEF Versions
  <2> QED
    BY <1>1, <1>5, <1>6, <1>9, <2>1, <2>2, WriteSuspends
<1>10. CASE WriteFails(t, w) /\ UNCHANGED <<channelVars, shown>>
  <2>1. busy' = busy \ {t}
    BY <1>6, <1>10 DEF channelVars
  <2> QED
    BY <1>1, <1>5, <1>6, <1>7, <1>10, <2>1, WriteRaisesOrReturns
<1> QED
  BY <1>1, <1>8, <1>9, <1>10

(* A step that only moves t, and wakes nobody.                             *)
LEMMA MoveKeeps ==
    ASSUME ProtocolAssumption, Inv, NEW t \in Tasks, NEW p \in Phases \ {"write", "called", "sleep"},
           Moves(t, p, FALSE, FALSE),
           UNCHANGED <<flight, mode, pairing, sendDelay, notPaused, started, buttons, nap, seen>>,
           wakeup' \in BOOLEAN, wakeup' => wakeup,
           wakeup /\ ~ wakeup' => t \in started /\ phase[t] # "called",
           sender' \in BOOLEAN, attached' \in BOOLEAN, attached' => attached,
           busy' = busy \ {t},
           shown' \in [Tasks -> 0 .. buttons.n], asked' \in [Users -> 0 .. buttons.n],
           sender' => sender /\ (t \in Users => phase[t] \notin {"called", "waiting", "woken"} \/ p \in {"waiting", "woken"}),
           t \in WriterTasks => t \in started,
           (ModeFirst /\ "x00" \notin Modes /\ attached' /\ ~ buttons.stray) => p # "dead"
    PROVE  Inv'
<1>1. Prepares(t, FALSE)
  BY DEF Prepares, Inv, Types, SomeWriterFollowsMode, StartedInMode
<1>2. Steps(t, p, FALSE, FALSE)
  BY <1>1 DEF Steps, Inv, Types
<1>3. Versions
  BY ButtonsNow DEF Versions, Inv, Types
<1>4. \A w, s \in BOOLEAN : Steps(t, p, w, s) => Inv'
  BY <1>3, StepKeeps
<1> QED
  BY <1>2, <1>4

----------------------------------------------------------------------------
(* The actions of Protocol keep the invariant.                             *)

LEMMA FinishWriteKeeps ==
    ASSUME ProtocolAssumption, Inv, NEW t \in Tasks, FinishWrite(t)
    PROVE  Inv'
<1>1. /\ phase[t] = "write"
      /\ shown' = [shown EXCEPT ![t] = 0]
      /\ UNCHANGED <<modeVars, notPaused, started, buttons, sender, asked>>
      /\ \/ attached /\ channel!Send(t) /\ Returns(t, FALSE, shown[t]) /\ UNCHANGED attached
         \/ channel!Lose(t) /\ WriteFails(t, FALSE)
  BY DEF FinishWrite
<1>2. t \in WriterTasks => t \in started
  BY <1>1 DEF Inv, StartedInMode
<1>3. /\ busy' = busy \ {t}
      /\ \/ flight < Capacity /\ flight' = flight + 1
         \/ flight' = flight
  BY <1>1 DEF channel!Send, channel!Lose
<1>4. attached' = attached \/ attached' = FALSE
  BY <1>1 DEF WriteFails
<1>5. flight' \in 0 .. Capacity
  BY <1>3 DEF Inv, Types, ProtocolAssumption
<1>6. attached' \in BOOLEAN /\ (attached' => attached)
  <2>1. CASE attached' = attached
    BY <2>1 DEF Inv, Types
  <2>2. CASE attached' = FALSE
    BY <2>2
  <2> QED
    BY <1>4, <2>1, <2>2
<1>7. Prepares(t, FALSE)
  BY <1>1, <1>2, <1>5, <1>6 DEF Prepares, modeVars, Inv, Types, SomeWriterFollowsMode, StartedInMode
<1>8. /\ shown[t] \in 0 .. buttons'.n
      /\ shown' \in [Tasks -> 0 .. buttons'.n]
      /\ asked' \in [Users -> 0 .. buttons'.n]
      /\ Later(buttons')
  BY <1>1, ButtonsNow DEF Inv, Types
<1>9. sender' = sender /\ (t \in Users => phase[t] \notin {"called", "waiting", "woken"})
  BY <1>1
<1>10. \A w \in BOOLEAN : Prepares(t, w) /\ WriteFails(t, w) => Inv'
  BY <1>3, <1>8, <1>9, WriteRaisesOrReturns
<1>11. \A w \in BOOLEAN : Prepares(t, w) /\ Returns(t, w, shown[t]) => Inv'
  BY <1>3, <1>8, <1>9, WriteReturns
<1> QED
  BY <1>1, <1>7, <1>10, <1>11

LEMMA ReportTyped ==
    ASSUME ProtocolAssumption, NEW m, NEW b, NEW k \in Nat, b.n \in 0 .. k, b.menu \in BOOLEAN
    PROVE  /\ Report(m, b).n \in 0 .. k /\ Report(m, b).menu \in BOOLEAN
           /\ Report(m, b).stray => b.stray
BY DEF Report, ProtocolAssumption

LEMMA EmitKeeps ==
    ASSUME ProtocolAssumption, Inv, NEW t \in started, NEW wk \in BOOLEAN, Emit(t, wk),
           phase[t] \in {"run", "woken", "sleep", "unpaused"}, wk => wakeup,
           UNCHANGED <<notPaused, started, buttons, sender, asked>>
    PROVE  Inv'
<1>1. t \in WriterTasks /\ t \in Tasks /\ t \notin Users
  BY DEF Inv, Types, Tasks, ProtocolAssumption
<1>2. /\ buttons.n \in 0 .. MaxState /\ buttons.n \in 0 .. buttons.n
      /\ buttons.menu \in BOOLEAN /\ MaxState \in Nat
  BY DEF Inv, Types, ButtonStates, ProtocolAssumption
<1>3. CASE attached /\ mode \notin {"none", "x00"} /\ Put(t, Report(mode, buttons), mode, FALSE, wk)
  <2>1. Report(mode, buttons).n \in 0 .. buttons'.n /\ Report(mode, buttons).menu \in BOOLEAN
    BY <1>2, ReportTyped
  <2>2. /\ mode \in Modes \cup {"none"}
        /\ Later(buttons')
        /\ started' \subseteq WriterTasks
        /\ ModeFirst /\ started' # {} => mode # "none"
        /\ started \subseteq started'
        /\ phase[t] \notin {"write", "called", "waiting"} /\ (t \in Users => phase[t] # "woken")
    BY <1>1, ButtonsNow DEF Inv, Types, StartedInMode
  <2>3. \A r, m, set :
           (/\ r = Report(mode, buttons) /\ m = mode /\ set = FALSE /\ set \in BOOLEAN
            /\ Put(t, r, m, set, wk)) => Inv'
    BY <1>1, <2>1, <2>2, PutKeeps
  <2> QED
    BY <1>3, <2>3
<1>4. CASE ~ attached \/ MayNotReport(buttons)
  <2> SUFFICES ASSUME /\ Moves(t, "dead", FALSE, FALSE)
                      /\ wakeup' = wk
                      /\ UNCHANGED <<channelVars, attached, mode, pairing, sendDelay, shown,
                                     nap, seen>>
               PROVE  Inv'
    BY <1>3 DEF Emit
  <2>1. busy' = busy \ {t} /\ flight' = flight
    BY <1>1 DEF channelVars, Inv, Types
  <2>2. ~ (ModeFirst /\ "x00" \notin Modes /\ attached' /\ ~ buttons.stray)
    <3>1. Report(mode, buttons).stray => buttons.stray
      BY <1>2, ReportTyped
    <3> QED
      BY <1>4, <3>1 DEF MayNotReport, Inv, Types, StartedInMode
  <2> QED
    BY <1>1, <2>1, <2>2, MoveKeeps DEF Phases, Inv, Types
<1> QED
  BY <1>3, <1>4 DEF Emit

(* The task of the wait looks at the event: only if it is not set does the *)
(* writer sleep.                                                           *)
LEMMA BeginWaitKeeps ==
    ASSUME ProtocolAssumption, Inv, NEW t \in WriterTasks, BeginWait(t)
    PROVE  Inv'
<1> DEFINE p == IF wakeup THEN "woken" ELSE "sleep"
<1>1. /\ phase[t] = "called" /\ Moves(t, p, FALSE, FALSE)
      /\ UNCHANGED <<channelVars, attached, modeVars, notPaused, started, buttons, sender,
                     asked, shown, nap, seen>>
  BY DEF BeginWait
<1>2. t \in Tasks /\ t \notin Users /\ t \in started
  BY <1>1 DEF Tasks, ProtocolAssumption, Inv, StartedInMode
<1>3. /\ p \in Phases /\ p \notin {"write", "dead", "called"}
      /\ p = "sleep" => ~ wakeup
  BY DEF Phases
<1> HIDE DEF p
<1>4. Prepares(t, FALSE)
  BY <1>1, <1>2 DEF Prepares, channelVars, modeVars, Inv, Types, SomeWriterFollowsMode, StartedInMode
<1>5. busy' = busy \ {t}
  BY <1>1, <1>2 DEF channelVars, Inv, Types
<1>6. Steps(t, p, FALSE, FALSE)
  BY <1>1, <1>2, <1>3, <1>4, <1>5 DEF Steps, modeVars, Inv, Types
<1>7. Versions
  BY <1>1, ButtonsNow DEF Versions, Inv, Types
<1>8. \A w, s \in BOOLEAN : Steps(t, p, w, s) => Inv'
  BY <1>2, <1>3, <1>7, StepKeeps
<1> QED
  BY <1>6, <1>8

LEMMA TurnKeeps ==
    ASSUME ProtocolAssumption, Inv, NEW t \in WriterTasks, Turn(t)
    PROVE  Inv'
<1>1. /\ t \in started /\ phase[t] \in {"run", "woken", "sleep"}
      /\ UNCHANGED <<notPaused, started, buttons, sender, asked>>
  BY DEF Turn, Due
<1>2. PICK wk \in AfterWait(t) :
          IF attached /\ ~ notPaused
          THEN /\ Moves(t, "paused", FALSE, FALSE)
               /\ wakeup' = wk
               /\ UNCHANGED <<channelVars, attached, mode, pairing, sendDelay, shown, nap, seen>>
          ELSE Emit(t, wk)
  BY DEF Turn
<1>3. wk \in BOOLEAN /\ (wk => wakeup)
  BY DEF AfterWait, Inv, Types
<1>4. t \in Tasks /\ t \notin Users
  BY DEF Tasks, ProtocolAssumption
<1>5. CASE attached /\ ~ notPaused
  <2>1. /\ Moves(t, "paused", FALSE, FALSE) /\ wakeup' = wk
        /\ UNCHANGED <<channelVars, attached, mode, pairing, sendDelay, shown, nap, seen>>
    BY <1>2, <1>5
  <2>2. busy' = busy \ {t} /\ flight' = flight
    BY <1>1, <1>4, <2>1 DEF channelVars, Inv, Types
  <2> QED
    BY <1>1, <1>3, <1>4, <2>1, <2>2, MoveKeeps DEF Phases, Inv, Types
<1>6. CASE ~ (attached /\ ~ notPaused)
  BY <1>1, <1>2, <1>3, <1>6, EmitKeeps
<1> QED
  BY <1>5, <1>6

LEMMA ContinueKeeps ==
    ASSUME ProtocolAssumption, Inv, NEW t \in WriterTasks, Continue(t)
    PROVE  Inv'
<1>1. /\ phase[t] = "unpaused" /\ Emit(t, wakeup)
      /\ UNCHANGED <<notPaused, started, buttons, sender, asked>>
  BY DEF Continue
<1>2. t \in started /\ wakeup \in BOOLEAN
  BY <1>1 DEF Inv, Types, StartedInMode
<1>3. \A wk \in BOOLEAN : Emit(t, wk) => Inv'
  BY <1>1, <1>2, EmitKeeps
<1> QED
  BY <1>1, <1>2, <1>3

LEMMA ReplyKeeps ==
    ASSUME ProtocolAssumption, Inv, NEW m \in Modes \cup {"none"}, NEW set \in BOOLEAN, Reply(m, set),
           IF set THEN m # "none" ELSE m = mode,
           started \subseteq started', started' \subseteq WriterTasks,
           ModeFirst /\ started' # {} => m # "none"
    PROVE  Inv'
<1>1. /\ phase[Reader] = "reading"
      /\ Put(Reader, buttons, m, set, wakeup)
      /\ UNCHANGED <<notPaused, buttons, sender, asked>>
  BY DEF Reply
<1>2. Reader \in Tasks /\ Reader \notin Users /\ Reader \notin WriterTasks
  BY DEF Tasks, ProtocolAssumption
<1>3. /\ buttons.n \in 0 .. buttons'.n /\ buttons.menu \in BOOLEAN /\ wakeup \in BOOLEAN
      /\ Later(buttons')
  BY <1>1, ButtonsNow DEF Inv, Types, ButtonStates, ProtocolAssumption
<1>4. \A r, wk : r = buttons /\ wk = wakeup /\ wk \in BOOLEAN /\ Put(Reader, r, m, set, wk) => Inv'
  BY <1>1, <1>2, <1>3, PutKeeps
<1> QED
  BY <1>1, <1>3, <1>4

LEMMA ReadsKeep ==
    ASSUME ProtocolAssumption, Inv,
           \/ AnswerSubCommand
           \/ \E m \in Modes : SetInputReportMode(m)
           \/ \E w \in WriterTasks : SetPlayerLights(w)
    PROVE  Inv'
<1>1. mode \in Modes \cup {"none"} /\ started \subseteq WriterTasks /\ (ModeFirst /\ started # {} => mode # "none")
  BY DEF Inv, Types, StartedInMode
<1>2. CASE AnswerSubCommand
  <2>1. \A m, set : m = mode /\ set = FALSE /\ set \in BOOLEAN /\ Reply(m, set) => Inv'
    BY <1>1, <1>2, ReplyKeeps DEF AnswerSubCommand
  <2> QED
    BY <1>2, <2>1 DEF AnswerSubCommand
<1>3. ASSUME NEW m \in Modes, SetInputReportMode(m) PROVE Inv'
  <2>1. m # "none"
    BY DEF ProtocolAssumption
  <2>2. \A set : set = TRUE /\ set \in BOOLEAN /\ Reply(m, set) => Inv'
    BY <1>1, <1>3, <2>1, ReplyKeeps DEF SetInputReportMode
  <2> QED
    BY <1>3, <2>2 DEF SetInputReportMode
<1>4. ASSUME NEW w \in WriterTasks, SetPlayerLights(w) PROVE Inv'
  <2>1. started \subseteq started' /\ started' \subseteq WriterTasks /\ (ModeFirst => mode # "none")
    BY <1>1, <1>4 DEF SetPlayerLights
  <2>2. \A m, set : m = mode /\ set = FALSE /\ set \in BOOLEAN /\ Reply(m, set) => Inv'
    BY <1>1, <2>1, ReplyKeeps
  <2> QED
    BY <1>4, <2>2 DEF SetPlayerLights
<1> QED
  BY <1>2, <1>3, <1>4

LEMMA ReaderFailsKeeps ==
    ASSUME ProtocolAssumption, Inv, ReaderFails
    PROVE  Inv'
<1>1. Reader \in Tasks /\ Reader \notin Users /\ Reader \notin WriterTasks
  BY DEF Tasks, ProtocolAssumption
<1>2. /\ phase[Reader] = "reading"
      /\ UNCHANGED <<channelVars, attached, notPaused, buttons, sender, asked, shown, nap, seen>>
  BY DEF ReaderFails
<1>3. busy' = busy \ {Reader} /\ flight' = flight
  BY <1>1, <1>2 DEF channelVars, Inv, Types
<1>4. Versions
  BY <1>2, ButtonsNow DEF Versions, Inv, Types
<1>5. ASSUME NEW w \in BOOLEAN, Moves(Reader, "failed", w, FALSE), Prepares(Reader, w)
      PROVE  Inv'
  <2>1. Steps(Reader, "failed", w, FALSE)
    BY <1>1, <1>2, <1>3, <1>5 DEF Steps, Inv, Types
  <2> QED
    BY <1>1, <1>4, <2>1, StepKeeps DEF Phases
<1>6. /\ attached' \in BOOLEAN /\ (attached' => attached) /\ flight' \in 0 .. Capacity
      /\ notPaused' = notPaused /\ started \subseteq WriterTasks
      /\ pairing \in BOOLEAN /\ wakeup \in BOOLEAN /\ mode \in Modes \cup {"none"}
      /\ sendDelay = DelayOf(mode, pairing)
      /\ (ModeFirst /\ started # {}) => mode # "none"
  BY <1>2, <1>3 DEF Inv, Types, SomeWriterFollowsMode, StartedInMode
<1>7. CASE Moves(Reader, "failed", FALSE, FALSE) /\ UNCHANGED <<modeVars, started>>
  <2>1. Prepares(Reader, FALSE)
    BY <1>1, <1>6, <1>7 DEF Prepares, modeVars
  <2> QED
    BY <1>5, <1>7, <2>1
<1>8. ASSUME NEW m \in Modes, mode' = m, sendDelay' = DelayOf(m, pairing), wakeup' = TRUE,
             Moves(Reader, "failed", TRUE, FALSE), UNCHANGED <<pairing, started>>
      PROVE  Inv'
  <2>1. m # "none"
    BY DEF ProtocolAssumption
  <2>2. Prepares(Reader, TRUE)
    BY <1>1, <1>6, <1>8, <2>1 DEF Prepares
  <2> QED
    BY <1>5, <1>8, <2>2
<1>9. ASSUME NEW w \in WriterTasks, ModeFirst => mode # "none", started' = started \cup {w},
             Moves(Reader, "failed", FALSE, FALSE), UNCHANGED modeVars
      PROVE  Inv'
  <2>1. Prepares(Reader, FALSE)
    BY <1>1, <1>6, <1>9 DEF Prepares, modeVars
  <2> QED
    BY <1>5, <1>9, <2>1
<1> QED
  BY <1>7, <1>8, <1>9 DEF ReaderFails

LEMMA ReadEOFKeeps ==
    ASSUME ProtocolAssumption, Inv, ReadEOF
    PROVE  Inv'
<1>1. Reader \in Tasks /\ Reader \notin Users /\ Reader \notin WriterTasks
  BY DEF Tasks, ProtocolAssumption
<1>2. busy' = busy \ {Reader} /\ flight' = flight
  BY <1>1 DEF ReadEOF, channelVars, Inv, Types
<1> QED
  BY <1>1, <1>2, MoveKeeps DEF ReadEOF, modeVars, Phases, Inv, Types

LEMMA CloseTransportKeeps ==
    ASSUME ProtocolAssumption, Inv, CloseTransport
    PROVE  Inv'
<1>1. Reader \in Tasks /\ Reader \notin Users /\ Reader \notin WriterTasks
  BY DEF Tasks, ProtocolAssumption
<1>2. busy' = busy \ {Reader} /\ flight' = flight
  BY <1>1 DEF CloseTransport, channelVars, channel!Lose, Inv, Types
<1>3. shown' \in [Tasks -> 0 .. buttons.n]
  <2>1. 0 \in 0 .. buttons.n /\ shown \in [Tasks -> 0 .. buttons.n]
    BY ButtonsNow DEF Inv, Types
  <2> QED
    BY <2>1 DEF CloseTransport
<1> QED
  BY <1>1, <1>2, <1>3, MoveKeeps DEF CloseTransport, modeVars, Phases, Inv, Types

(* A step in which no task moves: only the buttons, the pause, the channel *)
(* and the connection may change.                                          *)
LEMMA StillKeeps ==
    ASSUME ProtocolAssumption, Inv,
           UNCHANGED <<modeVars, started, isSend, sender, asked, phase, shown, nap, seen>>,
           busy' \cap Tasks = busy \cap Tasks, flight' \in 0 .. Capacity,
           attached' \in BOOLEAN, attached' => attached, notPaused' \in BOOLEAN,
           Later(buttons')
    PROVE  Inv'
<1> USE DEF Inv, modeVars
<1>1. Types'
  <2>1. (busy \cap Tasks = {x \in Tasks : phase[x] = "write"})'
    BY DEF Types
  <2>2. /\ shown' \in [Tasks -> 0 .. buttons'.n] /\ asked' \in [Users -> 0 .. buttons'.n]
        /\ seen' \in 0 .. buttons'.n /\ buttons' \in ButtonStates
    BY DEF Types, Later, ButtonStates, ProtocolAssumption
  <2> QED
    BY <2>1, <2>2 DEF Types
<1>2. SomeWriterFollowsMode'
  BY DEF SomeWriterFollowsMode, Behind, DelayOf
<1>3. SenderBelongsToUser' /\ StartedInMode' /\ WritersSurvive'
  BY DEF SenderBelongsToUser, StartedInMode, WritersSurvive, Later
<1> QED
  BY <1>1, <1>2, <1>3

LEMMA ChangedVersion ==
    ASSUME ProtocolAssumption, Inv, NEW menu \in BOOLEAN
    PROVE  Later(Changed(menu)) /\ Changed(menu).menu = menu
<1>1. buttons \in ButtonStates /\ buttons.n \in 0 .. MaxState /\ MaxState \in Nat
  BY DEF Inv, Types, ButtonStates, ProtocolAssumption
<1> DEFINE n == IF buttons.n < MaxState THEN buttons.n + 1 ELSE buttons.n
<1>2. n \in buttons.n .. MaxState /\ n \in 0 .. MaxState
  BY <1>1
<1>3. /\ Changed(menu) \in ButtonStates
      /\ Changed(menu).n = n /\ Changed(menu).menu = menu /\ Changed(menu).stray = buttons.stray
  <2>1. Changed(menu) = [buttons EXCEPT !.n = n, !.menu = menu]
    BY DEF Changed
  <2> HIDE DEF n
  <2> QED
    BY <1>1, <1>2, <2>1 DEF ButtonStates
<1> HIDE DEF n
<1> QED
  BY <1>2, <1>3 DEF Later

LEMMA SetButtonsKeeps ==
    ASSUME ProtocolAssumption, Inv, NEW menu \in BOOLEAN, SetButtons(menu)
    PROVE  Inv'
BY ChangedVersion, StillKeeps DEF SetButtons, channelVars, Inv, Types

LEMMA MoveStickKeeps ==
    ASSUME ProtocolAssumption, Inv, MoveStick
    PROVE  Inv'
<1>1. Later(buttons')
  BY ButtonsNow DEF MoveStick, Later, ButtonStates
<1> QED
  BY <1>1, StillKeeps DEF MoveStick, channelVars, Inv, Types

LEMMA CompleteKeeps ==
    ASSUME ProtocolAssumption, Inv, NEW n \in 1 .. Capacity, Complete(n)
    PROVE  Inv'
<1>1. flight' \in 0 .. Capacity /\ busy' = busy
  BY DEF Complete, channel!Complete, Inv, Types, ProtocolAssumption
<1> QED
  BY <1>1, ButtonsNow, StillKeeps DEF Complete, userVars, Inv, Types

LEMMA PauseKeeps ==
    ASSUME ProtocolAssumption, Inv, Pause
    PROVE  Inv'
BY ButtonsNow, StillKeeps DEF Pause, channelVars, userVars, Inv, Types

LEMMA UnpauseKeeps ==
    ASSUME ProtocolAssumption, Inv, Unpause
    PROVE  Inv'
<1> USE DEF Unpause, channelVars, modeVars, userVars
<1>1. /\ phase' \in [Tasks -> Phases]
      /\ \A x \in Tasks : phase'[x] = IF phase[x] = "paused" THEN "unpaused" ELSE phase[x]
  BY DEF Inv, Types, Phases
<1>2. Types'
  <2>1. (busy \cap Tasks = {x \in Tasks : phase[x] = "write"})'
    BY <1>1 DEF Inv, Types
  <2> QED
    BY <1>1, <2>1 DEF Inv, Types
<1>3. SomeWriterFollowsMode'
  BY <1>1 DEF Inv, Types, SomeWriterFollowsMode, Behind, DelayOf, Tasks
<1>4. SenderBelongsToUser'
  BY <1>1 DEF Inv, SenderBelongsToUser, Tasks
<1>5. StartedInMode' /\ WritersSurvive'
  BY <1>1 DEF Inv, StartedInMode, WritersSurvive, Types, Tasks
<1> QED
  BY <1>2, <1>3, <1>4, <1>5 DEF Inv

(* The buttons of a call may be new ones, as button_press() makes them.    *)
LEMMA CallSendKeeps ==
    ASSUME ProtocolAssumption, Inv, NEW u \in Users, NEW b, CallSend(u, b),
           Later(b)
    PROVE  Inv'
<1> USE DEF CallSend, channelVars, modeVars
<1>1. /\ phase' \in [Tasks -> Phases] /\ phase'[u] = "called"
      /\ \A x \in Tasks \ {u} : phase'[x] = phase[x]
  BY DEF Inv, Types, Phases, Tasks
<1>2. Types'
  <2>1. (busy \cap Tasks = {x \in Tasks : phase[x] = "write"})'
    BY <1>1 DEF Inv, Types, Tasks
  <2>2. buttons' \in ButtonStates /\ buttons'.n \in 0 .. buttons'.n /\ 0 .. buttons.n \subseteq 0 .. buttons'.n
    BY DEF Inv, Types, Later, ButtonStates, ProtocolAssumption
  <2>3. asked' \in [Users -> 0 .. buttons'.n]
    BY <2>2 DEF Inv, Types
  <2> QED
    BY <1>1, <2>1, <2>2, <2>3 DEF Inv, Types
<1>3. SomeWriterFollowsMode'
  BY <1>1 DEF Inv, Types, SomeWriterFollowsMode, Behind, DelayOf, Tasks, ProtocolAssumption
<1>4. SenderBelongsToUser'
  BY <1>1 DEF SenderBelongsToUser
<1>5. StartedInMode' /\ WritersSurvive'
  BY <1>1 DEF Inv, StartedInMode, WritersSurvive, Later, Types, Tasks, ProtocolAssumption
<1> QED
  BY <1>2, <1>3, <1>4, <1>5 DEF Inv

LEMMA SendWhilePausedKeeps ==
    ASSUME ProtocolAssumption, Inv, NEW u \in Users, NEW b, SendWhilePaused(u, b),
           Later(b)
    PROVE  Inv'
<1>1. /\ phase[u] = "idle" /\ buttons' = b
      /\ Put(u, Report(mode, b), mode, FALSE, wakeup)
      /\ UNCHANGED <<notPaused, started, sender, asked>>
  BY DEF SendWhilePaused
<1>2. u \in Tasks /\ u \notin WriterTasks
  BY DEF Tasks, ProtocolAssumption
<1>3. Report(mode, b).n \in 0 .. buttons'.n /\ Report(mode, b).menu \in BOOLEAN
  BY <1>1, ReportTyped DEF Inv, Types, Later, ButtonStates, ProtocolAssumption
<1>4. /\ mode \in Modes \cup {"none"} /\ wakeup \in BOOLEAN
      /\ Later(buttons')
      /\ started \subseteq started' /\ started' \subseteq WriterTasks
      /\ ModeFirst /\ started' # {} => mode # "none"
  BY <1>1 DEF Inv, Types, StartedInMode
<1>5. \A r, m, set, wk :
        (/\ r = Report(mode, b) /\ m = mode /\ set = FALSE /\ set \in BOOLEAN
         /\ wk = wakeup /\ wk \in BOOLEAN /\ Put(u, r, m, set, wk)) => Inv'
  BY <1>1, <1>2, <1>3, <1>4, PutKeeps
<1> QED
  BY <1>1, <1>4, <1>5

LEMMA StartWaitingKeeps ==
    ASSUME ProtocolAssumption, Inv, NEW u \in Users, StartWaiting(u)
    PROVE  Inv'
<1>1. u \in Tasks /\ u \notin WriterTasks /\ phase[u] = "called"
  BY DEF Tasks, ProtocolAssumption, StartWaiting
<1>2. PICK p \in {"waiting", "woken"} : Moves(u, p, FALSE, FALSE)
  BY DEF StartWaiting
<1>3. busy' = busy \ {u}
  BY <1>1 DEF StartWaiting, channelVars, Inv, Types
<1> QED
  BY <1>1, <1>2, <1>3, MoveKeeps DEF StartWaiting, channelVars, modeVars, Phases, Inv, Types

LEMMA ReturnFromSendKeeps ==
    ASSUME ProtocolAssumption, Inv, NEW u \in Users, ReturnFromSend(u)
    PROVE  Inv'
<1>1. u \in Tasks /\ u \notin WriterTasks /\ phase[u] = "woken"
  BY DEF Tasks, ProtocolAssumption, ReturnFromSend
<1>2. busy' = busy \ {u}
  BY <1>1 DEF ReturnFromSend, channelVars, Inv, Types
<1>3. asked' \in [Users -> 0 .. buttons.n] /\ sender' = FALSE
  <2>1. 0 \in 0 .. buttons.n /\ asked \in [Users -> 0 .. buttons.n]
    BY ButtonsNow DEF Inv, Types
  <2> QED
    BY <2>1 DEF ReturnFromSend
<1> QED
  BY <1>1, <1>2, <1>3, MoveKeeps DEF ReturnFromSend, channelVars, modeVars, Phases, Inv, Types

----------------------------------------------------------------------------
(* What the steps leave alone, for those who share the channel and the     *)
(* connection with the protocol.                                           *)

Outside(t) ==
    /\ busy' \ Tasks = busy \ Tasks
    /\ \A x \in Tasks \ {t} : phase[x] = "idle" => phase'[x] = "idle"
    /\ attached' => attached

(* No user begins to send, no writer is forgotten, no button is pressed.   *)
Quiet ==
    /\ busy' \ Tasks = busy \ Tasks
    /\ \A u \in Users : phase[u] = "idle" => phase'[u] = "idle"
    /\ attached' => attached
    /\ started \subseteq started'
    /\ buttons'.menu = buttons.menu /\ (buttons.stray => buttons'.stray)

LEMMA MovesOutside ==
    ASSUME NEW t \in Tasks, NEW p, NEW w, NEW s, Moves(t, p, w, s)
    PROVE  \A x \in Tasks \ {t} : phase[x] = "idle" => phase'[x] = "idle"
BY DEF Moves

LEMMA WriteFailsOutside ==
    ASSUME NEW t \in Tasks, NEW w, WriteFails(t, w)
    PROVE  /\ \A x \in Tasks \ {t} : phase[x] = "idle" => phase'[x] = "idle"
           /\ attached' = FALSE
<1>1. \E p, v, s : Moves(t, p, v, s)
  BY DEF WriteFails, Raises, Returns
<1> QED
  BY <1>1, MovesOutside DEF WriteFails

LEMMA PutOutside ==
    ASSUME NEW t \in Tasks, NEW r, NEW m, NEW set, NEW wk, Put(t, r, m, set, wk)
    PROVE  Outside(t)
<1>1. PICK w : \/ channel!Send(t) /\ Returns(t, w, r.n) /\ UNCHANGED <<attached, shown>>
               \/ channel!Begin(t) /\ Moves(t, "write", w, FALSE) /\ UNCHANGED attached
               \/ WriteFails(t, w) /\ UNCHANGED channelVars
  BY DEF Put
<1>2. CASE channel!Send(t) /\ Returns(t, w, r.n) /\ UNCHANGED <<attached, shown>>
  <2>1. \E p, s : Moves(t, p, w, s)
    BY <1>2 DEF Returns
  <2> QED
    BY <1>2, <2>1, MovesOutside DEF Outside, channel!Send
<1>3. CASE channel!Begin(t) /\ Moves(t, "write", w, FALSE) /\ UNCHANGED attached
  BY <1>3, MovesOutside DEF Outside, channel!Begin
<1>4. CASE WriteFails(t, w) /\ UNCHANGED channelVars
  BY <1>4, WriteFailsOutside DEF Outside, channelVars
<1> QED
  BY <1>1, <1>2, <1>3, <1>4

LEMMA FinishWriteQuiet ==
    ASSUME NEW t \in Tasks, FinishWrite(t)
    PROVE  Quiet
<1>1. busy' \ Tasks = busy \ Tasks
  BY DEF FinishWrite, channel!Send, channel!Lose
<1>2. /\ \A x \in Tasks \ {t} : phase[x] = "idle" => phase'[x] = "idle"
      /\ attached' => attached
  <2>1. CASE attached /\ Returns(t, FALSE, shown[t]) /\ UNCHANGED attached
    <3>1. \E p, w, s : Moves(t, p, w, s)
      BY <2>1 DEF Returns
    <3> QED
      BY <2>1, <3>1, MovesOutside
  <2>2. CASE WriteFails(t, FALSE)
    BY <2>2, WriteFailsOutside
  <2> QED
    BY <2>1, <2>2 DEF FinishWrite
<1> QED
  BY <1>1, <1>2 DEF Quiet, FinishWrite, Tasks

LEMMA EmitOutside ==
    ASSUME NEW t \in Tasks, NEW wk, Emit(t, wk)
    PROVE  Outside(t)
<1>1. CASE Put(t, Report(mode, buttons), mode, FALSE, wk)
  BY <1>1, PutOutside
<1>2. CASE Moves(t, "dead", FALSE, FALSE) /\ UNCHANGED <<channelVars, attached>>
  BY <1>2, MovesOutside DEF Outside, channelVars
<1> QED
  BY <1>1, <1>2 DEF Emit

LEMMA WriterQuiet ==
    ASSUME ProtocolAssumption, NEW t \in WriterTasks, Turn(t) \/ Continue(t) \/ BeginWait(t)
    PROVE  Quiet
<1>1. t \in Tasks /\ t \notin Users
  BY DEF Tasks, ProtocolAssumption
<1>2. Outside(t)
  <2>1. CASE \E wk : Emit(t, wk)
    BY <1>1, <2>1, EmitOutside
  <2>2. CASE Moves(t, "paused", FALSE, FALSE) /\ UNCHANGED <<channelVars, attached>>
    BY <1>1, <2>2, MovesOutside DEF Outside, channelVars
  <2>3. CASE (\E p : Moves(t, p, FALSE, FALSE)) /\ UNCHANGED <<channelVars, attached>>
    BY <1>1, <2>3, MovesOutside DEF Outside, channelVars
  <2> QED
    BY <2>1, <2>2, <2>3 DEF Turn, Continue, BeginWait
<1>3. started' = started /\ buttons' = buttons
  BY DEF Turn, Continue, BeginWait
<1> QED
  BY <1>1, <1>2, <1>3 DEF Outside, Quiet, Tasks

LEMMA ReaderQuiet ==
    ASSUME ProtocolAssumption,
           \/ AnswerSubCommand
           \/ \E m \in Modes : SetInputReportMode(m)
           \/ \E w \in WriterTasks : SetPlayerLights(w)
           \/ ReaderFails \/ ReadEOF \/ CloseTransport
    PROVE  Quiet
<1>1. Reader \in Tasks /\ Reader \notin Users
  BY DEF Tasks, ProtocolAssumption
<1>2. Outside(Reader)
  <2>1. CASE \E m, set : Reply(m, set)
    <3>1. \E m, set, r, wk : Put(Reader, r, m, set, wk)
      BY <2>1 DEF Reply
    <3> QED
      BY <1>1, <3>1, PutOutside
  <2>2. CASE ReaderFails \/ ReadEOF \/ CloseTransport
    <3>1. \E p, w, s : Moves(Reader, p, w, s)
      BY <2>2 DEF ReaderFails, ReadEOF, CloseTransport
    <3>2. busy' \ Tasks = busy \ Tasks
      BY <1>1, <2>2 DEF ReaderFails, ReadEOF, CloseTransport, channelVars, channel!Lose
    <3>3. attached' = attached \/ attached' = FALSE
      BY <2>2 DEF ReaderFails, ReadEOF, CloseTransport
    <3> QED
      BY <1>1, <3>1, <3>2, <3>3, MovesOutside DEF Outside
  <2> QED
    BY <2>1, <2>2 DEF AnswerSubCommand, SetInputReportMode, SetPlayerLights
<1>3. started \subseteq started' /\ buttons' = buttons
  BY DEF AnswerSubCommand, SetInputReportMode, SetPlayerLights, Reply, ReaderFails, ReadEOF,
         CloseTransport
<1> QED
  BY <1>1, <1>2, <1>3 DEF Outside, Quiet, Tasks

LEMMA UserQuiet ==
    ASSUME ProtocolAssumption, NEW u \in Users, StartWaiting(u) \/ ReturnFromSend(u)
    PROVE  Quiet
<1>1. phase[u] # "idle" /\ u \in Tasks
  BY DEF StartWaiting, ReturnFromSend, Tasks
<1>2. \E p, w, s : Moves(u, p, w, s)
  BY DEF StartWaiting, ReturnFromSend
<1>3. \A x \in Tasks \ {u} : phase[x] = "idle" => phase'[x] = "idle"
  BY <1>1, <1>2, MovesOutside
<1>4. UNCHANGED <<busy, attached, started, buttons>>
  BY DEF StartWaiting, ReturnFromSend, channelVars
<1> QED
  BY <1>1, <1>3, <1>4 DEF Quiet, Tasks

LEMMA OtherQuiet ==
    ASSUME ProtocolAssumption, Inv,
           Pause \/ Unpause \/ MoveStick \/ \E n \in 1 .. Capacity : Complete(n)
    PROVE  Quiet
<1>1. CASE Pause
  BY <1>1 DEF Pause, Quiet, channelVars, userVars
<1>2. CASE Unpause
  <2>1. UNCHANGED <<busy, attached, started, buttons>>
    BY <1>2 DEF Unpause, channelVars, userVars
  <2>2. \A u \in Users : phase[u] = "idle" => phase'[u] = "idle"
    BY <1>2 DEF Unpause, Tasks
  <2> QED
    BY <2>1, <2>2 DEF Quiet
<1>3. CASE \E n \in 1 .. Capacity : Complete(n)
  BY <1>3 DEF Complete, channel!Complete, Quiet, userVars
<1>4. CASE MoveStick
  BY <1>4, ButtonsNow DEF MoveStick, Quiet, Later, ButtonStates, channelVars
<1> QED
  BY <1>1, <1>2, <1>3, <1>4

----------------------------------------------------------------------------
(* Protocol                                                                *)

LEMMA InitInv ==
    ASSUME ProtocolAssumption, Init
    PROVE  Inv /\ busy = {}
<1> USE DEF Init, channel!Init
<1>1. Reconnect \in BOOLEAN /\ (~ Reconnect) \in BOOLEAN
  BY DEF ProtocolAssumption
<1>2. DelayOf("none", ~ Reconnect) \in DelayTypes
  BY <1>1, DelayOfTyped
<1>3. phase \in [Tasks -> Phases] /\ \A x \in Tasks : phase[x] \in {"idle", "run", "reading"}
  BY DEF Phases
<1>4. \A x \in WriterTasks : phase[x] = "run"
  BY DEF Tasks, ProtocolAssumption
<1>5. Types
  <2>1. busy \cap Tasks = {x \in Tasks : phase[x] = "write"}
    BY <1>3
  <2>2. 0 \in 0 .. buttons.n /\ buttons \in ButtonStates /\ flight \in 0 .. Capacity
    BY DEF ProtocolAssumption, ButtonStates
  <2>3. "inf" \in DelayTypes
    BY DEF DelayTypes
  <2> QED
    BY <1>1, <1>2, <1>3, <2>1, <2>2, <2>3 DEF Types
<1>6. SomeWriterFollowsMode /\ SenderBelongsToUser /\ StartedInMode /\ WritersSurvive
  BY <1>4 DEF SomeWriterFollowsMode, SenderBelongsToUser, StartedInMode, WritersSurvive
<1> QED
  BY <1>5, <1>6 DEF Inv

LEMMA NextInv ==
    ASSUME ProtocolAssumption, Inv, Next
    PROVE  Inv' /\ busy' \ Tasks = busy \ Tasks
<1>1. ASSUME NEW t \in Tasks, FinishWrite(t)
      PROVE  Inv' /\ Quiet
  BY <1>1, FinishWriteKeeps, FinishWriteQuiet
<1>2. ASSUME NEW w \in WriterTasks, Turn(w) \/ Continue(w) \/ BeginWait(w)
      PROVE  Inv' /\ Quiet
  BY <1>2, TurnKeeps, ContinueKeeps, BeginWaitKeeps, WriterQuiet
<1>3. ASSUME NEW w \in WriterTasks, SetPlayerLights(w)
      PROVE  Inv' /\ Quiet
  BY <1>3, ReadsKeep, ReaderQuiet
<1>4. ASSUME NEW m \in Modes, SetInputReportMode(m)
      PROVE  Inv' /\ Quiet
  BY <1>4, ReadsKeep, ReaderQuiet
<1>5. ASSUME NEW u \in Users, CallSend(u, buttons)
      PROVE  Inv' /\ busy' \ Tasks = busy \ Tasks
  <2>1. Inv'
    BY <1>5, ButtonsNow, CallSendKeeps
  <2> QED
    BY <1>5, <2>1 DEF CallSend, channelVars
<1>6. ASSUME NEW u \in Users, StartWaiting(u) \/ ReturnFromSend(u)
      PROVE  Inv' /\ Quiet
  BY <1>6, StartWaitingKeeps, ReturnFromSendKeeps, UserQuiet
<1>7. ASSUME NEW u \in Users, SendWhilePaused(u, buttons)
      PROVE  Inv' /\ busy' \ Tasks = busy \ Tasks
  <2>1. Inv'
    BY <1>7, ButtonsNow, SendWhilePausedKeeps
  <2>2. u \in Tasks /\ \E r, m, set, wk : Put(u, r, m, set, wk)
    BY <1>7 DEF SendWhilePaused, Tasks
  <2> QED
    BY <2>1, <2>2, PutOutside DEF Outside
<1>8. ASSUME NEW menu \in BOOLEAN, SetButtons(menu)
      PROVE  Inv' /\ busy' \ Tasks = busy \ Tasks
  BY <1>8, SetButtonsKeeps DEF SetButtons, channelVars
<1>9. ASSUME NEW n \in 1 .. Capacity, Complete(n)
      PROVE  Inv' /\ Quiet
  BY <1>9, CompleteKeeps, OtherQuiet
<1>10. CASE AnswerSubCommand
  BY <1>10, ReadsKeep, ReaderQuiet DEF Quiet
<1>11. CASE ReaderFails \/ ReadEOF \/ CloseTransport
  BY <1>11, ReaderFailsKeeps, ReadEOFKeeps, CloseTransportKeeps, ReaderQuiet DEF Quiet
<1>12. CASE Pause \/ Unpause \/ MoveStick
  BY <1>12, PauseKeeps, UnpauseKeeps, MoveStickKeeps, OtherQuiet DEF Quiet
<1>13. Quiet => busy' \ Tasks = busy \ Tasks
  BY DEF Quiet
<1> QED
  BY <1>1, <1>2, <1>3, <1>4, <1>5, <1>6, <1>7, <1>8, <1>9, <1>10, <1>11, <1>12, <1>13 DEF Next

LEMMA StutterInv ==
    ASSUME ProtocolAssumption, Inv, UNCHANGED vars
    PROVE  Inv' /\ Quiet
<1>1. UNCHANGED <<modeVars, started, isSend, sender, asked, phase, shown, nap, seen>>
  BY DEF vars, userVars
<1>2. UNCHANGED <<busy, flight, attached, notPaused, buttons>>
  BY DEF vars, channelVars, userVars
<1>3. Inv'
  BY <1>1, <1>2, ButtonsNow, StillKeeps DEF Inv, Types
<1> QED
  BY <1>1, <1>2, <1>3 DEF Quiet

(* The tasks of Protocol have the channel for themselves.                  *)
OwnInv == Inv /\ busy \subseteq Tasks

LEMMA ProtocolInductive ==
    /\ Init => OwnInv
    /\ OwnInv /\ [Next]_vars => OwnInv'
<1>1. Init => OwnInv
  BY ProtocolAssumption, InitInv DEF OwnInv
<1>2. ASSUME OwnInv, [Next]_vars PROVE OwnInv'
  <2>1. Inv' /\ busy' \ Tasks = busy \ Tasks
    BY <1>2, ProtocolAssumption, NextInv, StutterInv DEF OwnInv, Quiet
  <2> QED
    BY <1>2, <2>1 DEF OwnInv
<1> QED
  BY <1>1, <1>2

(* The types, and the tasks that are inside write() are those the channel  *)
(* has under way.                                                          *)
THEOREM ProtocolTypes == Spec => []TypeOK
<1>1. OwnInv => TypeOK
  BY DEF OwnInv, Inv, Types, TypeOK, DelayTypes, ButtonStates
<1> QED
  BY <1>1, ProtocolInductive, PTL DEF Spec

(* The delay always belongs to the mode, and a change of it is not slept   *)
(* through by all: the event of it stands until a writer has cleared it,   *)
(* and then, however many writers there are, and wherever each of them was *)
(* between write(), the creation of its wait and the wait itself, one of   *)
(* them follows the new delay.                                             *)
THEOREM ModeIsFollowed == Spec => []SomeWriterFollowsMode
<1>1. OwnInv => SomeWriterFollowsMode
  BY DEF OwnInv, Inv
<1> QED
  BY <1>1, ProtocolInductive, PTL DEF Spec

(* With one writer, as a console that sets the player lights once has it,  *)
(* that is this one: it never sleeps with a delay that is not today's.     *)
THEOREM OneWriterSleepsRight ==
    ASSUME NEW w, WriterTasks = {w}
    PROVE  Spec => [](phase[w] = "sleep" => nap[w] = sendDelay)
<1>1. ASSUME OwnInv, phase[w] = "sleep" PROVE nap[w] = sendDelay
  <2>1. w \in started /\ started = {w} /\ wakeup \in BOOLEAN
    BY <1>1 DEF OwnInv, Inv, Types, StartedInMode
  <2>2. ~ wakeup
    BY <1>1 DEF OwnInv, Inv, SomeWriterFollowsMode
  <2>3. ~ Behind(w)
    BY <2>1, <2>2, <1>1 DEF OwnInv, Inv, SomeWriterFollowsMode
  <2> QED
    BY <1>1, <2>3 DEF Behind
<1> QED
  BY <1>1, ProtocolInductive, PTL DEF Spec

(* A console that sets a mode, and never the mode 0x00, before it sets the *)
(* player lights, keeps every writer it started until the connection ends  *)
(* or a stick does not fit the report.                                     *)
THEOREM WritersAreKept == Spec => []WritersSurvive
<1>1. OwnInv => WritersSurvive
  BY DEF OwnInv, Inv
<1> QED
  BY <1>1, ProtocolInductive, PTL DEF Spec

(* connection_lost() finds a sender only while a user is in a send.        *)
THEOREM SenderHasUser == Spec => []SenderBelongsToUser
<1>1. OwnInv => SenderBelongsToUser
  BY DEF OwnInv, Inv
<1> QED
  BY <1>1, ProtocolInductive, PTL DEF Spec

----------------------------------------------------------------------------
(* Session                                                                 *)

LEMMA SessionInitInv ==
    ASSUME ProtocolAssumption, SessionAssumption, SessionInit
    PROVE  SessionInv
<1> USE DEF SessionInit
<1>1. Inv /\ busy = {}
  BY InitInv
<1>2. phase[CLI] = "idle" /\ buttons.menu = FALSE
  BY DEF Init, Tasks, SessionAssumption
<1>3. SessionTypeOK
  <2>1. busy = {t \in Tasks : phase[t] = "write"} \cup
               (IF greeter = "write" THEN {Greeter} ELSE {})
    BY <1>1 DEF Inv, Types
  <2>2. buttons.menu = (pressed \cap MenuButtons # {})
    BY <1>2
  <2>3. greets \in 0 .. MaxGreets /\ flight \in 0 .. Capacity
    BY <1>1 DEF Inv, Types, SessionAssumption
  <2> QED
    BY <1>2, <2>1, <2>2, <2>3 DEF SessionTypeOK
<1>4. GreeterFollowsConnection /\ LineFollowsCommand /\ PressedIsAccounted
  BY DEF GreeterFollowsConnection, LineFollowsCommand, PressedIsAccounted
<1> QED
  BY <1>1, <1>3, <1>4 DEF SessionInv

(* Who is busy besides the tasks of the protocol: the Greeter.             *)
LEMMA GreeterOutside ==
    ASSUME SessionAssumption, SessionInv
    PROVE  busy \ Tasks = IF greeter = "write" THEN {Greeter} ELSE {}
BY DEF SessionInv, SessionTypeOK, SessionAssumption

LEMMA BusyOfTwo ==
    ASSUME SessionAssumption, Types',
           busy' \ Tasks = IF greeter' = "write" THEN {Greeter} ELSE {}
    PROVE  busy' = {t \in Tasks : phase'[t] = "write"} \cup
                   (IF greeter' = "write" THEN {Greeter} ELSE {})
<1>1. busy' \cap Tasks = {t \in Tasks : phase'[t] = "write"}
  BY DEF Types
<1> QED
  BY <1>1

(* A step of the protocol in which the command line does nothing.          *)
LEMMA RunsKeeps ==
    ASSUME SessionAssumption, SessionInv, Inv', Quiet,
           UNCHANGED <<server, advertised, greeterVars, lineVars>>, received' \in BOOLEAN
    PROVE  SessionInv'
<1> USE DEF greeterVars, lineVars
<1>1. busy' = {t \in Tasks : phase'[t] = "write"} \cup
              (IF greeter' = "write" THEN {Greeter} ELSE {})
  BY GreeterOutside, BusyOfTwo DEF Inv, Quiet
<1>2. SessionTypeOK'
  <2>1. phase'[CLI] # "idle" => cli' \in {"press", "release", "send"}
    BY DEF SessionInv, SessionTypeOK, Quiet, SessionAssumption
  <2> QED
    BY <1>1, <2>1 DEF SessionInv, SessionTypeOK, Quiet, Inv, Types
<1>3. GreeterFollowsConnection' /\ LineFollowsCommand'
  BY DEF SessionInv, GreeterFollowsConnection, LineFollowsCommand, Quiet
<1>4. PressedIsAccounted'
  BY DEF SessionInv, PressedIsAccounted, Quiet
<1> QED
  BY <1>2, <1>3, <1>4 DEF SessionInv

LEMMA SetUpKeeps ==
    ASSUME ProtocolAssumption, SessionAssumption, SessionInv,
           Listen \/ AcceptControl \/ ConnectionMade \/ SetUpFails \/ HandshakeEnds
    PROVE  SessionInv'
<1>1. UNCHANGED vars
  BY DEF Listen, AcceptControl, ConnectionMade, SetUpFails, HandshakeEnds
<1>2. Inv' /\ Quiet
  BY <1>1, StutterInv DEF SessionInv
<1>3. UNCHANGED <<busy, flight, buttons, phase, started, attached, op, args, pressed, held>>
  BY <1>1 DEF vars, channelVars, userVars, Listen, AcceptControl, ConnectionMade, SetUpFails,
              HandshakeEnds, lineVars
<1>4. /\ server' \in {"start", "control", "interrupt", "greeting", "returned", "failed"}
      /\ advertised' \in BOOLEAN /\ received' \in BOOLEAN
      /\ greets' \in 0 .. MaxGreets
      /\ greeter' = greeter \/ (greeter = "off" /\ greeter' = "ready")
  BY DEF Listen, AcceptControl, ConnectionMade, SetUpFails, HandshakeEnds, greeterVars,
         SessionInv, SessionTypeOK, GreeterFollowsConnection
<1>5. /\ cli' = cli \/ (cli = "off" /\ cli' = "line")
      /\ server' # "returned" => cli' = "off"
      /\ server' \notin {"greeting", "returned"} => greeter' = "off"
  BY DEF Listen, AcceptControl, ConnectionMade, SetUpFails, HandshakeEnds, greeterVars, lineVars,
         SessionInv, LineFollowsCommand, GreeterFollowsConnection
<1>6. SessionTypeOK'
  BY <1>2, <1>3, <1>4, <1>5 DEF SessionInv, SessionTypeOK, SessionAssumption
<1>7. LineFollowsCommand' /\ PressedIsAccounted' /\ GreeterFollowsConnection'
  BY <1>3, <1>4, <1>5 DEF SessionInv, LineFollowsCommand, PressedIsAccounted, GreeterFollowsConnection
<1> QED
  BY <1>2, <1>6, <1>7 DEF SessionInv

LEMMA GreetKeeps ==
    ASSUME ProtocolAssumption, SessionAssumption, SessionInv, Greet \/ FinishGreet
    PROVE  SessionInv'
<1>1. /\ UNCHANGED <<modeVars, notPaused, started, userVars, phase, shown, nap, seen,
                     serverVars, lineVars>>
      /\ Up /\ greeter \in {"ready", "write"} /\ greets' \in 0 .. MaxGreets
  BY DEF Greet, FinishGreet, SessionInv, SessionTypeOK, SessionAssumption
<1>2. \/ /\ flight < Capacity /\ flight' = flight + 1
         /\ busy' = busy \ {Greeter} /\ greeter' = "ready" /\ attached' = attached
      \/ /\ flight' = flight /\ greeter' = "write" /\ busy' = busy \cup {Greeter}
         /\ attached' = attached
      \/ /\ flight' = flight /\ greeter' \in {"ready", "dead"} /\ attached' = FALSE
         /\ busy' = busy \ {Greeter}
  BY GreeterOutside DEF Greet, FinishGreet, GreetFails, channel!Send, channel!Begin, channel!Lose,
         channelVars, SessionAssumption
<1>3. /\ busy' \cap Tasks = busy \cap Tasks
      /\ busy' \ Tasks = IF greeter' = "write" THEN {Greeter} ELSE {}
      /\ greeter' \in {"ready", "write", "dead"}
  BY <1>2, GreeterOutside DEF SessionAssumption
<1>4. attached' \in BOOLEAN /\ (attached' => attached)
  <2>1. CASE attached' = attached
    BY <2>1 DEF SessionInv, Inv, Types
  <2>2. CASE attached' = FALSE
    BY <2>2
  <2> QED
    BY <1>2, <2>1, <2>2
<1>5. flight' \in 0 .. Capacity
  BY <1>2 DEF SessionInv, Inv, Types, ProtocolAssumption
<1>6. Inv'
  <2>1. /\ Inv /\ notPaused' \in BOOLEAN
        /\ UNCHANGED <<modeVars, started, isSend, sender, asked, phase, shown, nap, seen>>
        /\ Later(buttons')
    BY <1>1, ButtonsNow DEF SessionInv, Inv, Types, userVars
  <2> QED
    BY <1>3, <1>4, <1>5, <2>1, StillKeeps
<1>7. UNCHANGED <<phase, buttons, started, server, advertised, received, cli, op, args, pressed, held>>
  BY <1>1 DEF userVars, serverVars, lineVars
<1>8. SessionTypeOK'
  <2>1. busy' = {t \in Tasks : phase'[t] = "write"} \cup
                (IF greeter' = "write" THEN {Greeter} ELSE {})
    BY <1>3, <1>6, BusyOfTwo DEF Inv
  <2> QED
    BY <1>1, <1>3, <1>5, <1>7, <2>1 DEF SessionInv, SessionTypeOK
<1>9. GreeterFollowsConnection' /\ LineFollowsCommand' /\ PressedIsAccounted'
  BY <1>1, <1>4, <1>7 DEF SessionInv, GreeterFollowsConnection, LineFollowsCommand,
                         PressedIsAccounted, Up
<1> QED
  BY <1>6, <1>8, <1>9 DEF SessionInv

(* send(): the buttons become those of the command, and the command line   *)
(* is inside the send, back at its prompt after an exception that it       *)
(* printed, or at its end.                                                 *)
LEMMA SendKeeps ==
    ASSUME ProtocolAssumption, SessionAssumption, SessionInv, phase[CLI] = "idle",
           NEW p \in SUBSET Buttons, NEW stage \in {"press", "release", "send"}, Send(p, stage)
    PROVE  /\ Inv' /\ busy' \ Tasks = busy \ Tasks
           /\ pressed' = p /\ buttons'.menu = (p \cap MenuButtons # {})
           /\ UNCHANGED <<serverVars, greeterVars, started>> /\ (attached' => attached)
           /\ buttons.stray => buttons'.stray
           /\ \/ cli' = stage
              \/ /\ op' \in Commands /\ cli' = "line" /\ phase'[CLI] = "idle"
                 /\ ~ attached' \/ mode \in {"none", "x00"} \/ buttons'.stray
              \/ cli' = "ended" /\ phase'[CLI] = "idle" /\ ~ attached'
<1> DEFINE b == IF p = pressed THEN buttons ELSE Changed(p \cap MenuButtons # {})
<1> USE DEF SessionInv
<1>1. /\ pressed' = p
      /\ UNCHANGED <<serverVars, greeterVars>>
      /\ \/ cli' = stage /\ (CallSend(CLI, b) \/ SendWhilePaused(CLI, b))
         \/ /\ ~ attached \/ MayNotReport(b)
            /\ cli' = Raised(op')
            /\ attached' = (attached /\ cli' # "ended")
            /\ buttons' = b
            /\ UNCHANGED <<channelVars, modeVars, notPaused, started, isSend, sender,
                           asked, phase, shown, nap, seen>>
  BY DEF Send
<1>2. /\ Later(b)
      /\ b.menu = (p \cap MenuButtons # {})
  <2>1. CASE p = pressed
    BY <2>1, ButtonsNow DEF SessionTypeOK
  <2>2. CASE p # pressed
    <3>1. \A menu \in BOOLEAN : Later(Changed(menu)) /\ Changed(menu).menu = menu
      BY ChangedVersion
    <3>2. (p \cap MenuButtons # {}) \in BOOLEAN
      OBVIOUS
    <3> QED
      BY <2>2, <3>1, <3>2
  <2> QED
    BY <2>1, <2>2
<1> HIDE DEF b
<1>3. CLI \in Users /\ CLI \in Tasks
  BY DEF SessionAssumption, Tasks
<1>4. CASE cli' = stage /\ CallSend(CLI, b)
  <2>1. Inv'
    BY <1>2, <1>3, <1>4, CallSendKeeps
  <2>2. busy' = busy /\ buttons' = b /\ started' = started /\ attached' = attached
    BY <1>4 DEF CallSend, channelVars
  <2> QED
    BY <1>1, <1>2, <1>4, <2>1, <2>2 DEF Later
<1>5. CASE cli' = stage /\ SendWhilePaused(CLI, b)
  <2>1. Inv'
    BY <1>2, <1>3, <1>5, SendWhilePausedKeeps
  <2>2. \E r, m, set, wk : Put(CLI, r, m, set, wk)
    BY <1>5 DEF SendWhilePaused
  <2>3. Outside(CLI)
    BY <1>3, <2>2, PutOutside
  <2>4. buttons' = b /\ started' = started
    BY <1>5 DEF SendWhilePaused
  <2> QED
    BY <1>1, <1>2, <1>5, <2>1, <2>3, <2>4 DEF Outside, Later
<1>6. CASE /\ ~ attached \/ MayNotReport(b)
           /\ cli' = Raised(op')
           /\ attached' = (attached /\ cli' # "ended")
           /\ buttons' = b
           /\ UNCHANGED <<channelVars, modeVars, notPaused, started, isSend, sender,
                          asked, phase, shown, nap, seen>>
  <2>1. attached' \in BOOLEAN /\ (attached' => attached) /\ (cli' = "ended" => ~ attached')
    BY <1>6
  <2>2. UNCHANGED <<busy, flight, notPaused, started, phase>>
    BY <1>6 DEF channelVars
  <2>3. Inv'
    BY <1>2, <1>6, <2>1, <2>2, StillKeeps DEF Inv, Types
  <2>4. IF op' \in Commands THEN cli' = "line" ELSE cli' = "ended"
    BY <1>6 DEF Raised
  <2>5. ~ attached' \/ mode \in {"none", "x00"} \/ buttons'.stray
    <3>1. Report(mode, b).stray => buttons'.stray
      <4>1. MaxState \in Nat /\ b.n \in 0 .. MaxState /\ b.menu \in BOOLEAN /\ buttons' = b
        BY <1>2, <1>6 DEF Later, ButtonStates, ProtocolAssumption
      <4> QED
        BY <4>1, ReportTyped
    <3> QED
      BY <1>6, <2>1, <3>1 DEF MayNotReport
  <2>6. phase'[CLI] = "idle"
    BY <2>2
  <2> QED
    BY <1>1, <1>2, <1>6, <2>1, <2>2, <2>3, <2>4, <2>5, <2>6 DEF Later
<1> QED
  BY <1>1, <1>4, <1>5, <1>6

(* A command calls send() with the buttons p.                              *)
LEMMA CommandKeeps ==
    ASSUME ProtocolAssumption, SessionAssumption, SessionInv,
           cli \notin {"press", "release", "send"}, server = "returned",
           NEW p \in SUBSET Buttons, NEW stage \in {"press", "release", "send"}, Send(p, stage),
           args' \in SUBSET Buttons, held' \in SUBSET Buttons,
           stage = "press" => op' \in {"hold", "click", "mash", "push"},
           stage = "release" => op' \in {"release", "click", "mash", "push"},
           stage = "send" => op' = "send",
           op' \in Commands => started # {},
           (ModeFirst /\ "x00" \notin Modes /\ attached /\ ~ buttons.stray) =>
               p \subseteq IF stage = "press" /\ op' # "hold" THEN held' \cup args' ELSE held'
    PROVE  SessionInv'
<1>1. phase[CLI] = "idle"
  BY DEF SessionInv, SessionTypeOK
<1>2. /\ Inv' /\ busy' \ Tasks = busy \ Tasks
      /\ pressed' = p /\ buttons'.menu = (p \cap MenuButtons # {})
      /\ UNCHANGED <<serverVars, greeterVars, started>> /\ (attached' => attached)
      /\ buttons.stray => buttons'.stray
      /\ \/ cli' = stage
         \/ /\ op' \in Commands /\ cli' = "line" /\ phase'[CLI] = "idle"
            /\ ~ attached' \/ mode \in {"none", "x00"} \/ buttons'.stray
         \/ cli' = "ended" /\ phase'[CLI] = "idle" /\ ~ attached'
  BY <1>1, SendKeeps
<1>3. UNCHANGED <<server, advertised, received, greeter, greets, started>>
  BY <1>2 DEF serverVars, greeterVars
<1>4. SessionTypeOK'
  <2>1. busy' = {t \in Tasks : phase'[t] = "write"} \cup
                (IF greeter' = "write" THEN {Greeter} ELSE {})
    BY <1>2, <1>3, GreeterOutside, BusyOfTwo DEF Inv
  <2>2. flight' \in 0 .. Capacity /\ op' \in Commands \cup {"none", "push", "send"}
    BY <1>2 DEF Inv, Types, Commands
  <2>3. phase'[CLI] # "idle" => cli' \in {"press", "release", "send"}
    BY <1>2
  <2>4. cli' \in {"press", "release", "send", "line", "ended"}
    BY <1>2
  <2> QED
    BY <1>2, <1>3, <2>1, <2>2, <2>3, <2>4 DEF SessionInv, SessionTypeOK
<1>5. GreeterFollowsConnection'
  BY <1>3 DEF SessionInv, GreeterFollowsConnection
<1>6. LineFollowsCommand'
  BY <1>2, <1>3 DEF LineFollowsCommand
<1>7. PressedIsAccounted'
  <2>1. SUFFICES ASSUME ModeFirst, "x00" \notin Modes, attached', ~ buttons'.stray
                 PROVE  pressed' \subseteq IF cli' \in {"press", "sleep"} /\ op' # "hold"
                                          THEN held' \cup args' ELSE held'
    BY DEF PressedIsAccounted
  <2>2. op' \in Commands => mode \notin {"none", "x00"}
    BY <2>1 DEF SessionInv, Inv, Types, StartedInMode
  <2>3. cli' = stage
    BY <1>2, <2>1, <2>2
  <2> QED
    BY <1>2, <2>1, <2>3
<1> QED
  BY <1>2, <1>4, <1>5, <1>6, <1>7 DEF SessionInv

LEMMA PressKeeps ==
    ASSUME ProtocolAssumption, SessionAssumption, SessionInv,
           cli \in {"line", "connect", "rest"}, NEW bs \in SUBSET Buttons,
           NEW o \in {"hold", "click", "mash", "push"}, o \in Commands => started # {}, Press(o, bs)
    PROVE  SessionInv'
<1>1. server = "returned" /\ pressed \cup bs \in SUBSET Buttons
  BY DEF SessionInv, LineFollowsCommand, SessionTypeOK
<1>2. /\ op' = o /\ args' = bs
      /\ held' = IF o = "hold" THEN held \cup bs ELSE held
      /\ Send(pressed \cup bs, "press")
  BY DEF Press
<1>3. held' \in SUBSET Buttons /\ args' \in SUBSET Buttons
  BY <1>2 DEF SessionInv, SessionTypeOK
<1>4. (ModeFirst /\ "x00" \notin Modes /\ attached /\ ~ buttons.stray) =>
          pressed \cup bs \subseteq IF op' # "hold" THEN held' \cup args' ELSE held'
  BY <1>2 DEF SessionInv, PressedIsAccounted
<1>5. \A p \in SUBSET Buttons : p = pressed \cup bs /\ Send(p, "press") => SessionInv'
  BY <1>1, <1>2, <1>3, <1>4, CommandKeeps
<1> QED
  BY <1>1, <1>2, <1>5

(* What is released is what a command pushed, unless it is the user's      *)
(* command.                                                                *)
LEMMA ReleaseKeeps ==
    ASSUME ProtocolAssumption, SessionAssumption, SessionInv, NEW o, NEW bs \in SUBSET Buttons,
           \/ cli \in {"line", "connect"} /\ o = "release" /\ started # {}
           \/ cli = "sleep" /\ o = op /\ bs = args,
           Release(o, bs)
    PROVE  SessionInv'
<1>1. server = "returned" /\ pressed \ bs \in SUBSET Buttons
  BY DEF SessionInv, LineFollowsCommand, SessionTypeOK
<1>2. /\ op' = o /\ args' = bs
      /\ held' = IF o = "release" THEN held \ bs ELSE held
      /\ Send(pressed \ bs, "release")
  BY DEF Release
<1>3. held' \in SUBSET Buttons /\ args' \in SUBSET Buttons
  BY <1>2 DEF SessionInv, SessionTypeOK
<1>4. o \in {"release", "click", "mash", "push"} /\ (o \in Commands => started # {})
  BY DEF SessionInv, LineFollowsCommand
<1>5. (ModeFirst /\ "x00" \notin Modes /\ attached /\ ~ buttons.stray) => pressed \ bs \subseteq held'
  BY <1>2 DEF SessionInv, PressedIsAccounted, LineFollowsCommand
<1>6. \A p \in SUBSET Buttons : p = pressed \ bs /\ Send(p, "release") => SessionInv'
  BY <1>1, <1>2, <1>3, <1>4, <1>5, CommandKeeps
<1> QED
  BY <1>1, <1>2, <1>6

LEMMA BeginKeeps ==
    ASSUME ProtocolAssumption, SessionAssumption, SessionInv, NEW o \in Commands,
           NEW bs \in SUBSET Buttons, cli \in {"line", "connect"}, started # {}, Begin(o, bs)
    PROVE  SessionInv'
<1>1. CASE o = "release"
  BY <1>1, ReleaseKeeps DEF Begin
<1>2. CASE o # "release"
  BY <1>2, PressKeeps DEF Begin, Commands
<1> QED
  BY <1>1, <1>2

LEMMA EndLineKeeps ==
    ASSUME ProtocolAssumption, SessionAssumption, SessionInv, NEW bs \in SUBSET Buttons, EndLine(bs)
    PROVE  SessionInv'
<1>1. CASE bs = {}
  <2>1. /\ op' = "send" /\ args' = {} /\ held' = held /\ Send(pressed, "send")
        /\ cli = "line"
    BY <1>1 DEF EndLine
  <2>2. /\ server = "returned" /\ pressed \in SUBSET Buttons /\ held' \in SUBSET Buttons
        /\ op' \notin Commands
    BY <2>1 DEF SessionInv, LineFollowsCommand, SessionTypeOK, Commands
  <2>3. (ModeFirst /\ "x00" \notin Modes /\ attached /\ ~ buttons.stray) => pressed \subseteq held'
    BY <2>1 DEF SessionInv, PressedIsAccounted
  <2>4. \A p \in SUBSET Buttons : p = pressed /\ Send(p, "send") => SessionInv'
    BY <2>1, <2>2, <2>3, CommandKeeps
  <2> QED
    BY <2>1, <2>2, <2>4
<1>2. CASE bs # {}
  BY <1>2, PressKeeps DEF EndLine, Commands
<1> QED
  BY <1>1, <1>2

LEMMA SleepEndsKeeps ==
    ASSUME ProtocolAssumption, SessionAssumption, SessionInv, SleepEnds
    PROVE  SessionInv'
<1>1. args \in SUBSET Buttons
  BY DEF SessionInv, SessionTypeOK
<1>2. CASE cli = "sleep" /\ Release(op, args)
  <2>1. \A o, bs : o = op /\ bs = args /\ Release(o, bs) => SessionInv'
    BY <1>1, <1>2, ReleaseKeeps
  <2> QED
    BY <1>2, <2>1
<1>3. CASE cli = "rest" /\ Press(op, args)
  <2>1. op = "mash" /\ (op \in Commands => started # {})
    BY <1>3 DEF SessionInv, LineFollowsCommand
  <2>2. \A o, bs : o = op /\ bs = args /\ Press(o, bs) => SessionInv'
    BY <1>1, <1>3, <2>1, PressKeeps
  <2> QED
    BY <1>3, <2>2
<1> QED
  BY <1>2, <1>3 DEF SleepEnds

(* A step of the command line that leaves the protocol alone.              *)
LEMMA LineKeeps ==
    ASSUME ProtocolAssumption, SessionAssumption, SessionInv, phase[CLI] = "idle",
           UNCHANGED <<channelVars, modeVars, notPaused, started, userVars, phase, shown, nap, seen>>,
           attached' \in BOOLEAN, attached' => attached,
           UNCHANGED <<serverVars, greeterVars, pressed, held>>,
           server = "returned", args' \in SUBSET Buttons, op' \in Commands \cup {"none", "push", "send"},
           cli' \in {"line", "connect", "sleep", "rest", "ended"},
           cli' = "sleep" => op' \in {"click", "mash", "push"},
           cli' = "rest" => op' = "mash",
           cli' = "connect" => op' \in Commands,
           cli' \in {"sleep", "rest"} /\ op' \in Commands => started # {},
           PressedIsAccounted'
    PROVE  SessionInv'
<1>1. Inv'
  <2>1. /\ Inv /\ UNCHANGED <<modeVars, started, isSend, sender, asked, phase, shown, nap, seen>>
        /\ UNCHANGED <<busy, flight, notPaused, buttons>>
    BY DEF SessionInv, channelVars, userVars
  <2> QED
    BY <2>1, ButtonsNow, StillKeeps DEF Inv, Types
<1>2. UNCHANGED <<busy, flight, buttons, server, advertised, received, greeter, greets>>
  BY DEF channelVars, userVars, serverVars, greeterVars
<1>3. SessionTypeOK'
  BY <1>2 DEF SessionInv, SessionTypeOK
<1>4. GreeterFollowsConnection' /\ LineFollowsCommand'
  BY <1>2 DEF SessionInv, GreeterFollowsConnection, LineFollowsCommand
<1> QED
  BY <1>1, <1>3, <1>4 DEF SessionInv

LEMMA StartCommandKeeps ==
    ASSUME ProtocolAssumption, SessionAssumption, SessionInv,
           NEW o \in Commands, NEW b \in Buttons, StartCommand(o, b)
    PROVE  SessionInv'
<1>1. CASE started # {}
  BY <1>1, BeginKeeps DEF StartCommand
<1>2. CASE started = {}
  <2>1. /\ cli = "line" /\ cli' = "connect" /\ op' = o /\ args' = {b}
        /\ UNCHANGED <<vars, serverVars, greeterVars, pressed, held>>
    BY <1>2 DEF StartCommand
  <2>2. phase[CLI] = "idle" /\ server = "returned" /\ attached \in BOOLEAN
    BY <2>1 DEF SessionInv, SessionTypeOK, LineFollowsCommand, Inv, Types
  <2>3. /\ UNCHANGED <<channelVars, modeVars, notPaused, started, userVars, phase, shown, nap, seen>>
        /\ attached' = attached
    BY <2>1 DEF vars
  <2>4. PressedIsAccounted'
    BY <2>1, <2>3 DEF SessionInv, PressedIsAccounted, userVars
  <2> QED
    BY <2>1, <2>2, <2>3, <2>4, LineKeeps DEF Commands
<1> QED
  BY <1>1, <1>2

LEMMA InputReadyKeeps ==
    ASSUME ProtocolAssumption, SessionAssumption, SessionInv, InputReady
    PROVE  SessionInv'
<1>1. cli = "connect" /\ started # {} /\ Begin(op, args)
  BY DEF InputReady
<1>2. op \in Commands /\ args \in SUBSET Buttons
  BY <1>1 DEF SessionInv, LineFollowsCommand, SessionTypeOK
<1>3. \A o \in Commands, bs \in SUBSET Buttons : Begin(o, bs) => SessionInv'
  BY <1>1, BeginKeeps
<1> QED
  BY <1>1, <1>2, <1>3

LEMMA SendReturnsKeeps ==
    ASSUME ProtocolAssumption, SessionAssumption, SessionInv, SendReturns
    PROVE  SessionInv'
<1>1. /\ cli \in {"press", "release", "send"} /\ phase[CLI] = "idle"
      /\ cli' \in AfterSend \cup IF attached THEN {} ELSE {Raised(op)}
      /\ IF cli' \in {"line", "ended"} THEN op' = "none" /\ args' = {} ELSE UNCHANGED <<op, args>>
      /\ UNCHANGED <<vars, serverVars, greeterVars, pressed, held>>
  BY DEF SendReturns
<1>2. /\ cli' \in {"line", "sleep", "rest", "ended"}
      /\ cli' = "sleep" => cli = "press" /\ op # "hold"
      /\ cli' = "rest" => cli = "release" /\ op = "mash"
      /\ attached /\ cli = "press" /\ op # "hold" => cli' = "sleep"
  BY <1>1 DEF AfterSend, Raised
<1>3. /\ UNCHANGED <<channelVars, modeVars, notPaused, started, userVars, phase, shown, nap, seen>>
      /\ attached' = attached
  BY <1>1 DEF vars
<1>4. /\ server = "returned" /\ attached \in BOOLEAN
      /\ op' \in Commands \cup {"none", "push", "send"} /\ args' \in SUBSET Buttons
  BY <1>1 DEF SessionInv, SessionTypeOK, LineFollowsCommand, Inv, Types
<1>5. /\ cli' = "sleep" => op' \in {"click", "mash", "push"}
      /\ cli' = "rest" => op' = "mash"
      /\ cli' \in {"sleep", "rest"} /\ op' \in Commands => started # {}
  BY <1>1, <1>2 DEF SessionInv, LineFollowsCommand
<1>6. PressedIsAccounted'
  <2>1. CASE cli' = "sleep"
    BY <1>1, <1>2, <1>3, <2>1 DEF SessionInv, PressedIsAccounted, userVars
  <2>2. CASE cli' # "sleep"
    BY <1>1, <1>2, <1>3, <2>2 DEF SessionInv, PressedIsAccounted, userVars
  <2> QED
    BY <2>1, <2>2
<1> QED
  BY <1>1, <1>2, <1>3, <1>4, <1>5, <1>6, LineKeeps

LEMMA ExitKeeps ==
    ASSUME ProtocolAssumption, SessionAssumption, SessionInv, Exit
    PROVE  SessionInv'
<1>1. /\ cli = "line" /\ cli' = "ended" /\ attached' = FALSE
      /\ UNCHANGED <<channelVars, modeVars, notPaused, started, userVars, phase, shown, nap, seen>>
      /\ UNCHANGED <<serverVars, greeterVars, op, args, pressed, held>>
  BY DEF Exit
<1>2. /\ phase[CLI] = "idle" /\ server = "returned"
      /\ op' \in Commands \cup {"none", "push", "send"} /\ args' \in SUBSET Buttons
  BY <1>1 DEF SessionInv, SessionTypeOK, LineFollowsCommand
<1>3. PressedIsAccounted'
  BY <1>1 DEF PressedIsAccounted
<1> QED
  BY <1>1, <1>2, <1>3, LineKeeps

----------------------------------------------------------------------------
LEMMA RunsInv ==
    ASSUME SessionAssumption, SessionInv, Inv', Quiet, UNCHANGED <<serverVars, greeterVars, lineVars>>
    PROVE  SessionInv'
BY RunsKeeps DEF serverVars, SessionInv, SessionTypeOK

LEMMA ReportsInv ==
    ASSUME ProtocolAssumption, SessionAssumption, SessionInv, ReportReceived \/ ConnectionEnds
    PROVE  SessionInv'
<1>1. CASE ReportReceived
  <2>1. Inv' /\ Quiet
    BY <1>1, ReadsKeep, ReaderFailsKeeps, StutterInv, ReaderQuiet DEF ReportReceived, SessionInv
  <2> QED
    BY <1>1, <2>1, RunsKeeps DEF ReportReceived
<1>2. CASE ConnectionEnds
  <2>1. Inv' /\ Quiet
    BY <1>2, ReadEOFKeeps, ReaderQuiet DEF ConnectionEnds, SessionInv
  <2>2. received' \in BOOLEAN
    BY <1>2 DEF ConnectionEnds, SessionInv, SessionTypeOK
  <2> QED
    BY <1>2, <2>1, <2>2, RunsKeeps DEF ConnectionEnds
<1> QED
  BY <1>1, <1>2

LEMMA SessionStutter ==
    ASSUME ProtocolAssumption, SessionAssumption, SessionInv, UNCHANGED sessionVars
    PROVE  SessionInv'
<1>1. Inv' /\ Quiet
  BY StutterInv DEF sessionVars, SessionInv
<1> QED
  BY <1>1, RunsKeeps DEF sessionVars, serverVars, SessionInv, SessionTypeOK

LEMMA SessionInductive ==
    /\ SessionInit => SessionInv
    /\ SessionInv /\ [SessionNext]_sessionVars => SessionInv'
<1> USE ProtocolAssumption, SessionAssumption
<1>1. SessionInit => SessionInv
  BY SessionInitInv
<1>2. ASSUME SessionInv, SessionNext PROVE SessionInv'
  <2>0. Inv
    BY <1>2 DEF SessionInv
  <2>1. CASE Listen \/ AcceptControl \/ ConnectionMade \/ SetUpFails \/ HandshakeEnds
    BY <1>2, <2>1, SetUpKeeps
  <2>2. CASE Greet \/ FinishGreet
    BY <1>2, <2>2, GreetKeeps
  <2>3. CASE ReportReceived \/ ConnectionEnds
    BY <1>2, <2>3, ReportsInv
  <2>4. ASSUME NEW t \in Tasks, Runs(FinishWrite(t)) PROVE SessionInv'
    BY <1>2, <2>0, <2>4, FinishWriteKeeps, FinishWriteQuiet, RunsInv DEF Runs
  <2>5. ASSUME NEW w \in WriterTasks, Runs(BeginWait(w)) \/ Runs(Turn(w)) \/ Runs(Continue(w))
        PROVE  SessionInv'
    BY <1>2, <2>0, <2>5, BeginWaitKeeps, TurnKeeps, ContinueKeeps, WriterQuiet, RunsInv DEF Runs
  <2>6. ASSUME NEW u \in Users, Runs(StartWaiting(u)) \/ Runs(ReturnFromSend(u)) PROVE SessionInv'
    BY <1>2, <2>0, <2>6, StartWaitingKeeps, ReturnFromSendKeeps, UserQuiet, RunsInv DEF Runs
  <2>7. ASSUME NEW n \in 1 .. Capacity, Runs(Complete(n)) PROVE SessionInv'
    BY <1>2, <2>0, <2>7, CompleteKeeps, OtherQuiet, RunsInv DEF Runs
  <2>8. CASE Runs(CloseTransport)
    BY <1>2, <2>0, <2>8, CloseTransportKeeps, ReaderQuiet, RunsInv DEF Runs
  <2>9. CASE PauseInput \/ UnpauseInput \/ StickCommand
    BY <1>2, <2>0, <2>9, PauseKeeps, UnpauseKeeps, MoveStickKeeps, OtherQuiet, RunsInv
       DEF PauseInput, UnpauseInput, StickCommand, Runs
  <2>10. CASE Exit
    BY <1>2, <2>10, ExitKeeps
  <2>11. ASSUME NEW o \in Commands, NEW b \in Buttons, StartCommand(o, b) PROVE SessionInv'
    BY <1>2, <2>11, StartCommandKeeps
  <2>12. ASSUME NEW bs \in SUBSET Buttons, EndLine(bs) PROVE SessionInv'
    BY <1>2, <2>12, EndLineKeeps
  <2>13. CASE InputReady \/ SendReturns \/ SleepEnds
    BY <1>2, <2>13, InputReadyKeeps, SendReturnsKeeps, SleepEndsKeeps
  <2> QED
    BY <1>2, <2>1, <2>2, <2>3, <2>4, <2>5, <2>6, <2>7, <2>8, <2>9, <2>10, <2>11, <2>12, <2>13
       DEF SessionNext
<1> QED
  BY <1>1, <1>2, SessionStutter

(* The types of a session: the channel carries the writes of the protocol's*)
(* tasks and of the Greeter, the button report and the pressed buttons     *)
(* agree on the pairing menu, and only a command is inside a send.         *)
THEOREM SessionTypes == SessionSpec => []SessionTypeOK
<1>1. SessionInv => SessionTypeOK
  BY DEF SessionInv
<1> QED
  BY <1>1, SessionInductive, PTL DEF SessionSpec

(* The protocol's invariant holds with the Greeter in its channel, too.    *)
THEOREM SessionKeepsProtocol ==
    SessionSpec => [](SomeWriterFollowsMode /\ WritersSurvive /\ SenderBelongsToUser)
<1>1. SessionInv => SomeWriterFollowsMode /\ WritersSurvive /\ SenderBelongsToUser
  BY DEF SessionInv, Inv
<1> QED
  BY <1>1, SessionInductive, PTL DEF SessionSpec

(* Nothing but what the user holds is pressed when the command line is at  *)
(* its prompt, for any buttons, commands and users beside it.              *)
THEOREM PromptReleases == SessionSpec => []ReleasedAtPrompt
<1>1. SessionInv => ReleasedAtPrompt
  BY DEF SessionInv, PressedIsAccounted, ReleasedAtPrompt
<1> QED
  BY <1>1, SessionInductive, PTL DEF SessionSpec

----------------------------------------------------------------------------
(* The channel                                                             *)

(* The channel as the Greeter and the protocol's tasks share it.           *)
shared == INSTANCE ReportChannel WITH Tasks <- Tasks \cup {Greeter}

WritesAs(t) == UNCHANGED channelVars \/ channel!Begin(t) \/ channel!Send(t) \/ channel!Lose(t)

LEMMA EmitWrites ==
    ASSUME NEW w, NEW wk, Emit(w, wk)
    PROVE  WritesAs(w)
BY DEF Emit, Put, WritesAs

LEMMA ReplyWrites ==
    ASSUME AnswerSubCommand \/ (\E m \in Modes : SetInputReportMode(m))
             \/ (\E w \in WriterTasks : SetPlayerLights(w))
    PROVE  WritesAs(Reader)
BY DEF AnswerSubCommand, SetInputReportMode, SetPlayerLights, Reply, Put, WritesAs

LEMMA SendWrites ==
    ASSUME NEW u, NEW b, CallSend(u, b) \/ SendWhilePaused(u, b)
    PROVE  WritesAs(u)
BY DEF CallSend, SendWhilePaused, Put, WritesAs

LEMMA TurnWrites ==
    ASSUME NEW w, BeginWait(w) \/ Turn(w) \/ Continue(w) \/ FinishWrite(w)
    PROVE  WritesAs(w)
<1>1. CASE Turn(w) \/ Continue(w)
  BY <1>1, EmitWrites DEF Turn, Continue, WritesAs
<1>2. CASE FinishWrite(w)
  BY <1>2 DEF FinishWrite, WritesAs
<1>3. CASE BeginWait(w)
  BY <1>3 DEF BeginWait, WritesAs
<1> QED
  BY <1>1, <1>2, <1>3

(* The steps of no task's write.                                           *)
LEMMA StillChannel ==
    ASSUME \/ ReaderFails \/ ReadEOF \/ Pause \/ Unpause \/ MoveStick \/ UNCHANGED vars
           \/ \E menu \in BOOLEAN : SetButtons(menu)
           \/ \E u \in Users : StartWaiting(u) \/ ReturnFromSend(u)
    PROVE  UNCHANGED channelVars
BY DEF ReaderFails, ReadEOF, Pause, Unpause, MoveStick, vars, SetButtons, StartWaiting, ReturnFromSend

LEMMA CloseWrites ==
    ASSUME CloseTransport
    PROVE  WritesAs(Reader)
BY DEF CloseTransport, WritesAs

LEMMA ProtocolWrites ==
    ASSUME [Next]_vars
    PROVE  \/ UNCHANGED channelVars
           \/ \E t \in Tasks : WritesAs(t)
           \/ \E n \in 1 .. Capacity : channel!Complete(n)
<1>1. Reader \in Tasks /\ Users \subseteq Tasks /\ WriterTasks \subseteq Tasks
  BY DEF Tasks
<1>2. CASE \E n \in 1 .. Capacity : Complete(n)
  BY <1>2 DEF Complete
<1> QED
  BY <1>1, <1>2, ReplyWrites, SendWrites, TurnWrites, StillChannel, CloseWrites DEF Next

(* Whatever the tasks of the protocol do, also when the connection is      *)
(* lost, is what ReportChannel specifies, which Transport implements.      *)
THEOREM ProtocolUsesChannel == Spec => channel!Spec
<1>1. Init => channel!Init
  BY DEF Init
<1>2. [Next]_vars => [channel!Next]_(channel!channelVars)
  BY ProtocolWrites DEF WritesAs, channel!Next, channel!channelVars, channelVars
<1> QED
  BY <1>1, <1>2, PTL DEF Spec, channel!Spec

LEMMA GreetWrites ==
    ASSUME Greet \/ FinishGreet
    PROVE  WritesAs(Greeter)
BY DEF Greet, FinishGreet, WritesAs

LEMMA LineWrites ==
    ASSUME \/ \E o \in Commands, b \in Buttons : StartCommand(o, b)
           \/ \E bs \in SUBSET Buttons : EndLine(bs)
           \/ InputReady \/ SendReturns \/ SleepEnds \/ Exit
    PROVE  WritesAs(CLI)
<1>1. ASSUME NEW p, NEW stage, Send(p, stage)
      PROVE  WritesAs(CLI)
  <2>1. CASE \E b : CallSend(CLI, b) \/ SendWhilePaused(CLI, b)
    BY <2>1, SendWrites
  <2>2. CASE UNCHANGED channelVars
    BY <2>2 DEF WritesAs
  <2> QED
    BY <1>1, <2>1, <2>2 DEF Send
<1>2. ASSUME NEW o, NEW bs, Press(o, bs) \/ Release(o, bs) \/ Begin(o, bs)
      PROVE  WritesAs(CLI)
  BY <1>1, <1>2 DEF Press, Release, Begin
<1>3. SendReturns \/ Exit => WritesAs(CLI)
  BY DEF SendReturns, Exit, WritesAs, vars
<1>4. ASSUME NEW o, NEW b, StartCommand(o, b)
      PROVE  WritesAs(CLI)
  BY <1>2, <1>4 DEF StartCommand, WritesAs, vars
<1>5. ASSUME NEW bs, EndLine(bs)
      PROVE  WritesAs(CLI)
  BY <1>1, <1>2, <1>5 DEF EndLine
<1>6. InputReady \/ SleepEnds => WritesAs(CLI)
  BY <1>2 DEF InputReady, SleepEnds
<1> QED
  BY <1>3, <1>4, <1>5, <1>6

LEMMA SessionWrites ==
    ASSUME [SessionNext]_sessionVars
    PROVE  \/ UNCHANGED channelVars
           \/ \E t \in Tasks \cup {Greeter} : WritesAs(t)
           \/ \E n \in 1 .. Capacity : channel!Complete(n)
<1>1. Reader \in Tasks /\ CLI \in Tasks /\ Users \subseteq Tasks /\ WriterTasks \subseteq Tasks
  BY SessionAssumption DEF Tasks
<1>2. Listen \/ AcceptControl \/ ConnectionMade \/ SetUpFails \/ HandshakeEnds => UNCHANGED channelVars
  BY DEF Listen, AcceptControl, ConnectionMade, SetUpFails, HandshakeEnds, vars
<1>3. CASE ReportReceived \/ ConnectionEnds
  <2>1. \/ AnswerSubCommand \/ (\E m \in Modes : SetInputReportMode(m))
        \/ (\E w \in WriterTasks : SetPlayerLights(w))
        \/ ReaderFails \/ ReadEOF \/ UNCHANGED vars
    BY <1>3 DEF ReportReceived, ConnectionEnds
  <2> QED
    BY <1>1, <2>1, ReplyWrites, StillChannel
<1>4. CASE \/ \E t \in Tasks : Runs(FinishWrite(t))
           \/ \E w \in WriterTasks : Runs(BeginWait(w)) \/ Runs(Turn(w)) \/ Runs(Continue(w))
           \/ Runs(CloseTransport)
  BY <1>1, <1>4, TurnWrites, CloseWrites DEF Runs
<1>5. CASE \/ \E u \in Users : Runs(StartWaiting(u)) \/ Runs(ReturnFromSend(u))
           \/ PauseInput \/ UnpauseInput \/ StickCommand
  BY <1>5, StillChannel DEF Runs, PauseInput, UnpauseInput, StickCommand
<1>6. CASE \E n \in 1 .. Capacity : Runs(Complete(n))
  BY <1>6 DEF Runs, Complete
<1>7. UNCHANGED sessionVars => UNCHANGED channelVars
  BY DEF sessionVars, vars
<1> QED
  BY <1>1, <1>2, <1>3, <1>4, <1>5, <1>6, <1>7, GreetWrites, LineWrites DEF SessionNext

(* In a session the empty reports of server.py are one more writer of the  *)
(* same channel, and nothing else gets past it.                            *)
THEOREM SessionUsesChannel == SessionSpec => shared!Spec
<1>1. SessionInit => shared!Init
  BY DEF SessionInit, Init, channel!Init, shared!Init
<1>2. [SessionNext]_sessionVars => [shared!Next]_(shared!channelVars)
  BY SessionWrites
     DEF WritesAs, channel!Begin, channel!Send, channel!Lose, channel!Complete,
         shared!Begin, shared!Send, shared!Lose, shared!Complete,
         shared!Next, shared!channelVars, channelVars
<1> QED
  BY <1>1, <1>2, PTL DEF SessionSpec, shared!Spec
=============================================================================
