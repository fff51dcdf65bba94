----------------------------- MODULE Transport -----------------------------
(***************************************************************************)
(* L2CAP_Transport of joycontrol/transport.py: write() through the flow    *)
(* control window, the write lock and the socket; the two HCI monitors     *)
(* that move the window and the lock; the reader; close().                 *)
(*                                                                         *)
(* Everything runs on one asyncio event loop, so an action is one run of a *)
(* task from a suspension point to the next.  The window is MySemaphore,   *)
(* every write asks it for one credit.  The protocol above is seen only    *)
(* through what it does to the transport: tasks call write(), report_      *)
(* received() may answer with a write or raise, and connection_lost()      *)
(* schedules close() the first time and may raise.                         *)
(***************************************************************************)
EXTENDS Integers, Sequences, FiniteSets

CONSTANTS
    Callers,      \* the tasks that call write(), apart from the reader
    Reader,       \* the reader task, which answers sub commands
    FlowControl,  \* flow_control
    Buffers,      \* the packets the socket takes before it blocks
    Nobody,
    Done          \* see MySemaphore

ASSUME TransportAssumption ==
    /\ IsFiniteSet(Callers)
    /\ Reader \notin Callers
    /\ {Nobody, Done} \cap (Callers \cup {Reader}) = {}
    /\ FlowControl \in Nat \ {0}
    /\ Buffers \in Nat \ {0}

Writers == Callers \cup {Reader}

VARIABLES
    value, acquired, limit, waiters, pc, want,  \* _write_window
    stage,          \* where each task is inside write()
    writeLock,      \* _write_lock.is_set()
    registered,     \* whose sock_sendall the loop calls when the socket is writable
    sock,           \* _itr_sock: "up", "down" (the peer is gone), "closed"
    inFlight,       \* packets handed to the adapter that it has not completed
    completed,      \* completed packets whose event the window monitor has not read
    foreign,        \* the monitor has read an event of another connection
    windowMonitor,  \* _write_window_thread
    lockMonitor,    \* _write_lock_thread
    reader,         \* _read_thread
    closing,        \* where close() is
    attached        \* the protocol still holds this transport

windowVars == <<value, acquired, limit, waiters, pc, want>>
closeVars == <<closing, attached>>
vars == <<windowVars, stage, writeLock, registered, sock, inFlight, completed,
          foreign, windowMonitor, lockMonitor, reader, closeVars>>

Stages == {"idle", "window", "lock", "ready", "sending"}

window == INSTANCE MySemaphore WITH
              Tasks <- Writers, Counts <- {1}, Completions <- 1 .. Buffers, MaxDone <- 1

Init ==
    /\ window!Init
    /\ stage = [t \in Writers |-> "idle"]
    /\ writeLock = TRUE
    /\ registered = Nobody
    /\ sock = "up"
    /\ inFlight = 0
    /\ completed = 0
    /\ foreign = FALSE
    /\ windowMonitor = "running"
    /\ lockMonitor = "listening"
    /\ reader = "reading"
    /\ closing = "open"
    /\ attached = TRUE

----------------------------------------------------------------------------
(* write()                                                                 *)

At(t, s) == stage' = [stage EXCEPT ![t] = s]

(* write() returns to its caller; the reader goes on to the next report.   *)
Returns(t) ==
    /\ At(t, "idle")
    /\ reader' = IF t = Reader THEN "reading" ELSE reader

(* Faulty: the reader does not wait for report_received. *)
SuspendsUnawaited(t, s) == At(t, s) /\ UNCHANGED reader

(* It suspends inside; for the reader that is inside report_received.      *)
Suspends(t, s) ==
    /\ At(t, s)
    /\ reader' = IF t = Reader THEN "handling" ELSE reader

(* connection_lost() of the protocol, as far as the transport can see.     *)
ConnectionLost ==
    /\ attached' = FALSE
    /\ closing' = IF attached /\ closing = "open" THEN "scheduled" ELSE closing

(* It raises when a task waits for the state to be sent; an exception ends *)
(* the reader for good.                                                    *)
Fails(t) ==
    /\ ConnectionLost
    /\ \/ Returns(t)
       \/ /\ attached
          /\ At(t, "idle")
          /\ reader' = IF t = Reader THEN "failed" ELSE reader

(* sock_sendall tries once.  If the socket would block, the loop remembers *)
(* this write as the one to continue, in place of any other it remembered. *)
SendAll(t) ==
    \/ /\ sock = "up" /\ inFlight < Buffers
       /\ inFlight' = inFlight + 1
       /\ Returns(t)
       /\ UNCHANGED <<registered, closeVars>>
    \/ /\ sock = "up" /\ inFlight >= Buffers
       /\ registered' = t
       /\ Suspends(t, "sending")
       /\ UNCHANGED <<inFlight, closeVars>>
    \/ /\ sock # "up"
       /\ Fails(t)
       /\ UNCHANGED <<inFlight, registered>>

(* With its credit the task passes the lock, or waits for it.              *)
AfterWindow(t) ==
    \/ /\ writeLock
       /\ SendAll(t)
    \/ /\ ~ writeLock
       /\ Suspends(t, "lock")
       /\ UNCHANGED <<inFlight, registered, closeVars>>

InWindow(t) ==
    /\ Suspends(t, "window")
    /\ UNCHANGED <<inFlight, registered, closeVars>>

(* The reader answers what it read, which it may have read after the peer  *)
(* went: data that had arrived before.                                     *)
Write(t) ==
    /\ stage[t] = "idle"
    /\ t = Reader => reader = "reading"
    /\ window!Acquire(t, 1)
    /\ IF pc'[t] = "free" THEN AfterWindow(t) ELSE InWindow(t)
    /\ UNCHANGED <<writeLock, sock, completed, foreign, windowMonitor, lockMonitor>>

(* The task was woken in acquire(): it has its credit now or queues again. *)
LeaveWindow(t) ==
    /\ stage[t] = "window"
    /\ window!Resume(t)
    /\ IF pc'[t] = "free" THEN AfterWindow(t) ELSE InWindow(t)
    /\ UNCHANGED <<writeLock, sock, completed, foreign, windowMonitor, lockMonitor>>

(* Event.wait() returns without a second look at the lock.                 *)
PassLock(t) ==
    /\ stage[t] = "ready"
    /\ t = Reader => reader = "handling"
    /\ SendAll(t)
    /\ UNCHANGED <<windowVars, writeLock, sock, completed, foreign, windowMonitor, lockMonitor>>

(* The loop finds the socket writable, or broken, and calls the write it   *)
(* remembers.                                                              *)
SocketWritable ==
    \E t \in Writers :
        /\ registered = t
        /\ registered' = Nobody
        /\ \/ /\ sock = "up" /\ inFlight < Buffers
              /\ inFlight' = inFlight + 1
              /\ Returns(t)
              /\ UNCHANGED closeVars
           \/ /\ sock = "down"
              /\ Fails(t)
              /\ UNCHANGED inFlight
        /\ UNCHANGED <<windowVars, writeLock, sock, completed, foreign, windowMonitor, lockMonitor>>

----------------------------------------------------------------------------
(* The adapter and the monitors                                            *)

(* Bound: the completions whose event the monitor has not read yet.        *)
MaxUnread == Buffers + FlowControl

PacketsComplete(n) ==
    /\ sock = "up"
    /\ n <= inFlight
    /\ completed + n <= MaxUnread
    /\ inFlight' = inFlight - n
    /\ completed' = completed + n
    /\ UNCHANGED <<windowVars, stage, writeLock, registered, sock, foreign, windowMonitor,
                   lockMonitor, reader, closeVars>>

(* Faulty: the count is read one too high. *)
ReadOwnCompletionTooMany(n) ==
    /\ windowMonitor = "running"
    /\ n <= completed
    /\ completed' = completed - n
    /\ window!ReleaseBestEffort(n + 1)
    /\ UNCHANGED <<stage, writeLock, registered, sock, inFlight, foreign, windowMonitor,
                   lockMonitor, reader, closeVars>>

(* Faulty: the count is read one too low. *)
ReadOwnCompletionTooFew(n) ==
    /\ windowMonitor = "running"
    /\ n <= completed
    /\ completed' = completed - n
    /\ window!ReleaseBestEffort(n - 1)
    /\ UNCHANGED <<stage, writeLock, registered, sock, inFlight, foreign, windowMonitor,
                   lockMonitor, reader, closeVars>>

(* Number Of Completed Packets of this connection.                         *)
ReadOwnCompletion(n) ==
    /\ windowMonitor = "running"
    /\ n <= completed
    /\ completed' = completed - n
    /\ window!ReleaseBestEffort(n)
    /\ UNCHANGED <<stage, writeLock, registered, sock, inFlight, foreign, windowMonitor,
                   lockMonitor, reader, closeVars>>

(* The event of an adapter with other connections: the monitor reads the   *)
(* count of the first handle, here m packets of another one, whoever's it  *)
(* is, and not the counts of further handles, here n packets of its own.   *)
ReadForeignCompletion(m, n) ==
    /\ windowMonitor = "running"
    /\ n <= completed
    /\ completed' = completed - n
    /\ foreign' = TRUE
    /\ window!ReleaseBestEffort(m)
    /\ UNCHANGED <<stage, writeLock, registered, sock, inFlight, windowMonitor,
                   lockMonitor, reader, closeVars>>

(* Max Slots Change below 5: pause_writing(), then a sleep of a second.    *)
PauseWriting ==
    /\ lockMonitor = "listening"
    /\ writeLock' = FALSE
    /\ lockMonitor' = "sleeping"
    /\ UNCHANGED <<windowVars, stage, registered, sock, inFlight, completed,
                   foreign, windowMonitor, reader, closeVars>>

(* resume_writing() sets the lock, which makes everyone waiting for it     *)
(* ready; they run later.                                                  *)
ResumeWriting ==
    /\ lockMonitor = "sleeping"
    /\ writeLock' = TRUE
    /\ lockMonitor' = "listening"
    /\ stage' = [t \in Writers |-> IF stage[t] = "lock" THEN "ready" ELSE stage[t]]
    /\ UNCHANGED <<windowVars, registered, sock, inFlight, completed, foreign, windowMonitor,
                   reader, closeVars>>

----------------------------------------------------------------------------
(* The reader and the end of the connection                                *)

PeerDisconnects ==
    /\ sock = "up"
    /\ sock' = "down"
    /\ UNCHANGED <<windowVars, stage, writeLock, registered, inFlight, completed,
                   foreign, windowMonitor, lockMonitor, reader, closeVars>>

(* report_received() raises, or getpeername() once the peer is gone, and   *)
(* nothing catches that.  (A report without an answer changes nothing      *)
(* here; one with an answer is Write(Reader).)                             *)
HandlerRaises ==
    /\ reader = "reading"
    /\ reader' = "failed"
    /\ UNCHANGED <<windowVars, stage, writeLock, registered, sock, inFlight, completed,
                   foreign, windowMonitor, lockMonitor, closeVars>>

(* read() gets no data: connection_lost(), which may raise.  If it does    *)
(* not, read() gets no data again, and never suspends, until getpeername() *)
(* of a socket without a peer raises.                                      *)
ReadEOF ==
    /\ reader = "reading" /\ sock = "down"
    /\ ConnectionLost
    /\ reader' = "failed"
    /\ UNCHANGED <<windowVars, stage, writeLock, registered, sock, inFlight, completed,
                   foreign, windowMonitor, lockMonitor>>

(* task.cancel() of the reader, wherever it is.                            *)
CancelReader ==
    /\ IF reader \in {"reading", "handling"}
       THEN reader' = "cancelled"
       ELSE reader' = reader
    /\ IF reader = "handling" /\ stage[Reader] = "window"
       THEN window!Cancel(Reader)
       ELSE UNCHANGED windowVars
    /\ registered' = IF registered = Reader THEN Nobody ELSE registered

(* Faulty: the lock monitor is left running. *)
StartCloseKeepingMonitor ==
    /\ closing \in {"open", "scheduled"}
    /\ writeLock' = FALSE
    /\ CancelReader
    /\ windowMonitor' = "stopped"
    /\ closing' = IF reader = "failed" THEN "aborted" ELSE "waiting"
    /\ UNCHANGED <<stage, sock, inFlight, completed, foreign, lockMonitor, attached>>

(* close() up to its first await, run by the task that connection_lost()   *)
(* scheduled or by the application: the lock is shut and the three tasks   *)
(* are cancelled.  Awaiting a reader that ended with an exception raises   *)
(* that exception out of close().                                          *)
StartClose ==
    /\ closing \in {"open", "scheduled"}
    /\ writeLock' = FALSE
    /\ CancelReader
    /\ windowMonitor' = "stopped"
    /\ lockMonitor' = "stopped"
    /\ closing' = IF reader = "failed" THEN "aborted" ELSE "waiting"
    /\ UNCHANGED <<stage, sock, inFlight, completed, foreign, attached>>

(* The CancelledError reaches the reader; a credit it holds stays taken.   *)
ReaderStops ==
    /\ reader = "cancelled"
    /\ reader' = "stopped"
    /\ At(Reader, "idle")
    /\ IF stage[Reader] = "window"
       THEN window!ResumeCancelled(Reader)
       ELSE UNCHANGED windowVars
    /\ UNCHANGED <<writeLock, registered, sock, inFlight, completed, foreign, windowMonitor,
                   lockMonitor, closeVars>>

(* The rest of close(): the sockets, then connection_lost(None), whose     *)
(* close() finds the transport closing already.                            *)
FinishClose ==
    /\ closing = "waiting"
    /\ reader = "stopped"
    /\ sock' = "closed"
    /\ closing' = "closed"
    /\ attached' = FALSE
    /\ UNCHANGED <<windowVars, stage, writeLock, registered, inFlight, completed,
                   foreign, windowMonitor, lockMonitor, reader>>

----------------------------------------------------------------------------
Next ==
    \/ \E t \in Writers : Write(t) \/ LeaveWindow(t) \/ PassLock(t)
    \/ SocketWritable
    \/ \E n \in 1 .. Buffers : PacketsComplete(n) \/ ReadOwnCompletion(n)
    \/ \E m \in 1 .. Buffers, n \in 0 .. Buffers : ReadForeignCompletion(m, n)
    \/ PauseWriting
    \/ ResumeWriting
    \/ PeerDisconnects
    \/ HandlerRaises
    \/ ReadEOF
    \/ StartClose
    \/ ReaderStops
    \/ FinishClose

Spec == Init /\ [][Next]_vars

(* The loop runs every task that is ready and the sleep of the monitor     *)
(* ends; the adapter completes what it was given and reports it.           *)
Fairness ==
    /\ \A t \in Writers : WF_vars(LeaveWindow(t)) /\ WF_vars(PassLock(t))
    /\ WF_vars(SocketWritable)
    /\ WF_vars(\E n \in 1 .. Buffers : PacketsComplete(n))
    /\ WF_vars(\E n \in 1 .. Buffers : ReadOwnCompletion(n))
    /\ WF_vars(ResumeWriting)
    /\ WF_vars(closing = "scheduled" /\ StartClose)
    /\ WF_vars(ReaderStops)
    /\ WF_vars(FinishClose)

FairSpec == Spec /\ Fairness

----------------------------------------------------------------------------
(* The protocol's view of all this.                                        *)
Busy == {t \in Writers : stage[t] # "idle"}

channel == INSTANCE ReportChannel WITH
               Tasks <- Writers,
               Capacity <- FlowControl,
               busy <- Busy,
               flight <- inFlight + completed

(* As long as no event of another connection was read, the transport       *)
(* implements the channel: write() sends only with a credit, and a credit  *)
(* comes back only for a packet of its own that is complete.               *)
ImplementsChannel ==
    /\ channel!Init
    /\ [][foreign' \/ [channel!Next]_<<Busy, inFlight + completed>>]_vars

(* The types; the counters of the window are natural numbers.              *)
TypeOK ==
    /\ window!TypeOK
    /\ stage \in [Writers -> Stages]
    /\ writeLock \in BOOLEAN
    /\ registered \in Writers \cup {Nobody}
    /\ sock \in {"up", "down", "closed"}
    /\ inFlight \in 0 .. Buffers
    /\ completed \in Nat
    /\ foreign \in BOOLEAN
    /\ windowMonitor \in {"running", "stopped"}
    /\ lockMonitor \in {"listening", "sleeping", "stopped"}
    /\ reader \in {"reading", "handling", "failed", "cancelled", "stopped"}
    /\ closing \in {"open", "scheduled", "waiting", "closed", "aborted"}
    /\ attached \in BOOLEAN

(* The tasks that hold a credit for a packet they have not sent yet.       *)
Holding == {t \in Writers : stage[t] \in {"lock", "ready", "sending"}}

(* Until an event of another connection is read, every packet under way,   *)
(* every completion not yet read and every write past the window has a     *)
(* credit of its own, so at most FlowControl packets are ever under way    *)
(* (write() against _write_window_monitor()).                              *)
FlightAccounted ==
    ~ foreign => inFlight + completed + Cardinality(Holding) <= acquired

(* And then a window no larger than the socket's buffer keeps every write  *)
(* from blocking in sock_sendall, where two of them would collide.         *)
WindowKeepsSocketFree ==
    (~ foreign /\ FlowControl <= Buffers) => \A t \in Writers : stage[t] # "sending"

(* The reader answers one report at a time: it is inside write() exactly   *)
(* while report_received() is pending or being cancelled.                  *)
ReaderMatchesWrite ==
    /\ reader = "handling" => stage[Reader] # "idle"
    /\ stage[Reader] # "idle" => reader \in {"handling", "cancelled"}

(* Once close() has begun, only writes that were already past the lock     *)
(* still go out: nothing opens the lock again, not even a monitor that was *)
(* asleep.                                                                 *)
IsClosing == closing \in {"waiting", "closed", "aborted"}

PastLock == {t \in Writers : stage[t] \in {"ready", "sending"}}

ClosedForWriting ==
    [][IsClosing => /\ IsClosing'
                    /\ ~ writeLock'
                    /\ PastLock' \subseteq PastLock
                    /\ inFlight' > inFlight => PastLock' # PastLock]_vars

(* While the connection is up and open, tasks that keep writing keep       *)
(* getting packets out: no pause, window or wakeup blocks them for ever,   *)
(* but for credits that the events of other connections do away with.      *)
WritesGoOn ==
    \/ <>(sock # "up" \/ closing # "open" \/ foreign)
    \/ []<>(\A t \in Writers : stage[t] = "idle")
    \/ []<><<inFlight' > inFlight>>_vars

(* "Stops reader and closes underlying socket" (close(), line 210).        *)
CloseClosesSocket ==
    IsClosing ~> sock = "closed"
=============================================================================
