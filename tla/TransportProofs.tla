-------------------------- MODULE TransportProofs --------------------------
(***************************************************************************)
(* Proofs about Transport, for any number of writers, any window and any   *)
(* buffer: the types, the accounting of credits, and that the transport    *)
(* implements ReportChannel until an event of another connection is read.  *)
(*                                                                         *)
(* The window's own invariant comes from MySemaphoreProofs: every step of  *)
(* Transport leaves the window alone or is one of its steps.               *)
(***************************************************************************)
EXTENDS Transport, FiniteSetTheorems, TLAPS

W == INSTANCE MySemaphoreProofs WITH
         Tasks <- Writers, Counts <- {1}, Completions <- 1 .. Buffers, MaxDone <- 1

(* A task is in the window exactly while it is inside acquire(), where it  *)
(* asks for one credit.                                                    *)
Places ==
    \A t \in Writers :
        /\ stage[t] = "window" <=> pc[t] # "free"
        /\ pc[t] # "free" => want[t] = 1

(* The write that the loop remembers is inside sock_sendall.               *)
RegisteredSends == registered # Nobody => stage[registered] = "sending"

(* The reader, once cancelled, has nothing left that could bring it back.  *)
CancelledStays ==
    reader = "cancelled" =>
        /\ registered # Reader
        /\ stage[Reader] = "window" => pc[Reader] = "cancelled"

ReaderInv == ReaderMatchesWrite /\ CancelledStays

WindowInv == W!Inv /\ limit = FlowControl

SocketInv == RegisteredSends /\ WindowKeepsSocketFree

Inv == TypeOK /\ WindowInv /\ Places /\ FlightAccounted /\ SocketInv /\ ReaderInv

----------------------------------------------------------------------------
(* The steps of the window                                                 *)

LEMMA WindowAssumption == W!SemaphoreAssumption
  BY TransportAssumption DEF W!SemaphoreAssumption, Writers

(* A step of another task leaves a task where it is, or wakes it.          *)
Kept(S) ==
    \A s \in S :
        /\ want'[s] = want[s]
        /\ pc'[s] = "free" <=> pc[s] = "free"
        /\ pc[s] = "cancelled" => pc'[s] = "cancelled"

(* What acquire() does to the task that runs in it.                        *)
Got(t) == acquired' = acquired + 1 /\ pc'[t] = "free"

Queued(t) == acquired' = acquired /\ pc'[t] = "waiting" /\ want'[t] = 1

LEMMA WindowStep ==
    ASSUME WindowInv, [W!Next]_(W!vars)
    PROVE  W!Inv'
  BY WindowAssumption, W!Inductive DEF WindowInv

LEMMA AcquireEffect ==
    ASSUME WindowInv, NEW t \in Writers, window!Acquire(t, 1)
    PROVE  /\ WindowInv' /\ Kept(Writers \ {t})
           /\ Got(t) \/ Queued(t)
<1>1. W!Acquire(t, 1)
  BY DEF window!Acquire, window!Take, window!Enqueue, window!CheckNext, window!Live,
         window!Front, W!Acquire, W!Take, W!Enqueue, W!CheckNext, W!Live, W!Front
<1>2. W!Inv'
  BY <1>1, WindowStep DEF W!Next
<1>3. CASE W!Take(t, 1)
  <2>1. /\ acquired' = acquired + 1 /\ pc'[t] = "free"
        /\ W!OnlyWakes(pc, Writers \ {t})
        /\ UNCHANGED <<limit, want>>
    BY <1>1, <1>3, WindowAssumption, W!TakeEffect DEF WindowInv, W!Acquire
  <2> QED
    BY <1>2, <2>1 DEF WindowInv, Got, Kept, W!OnlyWakes
<1>4. CASE W!Enqueue(t, 1)
  <2>1. /\ acquired' = acquired /\ pc'[t] = "waiting" /\ want'[t] = 1
        /\ W!OnlyWakes(pc, Writers \ {t})
        /\ \A s \in Writers \ {t} : want'[s] = want[s]
        /\ UNCHANGED limit
    BY <1>4, WindowAssumption, W!EnqueueEffect DEF WindowInv
  <2> QED
    BY <1>2, <2>1 DEF WindowInv, Queued, Kept, W!OnlyWakes
<1> QED
  BY <1>1, <1>3, <1>4 DEF W!Acquire

LEMMA ResumeEffect ==
    ASSUME WindowInv, NEW t \in Writers, want[t] = 1, window!Resume(t)
    PROVE  /\ WindowInv' /\ Kept(Writers \ {t})
           /\ pc[t] = "woken"
           /\ Got(t) \/ Queued(t)
<1>1. W!Resume(t) /\ pc[t] = "woken"
  BY DEF window!Resume, window!Take, window!Enqueue, window!CheckNext, window!Live,
         window!Front, W!Resume, W!Take, W!Enqueue, W!CheckNext, W!Live, W!Front
<1>2. W!Inv'
  BY <1>1, WindowStep DEF W!Next
<1>3. CASE W!Take(t, 1)
  <2>1. /\ acquired' = acquired + 1 /\ pc'[t] = "free"
        /\ W!OnlyWakes(pc, Writers \ {t})
        /\ UNCHANGED <<limit, want>>
    BY <1>1, <1>3, WindowAssumption, W!TakeEffect DEF WindowInv
  <2> QED
    BY <1>1, <1>2, <2>1 DEF WindowInv, Got, Kept, W!OnlyWakes
<1>4. CASE W!Enqueue(t, 1)
  <2>1. /\ acquired' = acquired /\ pc'[t] = "waiting" /\ want'[t] = 1
        /\ W!OnlyWakes(pc, Writers \ {t})
        /\ \A s \in Writers \ {t} : want'[s] = want[s]
        /\ UNCHANGED limit
    BY <1>4, WindowAssumption, W!EnqueueEffect DEF WindowInv
  <2> QED
    BY <1>1, <1>2, <2>1 DEF WindowInv, Queued, Kept, W!OnlyWakes
<1> QED
  BY <1>1, <1>3, <1>4 DEF W!Resume

LEMMA CancelEffect ==
    ASSUME WindowInv, NEW t \in Writers, window!Cancel(t)
    PROVE  /\ WindowInv' /\ Kept(Writers \ {t})
           /\ pc[t] # "free" /\ pc'[t] = "cancelled"
           /\ UNCHANGED <<acquired, want>>
<1>1. W!Cancel(t)
  BY DEF window!Cancel, W!Cancel, window!Cardinality, W!Cardinality
<1>2. W!Inv'
  BY <1>1, WindowStep DEF W!Next
<1>3. /\ pc[t] # "free" /\ pc'[t] = "cancelled"
      /\ W!OnlyWakes(pc, Writers \ {t})
      /\ UNCHANGED <<acquired, limit, want>>
  BY <1>1, WindowAssumption, W!CancelEffect DEF WindowInv
<1> QED
  BY <1>2, <1>3 DEF WindowInv, Kept, W!OnlyWakes

LEMMA ResumeCancelledEffect ==
    ASSUME WindowInv, NEW t \in Writers, window!ResumeCancelled(t)
    PROVE  /\ WindowInv' /\ Kept(Writers \ {t})
           /\ pc'[t] = "free"
           /\ UNCHANGED <<acquired, want>>
<1>1. W!ResumeCancelled(t)
  BY DEF window!ResumeCancelled, window!CheckNext, window!Live, window!Front,
         W!ResumeCancelled, W!CheckNext, W!Live, W!Front
<1>2. W!Inv'
  BY <1>1, WindowStep DEF W!Next
<1>3. /\ pc'[t] = "free"
      /\ W!OnlyWakes(pc, Writers \ {t})
      /\ UNCHANGED <<acquired, limit, want>>
  BY <1>1, WindowAssumption, W!ResumeCancelledEffect DEF WindowInv
<1> QED
  BY <1>2, <1>3 DEF WindowInv, Kept, W!OnlyWakes

LEMMA ReleaseEffect ==
    ASSUME WindowInv, NEW n \in 1 .. Buffers, window!ReleaseBestEffort(n)
    PROVE  /\ WindowInv' /\ Kept(Writers)
           /\ acquired - n <= acquired' /\ acquired' <= acquired
<1>1. W!ReleaseBestEffort(n)
  BY DEF window!ReleaseBestEffort, window!GiveBack, window!CheckNext, window!Live, window!Front,
         W!ReleaseBestEffort, W!GiveBack, W!CheckNext, W!Live, W!Front
<1>2. W!Inv'
  BY <1>1, WindowStep DEF W!Next
<1>3. n \in Nat
  BY TransportAssumption
<1>4. /\ acquired - n <= acquired' /\ acquired' <= acquired
      /\ W!OnlyWakes(pc, Writers)
      /\ UNCHANGED <<limit, want>>
  BY <1>1, <1>3, WindowAssumption, W!ReleaseEffect DEF WindowInv
<1> QED
  BY <1>2, <1>4 DEF WindowInv, Kept, W!OnlyWakes

LEMMA WindowAlone ==
    ASSUME WindowInv, UNCHANGED windowVars
    PROVE  WindowInv' /\ Kept(Writers) /\ UNCHANGED <<acquired, pc, want>>
<1>1. UNCHANGED W!vars
  BY DEF windowVars, W!vars
<1>2. W!Inv'
  BY <1>1, WindowStep
<1> QED
  BY <1>2 DEF WindowInv, windowVars, Kept

----------------------------------------------------------------------------
(* The places of the tasks, and the credits they hold                      *)

Holds == {"lock", "ready", "sending"}

LEMMA Finite == IsFiniteSet(Writers)
  BY TransportAssumption, FS_AddElement DEF Writers

LEMMA HoldingFinite ==
    IsFiniteSet(Holding) /\ Cardinality(Holding) \in Nat
  BY Finite, FS_Subset, FS_CardinalityType DEF Holding

LEMMA HoldingOccupied ==
    /\ Cardinality(Holding)' \in Nat
    /\ Holding' # {} => Cardinality(Holding)' >= 1
<1>1. Holding' \subseteq Writers
  BY DEF Holding
<1>2. IsFiniteSet(Holding') /\ Cardinality(Holding') \in Nat
  BY <1>1, Finite, FS_Subset, FS_CardinalityType
<1>3. Holding' # {} => Cardinality(Holding') # 0
  BY <1>2, FS_EmptySet
<1>4. Cardinality(Holding') = Cardinality(Holding)'
  OBVIOUS
<1> QED
  BY <1>2, <1>3, <1>4

LEMMA HoldingMoves ==
    ASSUME TypeOK, NEW t \in Writers, NEW s \in Stages, At(t, s)
    PROVE  /\ Cardinality(Holding)' \in Nat
           /\ Cardinality(Holding)' =
                  Cardinality(Holding)
                      + (IF s \in Holds THEN 1 ELSE 0)
                      - (IF stage[t] \in Holds THEN 1 ELSE 0)
<1>1. /\ stage'[t] = s
      /\ \A u \in Writers \ {t} : stage'[u] = stage[u]
  BY DEF At, TypeOK
<1>2. Holding' = IF s \in Holds THEN Holding \cup {t} ELSE Holding \ {t}
  BY <1>1 DEF Holding, Holds
<1>3. t \in Holding <=> stage[t] \in Holds
  BY DEF Holding, Holds
<1>4. Cardinality(Holding \cup {t}) =
          IF t \in Holding THEN Cardinality(Holding) ELSE Cardinality(Holding) + 1
  BY HoldingFinite, FS_AddElement
<1>5. Cardinality(Holding \ {t}) =
          IF t \in Holding THEN Cardinality(Holding) - 1 ELSE Cardinality(Holding)
  BY HoldingFinite, FS_RemoveElement
<1>6. Cardinality(Holding') = Cardinality(Holding)'
  OBVIOUS
<1>7. Cardinality(Holding \ {t}) \in Nat /\ Cardinality(Holding \cup {t}) \in Nat
  BY HoldingFinite, FS_AddElement, FS_RemoveElement, FS_CardinalityType
<1> QED
  BY <1>2, <1>3, <1>4, <1>5, <1>6, <1>7, HoldingFinite

LEMMA PlacesMove ==
    ASSUME TypeOK, Places, NEW t \in Writers, NEW s \in Stages, At(t, s),
           Kept(Writers \ {t}),
           s = "window" <=> pc'[t] # "free",
           pc'[t] # "free" => want'[t] = 1
    PROVE  Places'
  BY DEF TypeOK, Places, At, Kept

LEMMA PlacesStay ==
    ASSUME Places, stage' = stage, Kept(Writers)
    PROVE  Places'
  BY DEF Places, Kept

(* No more credits are taken than there are.                               *)
LEMMA AcquiredBounded ==
    ASSUME WindowInv
    PROVE  acquired \in Nat /\ acquired <= FlowControl
  BY TransportAssumption DEF WindowInv, W!Inv, W!TypeOK, W!WindowConserved

LEMMA AcquiredBoundedNext ==
    ASSUME WindowInv'
    PROVE  acquired' \in Nat /\ acquired' <= FlowControl
<1>1. limit' = FlowControl /\ W!TypeOK' /\ W!WindowConserved'
  BY DEF WindowInv, W!Inv
<1>2. value' \in Nat /\ acquired' \in Nat /\ value' + acquired' = FlowControl
  BY <1>1 DEF W!TypeOK, W!WindowConserved
<1>3. FlowControl \in Nat
  BY TransportAssumption
<1>4. acquired' + value' = FlowControl
  BY <1>2
<1>5. acquired' \in 0 .. FlowControl
  BY <1>2, <1>3, <1>4, WindowAssumption, W!PartOfSum
<1> QED
  BY <1>5, <1>3

(* With a write past the window no more than FlowControl - 1 packets are   *)
(* under way.                                                              *)
LEMMA HolderHasRoom ==
    ASSUME Inv, ~ foreign, NEW t \in Writers, stage[t] \in Holds
    PROVE  inFlight + completed < FlowControl
<1>1. t \in Holding
  BY DEF Holding, Holds
<1>2. Cardinality(Holding) >= 1
  BY <1>1, HoldingFinite, FS_EmptySet
<1> QED
  BY <1>2, HoldingFinite, AcquiredBounded, TransportAssumption
     DEF Inv, TypeOK, FlightAccounted

----------------------------------------------------------------------------
(* How a write goes on once it may: sent, blocked or given up.             *)

Sent(t) ==
    /\ At(t, "idle") /\ inFlight < Buffers /\ inFlight' = inFlight + 1
    /\ reader' = IF t = Reader THEN "reading" ELSE reader
    /\ UNCHANGED <<registered, closing, attached>>

Blocked(t) ==
    /\ At(t, "sending") /\ inFlight = Buffers /\ registered' = t
    /\ reader' = IF t = Reader THEN "handling" ELSE reader
    /\ UNCHANGED <<inFlight, closing, attached>>

GivenUp(t) ==
    /\ At(t, "idle")
    /\ reader' \in IF t = Reader THEN {"reading", "failed"} ELSE {reader}
    /\ closing' \in {closing, "scheduled"} /\ attached' = FALSE
    /\ UNCHANGED <<inFlight, registered>>

AtLock(t) ==
    /\ At(t, "lock")
    /\ reader' = IF t = Reader THEN "handling" ELSE reader
    /\ UNCHANGED <<inFlight, registered, closing, attached>>

LEMMA SendAllOutcomes ==
    ASSUME TypeOK, NEW t \in Writers, SendAll(t)
    PROVE  Sent(t) \/ Blocked(t) \/ GivenUp(t)
  BY TransportAssumption DEF TypeOK, SendAll, Returns, Suspends, Fails, ConnectionLost, closeVars, Sent,
         Blocked, GivenUp

LEMMA AfterWindowOutcomes ==
    ASSUME TypeOK, NEW t \in Writers, AfterWindow(t)
    PROVE  Sent(t) \/ Blocked(t) \/ GivenUp(t) \/ AtLock(t)
  BY SendAllOutcomes DEF AfterWindow, Suspends, closeVars, AtLock

----------------------------------------------------------------------------
(* The parts of the invariant, step by step                                *)

linkVars == <<writeLock, sock, completed, foreign, windowMonitor, lockMonitor>>

LEMMA WindowTypes ==
    ASSUME WindowInv'
    PROVE  window!TypeOK'
  BY DEF WindowInv, W!Inv, W!TypeOK, window!TypeOK, W!PCs, window!PCs

(* A task with a credit goes on: one that held it already, or one that has *)
(* just got it.                                                            *)
LEMMA GoesOn ==
    ASSUME Inv, NEW t \in Writers,
           stage[t] # "sending",
           t = Reader => reader \in {"reading", "handling"},
           WindowInv', Kept(Writers \ {t}), pc'[t] = "free",
           acquired' = acquired + (IF stage[t] \in Holds THEN 0 ELSE 1),
           UNCHANGED linkVars,
           Sent(t) \/ Blocked(t) \/ GivenUp(t) \/ AtLock(t)
    PROVE  Inv'
<1> USE DEF Inv
<1>1. TypeOK'
  <2>1. window!TypeOK'
    BY WindowTypes
  <2>2. CASE Sent(t)
    BY <2>1, <2>2, TransportAssumption DEF TypeOK, Stages, linkVars, At, Sent
  <2>3. CASE Blocked(t)
    BY <2>1, <2>3, TransportAssumption DEF TypeOK, Stages, linkVars, At, Blocked
  <2>4. CASE GivenUp(t)
    BY <2>1, <2>4, TransportAssumption, ZenonT(60) DEF TypeOK, Stages, linkVars, At, GivenUp
  <2>5. CASE AtLock(t)
    BY <2>1, <2>5, TransportAssumption DEF TypeOK, Stages, linkVars, At, AtLock
  <2>6. Sent(t) \/ Blocked(t) \/ GivenUp(t) \/ AtLock(t)
    OBVIOUS
  <2> QED
    BY ONLY <2>2, <2>3, <2>4, <2>5, <2>6
<1>2. Places'
  BY PlacesMove DEF Stages, Sent, Blocked, GivenUp, AtLock
<1>3. FlightAccounted'
  <2>1. CASE Sent(t)
    BY <2>1, HoldingMoves, HoldingFinite, AcquiredBounded
       DEF TypeOK, FlightAccounted, Sent, Stages, Holds, linkVars
  <2>2. CASE Blocked(t)
    BY <2>2, HoldingMoves, HoldingFinite, AcquiredBounded
       DEF TypeOK, FlightAccounted, Blocked, Stages, Holds, linkVars
  <2>3. CASE GivenUp(t)
    BY <2>3, HoldingMoves, HoldingFinite, AcquiredBounded
       DEF TypeOK, FlightAccounted, GivenUp, Stages, Holds, linkVars
  <2>4. CASE AtLock(t)
    BY <2>4, HoldingMoves, HoldingFinite, AcquiredBounded
       DEF TypeOK, FlightAccounted, AtLock, Stages, Holds, linkVars
  <2> QED
    BY <2>1, <2>2, <2>3, <2>4
<1>4. RegisteredSends'
  BY TransportAssumption
     DEF TypeOK, SocketInv, RegisteredSends, At, Sent, Blocked, GivenUp, AtLock
<1>5. WindowKeepsSocketFree'
  <2> SUFFICES ASSUME ~ foreign, FlowControl <= Buffers, NEW u \in Writers
               PROVE  stage'[u] # "sending"
    BY DEF WindowKeepsSocketFree, linkVars
  <2>1. CASE Blocked(t)
    <3>1. t \in Holding'
      BY <2>1 DEF TypeOK, Blocked, At, Holding
    <3>2. Cardinality(Holding)' >= 1
      BY <3>1, HoldingOccupied
    <3>3. acquired' <= FlowControl /\ acquired' \in Nat
      BY AcquiredBoundedNext
    <3>4. inFlight' = Buffers /\ completed' \in Nat
      BY <2>1 DEF TypeOK, Blocked, linkVars
    <3>5. inFlight' + completed' + Cardinality(Holding)' <= acquired'
      BY <1>3 DEF FlightAccounted, linkVars
    <3> QED
      BY <3>2, <3>3, <3>4, <3>5, HoldingOccupied, TransportAssumption
  <2>2. CASE ~ Blocked(t)
    BY <2>2 DEF TypeOK, SocketInv, WindowKeepsSocketFree, At, Sent, GivenUp, AtLock
  <2> QED
    BY <2>1, <2>2
<1>6. ReaderInv'
  <2>1. CASE t = Reader
    BY <2>1, TransportAssumption
       DEF TypeOK, ReaderInv, ReaderMatchesWrite, CancelledStays, At, Sent, Blocked,
           GivenUp, AtLock
  <2>2. CASE t # Reader
    BY <2>2, TransportAssumption
       DEF TypeOK, ReaderInv, ReaderMatchesWrite, CancelledStays, At, Sent, Blocked,
           GivenUp, AtLock, Kept, Writers
  <2> QED
    BY <2>1, <2>2
<1> QED
  BY <1>1, <1>2, <1>3, <1>4, <1>5, <1>6 DEF SocketInv

(* A task without a credit stays in the window, or comes to it.            *)
LEMMA QueuesUp ==
    ASSUME Inv, NEW t \in Writers,
           stage[t] \in {"idle", "window"},
           t = Reader => reader \in {"reading", "handling"},
           WindowInv', Kept(Writers \ {t}), Queued(t),
           UNCHANGED linkVars, InWindow(t)
    PROVE  Inv'
<1> USE DEF Inv
<1>1. /\ At(t, "window")
      /\ reader' = IF t = Reader THEN "handling" ELSE reader
      /\ UNCHANGED <<inFlight, registered, closing, attached>>
  BY DEF InWindow, Suspends, closeVars
<1>2. TypeOK'
  BY <1>1, WindowTypes DEF TypeOK, Stages, linkVars, At
<1>3. Places'
  BY <1>1, PlacesMove DEF Stages, Queued
<1>4. FlightAccounted'
  BY <1>1, HoldingMoves, HoldingFinite, AcquiredBounded
     DEF TypeOK, FlightAccounted, Queued, Stages, Holds, linkVars
<1>5. RegisteredSends'
  BY <1>1, TransportAssumption DEF TypeOK, SocketInv, RegisteredSends, At
<1>6. WindowKeepsSocketFree'
  BY <1>1 DEF TypeOK, SocketInv, WindowKeepsSocketFree, At, linkVars
<1>7. ReaderInv'
  <2>1. CASE t = Reader
    BY <1>1, <2>1 DEF TypeOK, ReaderInv, ReaderMatchesWrite, CancelledStays, At
  <2>2. CASE t # Reader
    BY <1>1, <2>2 DEF TypeOK, ReaderInv, ReaderMatchesWrite, CancelledStays, At, Kept, Writers
  <2> QED
    BY <2>1, <2>2
<1> QED
  BY <1>2, <1>3, <1>4, <1>5, <1>6, <1>7 DEF SocketInv

(* The types of what is neither of the window nor of a write.              *)
OuterTypes ==
    /\ inFlight \in 0 .. Buffers
    /\ completed \in Nat
    /\ writeLock \in BOOLEAN
    /\ sock \in {"up", "down", "closed"}
    /\ foreign \in BOOLEAN
    /\ windowMonitor \in {"running", "stopped"}
    /\ lockMonitor \in {"listening", "sleeping", "stopped"}
    /\ closing \in {"open", "scheduled", "waiting", "closed", "aborted"}
    /\ attached \in BOOLEAN

(* A step around the writes: nothing but the credits moves, and no more    *)
(* come back than packets are reported complete.                           *)
LEMMA Around ==
    ASSUME Inv, WindowInv', Kept(Writers), OuterTypes',
           UNCHANGED <<stage, registered>>,
           foreign => foreign',
           ~ foreign' => inFlight' + completed' - acquired' <= inFlight + completed - acquired,
           acquired' \in Nat,
           \/ reader' = reader
           \/ reader = "reading" /\ reader' = "failed"
    PROVE  Inv'
<1> USE DEF Inv
<1>1. TypeOK'
  BY WindowTypes DEF TypeOK, OuterTypes, Stages
<1>2. Places'
  BY PlacesStay
<1>3. Cardinality(Holding)' = Cardinality(Holding)
  BY DEF Holding
<1>4. FlightAccounted'
  BY <1>3, HoldingFinite, AcquiredBounded DEF TypeOK, OuterTypes, FlightAccounted
<1>5. SocketInv'
  BY DEF SocketInv, RegisteredSends, WindowKeepsSocketFree, OuterTypes, TypeOK
<1>6. ReaderInv'
  BY DEF ReaderInv, ReaderMatchesWrite, CancelledStays, Kept, Writers, TypeOK
<1> QED
  BY <1>1, <1>2, <1>4, <1>5, <1>6

----------------------------------------------------------------------------
(* The actions                                                             *)

LEMMA WriteStep ==
    ASSUME Inv, NEW t \in Writers, Write(t)
    PROVE  Inv'
<1>1. /\ WindowInv' /\ Kept(Writers \ {t})
      /\ Got(t) \/ Queued(t)
  BY AcquireEffect DEF Inv, Write
<1>2. /\ stage[t] = "idle" /\ UNCHANGED linkVars
      /\ t = Reader => reader = "reading"
  BY DEF Write, linkVars
<1>3. CASE Got(t)
  <2>1. pc'[t] = "free" /\ acquired' = acquired + 1 /\ AfterWindow(t)
    BY <1>3 DEF Write, Got
  <2>2. Sent(t) \/ Blocked(t) \/ GivenUp(t) \/ AtLock(t)
    BY <2>1, AfterWindowOutcomes DEF Inv
  <2> QED
    BY <1>1, <1>2, <2>1, <2>2, GoesOn DEF Holds
<1>4. CASE Queued(t)
  <2>1. InWindow(t)
    BY <1>4 DEF Write, Queued
  <2> QED
    BY <1>1, <1>2, <1>4, <2>1, QueuesUp
<1> QED
  BY <1>1, <1>3, <1>4

LEMMA LeaveWindowStep ==
    ASSUME Inv, NEW t \in Writers, LeaveWindow(t)
    PROVE  Inv'
<1>1. stage[t] = "window" /\ UNCHANGED linkVars
  BY DEF LeaveWindow, linkVars
<1>2. want[t] = 1
  BY <1>1 DEF Inv, Places
<1>3. /\ WindowInv' /\ Kept(Writers \ {t})
      /\ pc[t] = "woken"
      /\ Got(t) \/ Queued(t)
  BY <1>2, ResumeEffect DEF Inv, LeaveWindow
<1>4. t = Reader => reader = "handling"
  BY <1>1, <1>3 DEF Inv, ReaderInv, ReaderMatchesWrite, CancelledStays
<1>5. CASE Got(t)
  <2>1. pc'[t] = "free" /\ acquired' = acquired + 1 /\ AfterWindow(t)
    BY <1>5 DEF LeaveWindow, Got
  <2>2. Sent(t) \/ Blocked(t) \/ GivenUp(t) \/ AtLock(t)
    BY <2>1, AfterWindowOutcomes DEF Inv
  <2> QED
    BY <1>1, <1>3, <1>4, <2>1, <2>2, GoesOn DEF Holds
<1>6. CASE Queued(t)
  <2>1. InWindow(t)
    BY <1>6 DEF LeaveWindow, Queued
  <2> QED
    BY <1>1, <1>3, <1>4, <1>6, <2>1, QueuesUp
<1> QED
  BY <1>3, <1>5, <1>6

LEMMA PassLockStep ==
    ASSUME Inv, NEW t \in Writers, PassLock(t)
    PROVE  Inv'
<1>1. /\ stage[t] = "ready" /\ UNCHANGED linkVars /\ UNCHANGED windowVars
      /\ t = Reader => reader = "handling"
  BY DEF PassLock, linkVars
<1>2. /\ WindowInv' /\ Kept(Writers \ {t})
      /\ UNCHANGED <<acquired, pc, want>>
  BY <1>1, WindowAlone DEF Inv, Kept
<1>3. pc'[t] = "free"
  BY <1>1, <1>2 DEF Inv, Places
<1>4. Sent(t) \/ Blocked(t) \/ GivenUp(t)
  BY SendAllOutcomes DEF Inv, PassLock
<1>5. acquired' = acquired + 0
  BY <1>2, AcquiredBounded DEF Inv
<1> QED
  BY <1>1, <1>2, <1>3, <1>4, <1>5, GoesOn DEF Holds

LEMMA SocketWritableStep ==
    ASSUME Inv, SocketWritable
    PROVE  Inv'
<1> USE DEF Inv
<1>1. PICK t \in Writers :
          /\ registered = t /\ registered' = Nobody
          /\ At(t, "idle")
          /\ t # Reader => reader' = reader
          /\ t = Reader => reader' \in {"reading", "failed"}
          /\ \/ /\ inFlight < Buffers /\ inFlight' = inFlight + 1
                /\ UNCHANGED closeVars
             \/ /\ inFlight' = inFlight
                /\ closing' \in {closing, "scheduled"} /\ attached' = FALSE
          /\ UNCHANGED <<windowVars, linkVars>>
  BY DEF SocketWritable, Returns, Fails, ConnectionLost, linkVars
<1>2. /\ WindowInv' /\ Kept(Writers \ {t})
      /\ UNCHANGED <<acquired, pc, want>>
  BY <1>1, WindowAlone DEF Kept
<1>3. stage[t] = "sending"
  BY <1>1, TransportAssumption DEF Writers, SocketInv, RegisteredSends
<1>4. TypeOK'
  <2>1. window!TypeOK' /\ stage' \in [Writers -> Stages]
    BY <1>1, <1>2, WindowTypes DEF TypeOK, At, Stages
  <2>2. inFlight' \in 0 .. Buffers /\ completed' \in Nat
    BY <1>1, TransportAssumption DEF TypeOK, linkVars
  <2>3. /\ reader' \in {"reading", "handling", "failed", "cancelled", "stopped"}
        /\ closing' \in {"open", "scheduled", "waiting", "closed", "aborted"}
        /\ attached' \in BOOLEAN
    BY <1>1 DEF TypeOK, closeVars
  <2> QED
    BY <1>1, <2>1, <2>2, <2>3 DEF TypeOK, linkVars
<1>5. Places'
  BY <1>1, <1>2, <1>3, PlacesMove DEF Stages, Places
<1>6. FlightAccounted'
  BY <1>1, <1>2, <1>3, HoldingMoves, HoldingFinite, AcquiredBounded
     DEF TypeOK, FlightAccounted, Stages, Holds, linkVars
<1>7. SocketInv'
  BY <1>1 DEF TypeOK, SocketInv, RegisteredSends, WindowKeepsSocketFree, At, linkVars
<1>8. ReaderInv'
  <2>1. CASE t = Reader
    BY <1>1, <2>1 DEF TypeOK, ReaderInv, ReaderMatchesWrite, CancelledStays, At
  <2>2. CASE t # Reader
    BY <1>1, <1>2, <2>2, TransportAssumption
       DEF TypeOK, ReaderInv, ReaderMatchesWrite, CancelledStays, At, Writers
  <2> QED
    BY <2>1, <2>2
<1> QED
  BY <1>2, <1>4, <1>5, <1>6, <1>7, <1>8

LEMMA PacketsCompleteStep ==
    ASSUME Inv, NEW n \in 1 .. Buffers, PacketsComplete(n)
    PROVE  Inv'
<1>1. /\ WindowInv' /\ Kept(Writers) /\ acquired' = acquired
  BY WindowAlone DEF Inv, PacketsComplete
<1>2. n \in Nat /\ Buffers \in Nat
  BY TransportAssumption
<1>3. OuterTypes' /\ inFlight' + completed' = inFlight + completed
  BY <1>2 DEF Inv, TypeOK, OuterTypes, PacketsComplete, closeVars
<1> QED
  BY <1>1, <1>3, Around, AcquiredBounded
     DEF Inv, TypeOK, PacketsComplete

LEMMA Difference ==
    \A i, c, n, a, b \in Int : a - n <= b => i + (c - n) - b <= i + c - a
  OBVIOUS

LEMMA ReadOwnCompletionStep ==
    ASSUME Inv, NEW n \in 1 .. Buffers, ReadOwnCompletion(n)
    PROVE  Inv'
<1>1. /\ WindowInv' /\ Kept(Writers)
      /\ acquired - n <= acquired' /\ acquired' <= acquired
  BY ReleaseEffect DEF Inv, ReadOwnCompletion
<1>2. n \in Nat /\ acquired \in Nat /\ acquired' \in Nat
  BY <1>1, AcquiredBounded, AcquiredBoundedNext, TransportAssumption DEF Inv
<1>3. OuterTypes' /\ completed' = completed - n /\ inFlight' = inFlight
  BY <1>2 DEF Inv, TypeOK, OuterTypes, ReadOwnCompletion, closeVars
<1>4. inFlight' + completed' - acquired' <= inFlight + completed - acquired
  <2>1. {n, acquired, acquired', inFlight, completed} \subseteq Int
    BY <1>2 DEF Inv, TypeOK
  <2> QED
    BY <1>1, <1>3, <2>1, Difference
<1> QED
  BY <1>1, <1>2, <1>3, <1>4, Around DEF ReadOwnCompletion

LEMMA ReadForeignCompletionStep ==
    ASSUME Inv, NEW m \in 1 .. Buffers, NEW n \in 0 .. Buffers, ReadForeignCompletion(m, n)
    PROVE  Inv'
<1>1. WindowInv' /\ Kept(Writers)
  BY ReleaseEffect DEF Inv, ReadForeignCompletion
<1>2. n \in Nat /\ acquired' \in Nat
  BY <1>1, AcquiredBoundedNext, TransportAssumption
<1>3. OuterTypes'
  <2>1. completed \in Nat /\ n <= completed /\ completed' = completed - n
    BY DEF Inv, TypeOK, ReadForeignCompletion
  <2>2. completed' \in Nat
    BY <1>2, <2>1
  <2>3. foreign' = TRUE /\ UNCHANGED <<writeLock, sock, inFlight, windowMonitor, lockMonitor, closing, attached>>
    BY DEF ReadForeignCompletion, closeVars
  <2> QED
    BY <2>2, <2>3 DEF Inv, TypeOK, OuterTypes
<1> QED
  BY <1>1, <1>2, <1>3, Around DEF ReadForeignCompletion

(* The steps that leave the window and the writes alone.                   *)
LEMMA OtherStep ==
    ASSUME Inv,
           \/ PauseWriting \/ PeerDisconnects \/ HandlerRaises \/ ReadEOF
           \/ FinishClose \/ UNCHANGED vars
    PROVE  Inv'
<1>1. UNCHANGED <<windowVars, stage, registered, inFlight, completed, foreign>>
  BY DEF PauseWriting, PeerDisconnects, HandlerRaises, ReadEOF, FinishClose, vars
<1>2. WindowInv' /\ Kept(Writers) /\ acquired' = acquired
  BY <1>1, WindowAlone DEF Inv
<1>3. OuterTypes'
  BY ZenonT(60) DEF Inv, TypeOK, OuterTypes, PauseWriting, PeerDisconnects, HandlerRaises, ReadEOF,
                    ConnectionLost, FinishClose, vars, closeVars
<1>4. \/ reader' = reader
      \/ reader = "reading" /\ reader' = "failed"
  BY DEF PauseWriting, PeerDisconnects, HandlerRaises, ReadEOF, FinishClose, vars
<1> QED
  BY <1>1, <1>2, <1>3, <1>4, Around, AcquiredBounded DEF Inv, TypeOK

LEMMA ResumeWritingStep ==
    ASSUME Inv, ResumeWriting
    PROVE  Inv'
<1> USE DEF Inv
<1>1. /\ WindowInv' /\ Kept(Writers)
      /\ UNCHANGED <<acquired, pc, want>>
  BY WindowAlone DEF ResumeWriting
<1>2. /\ stage' \in [Writers -> Stages]
      /\ \A t \in Writers :
             \/ stage'[t] = stage[t]
             \/ stage[t] = "lock" /\ stage'[t] = "ready"
  BY DEF TypeOK, ResumeWriting, Stages
<1>3. TypeOK'
  BY <1>1, <1>2, WindowTypes DEF TypeOK, ResumeWriting, closeVars
<1>4. Places'
  BY <1>1, <1>2 DEF Places
<1>5. Holding' = Holding
  BY <1>2 DEF Holding
<1>6. Cardinality(Holding)' = Cardinality(Holding)
  BY <1>5
<1>7. FlightAccounted'
  BY <1>1, <1>6 DEF FlightAccounted, ResumeWriting
<1>8. SocketInv'
  BY <1>2, TransportAssumption
     DEF TypeOK, SocketInv, RegisteredSends, WindowKeepsSocketFree, ResumeWriting
<1>9. ReaderInv'
  BY <1>1, <1>2 DEF ReaderInv, ReaderMatchesWrite, CancelledStays, ResumeWriting, Writers
<1> QED
  BY <1>1, <1>3, <1>4, <1>7, <1>8, <1>9

LEMMA StartCloseStep ==
    ASSUME Inv, StartClose
    PROVE  Inv'
<1> USE DEF Inv
<1>1. /\ WindowInv' /\ Kept(Writers \ {Reader})
      /\ UNCHANGED <<acquired, want>>
      /\ \/ pc[Reader] # "free" /\ pc'[Reader] = "cancelled"
         \/ pc' = pc /\ ~ (reader = "handling" /\ stage[Reader] = "window")
  <2>1. CASE reader = "handling" /\ stage[Reader] = "window"
    BY <2>1, CancelEffect DEF StartClose, CancelReader, Writers
  <2>2. CASE ~ (reader = "handling" /\ stage[Reader] = "window")
    BY <2>2, WindowAlone DEF StartClose, CancelReader, Kept
  <2> QED
    BY <2>1, <2>2
<1>2. /\ registered' = IF registered = Reader THEN Nobody ELSE registered
      /\ reader' = IF reader \in {"reading", "handling"} THEN "cancelled" ELSE reader
      /\ UNCHANGED <<stage, inFlight, completed, foreign>>
  BY DEF StartClose, CancelReader
<1>3. TypeOK'
  BY <1>1, <1>2, WindowTypes DEF TypeOK, StartClose
<1>4. Places'
  BY <1>1, <1>2 DEF Places, Kept
<1>5. FlightAccounted'
  BY <1>1, <1>2 DEF FlightAccounted, Holding
<1>6. SocketInv'
  BY <1>2 DEF SocketInv, RegisteredSends, WindowKeepsSocketFree
<1>7. ReaderInv'
  BY <1>1, <1>2, TransportAssumption DEF ReaderInv, ReaderMatchesWrite, CancelledStays
<1> QED
  BY <1>1, <1>3, <1>4, <1>5, <1>6, <1>7

LEMMA ReaderStopsStep ==
    ASSUME Inv, ReaderStops
    PROVE  Inv'
<1> USE DEF Inv
<1>1. /\ WindowInv' /\ Kept(Writers \ {Reader})
      /\ UNCHANGED <<acquired, want>>
      /\ pc'[Reader] = "free"
  <2>1. CASE stage[Reader] = "window"
    BY <2>1, ResumeCancelledEffect DEF ReaderStops, Writers
  <2>2. CASE stage[Reader] # "window"
    BY <2>2, WindowAlone DEF ReaderStops, Kept, Places, Writers
  <2> QED
    BY <2>1, <2>2
<1>2. /\ reader = "cancelled" /\ reader' = "stopped" /\ At(Reader, "idle")
      /\ Reader \in Writers
      /\ UNCHANGED <<registered, inFlight, completed, foreign>>
  BY DEF ReaderStops, Writers
<1>3. TypeOK'
  BY <1>1, <1>2, WindowTypes DEF TypeOK, ReaderStops, At, Stages, closeVars
<1>4. Places'
  BY <1>1, <1>2, PlacesMove DEF Stages
<1>5. FlightAccounted'
  BY <1>1, <1>2, HoldingMoves, HoldingFinite, AcquiredBounded
     DEF TypeOK, FlightAccounted, Stages, Holds
<1>6. SocketInv'
  BY <1>2 DEF TypeOK, SocketInv, RegisteredSends, WindowKeepsSocketFree, ReaderInv,
              CancelledStays, At
<1>7. ReaderInv'
  BY <1>2 DEF TypeOK, ReaderInv, ReaderMatchesWrite, CancelledStays, At
<1> QED
  BY <1>1, <1>3, <1>4, <1>5, <1>6, <1>7

LEMMA Initially == Init => Inv
<1> SUFFICES ASSUME Init PROVE Inv
  OBVIOUS
<1>1. W!Init
  BY DEF Init, window!Init, W!Init
<1>2. W!Inv
  BY <1>1, WindowAssumption, W!Initially
<1>3. WindowInv /\ acquired = 0
  BY <1>1, <1>2 DEF WindowInv, W!Init
<1>4. TypeOK
  <2>1. window!TypeOK
    BY <1>2 DEF W!Inv, W!TypeOK, window!TypeOK, W!PCs, window!PCs
  <2>2. stage \in [Writers -> Stages]
    BY DEF Init, Stages
  <2>3. inFlight \in 0 .. Buffers /\ completed \in Nat
    <3>1. Buffers \in Nat
      BY TransportAssumption
    <3> QED
      BY <3>1 DEF Init
  <2> QED
    BY <2>1, <2>2, <2>3 DEF Init, TypeOK
<1>5. Places /\ ReaderInv /\ SocketInv
  BY <1>1, TransportAssumption
     DEF Init, W!Init, Places, ReaderInv, ReaderMatchesWrite, CancelledStays, SocketInv,
         RegisteredSends, WindowKeepsSocketFree, Writers
<1>6. Holding = {}
  BY DEF Init, Holding
<1>7. FlightAccounted
  BY <1>3, <1>6, FS_EmptySet DEF Init, FlightAccounted
<1> QED
  BY <1>3, <1>4, <1>5, <1>7 DEF Inv

LEMMA Inductive == Inv /\ [Next]_vars => Inv'
<1> SUFFICES ASSUME Inv, [Next]_vars PROVE Inv'
  OBVIOUS
<1>1. ASSUME NEW t \in Writers, Write(t) \/ LeaveWindow(t) \/ PassLock(t) PROVE Inv'
  BY <1>1, WriteStep, LeaveWindowStep, PassLockStep
<1>2. ASSUME NEW n \in 1 .. Buffers, PacketsComplete(n) \/ ReadOwnCompletion(n) PROVE Inv'
  BY <1>2, PacketsCompleteStep, ReadOwnCompletionStep
<1>3. ASSUME NEW m \in 1 .. Buffers, NEW n \in 0 .. Buffers, ReadForeignCompletion(m, n)
      PROVE Inv'
  BY <1>3, ReadForeignCompletionStep
<1>4. CASE SocketWritable
  BY <1>4, SocketWritableStep
<1>5. CASE ResumeWriting
  BY <1>5, ResumeWritingStep
<1>6. CASE StartClose
  BY <1>6, StartCloseStep
<1>7. CASE ReaderStops
  BY <1>7, ReaderStopsStep
<1>8. CASE PauseWriting \/ PeerDisconnects \/ HandlerRaises \/ ReadEOF \/ FinishClose
           \/ UNCHANGED vars
  BY <1>8, OtherStep
<1> QED
  BY <1>1, <1>2, <1>3, <1>4, <1>5, <1>6, <1>7, <1>8 DEF Next

(* The invariant of the transport, for any number of writers, any window   *)
(* and any buffer.                                                         *)
THEOREM TransportInvariant == Spec => []Inv
<1> QED BY Initially, Inductive, PTL DEF Spec

(* All variables keep their types; the adapter never holds more than it    *)
(* can.                                                                    *)
THEOREM TransportTypeOK == Spec => []TypeOK
<1>1. Inv => TypeOK
  BY DEF Inv
<1> QED BY <1>1, TransportInvariant, PTL

(* Every packet under way and every write past the window has a credit.    *)
THEOREM EveryFlightHasACredit == Spec => []FlightAccounted
<1>1. Inv => FlightAccounted
  BY DEF Inv
<1> QED BY <1>1, TransportInvariant, PTL

(* A window no larger than the buffer keeps writes from blocking in the    *)
(* socket.                                                                 *)
THEOREM SocketStaysFree == Spec => []WindowKeepsSocketFree
<1>1. Inv => WindowKeepsSocketFree
  BY DEF Inv, SocketInv
<1> QED BY <1>1, TransportInvariant, PTL

(* The reader is in write() exactly while it handles a report.             *)
THEOREM ReaderHandlesOneReport == Spec => []ReaderMatchesWrite
<1>1. Inv => ReaderMatchesWrite
  BY DEF Inv, ReaderInv
<1> QED BY <1>1, TransportInvariant, PTL

----------------------------------------------------------------------------
(* The refinement: every step is a step of the channel or leaves it alone, *)
(* or reads an event of another connection.                                *)

ChannelStep == [channel!Next]_<<Busy, inFlight + completed>>

LEMMA BusyMoves ==
    ASSUME TypeOK, NEW t \in Writers, NEW s \in Stages, At(t, s)
    PROVE  Busy' = IF s = "idle" THEN Busy \ {t} ELSE Busy \cup {t}
  BY DEF TypeOK, At, Busy

(* A write that goes on sends with room in the channel, or moves.          *)
LEMMA GoesOnInChannel ==
    ASSUME Inv, NEW t \in Writers, ~ foreign,
           inFlight + completed < FlowControl, completed' = completed,
           Sent(t) \/ Blocked(t) \/ GivenUp(t) \/ AtLock(t)
    PROVE  ChannelStep
<1> USE DEF Inv
<1>1. CASE Sent(t)
  <2>1. Busy' = Busy \ {t}
    BY <1>1, BusyMoves DEF Sent, Stages
  <2>2. inFlight' + completed' = inFlight + completed + 1
    BY <1>1 DEF Sent, TypeOK
  <2>3. channel!Send(t)
    BY <2>1, <2>2 DEF channel!Send
  <2> QED
    BY <2>3 DEF ChannelStep, channel!Next
<1>2. CASE GivenUp(t)
  <2>1. Busy' = Busy \ {t} /\ inFlight' + completed' = inFlight + completed
    BY <1>2, BusyMoves DEF GivenUp, Stages
  <2>2. CASE t \in Busy
    BY <2>1, <2>2 DEF ChannelStep, channel!Next, channel!Lose
  <2>3. CASE t \notin Busy
    BY <2>1, <2>3 DEF ChannelStep
  <2> QED
    BY <2>2, <2>3
<1>3. CASE Blocked(t) \/ AtLock(t)
  <2>1. Busy' = Busy \cup {t} /\ inFlight' + completed' = inFlight + completed
    BY <1>3, BusyMoves DEF Blocked, AtLock, Stages
  <2>2. CASE t \notin Busy
    BY <2>1, <2>2 DEF ChannelStep, channel!Next, channel!Begin
  <2>3. CASE t \in Busy
    BY <2>1, <2>3 DEF ChannelStep
  <2> QED
    BY <2>2, <2>3
<1> QED
  BY <1>1, <1>2, <1>3

(* A task that just got its credit had room in the window.                 *)
LEMMA RoomWhenGot ==
    ASSUME Inv, ~ foreign, WindowInv', acquired' = acquired + 1
    PROVE  inFlight + completed < FlowControl
<1>1. acquired + 1 <= FlowControl /\ acquired \in Nat
  BY AcquiredBounded, AcquiredBoundedNext DEF Inv
<1>2. inFlight + completed <= acquired /\ inFlight \in Nat /\ completed \in Nat
  BY <1>1, HoldingFinite DEF Inv, TypeOK, FlightAccounted
<1>3. FlowControl \in Nat
  BY TransportAssumption
<1> QED
  BY <1>1, <1>2, <1>3

LEMMA QueuesUpInChannel ==
    ASSUME Inv, NEW t \in Writers, InWindow(t), completed' = completed
    PROVE  ChannelStep
<1>1. At(t, "window") /\ inFlight' = inFlight
  BY DEF InWindow, Suspends
<1>2. Busy' = Busy \cup {t}
  BY <1>1, BusyMoves DEF Inv, Stages
<1>3. CASE t \notin Busy
  BY <1>1, <1>2, <1>3 DEF ChannelStep, channel!Next, channel!Begin
<1>4. CASE t \in Busy
  BY <1>1, <1>2, <1>4 DEF ChannelStep
<1> QED
  BY <1>3, <1>4

LEMMA WriteInChannel ==
    ASSUME Inv, ~ foreign, NEW t \in Writers, Write(t) \/ LeaveWindow(t)
    PROVE  ChannelStep
<1>1. /\ WindowInv'
      /\ Got(t) \/ Queued(t)
  <2>1. CASE Write(t)
    BY <2>1, AcquireEffect DEF Inv, Write
  <2>2. CASE LeaveWindow(t)
    <3>1. want[t] = 1
      BY <2>2 DEF Inv, Places, LeaveWindow
    <3> QED
      BY <2>2, <3>1, ResumeEffect DEF Inv, LeaveWindow
  <2> QED
    BY <2>1, <2>2
<1>2. /\ completed' = completed
      /\ IF pc'[t] = "free" THEN AfterWindow(t) ELSE InWindow(t)
  BY DEF Write, LeaveWindow
<1>3. CASE Got(t)
  <2>1. inFlight + completed < FlowControl
    BY <1>1, <1>3, RoomWhenGot DEF Got
  <2>2. Sent(t) \/ Blocked(t) \/ GivenUp(t) \/ AtLock(t)
    BY <1>2, <1>3, AfterWindowOutcomes DEF Inv, Got
  <2> QED
    BY <1>2, <2>1, <2>2, GoesOnInChannel
<1>4. CASE Queued(t)
  BY <1>2, <1>4, QueuesUpInChannel DEF Queued
<1> QED
  BY <1>1, <1>3, <1>4

LEMMA PassLockInChannel ==
    ASSUME Inv, ~ foreign, NEW t \in Writers, PassLock(t)
    PROVE  ChannelStep
<1>1. stage[t] = "ready" /\ completed' = completed
  BY DEF PassLock
<1>2. inFlight + completed < FlowControl
  BY <1>1, HolderHasRoom DEF Holds
<1>3. Sent(t) \/ Blocked(t) \/ GivenUp(t)
  BY SendAllOutcomes DEF Inv, PassLock
<1> QED
  BY <1>1, <1>2, <1>3, GoesOnInChannel

LEMMA SocketWritableInChannel ==
    ASSUME Inv, ~ foreign, SocketWritable
    PROVE  ChannelStep
<1>1. PICK t \in Writers :
          /\ registered = t
          /\ At(t, "idle")
          /\ inFlight' \in {inFlight, inFlight + 1}
          /\ completed' = completed
  BY DEF SocketWritable, Returns, Fails
<1>2. stage[t] = "sending"
  BY <1>1, TransportAssumption DEF Writers, Inv, SocketInv, RegisteredSends
<1>3. inFlight + completed < FlowControl
  BY <1>2, HolderHasRoom DEF Holds
<1>4. t \in Busy /\ Busy' = Busy \ {t}
  BY <1>1, <1>2, BusyMoves DEF Inv, Stages, Busy
<1>5. CASE inFlight' = inFlight + 1
  <2>1. inFlight' + completed' = inFlight + completed + 1
    BY <1>1, <1>5 DEF Inv, TypeOK
  <2>2. channel!Send(t)
    BY <1>3, <1>4, <2>1 DEF channel!Send
  <2> QED
    BY <2>2 DEF ChannelStep, channel!Next
<1>6. CASE inFlight' = inFlight
  BY <1>1, <1>4, <1>6 DEF ChannelStep, channel!Next, channel!Lose
<1> QED
  BY <1>1, <1>5, <1>6

LEMMA ReadOwnCompletionInChannel ==
    ASSUME Inv, ~ foreign, NEW n \in 1 .. Buffers, ReadOwnCompletion(n)
    PROVE  ChannelStep
<1>1. /\ n <= completed /\ completed' = completed - n
      /\ inFlight' = inFlight /\ Busy' = Busy
  BY DEF ReadOwnCompletion, Busy
<1>2. n \in Nat /\ inFlight \in Nat /\ completed \in Nat /\ FlowControl \in Nat /\ 1 <= n
  BY TransportAssumption DEF Inv, TypeOK
<1>3. inFlight + completed <= FlowControl
  <2>1. acquired \in Nat /\ acquired <= FlowControl
    BY AcquiredBounded DEF Inv
  <2>2. inFlight + completed <= acquired
    BY <1>2, <2>1, HoldingFinite DEF Inv, FlightAccounted
  <2> QED
    BY <1>2, <2>1, <2>2
<1>4. n \in 1 .. FlowControl /\ n <= inFlight + completed
  BY <1>1, <1>2, <1>3
<1>5. inFlight' + completed' = (inFlight + completed) - n
  BY <1>1, <1>2
<1>6. channel!Complete(n)
  <2>1. n <= inFlight + completed /\ UNCHANGED Busy
    BY <1>1, <1>4
  <2> QED
    BY <2>1, <1>5 DEF channel!Complete
<1> QED
  BY <1>4, <1>6 DEF ChannelStep, channel!Next

LEMMA ReaderStopsInChannel ==
    ASSUME Inv, ReaderStops
    PROVE  ChannelStep
<1>1. Busy' = Busy \ {Reader} /\ UNCHANGED <<inFlight, completed>>
  BY BusyMoves DEF Inv, ReaderStops, Stages, Writers
<1>2. CASE Reader \in Busy
  BY <1>1, <1>2 DEF ChannelStep, channel!Next, channel!Lose, Writers
<1>3. CASE Reader \notin Busy
  BY <1>1, <1>3 DEF ChannelStep
<1> QED
  BY <1>2, <1>3

(* The steps that the channel does not see.                                *)
LEMMA OthersInChannel ==
    ASSUME Inv,
           \/ \E n \in 1 .. Buffers : PacketsComplete(n)
           \/ PauseWriting \/ ResumeWriting \/ PeerDisconnects \/ HandlerRaises
           \/ ReadEOF \/ StartClose \/ FinishClose
    PROVE  ChannelStep
<1>1. Busy' = Busy
  <2>1. CASE ResumeWriting
    BY <2>1 DEF Inv, TypeOK, ResumeWriting, Busy
  <2>2. CASE ~ ResumeWriting
    BY <2>2 DEF PacketsComplete, PauseWriting, PeerDisconnects, HandlerRaises, ReadEOF,
                StartClose, FinishClose, Busy
  <2> QED
    BY <2>1, <2>2
<1>2. inFlight' + completed' = inFlight + completed
  <2>1. CASE \E n \in 1 .. Buffers : PacketsComplete(n)
    <3>1. PICK n \in 1 .. Buffers : inFlight' = inFlight - n /\ completed' = completed + n
      BY <2>1 DEF PacketsComplete
    <3>2. n \in Int /\ inFlight \in Int /\ completed \in Int
      BY TransportAssumption DEF Inv, TypeOK
    <3> QED
      BY <3>1, <3>2
  <2>2. CASE UNCHANGED <<inFlight, completed>>
    BY <2>2
  <2> QED
    BY <2>1, <2>2 DEF PauseWriting, ResumeWriting, PeerDisconnects, HandlerRaises, ReadEOF,
                      StartClose, FinishClose
<1> QED
  BY <1>1, <1>2 DEF ChannelStep

LEMMA Refines ==
    ASSUME Inv, [Next]_vars
    PROVE  [foreign' \/ ChannelStep]_vars
<1> SUFFICES ASSUME Next, ~ foreign'
             PROVE  ChannelStep
  OBVIOUS
<1>1. ~ foreign
  BY DEF Inv, Next, Write, LeaveWindow, PassLock, SocketWritable, PacketsComplete,
         ReadOwnCompletion, ReadForeignCompletion, PauseWriting, ResumeWriting,
         PeerDisconnects, HandlerRaises, ReadEOF, StartClose, ReaderStops, FinishClose
<1>2. ASSUME NEW t \in Writers, Write(t) \/ LeaveWindow(t) \/ PassLock(t) PROVE ChannelStep
  BY <1>1, <1>2, WriteInChannel, PassLockInChannel
<1>3. CASE SocketWritable
  BY <1>1, <1>3, SocketWritableInChannel
<1>4. ASSUME NEW n \in 1 .. Buffers, ReadOwnCompletion(n) PROVE ChannelStep
  BY <1>1, <1>4, ReadOwnCompletionInChannel
<1>5. ASSUME NEW m \in 1 .. Buffers, NEW n \in 0 .. Buffers, ReadForeignCompletion(m, n)
      PROVE  ChannelStep
  BY <1>5 DEF ReadForeignCompletion
<1>6. CASE ReaderStops
  BY <1>6, ReaderStopsInChannel
<1> QED
  BY <1>2, <1>3, <1>4, <1>5, <1>6, OthersInChannel DEF Next

(* The transport implements the channel that the protocol relies on, until *)
(* an event of another connection is read.                                 *)
THEOREM TransportImplementsChannel == Spec => ImplementsChannel
<1>1. Init => channel!Init
  BY DEF Init, channel!Init, Busy
<1>2. Inv /\ [Next]_vars => [foreign' \/ ChannelStep]_vars
  BY Refines
<1>3. [foreign' \/ ChannelStep]_vars =>
          [foreign' \/ [channel!Next]_<<Busy, inFlight + completed>>]_vars
  BY DEF ChannelStep
<1> QED
  BY <1>1, <1>2, <1>3, TransportInvariant, PTL DEF Spec, ImplementsChannel

----------------------------------------------------------------------------
(* Closing                                                                 *)

(* While close() is under way the lock is shut, and nobody is left who     *)
(* could open it.                                                          *)
LockShut == IsClosing => ~ writeLock /\ lockMonitor = "stopped"

LEMMA ClosingStep ==
    ASSUME LockShut, [Next]_vars
    PROVE  LockShut' /\ (IsClosing => IsClosing')
<1>1. CASE StartClose
  BY <1>1 DEF LockShut, IsClosing, StartClose
<1>2. CASE FinishClose
  BY <1>2 DEF LockShut, IsClosing, FinishClose
<1>3. CASE closing' \in {closing} \/ (closing = "open" /\ closing' = "scheduled")
  <2>1. IsClosing <=> IsClosing'
    BY <1>3 DEF IsClosing
  <2>2. CASE PauseWriting \/ ResumeWriting
    BY <2>1, <2>2 DEF LockShut, PauseWriting, ResumeWriting
  <2>3. CASE UNCHANGED <<writeLock, lockMonitor>>
    BY <2>1, <2>3 DEF LockShut
  <2>4. PauseWriting \/ ResumeWriting \/ StartClose \/ UNCHANGED <<writeLock, lockMonitor>>
    BY DEF Next, vars, Write, LeaveWindow, PassLock, SocketWritable, PacketsComplete,
           ReadOwnCompletion, ReadForeignCompletion, PeerDisconnects, HandlerRaises,
           ReadEOF, ReaderStops, FinishClose
  <2> QED
    BY <1>1, <2>2, <2>3, <2>4, <2>1 DEF LockShut
<1>4. \/ StartClose \/ FinishClose
      \/ closing' \in {closing} \/ (closing = "open" /\ closing' = "scheduled")
  BY DEF Next, vars, closeVars, Write, LeaveWindow, AfterWindow, InWindow, PassLock, SendAll,
         Fails, ConnectionLost, SocketWritable, PacketsComplete, ReadOwnCompletion,
         ReadForeignCompletion, PauseWriting, ResumeWriting, PeerDisconnects,
         HandlerRaises, ReadEOF, ReaderStops
<1> QED
  BY <1>1, <1>2, <1>3, <1>4

LEMMA NothingPassesTheLock ==
    ASSUME Inv, LockShut, IsClosing, [Next]_vars
    PROVE  /\ PastLock' \subseteq PastLock
           /\ inFlight' > inFlight => PastLock' # PastLock
<1> USE DEF Inv
<1>1. ~ writeLock /\ lockMonitor = "stopped"
  BY DEF LockShut
<1>2. inFlight \in Int
  BY TransportAssumption DEF TypeOK
<1>3. ASSUME NEW t \in Writers, Write(t) \/ LeaveWindow(t)
      PROVE  PastLock' \subseteq PastLock /\ inFlight' = inFlight
  <2>1. /\ At(t, "lock") \/ At(t, "window")
        /\ inFlight' = inFlight
    BY <1>1, <1>3 DEF Write, LeaveWindow, AfterWindow, InWindow, Suspends
  <2> QED
    BY <2>1 DEF TypeOK, At, PastLock
<1>4. ASSUME NEW t \in Writers, PassLock(t)
      PROVE  /\ PastLock' \subseteq PastLock
             /\ inFlight' > inFlight => PastLock' # PastLock
  <2>1. stage[t] = "ready" /\ t \in PastLock
    BY <1>4 DEF PassLock, PastLock
  <2>2. Sent(t) \/ Blocked(t) \/ GivenUp(t)
    BY <1>4, SendAllOutcomes DEF PassLock
  <2>3. CASE Sent(t)
    BY <2>1, <2>3 DEF TypeOK, Sent, At, PastLock
  <2>4. CASE Blocked(t) \/ GivenUp(t)
    BY <1>2, <2>1, <2>4 DEF TypeOK, Blocked, GivenUp, At, PastLock
  <2> QED
    BY <2>2, <2>3, <2>4
<1>5. CASE SocketWritable
  <2>1. PICK t \in Writers : registered = t /\ At(t, "idle")
    BY <1>5 DEF SocketWritable, Returns, Fails
  <2>2. stage[t] = "sending"
    BY <2>1, TransportAssumption DEF Writers, SocketInv, RegisteredSends
  <2> QED
    BY <2>1, <2>2 DEF TypeOK, At, PastLock
<1>6. CASE \E n \in 1 .. Buffers : PacketsComplete(n)
  <2>1. PICK n \in 1 .. Buffers : inFlight' = inFlight - n /\ stage' = stage
    BY <1>6 DEF PacketsComplete
  <2>2. n \in Int /\ n > 0
    BY TransportAssumption
  <2> QED
    BY <1>2, <2>1, <2>2 DEF PastLock
<1>7. CASE ReaderStops
  BY <1>2, <1>7 DEF TypeOK, ReaderStops, At, PastLock
<1>8. CASE UNCHANGED <<stage, inFlight>>
  BY <1>2, <1>8 DEF PastLock
<1>9. \/ \E t \in Writers : Write(t) \/ LeaveWindow(t) \/ PassLock(t)
      \/ SocketWritable \/ ReaderStops
      \/ \E n \in 1 .. Buffers : PacketsComplete(n)
      \/ UNCHANGED <<stage, inFlight>>
  BY <1>1 DEF Next, vars, ReadOwnCompletion, ReadForeignCompletion, PauseWriting,
              ResumeWriting, PeerDisconnects, HandlerRaises, ReadEOF, StartClose, FinishClose
<1> QED
  BY <1>2, <1>3, <1>4, <1>5, <1>6, <1>7, <1>8, <1>9

(* Once close() has begun the lock is shut for good, and only writes that  *)
(* were past it already still go out.                                      *)
THEOREM CloseIsForGood == Spec => ClosedForWriting
<1>1. Init => LockShut
  BY DEF Init, LockShut, IsClosing
<1>2. LockShut /\ [Next]_vars => LockShut'
  BY ClosingStep
<1>3. Inv /\ LockShut /\ LockShut' /\ [Next]_vars =>
          [IsClosing => /\ IsClosing'
                        /\ ~ writeLock'
                        /\ PastLock' \subseteq PastLock
                        /\ inFlight' > inFlight => PastLock' # PastLock]_vars
  BY ClosingStep, NothingPassesTheLock DEF LockShut
<1> QED
  BY <1>1, <1>2, <1>3, TransportInvariant, PTL DEF Spec, ClosedForWriting

----------------------------------------------------------------------------
(* The window as a whole                                                   *)

(* Every step of the transport leaves the window alone or is one of the    *)
(* semaphore's own.                                                        *)
LEMMA WindowSteps ==
    ASSUME [Next]_vars
    PROVE  [W!Next]_(W!vars)
<1> USE DEF W!CheckNext, W!Live, W!Front, window!CheckNext, window!Live, window!Front
<1>1. ASSUME NEW t \in Writers, window!Acquire(t, 1) PROVE W!Next
  BY <1>1 DEF window!Acquire, window!Take, window!Enqueue, W!Acquire, W!Take, W!Enqueue, W!Next
<1>2. ASSUME NEW t \in Writers, window!Resume(t) PROVE W!Next
  BY <1>2 DEF window!Resume, window!Take, window!Enqueue, W!Resume, W!Take, W!Enqueue, W!Next
<1>3. ASSUME NEW t \in Writers, window!Cancel(t) PROVE W!Next
  BY <1>3 DEF window!Cancel, W!Cancel, window!Cardinality, W!Cardinality, W!Next
<1>4. ASSUME NEW t \in Writers, window!ResumeCancelled(t) PROVE W!Next
  BY <1>4 DEF window!ResumeCancelled, W!ResumeCancelled, W!Next
<1>5. ASSUME NEW n \in 1 .. Buffers, window!ReleaseBestEffort(n) PROVE W!Next
  BY <1>5 DEF window!ReleaseBestEffort, window!GiveBack, W!ReleaseBestEffort, W!GiveBack, W!Next
<1> USE DEF Writers
<1>6. \/ \E t \in Writers : \/ window!Acquire(t, 1) \/ window!Resume(t)
                           \/ window!Cancel(t) \/ window!ResumeCancelled(t)
      \/ \E n \in 1 .. Buffers : window!ReleaseBestEffort(n)
      \/ UNCHANGED windowVars
  <2>1. CASE \E t \in Writers : Write(t) \/ LeaveWindow(t) \/ PassLock(t)
    BY <2>1 DEF Write, LeaveWindow, PassLock
  <2>2. CASE \/ \E n \in 1 .. Buffers : ReadOwnCompletion(n)
             \/ \E m \in 1 .. Buffers, n \in 0 .. Buffers : ReadForeignCompletion(m, n)
    BY <2>2 DEF ReadOwnCompletion, ReadForeignCompletion
  <2>3. CASE StartClose \/ ReaderStops
    BY <2>3 DEF StartClose, ReaderStops, CancelReader
  <2>4. CASE \/ SocketWritable \/ PauseWriting \/ ResumeWriting \/ PeerDisconnects
             \/ HandlerRaises \/ ReadEOF \/ FinishClose \/ UNCHANGED vars
             \/ \E n \in 1 .. Buffers : PacketsComplete(n)
    BY <2>4 DEF SocketWritable, PauseWriting, ResumeWriting, PeerDisconnects, HandlerRaises,
                ReadEOF, FinishClose, PacketsComplete, vars
  <2> QED
    BY <2>1, <2>2, <2>3, <2>4 DEF Next
<1>7. UNCHANGED windowVars => UNCHANGED W!vars
  BY DEF windowVars, W!vars
<1> QED
  BY <1>1, <1>2, <1>3, <1>4, <1>5, <1>6, <1>7

(* The transport uses its window by the semaphore's methods only, so that  *)
(* what MySemaphoreProofs proves of the semaphore holds inside it.         *)
THEOREM TransportUsesWindow == Spec => W!Spec
<1>1. Init => W!Init
  BY DEF Init, window!Init, W!Init
<1>2. [Next]_vars => [W!Next]_(W!vars)
  BY WindowSteps
<1> QED
  BY <1>1, <1>2, PTL DEF Spec, W!Spec

(* Writers that wait for a credit are woken in the order they came: of two *)
(* the later is never woken first, through losses, cancellations and       *)
(* completions of other connections (acquire() and _check_next() under     *)
(* write()).                                                               *)
THEOREM WritersAreWokenInOrder == Spec => W!FirstComeFirstWoken
  BY TransportUsesWindow, WindowAssumption, W!FirstComersAreWokenFirst, PTL

(* And none is forgotten: when there is a credit for the oldest write that *)
(* waits, a task is ready that will wake it.                               *)
THEOREM NoWriterIsForgotten == Spec => []W!NoLostWakeup
  BY TransportUsesWindow, WindowAssumption, W!WakeupsAreNotLost, PTL
=============================================================================
