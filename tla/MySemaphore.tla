---------------------------- MODULE MySemaphore ----------------------------
(***************************************************************************)
(* MyBoundedSemaphore of joycontrol/my_semaphore.py, the flow-control      *)
(* window of the Bluetooth transport.  Everything runs on one asyncio      *)
(* event loop: the code between two suspensions is atomic, so one action   *)
(* is one run of a coroutine from a suspension point to the next.          *)
(*                                                                         *)
(* A task inside acquire() is suspended on the future of its request.      *)
(* _check_next gives that future a result, which only makes the task       *)
(* READY ("woken"): other tasks, newcomers included, may run before it and *)
(* take the credits it was woken for.  A request whose future is done      *)
(* because its task was cancelled stays in the list until it reaches the   *)
(* head; it is the entry Done.                                             *)
(***************************************************************************)
EXTENDS Integers, Sequences, FiniteSets

CONSTANTS
    Tasks,        \* the coroutines that use the semaphore
    Counts,       \* the numbers of credits a task asks for
    Completions,  \* the numbers of credits one release gives back
    FlowControl,  \* the initial limit
    MaxDone,      \* bound: cancelled requests in the list at one time
    Done          \* the list entry of a request whose future is done

ASSUME SemaphoreAssumption ==
    /\ Counts \subseteq Nat
    /\ Completions \subseteq Nat
    /\ FlowControl \in Nat
    /\ MaxDone \in Nat
    /\ Done \notin Tasks

VARIABLES
    value,     \* _value
    acquired,  \* _aquired
    limit,     \* _limit
    waiters,   \* _waiters, each request named by its task
    pc,        \* where each task is inside acquire()
    want       \* the count of each task's last request

vars == <<value, acquired, limit, waiters, pc, want>>

PCs == {"free", "waiting", "woken", "cancelled"}

Init ==
    /\ value = FlowControl
    /\ acquired = 0
    /\ limit = FlowControl
    /\ waiters = <<>>
    /\ pc = [t \in Tasks |-> "free"]
    /\ want = [t \in Tasks |-> 0]

----------------------------------------------------------------------------
(* The requests still waited for, and the first of them.                   *)
Live(ws) == {i \in DOMAIN ws : ws[i] # Done}

Front(ws) == CHOOSE i \in Live(ws) : \A j \in Live(ws) : i <= j

(* Faulty: pops the youngest request. *)
CheckNextYoungest(v, ws, p) ==
    IF Live(ws) = {}
    THEN waiters' = <<>> /\ pc' = p
    ELSE LET i == CHOOSE i \in Live(ws) : \A j \in Live(ws) : j <= i IN
         IF v >= want[ws[i]]
         THEN /\ waiters' = [k \in 1 .. Len(ws) - 1 |-> IF k < i THEN ws[k] ELSE ws[k + 1]]
              /\ pc' = [p EXCEPT ![ws[i]] = "woken"]
         ELSE waiters' = ws /\ pc' = p

(* Faulty: a request that is done is popped, but ends the loop. *)
CheckNextStopsAtDone(v, ws, p) ==
    IF ws # <<>> /\ Head(ws) = Done
    THEN waiters' = Tail(ws) /\ pc' = p
    ELSE IF ws # <<>> /\ v >= want[Head(ws)]
    THEN waiters' = Tail(ws) /\ pc' = [p EXCEPT ![Head(ws)] = "woken"]
    ELSE waiters' = ws /\ pc' = p

(* Faulty: wakes the first live request without popping it. *)
CheckNextKeepsWoken(v, ws, p) ==
    IF Live(ws) = {}
    THEN waiters' = <<>> /\ pc' = p
    ELSE LET i == Front(ws) IN
         /\ waiters' = SubSeq(ws, i, Len(ws))
         /\ pc' = IF v >= want[ws[i]] THEN [p EXCEPT ![ws[i]] = "woken"] ELSE p

(* _check_next with _value = v, _waiters = ws and the tasks at p: pop every *)
(* request at the head that is done, then the first live one if the         *)
(* credits suffice for it, and wake its task.  At most one task is woken;   *)
(* it calls _check_next again when it has taken its credits.                *)
CheckNext(v, ws, p) ==
    IF Live(ws) = {}
    THEN waiters' = <<>> /\ pc' = p
    ELSE LET i == Front(ws) IN
         IF v >= want[ws[i]]
         THEN /\ waiters' = SubSeq(ws, i + 1, Len(ws))
              /\ pc' = [p EXCEPT ![ws[i]] = "woken"]
         ELSE /\ waiters' = SubSeq(ws, i, Len(ws))
              /\ pc' = p

(* The end of acquire: the credits are taken and the next waiter gets its  *)
(* chance.                                                                 *)
Take(t, c) ==
    /\ value' = value - c
    /\ acquired' = acquired + c
    /\ CheckNext(value - c, waiters, [pc EXCEPT ![t] = "free"])
    /\ UNCHANGED <<limit, want>>

(* Another turn of the loop in acquire: a new request at the end.          *)
Enqueue(t, c) ==
    /\ waiters' = Append(waiters, t)
    /\ pc' = [pc EXCEPT ![t] = "waiting"]
    /\ want' = [want EXCEPT ![t] = c]
    /\ UNCHANGED <<value, acquired, limit>>

Acquire(t, c) ==
    /\ pc[t] = "free"
    /\ \/ value >= c /\ Take(t, c)
       \/ value < c /\ Enqueue(t, c)

(* Faulty: a woken task takes the credits without another look at them. *)
ResumeUnchecked(t) ==
    /\ pc[t] = "woken"
    /\ Take(t, want[t])

(* A woken task runs.  The credits may be gone: then it queues again,      *)
(* behind everybody else.                                                  *)
Resume(t) ==
    /\ pc[t] = "woken"
    /\ \/ value >= want[t] /\ Take(t, want[t])
       \/ value < want[t] /\ Enqueue(t, want[t])

(* task.cancel() on a task inside acquire: its future is cancelled, or, if *)
(* that has its result already, the task is marked to be cancelled.        *)
Cancel(t) ==
    /\ \/ /\ pc[t] = "waiting"
          /\ Cardinality({i \in DOMAIN waiters : waiters[i] = Done}) < MaxDone
          /\ waiters' = [i \in DOMAIN waiters |->
                            IF waiters[i] = t THEN Done ELSE waiters[i]]
       \/ pc[t] = "woken" /\ UNCHANGED waiters
    /\ pc' = [pc EXCEPT ![t] = "cancelled"]
    /\ UNCHANGED <<value, acquired, limit, want>>

(* Faulty: the cancelled task does not pass the wakeup on. *)
ResumeCancelledSilently(t) ==
    /\ pc[t] = "cancelled"
    /\ pc' = [pc EXCEPT ![t] = "free"]
    /\ UNCHANGED <<value, acquired, limit, waiters, want>>

(* The except branch of acquire: the wakeup is passed on.                  *)
ResumeCancelled(t) ==
    /\ pc[t] = "cancelled"
    /\ CheckNext(value, waiters, [pc EXCEPT ![t] = "free"])
    /\ UNCHANGED <<value, acquired, limit, want>>

(* MySemaphore.release, once the bounded release let the count through.    *)
GiveBack(n) ==
    /\ value' = value + n
    /\ acquired' = acquired - n
    /\ CheckNext(value + n, waiters, pc)
    /\ UNCHANGED <<limit, want>>

(* release(n): ValueError above the limit, which changes nothing.          *)
Release(n) ==
    /\ value + n <= limit
    /\ GiveBack(n)

(* Faulty: no truncation. *)
ReleaseBestEffortUnbounded(n) == GiveBack(n)

(* release(n, best_effort=True): what exceeds the limit is dropped.  With  *)
(* more credits than the limit the remaining count is negative, which the  *)
(* inner release refuses.                                                  *)
ReleaseBestEffort(n) ==
    LET count == IF value + n > limit THEN limit - value ELSE n IN
    /\ count >= 0
    /\ GiveBack(count)

----------------------------------------------------------------------------
(* What the transport uses: acquire, cancellation and release.             *)
Next ==
    \/ \E t \in Tasks : \/ \E c \in Counts : Acquire(t, c)
                       \/ Resume(t)
                       \/ Cancel(t)
                       \/ ResumeCancelled(t)
    \/ \E n \in Completions : Release(n) \/ ReleaseBestEffort(n)

Spec == Init /\ [][Next]_vars

(* The event loop runs every task that is ready, and the controller        *)
(* completes every packet it was given, so credits keep coming back.       *)
GiveBackSome == acquired > 0 /\ \E n \in Completions : ReleaseBestEffort(n)

Fairness ==
    /\ \A t \in Tasks : WF_vars(Resume(t)) /\ WF_vars(ResumeCancelled(t))
    /\ WF_vars(GiveBackSome)

FairSpec == Spec /\ Fairness

----------------------------------------------------------------------------
(* The types; neither counter of the class becomes negative.               *)
TypeOK ==
    /\ value \in Nat
    /\ acquired \in Nat
    /\ limit \in Nat
    /\ waiters \in Seq(Tasks \cup {Done})
    /\ pc \in [Tasks -> PCs]
    /\ want \in [Tasks -> Counts \cup {0}]

(* Acquiring, releasing too much at a time and cancelling neither create   *)
(* nor lose a credit, and none is handed out that is not there (the        *)
(* _value/_aquired pair of acquire and both release methods).              *)
WindowConserved ==
    /\ value + acquired = limit
    /\ value \in 0 .. limit

(* A task sleeps in acquire exactly when one request in the list is its    *)
(* own: no request is dropped with its task asleep, none outlives the wait *)
(* (append, pop and cancel of _waiters).                                   *)
QueueMatchesSleepers ==
    \A t \in Tasks :
        /\ pc[t] = "waiting" => \E i \in DOMAIN waiters : waiters[i] = t
        /\ \A i \in DOMAIN waiters :
               waiters[i] = t =>
                  /\ pc[t] = "waiting"
                  /\ \A j \in DOMAIN waiters : waiters[j] = t => i = j

(* Whenever the credits would do for the oldest live request, some task is *)
(* ready that will wake it: one that gets its own credits, or one that was *)
(* cancelled; both end in _check_next.                                     *)
NoLostWakeup ==
    (Live(waiters) # {} /\ value >= want[waiters[Front(waiters)]]) =>
        \E t \in Tasks : \/ pc[t] = "cancelled"
                         \/ pc[t] = "woken" /\ want[t] <= value

(* The tasks asleep keep their order in the list, and only the first of    *)
(* them is woken (_check_next pops at the head).                           *)
Ahead(ws, s, t) ==
    \E i, j \in DOMAIN ws : i < j /\ ws[i] = s /\ ws[j] = t

FirstComeFirstWoken ==
    [][\A s, t \in Tasks :
         (Ahead(waiters, s, t) /\ pc'[s] = "waiting") =>
            /\ pc'[t] # "woken"
            /\ pc'[t] = "waiting" => Ahead(waiters', s, t)]_vars

(* With requests for one credit each, no task sleeps in acquire for ever.  *)
(* (Being woken is not yet getting the credit: another task may take it.)  *)
EveryWaiterIsWoken == \A t \in Tasks : pc[t] = "waiting" ~> pc[t] # "waiting"

=============================================================================
