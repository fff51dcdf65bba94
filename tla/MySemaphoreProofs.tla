------------------------- MODULE MySemaphoreProofs -------------------------
(***************************************************************************)
(* The invariants of MySemaphore hold for every set of tasks, every counts *)
(* and every limit.  The conjunction is inductive: NoLostWakeup speaks of  *)
(* the task named by the first live request, so it needs the types, and    *)
(* QueueMatchesSleepers, which says that waking that task leaves no other  *)
(* request of it behind.                                                   *)
(***************************************************************************)
EXTENDS MySemaphore, SequenceTheorems, WellFoundedInduction, TLAPS

Entries == Tasks \cup {Done}

(* QueueMatchesSleepers of any list and any places of the tasks.           *)
Matches(ws, p) ==
    \A t \in Tasks :
        /\ p[t] = "waiting" => \E i \in DOMAIN ws : ws[i] = t
        /\ \A i \in DOMAIN ws :
               ws[i] = t =>
                  /\ p[t] = "waiting"
                  /\ \A j \in DOMAIN ws : ws[j] = t => i = j

(* The tasks themselves will see to the first live request.                *)
Attended(v, ws, p) ==
    (Live(ws) # {} /\ v >= want[ws[Front(ws)]]) =>
        \E t \in Tasks : \/ p[t] = "cancelled"
                         \/ p[t] = "woken" /\ want[t] <= v

Inv == TypeOK /\ WindowConserved /\ QueueMatchesSleepers /\ NoLostWakeup

----------------------------------------------------------------------------
LEMMA Least ==
    ASSUME NEW S \in SUBSET Nat, S # {}
    PROVE  \E m \in S : \A k \in S : m <= k
<1> DEFINE R == OpToRel(<, Nat)
<1>1. IsWellFoundedOn(R, Nat)
  BY NatLessThanWellFounded
<1>2. \E m \in S : \A k \in S : ~ (<<k, m>> \in R)
  <2> HIDE DEF R
  <2> QED BY <1>1, WFMin
<1>3. \A k, m \in Nat : <<k, m>> \in R <=> k < m
  BY DEF OpToRel
<1>4. \E m \in S : \A k \in S : ~ (k < m)
  <2> HIDE DEF R
  <2> QED BY <1>2, <1>3, Zenon
<1> QED BY <1>4

LEMMA FrontIsFirst ==
    ASSUME NEW ws \in Seq(Entries), Live(ws) # {}
    PROVE  /\ Front(ws) \in 1 .. Len(ws)
           /\ ws[Front(ws)] \in Tasks
           /\ \A j \in Live(ws) : Front(ws) <= j
<1>1. Live(ws) \in SUBSET Nat
  BY DEF Live
<1>2. \E m \in Live(ws) : \A k \in Live(ws) : m <= k
  BY <1>1, Least
<1>3. Front(ws) \in Live(ws) /\ \A j \in Live(ws) : Front(ws) <= j
  BY <1>2 DEF Front
<1> QED BY <1>3, ElementOfSeq DEF Live, Entries

LEMMA FrontIsUnique ==
    ASSUME NEW ws \in Seq(Entries), NEW i \in Live(ws),
           \A j \in Live(ws) : i <= j
    PROVE  Front(ws) = i
<1>1. Front(ws) \in Live(ws) /\ Front(ws) \in Nat /\ Front(ws) <= i
  BY FrontIsFirst, ElementOfSeq DEF Live, Entries, Front
<1> QED BY <1>1 DEF Live

(* A request at the end does not change which request is the first, unless *)
(* it is the only one.                                                     *)
LEMMA FrontOfAppend ==
    ASSUME NEW ws \in Seq(Entries), NEW t \in Tasks,
           NEW as, as = Append(ws, t)
    PROVE  /\ as \in Seq(Entries)
           /\ Live(as) # {}
           /\ Live(ws) = {} => as[Front(as)] = t
           /\ Live(ws) # {} => as[Front(as)] = ws[Front(ws)]
<1>1. /\ as \in Seq(Entries)
      /\ Len(as) = Len(ws) + 1
      /\ \A i \in 1 .. Len(ws) : as[i] = ws[i]
      /\ as[Len(ws) + 1] = t
      /\ Len(ws) \in Nat
      /\ DOMAIN as = 1 .. Len(as)
      /\ DOMAIN ws = 1 .. Len(ws)
  BY AppendProperties, LenProperties DEF Entries
<1>2. Len(ws) + 1 \in Live(as)
  BY <1>1, SemaphoreAssumption DEF Live
<1>3. \A i \in 1 .. Len(ws) : i \in Live(as) <=> i \in Live(ws)
  BY <1>1 DEF Live
<1>4. CASE Live(ws) = {}
  <2>1. \A j \in Live(as) : Len(ws) + 1 <= j
    BY <1>1, <1>3, <1>4 DEF Live
  <2>2. Front(as) = Len(ws) + 1
    BY <1>1, <1>2, <2>1, FrontIsUnique
  <2> QED BY <1>1, <1>2, <1>4, <2>2
<1>5. CASE Live(ws) # {}
  <2>1. Front(ws) \in 1 .. Len(ws) /\ \A j \in Live(ws) : Front(ws) <= j
    BY <1>5, FrontIsFirst
  <2>2. Front(ws) \in Live(as)
    <3>1. Front(ws) \in Live(ws)
      BY <1>5, FrontIsFirst, SemaphoreAssumption DEF Live
    <3> QED BY <2>1, <3>1, <1>3
  <2>3. \A j \in Live(as) : Front(ws) <= j
    BY <1>1, <1>3, <2>1 DEF Live
  <2>4. Front(as) = Front(ws)
    BY <1>1, <2>2, <2>3, FrontIsUnique
  <2> QED BY <1>1, <1>2, <1>5, <2>1, <2>4
<1> QED BY <1>4, <1>5

(* What _check_next leaves when the first live request has to wait.        *)
LEMMA FrontOfRest ==
    ASSUME NEW ws \in Seq(Entries), Live(ws) # {},
           NEW rest, rest = SubSeq(ws, Front(ws), Len(ws))
    PROVE  rest[Front(rest)] = ws[Front(ws)]
<1> DEFINE i == Front(ws)
<1>1. i \in 1 .. Len(ws) /\ ws[i] \in Tasks
  BY FrontIsFirst
<1>2. \A k \in i .. Len(ws) : ws[k] \in Entries
  BY <1>1, ElementOfSeq
<1> HIDE DEF i
<1>3. /\ rest \in Seq(Entries)
      /\ Len(rest) = Len(ws) - i + 1
      /\ rest[1] = ws[i]
      /\ DOMAIN rest = 1 .. Len(rest)
  <2>1. Len(ws) \in Nat
    BY LenProperties
  <2>2. /\ rest \in Seq(Entries)
        /\ Len(rest) = Len(ws) - i + 1
        /\ \A k \in 1 .. Len(ws) - i + 1 : rest[k] = ws[i + k - 1]
    BY <1>1, <1>2, <2>1, SubSeqProperties DEF i
  <2>3. 1 \in 1 .. Len(ws) - i + 1 /\ i + 1 - 1 = i
    BY <1>1, <2>1
  <2> QED BY <2>2, <2>3, LenProperties
<1>4. 1 \in Live(rest)
  <2>1. 1 \in DOMAIN rest
    BY <1>1, <1>3
  <2> QED BY <1>1, <1>3, <2>1, SemaphoreAssumption DEF Live
<1>5. \A j \in Live(rest) : 1 <= j
  BY <1>3 DEF Live
<1>6. Front(rest) = 1
  BY <1>3, <1>4, <1>5, FrontIsUnique
<1> QED BY <1>3, <1>6 DEF i

(* _check_next keeps the list and the sleeping tasks together, and leaves  *)
(* no first request asleep that could be served.                           *)
LEMMA CheckNextAttends ==
    ASSUME NEW v \in Nat, NEW ws \in Seq(Entries), NEW p \in [Tasks -> PCs],
           want \in [Tasks -> Nat],
           Matches(ws, p), CheckNext(v, ws, p)
    PROVE  /\ waiters' \in Seq(Entries)
           /\ pc' \in [Tasks -> PCs]
           /\ Matches(waiters', pc')
           /\ Attended(v, waiters', pc')
<1>0. Len(ws) \in Nat /\ DOMAIN ws = 1 .. Len(ws)
  BY LenProperties
<1>1. CASE Live(ws) = {}
  <2>1. waiters' = <<>> /\ pc' = p
    BY <1>1 DEF CheckNext
  <2>2. \A t \in Tasks : p[t] # "waiting"
    BY <1>1, SemaphoreAssumption DEF Matches, Live
  <2>3. DOMAIN waiters' = {}
    BY <2>1
  <2>4. waiters' \in Seq(Entries)
    BY <2>1, EmptySeq
  <2> QED BY <2>1, <2>2, <2>3, <2>4 DEF Matches, Attended, Live
<1>2. CASE Live(ws) # {}
  <2> DEFINE i == Front(ws)
  <2>1. i \in 1 .. Len(ws) /\ ws[i] \in Tasks
    BY <1>2, FrontIsFirst
  <2>2. \A k \in 1 .. Len(ws) : ws[k] \in Entries
    BY ElementOfSeq
  <2>3. \A k \in 1 .. Len(ws) : ws[k] \in Tasks => k >= i
    BY <1>0, <1>2, FrontIsFirst, SemaphoreAssumption DEF Live
  <2>4. CASE v >= want[ws[i]]
    <3>1. waiters' = SubSeq(ws, i + 1, Len(ws)) /\ pc' = [p EXCEPT ![ws[i]] = "woken"]
      BY <1>2, <2>4 DEF CheckNext
    <3> HIDE DEF i
    <3>2. /\ waiters' \in Seq(Entries)
          /\ Len(waiters') = Len(ws) - i
          /\ \A k \in 1 .. Len(ws) - i : waiters'[k] = ws[i + k]
          /\ DOMAIN waiters' = 1 .. Len(waiters')
      <4>1. /\ waiters' \in Seq(Entries)
            /\ Len(waiters') = IF i + 1 <= Len(ws) THEN Len(ws) - (i + 1) + 1 ELSE 0
            /\ \A k \in 1 .. Len(ws) - (i + 1) + 1 : waiters'[k] = ws[i + 1 + k - 1]
        BY <1>0, <2>1, <2>2, <3>1, SubSeqProperties
      <4>2. Len(waiters') = Len(ws) - i /\ Len(ws) - (i + 1) + 1 = Len(ws) - i
        <5>1. Len(waiters') = IF i + 1 <= Len(ws) THEN Len(ws) - (i + 1) + 1 ELSE 0
          BY <4>1
        <5>2. i \in Int /\ i <= Len(ws) /\ Len(ws) \in Int
          BY <1>0, <2>1
        <5> QED BY <5>1, <5>2
      <4>3. \A k \in 1 .. Len(ws) - i : i + 1 + k - 1 = i + k
        BY <1>0, <2>1
      <4>4. \A k \in 1 .. Len(ws) - i : waiters'[k] = ws[i + k]
        BY <4>1, <4>2, <4>3
      <4>5. DOMAIN waiters' = 1 .. Len(waiters')
        BY <4>1, LenProperties
      <4> QED BY <4>1, <4>2, <4>4, <4>5
    <3>3. /\ pc' \in [Tasks -> PCs]
          /\ pc'[ws[i]] = "woken"
          /\ \A t \in Tasks : t # ws[i] => pc'[t] = p[t]
      BY <2>1, <3>1 DEF PCs
    <3>4. Matches(waiters', pc')
      <4> SUFFICES ASSUME NEW t \in Tasks
                   PROVE  /\ pc'[t] = "waiting" => \E k \in DOMAIN waiters' : waiters'[k] = t
                          /\ \A k \in DOMAIN waiters' :
                                 waiters'[k] = t =>
                                    /\ pc'[t] = "waiting"
                                    /\ \A j \in DOMAIN waiters' : waiters'[j] = t => k = j
        BY DEF Matches
      <4>1. ASSUME pc'[t] = "waiting"
            PROVE  \E k \in DOMAIN waiters' : waiters'[k] = t
        <5>1. t # ws[i] /\ p[t] = "waiting"
          BY <3>3, <4>1
        <5>2. PICK k \in 1 .. Len(ws) : ws[k] = t
          BY <1>0, <5>1 DEF Matches
        <5>3. k > i
          BY <2>1, <2>3, <5>1, <5>2
        <5>4. k - i \in 1 .. Len(ws) - i /\ i + (k - i) = k
          BY <1>0, <2>1, <5>3
        <5> QED BY <3>2, <5>2, <5>4
      <4>2. ASSUME NEW k \in DOMAIN waiters', waiters'[k] = t
            PROVE  /\ pc'[t] = "waiting"
                   /\ \A j \in DOMAIN waiters' : waiters'[j] = t => k = j
        <5>1. k \in 1 .. Len(ws) - i /\ i + k \in 1 .. Len(ws) /\ ws[i + k] = t
          BY <1>0, <2>1, <3>2, <4>2
        <5>2. p[t] = "waiting" /\ \A j \in 1 .. Len(ws) : ws[j] = t => i + k = j
          BY <1>0, <5>1 DEF Matches
        <5>3. t # ws[i]
          BY <1>0, <2>1, <5>1, <5>2
        <5>4. ASSUME NEW j \in DOMAIN waiters', waiters'[j] = t
              PROVE  k = j
          <6>1. j \in 1 .. Len(ws) - i /\ i + j \in 1 .. Len(ws) /\ ws[i + j] = t
            BY <1>0, <2>1, <3>2, <5>4
          <6> QED BY <1>0, <2>1, <5>1, <5>2, <6>1
        <5> QED BY <3>3, <5>2, <5>3, <5>4
      <4> QED BY <4>1, <4>2
    <3>5. Attended(v, waiters', pc')
      BY <2>1, <2>4, <3>3 DEF Attended, i
    <3> QED BY <3>2, <3>3, <3>4, <3>5
  <2>5. CASE ~ (v >= want[ws[i]])
    <3>1. waiters' = SubSeq(ws, i, Len(ws)) /\ pc' = p
      BY <1>2, <2>5 DEF CheckNext
    <3>2. waiters'[Front(waiters')] = ws[i]
      BY <1>2, <3>1, FrontOfRest
    <3>3. Attended(v, waiters', pc')
      BY <2>5, <3>2 DEF Attended
    <3> HIDE DEF i
    <3>4. /\ waiters' \in Seq(Entries)
          /\ Len(waiters') = Len(ws) - i + 1
          /\ \A k \in 1 .. Len(ws) - i + 1 : waiters'[k] = ws[i + k - 1]
          /\ DOMAIN waiters' = 1 .. Len(waiters')
      <4>1. /\ waiters' \in Seq(Entries)
            /\ Len(waiters') = IF i <= Len(ws) THEN Len(ws) - i + 1 ELSE 0
            /\ \A k \in 1 .. Len(ws) - i + 1 : waiters'[k] = ws[i + k - 1]
        BY <1>0, <2>1, <2>2, <3>1, SubSeqProperties
      <4> QED BY <1>0, <2>1, <4>1, LenProperties
    <3>5. Matches(waiters', p)
      <4> SUFFICES ASSUME NEW t \in Tasks
                   PROVE  /\ p[t] = "waiting" => \E k \in DOMAIN waiters' : waiters'[k] = t
                          /\ \A k \in DOMAIN waiters' :
                                 waiters'[k] = t =>
                                    /\ p[t] = "waiting"
                                    /\ \A j \in DOMAIN waiters' : waiters'[j] = t => k = j
        BY DEF Matches
      <4>1. ASSUME p[t] = "waiting"
            PROVE  \E k \in DOMAIN waiters' : waiters'[k] = t
        <5>1. PICK k \in 1 .. Len(ws) : ws[k] = t
          BY <1>0, <4>1 DEF Matches
        <5>2. k >= i
          BY <2>3, <5>1
        <5>3. k - i + 1 \in 1 .. Len(ws) - i + 1 /\ i + (k - i + 1) - 1 = k
          BY <1>0, <2>1, <5>2
        <5> QED BY <3>4, <5>1, <5>3
      <4>2. ASSUME NEW k \in DOMAIN waiters', waiters'[k] = t
            PROVE  /\ p[t] = "waiting"
                   /\ \A j \in DOMAIN waiters' : waiters'[j] = t => k = j
        <5>1. k \in 1 .. Len(ws) - i + 1 /\ i + k - 1 \in 1 .. Len(ws) /\ ws[i + k - 1] = t
          BY <1>0, <2>1, <3>4, <4>2, SMTT(30)
        <5>2. p[t] = "waiting" /\ \A j \in 1 .. Len(ws) : ws[j] = t => i + k - 1 = j
          BY <1>0, <5>1 DEF Matches
        <5>3. ASSUME NEW j \in DOMAIN waiters', waiters'[j] = t
              PROVE  k = j
          <6>1. j \in 1 .. Len(ws) - i + 1 /\ i + j - 1 \in 1 .. Len(ws) /\ ws[i + j - 1] = t
            BY <1>0, <2>1, <3>4, <5>3
          <6> QED BY <1>0, <2>1, <5>1, <5>2, <6>1
        <5> QED BY <5>2, <5>3
      <4> QED BY <4>1, <4>2
    <3> QED BY <3>1, <3>3, <3>4, <3>5
  <2> QED BY <2>4, <2>5
<1> QED BY <1>1, <1>2

LEMMA WantsAreNumbers == TypeOK => want \in [Tasks -> Nat]
<1>1. \A c \in Counts \cup {0} : c \in Nat
  BY SemaphoreAssumption
<1> QED BY <1>1 DEF TypeOK

LEMMA PartOfSum == \A a, b, c \in Nat : a + b = c => a \in 0 .. c
  OBVIOUS

(* The same for the whole of a step that ends in _check_next: v credits    *)
(* are left and the tasks are at p.                                        *)
LEMMA AttendedStep ==
    ASSUME Inv,
           NEW v \in Nat, NEW p \in [Tasks -> PCs], Matches(waiters, p),
           CheckNext(v, waiters, p),
           value' = v, acquired' \in Nat, value' + acquired' = limit,
           UNCHANGED <<limit, want>>
    PROVE  Inv'
<1>1. want \in [Tasks -> Nat] /\ waiters \in Seq(Entries)
  BY WantsAreNumbers DEF Inv, TypeOK, Entries
<1>2. /\ waiters' \in Seq(Entries)
      /\ pc' \in [Tasks -> PCs]
      /\ Matches(waiters', pc')
      /\ Attended(v, waiters', pc')
  BY <1>1, CheckNextAttends
<1>3. TypeOK'
  BY <1>2 DEF Inv, TypeOK, Entries
<1>4. WindowConserved'
  <2>1. value' \in Nat /\ acquired' \in Nat /\ limit' \in Nat
    BY DEF Inv, TypeOK
  <2>2. value' + acquired' = limit'
    OBVIOUS
  <2>3. value' \in 0 .. limit'
    BY <2>1, <2>2, PartOfSum
  <2> QED BY <2>2, <2>3 DEF WindowConserved
<1>5. QueueMatchesSleepers'
  BY <1>2 DEF QueueMatchesSleepers, Matches
<1>6. NoLostWakeup'
  BY <1>2 DEF NoLostWakeup, Attended
<1> QED BY <1>3, <1>4, <1>5, <1>6 DEF Inv

LEMMA TakeStep ==
    ASSUME Inv, NEW t \in Tasks, NEW c \in Nat, pc[t] # "waiting",
           value >= c, Take(t, c)
    PROVE  Inv'
<1> DEFINE p == [pc EXCEPT ![t] = "free"]
<1>1. p \in [Tasks -> PCs] /\ \A s \in Tasks : p[s] = "waiting" <=> pc[s] = "waiting"
  BY DEF Inv, TypeOK, PCs
<1>2. Matches(waiters, p)
  <2> HIDE DEF p
  <2> QED BY <1>1 DEF Inv, QueueMatchesSleepers, Matches
<1>3. value - c \in Nat /\ value' = value - c /\ acquired' = acquired + c
  BY DEF Take, Inv, TypeOK
<1>4. acquired' \in Nat /\ value' + acquired' = limit
  BY <1>3 DEF Inv, TypeOK, WindowConserved
<1>5. CheckNext(value - c, waiters, p) /\ limit' = limit /\ want' = want
  BY DEF Take
<1> HIDE DEF p
<1> QED BY <1>1, <1>2, <1>3, <1>4, <1>5, AttendedStep

LEMMA EnqueueStep ==
    ASSUME Inv, NEW t \in Tasks, NEW c \in Nat, pc[t] \in {"free", "woken"},
           pc[t] = "woken" => want[t] = c, c \in Counts \cup {0},
           value < c, Enqueue(t, c)
    PROVE  Inv'
<1>1. /\ waiters \in Seq(Entries)
      /\ waiters' = Append(waiters, t)
      /\ DOMAIN waiters = 1 .. Len(waiters)
      /\ Len(waiters) \in Nat
  BY LenProperties DEF Inv, TypeOK, Entries, Enqueue
<1>2. /\ waiters' \in Seq(Entries)
      /\ Live(waiters) = {} => waiters'[Front(waiters')] = t
      /\ Live(waiters) # {} => waiters'[Front(waiters')] = waiters[Front(waiters)]
  BY <1>1, FrontOfAppend
<1>3. /\ \A i \in 1 .. Len(waiters) : waiters'[i] = waiters[i]
      /\ waiters'[Len(waiters) + 1] = t
      /\ DOMAIN waiters' = 1 .. Len(waiters) + 1
  BY <1>1, <1>2, AppendProperties, LenProperties DEF Entries
<1>4. /\ pc' \in [Tasks -> PCs] /\ want' \in [Tasks -> Counts \cup {0}]
      /\ pc'[t] = "waiting" /\ want'[t] = c
      /\ \A s \in Tasks : s # t => pc'[s] = pc[s] /\ want'[s] = want[s]
      /\ value' = value /\ acquired' = acquired /\ limit' = limit
  BY DEF Enqueue, Inv, TypeOK, PCs
<1>5. TypeOK' /\ WindowConserved'
  BY <1>2, <1>4 DEF Inv, TypeOK, WindowConserved, Entries
<1>6. \A i \in DOMAIN waiters : waiters[i] # t
  BY DEF Inv, QueueMatchesSleepers
<1>7. QueueMatchesSleepers'
  <2> SUFFICES ASSUME NEW s \in Tasks
               PROVE  /\ pc'[s] = "waiting" => \E i \in DOMAIN waiters' : waiters'[i] = s
                      /\ \A i \in DOMAIN waiters' :
                             waiters'[i] = s =>
                                /\ pc'[s] = "waiting"
                                /\ \A j \in DOMAIN waiters' : waiters'[j] = s => i = j
    BY DEF QueueMatchesSleepers
  <2>1. CASE s = t
    BY <1>1, <1>3, <1>4, <1>6, <2>1
  <2>2. CASE s # t
    <3>1. /\ pc[s] = "waiting" => \E i \in DOMAIN waiters : waiters[i] = s
          /\ \A i \in DOMAIN waiters :
                 waiters[i] = s =>
                    /\ pc[s] = "waiting"
                    /\ \A j \in DOMAIN waiters : waiters[j] = s => i = j
      BY DEF Inv, QueueMatchesSleepers
    <3>2. pc'[s] = pc[s]
      BY <1>4, <2>2
    <3>3. \A i \in DOMAIN waiters' : waiters'[i] = s => i \in DOMAIN waiters
      BY <1>1, <1>3, <2>2
    <3>4. \A i \in DOMAIN waiters : i \in DOMAIN waiters' /\ waiters'[i] = waiters[i]
      BY <1>1, <1>3
    <3> QED BY <3>1, <3>2, <3>3, <3>4
  <2> QED BY <2>1, <2>2
<1>8. NoLostWakeup'
  <2> SUFFICES ASSUME value >= want'[waiters'[Front(waiters')]]
               PROVE  \E s \in Tasks : \/ pc'[s] = "cancelled"
                                       \/ pc'[s] = "woken" /\ want'[s] <= value
    BY <1>4 DEF NoLostWakeup
  <2>1. Live(waiters) # {}
    BY <1>2, <1>4, SemaphoreAssumption DEF Inv, TypeOK
  <2>2. waiters'[Front(waiters')] = waiters[Front(waiters)] /\ waiters[Front(waiters)] \in Tasks
    BY <1>1, <1>2, <2>1, FrontIsFirst
  <2>3. waiters[Front(waiters)] # t
    BY <1>1, <1>6, <2>1, FrontIsFirst
  <2>4. value >= want[waiters[Front(waiters)]]
    BY <1>4, <2>2, <2>3
  <2>5. PICK s \in Tasks : \/ pc[s] = "cancelled"
                           \/ pc[s] = "woken" /\ want[s] <= value
    BY <2>1, <2>4 DEF Inv, NoLostWakeup
  <2>6. s # t
    BY <2>5, SemaphoreAssumption DEF Inv, TypeOK
  <2> QED BY <1>4, <2>5, <2>6
<1> QED BY <1>5, <1>7, <1>8 DEF Inv

LEMMA CancelStep ==
    ASSUME Inv, NEW t \in Tasks, Cancel(t)
    PROVE  Inv'
<1>1. /\ waiters \in Seq(Entries)
      /\ DOMAIN waiters = 1 .. Len(waiters)
      /\ Len(waiters) \in Nat
  BY LenProperties DEF Inv, TypeOK, Entries
<1>2. /\ pc' \in [Tasks -> PCs]
      /\ pc'[t] = "cancelled"
      /\ \A s \in Tasks : s # t => pc'[s] = pc[s]
      /\ value' = value /\ acquired' = acquired /\ limit' = limit /\ want' = want
  BY DEF Cancel, Inv, TypeOK, PCs
<1>3. NoLostWakeup'
  BY <1>2 DEF NoLostWakeup
<1>4. CASE pc[t] = "woken" /\ UNCHANGED waiters
  <2>1. TypeOK' /\ WindowConserved'
    BY <1>2, <1>4 DEF Inv, TypeOK, WindowConserved
  <2>2. \A s \in Tasks : pc'[s] = "waiting" <=> pc[s] = "waiting"
    BY <1>2, <1>4
  <2>3. QueueMatchesSleepers'
    BY <1>4, <2>2 DEF Inv, QueueMatchesSleepers
  <2> QED BY <1>3, <2>1, <2>3 DEF Inv
<1>5. CASE pc[t] = "waiting" /\ waiters' = [i \in DOMAIN waiters |->
                                              IF waiters[i] = t THEN Done ELSE waiters[i]]
  <2>1. \A i \in 1 .. Len(waiters) : waiters[i] \in Entries
    BY <1>1, ElementOfSeq
  <2>2. waiters' \in [1 .. Len(waiters) -> Entries]
    BY <1>1, <1>5, <2>1 DEF Entries
  <2>3. waiters' \in Seq(Entries) /\ DOMAIN waiters' = DOMAIN waiters
    BY <1>1, <2>2, SeqDef
  <2>4. TypeOK' /\ WindowConserved'
    BY <1>2, <2>3 DEF Inv, TypeOK, WindowConserved, Entries
  <2>5. \A s \in Tasks, i \in DOMAIN waiters :
           waiters'[i] = s <=> waiters[i] = s /\ s # t
    BY <1>5, SemaphoreAssumption
  <2>6. \A s \in Tasks : pc'[s] = "waiting" <=> pc[s] = "waiting" /\ s # t
    BY <1>2
  <2>7. QueueMatchesSleepers'
    BY <2>3, <2>5, <2>6 DEF Inv, QueueMatchesSleepers
  <2> QED BY <1>3, <2>4, <2>7 DEF Inv
<1> QED BY <1>4, <1>5 DEF Cancel

LEMMA GiveBackStep ==
    ASSUME Inv, NEW n \in Nat, value + n <= limit, GiveBack(n)
    PROVE  Inv'
<1>1. /\ value + n \in Nat /\ acquired' \in Nat /\ value' = value + n
      /\ value' + acquired' = limit
  BY DEF GiveBack, Inv, TypeOK, WindowConserved
<1>2. Matches(waiters, pc) /\ pc \in [Tasks -> PCs]
  BY DEF Inv, TypeOK, QueueMatchesSleepers, Matches
<1>3. CheckNext(value + n, waiters, pc) /\ limit' = limit /\ want' = want
  BY DEF GiveBack
<1> QED BY <1>1, <1>2, <1>3, AttendedStep

LEMMA ResumeCancelledStep ==
    ASSUME Inv, NEW t \in Tasks, ResumeCancelled(t)
    PROVE  Inv'
<1> DEFINE p == [pc EXCEPT ![t] = "free"]
<1>1. p \in [Tasks -> PCs] /\ \A s \in Tasks : p[s] = "waiting" <=> pc[s] = "waiting"
  BY DEF Inv, TypeOK, PCs, ResumeCancelled
<1>2. Matches(waiters, p)
  <2> HIDE DEF p
  <2> QED BY <1>1 DEF Inv, QueueMatchesSleepers, Matches
<1>3. /\ CheckNext(value, waiters, p)
      /\ value' = value /\ acquired' = acquired /\ limit' = limit /\ want' = want
  BY DEF ResumeCancelled
<1>4. value \in Nat /\ acquired' \in Nat /\ value' + acquired' = limit
  BY <1>3 DEF Inv, TypeOK, WindowConserved
<1> HIDE DEF p
<1> QED BY <1>1, <1>2, <1>3, <1>4, AttendedStep

----------------------------------------------------------------------------
(* What a step does to the tasks that do not take it: it wakes, and no     *)
(* more.                                                                   *)
OnlyWakes(p, S) ==
    \A s \in S : pc'[s] = p[s] \/ (p[s] = "waiting" /\ pc'[s] = "woken")

LEMMA CheckNextWakes ==
    ASSUME NEW v, NEW ws \in Seq(Entries), NEW p \in [Tasks -> PCs],
           Matches(ws, p), CheckNext(v, ws, p)
    PROVE  OnlyWakes(p, Tasks)
<1>1. CASE Live(ws) = {}
  BY <1>1 DEF CheckNext, OnlyWakes
<1>2. CASE Live(ws) # {}
  <2>1. Front(ws) \in DOMAIN ws /\ ws[Front(ws)] \in Tasks
    BY <1>2, FrontIsFirst, LenProperties
  <2>2. p[ws[Front(ws)]] = "waiting"
    BY <2>1 DEF Matches
  <2> QED
    BY <1>2, <2>1, <2>2 DEF CheckNext, OnlyWakes
<1> QED
  BY <1>1, <1>2

(* The effects of the steps that users of the window rely on.              *)
LEMMA TakeEffect ==
    ASSUME Inv, NEW t \in Tasks, NEW c, pc[t] # "waiting", Take(t, c)
    PROVE  /\ acquired' = acquired + c /\ pc'[t] = "free"
           /\ OnlyWakes(pc, Tasks \ {t})
           /\ UNCHANGED <<limit, want>>
<1> DEFINE p == [pc EXCEPT ![t] = "free"]
<1>1. /\ p \in [Tasks -> PCs] /\ p[t] = "free"
      /\ \A s \in Tasks \ {t} : p[s] = pc[s]
      /\ waiters \in Seq(Entries)
  BY DEF Inv, TypeOK, PCs, Entries
<1>2. Matches(waiters, p)
  BY <1>1 DEF Inv, QueueMatchesSleepers, Matches
<1>3. CheckNext(value - c, waiters, p)
  BY DEF Take
<1>4. OnlyWakes(p, Tasks)
  BY <1>1, <1>2, <1>3, CheckNextWakes
<1> QED
  BY <1>1, <1>4 DEF Take, OnlyWakes

LEMMA EnqueueEffect ==
    ASSUME Inv, NEW t \in Tasks, NEW c, Enqueue(t, c)
    PROVE  /\ acquired' = acquired /\ pc'[t] = "waiting" /\ want'[t] = c
           /\ OnlyWakes(pc, Tasks \ {t})
           /\ \A s \in Tasks \ {t} : want'[s] = want[s]
           /\ UNCHANGED limit
  BY DEF Inv, TypeOK, Enqueue, OnlyWakes

LEMMA CancelEffect ==
    ASSUME Inv, NEW t \in Tasks, Cancel(t)
    PROVE  /\ pc[t] # "free" /\ pc'[t] = "cancelled"
           /\ OnlyWakes(pc, Tasks \ {t})
           /\ UNCHANGED <<acquired, limit, want>>
  BY DEF Inv, TypeOK, Cancel, OnlyWakes

LEMMA ResumeCancelledEffect ==
    ASSUME Inv, NEW t \in Tasks, ResumeCancelled(t)
    PROVE  /\ pc[t] = "cancelled" /\ pc'[t] = "free"
           /\ OnlyWakes(pc, Tasks \ {t})
           /\ UNCHANGED <<acquired, limit, want>>
<1> DEFINE p == [pc EXCEPT ![t] = "free"]
<1>1. /\ p \in [Tasks -> PCs] /\ p[t] = "free"
      /\ \A s \in Tasks \ {t} : p[s] = pc[s]
      /\ waiters \in Seq(Entries)
  BY DEF Inv, TypeOK, PCs, Entries
<1>2. Matches(waiters, p)
  BY <1>1 DEF Inv, QueueMatchesSleepers, Matches, ResumeCancelled
<1>3. OnlyWakes(p, Tasks)
  BY <1>1, <1>2, CheckNextWakes DEF ResumeCancelled
<1> QED
  BY <1>1, <1>3 DEF ResumeCancelled, OnlyWakes

LEMMA ReleaseEffect ==
    ASSUME Inv, NEW n \in Nat, ReleaseBestEffort(n)
    PROVE  /\ acquired - n <= acquired' /\ acquired' <= acquired
           /\ OnlyWakes(pc, Tasks)
           /\ UNCHANGED <<limit, want>>
<1> DEFINE count == IF value + n > limit THEN limit - value ELSE n
<1>1. count \in Nat /\ count <= n
  BY DEF Inv, TypeOK, WindowConserved
<1>2. GiveBack(count)
  BY DEF ReleaseBestEffort
<1>3. acquired' = acquired - count
  BY <1>2 DEF GiveBack
<1>4. OnlyWakes(pc, Tasks)
  BY <1>2, CheckNextWakes DEF GiveBack, Inv, TypeOK, Entries, QueueMatchesSleepers, Matches
<1> HIDE DEF count
<1> QED
  BY <1>1, <1>2, <1>3, <1>4 DEF GiveBack, Inv, TypeOK

LEMMA Initially == Init => Inv
<1> SUFFICES ASSUME Init PROVE Inv
  OBVIOUS
<1>1. waiters = <<>> /\ DOMAIN waiters = {} /\ waiters \in Seq(Entries)
  BY EmptySeq DEF Init
<1>2. TypeOK /\ WindowConserved
  BY <1>1, SemaphoreAssumption DEF Init, TypeOK, WindowConserved, PCs, Entries
<1>3. QueueMatchesSleepers
  BY <1>1 DEF Init, QueueMatchesSleepers
<1>4. NoLostWakeup
  BY <1>1 DEF NoLostWakeup, Live
<1> QED BY <1>2, <1>3, <1>4 DEF Inv

LEMMA Inductive == Inv /\ [Next]_vars => Inv'
<1> SUFFICES ASSUME Inv, [Next]_vars PROVE Inv'
  OBVIOUS
<1>1. ASSUME NEW t \in Tasks, NEW c \in Counts, Acquire(t, c) PROVE Inv'
  <2>1. c \in Nat /\ pc[t] = "free"
    BY <1>1, SemaphoreAssumption DEF Acquire
  <2>2. CASE value >= c /\ Take(t, c)
    BY <2>1, <2>2, TakeStep
  <2>3. CASE value < c /\ Enqueue(t, c)
    BY <2>1, <2>3, EnqueueStep
  <2> QED BY <1>1, <2>2, <2>3 DEF Acquire
<1>2. ASSUME NEW t \in Tasks, Resume(t) PROVE Inv'
  <2>1. want[t] \in Nat /\ want[t] \in Counts \cup {0} /\ pc[t] = "woken"
    BY <1>2, WantsAreNumbers DEF Resume, Inv, TypeOK
  <2>2. CASE value >= want[t] /\ Take(t, want[t])
    BY <2>1, <2>2, TakeStep
  <2>3. CASE value < want[t] /\ Enqueue(t, want[t])
    BY <2>1, <2>3, EnqueueStep
  <2> QED BY <1>2, <2>2, <2>3 DEF Resume
<1>3. ASSUME NEW t \in Tasks, Cancel(t) PROVE Inv'
  BY <1>3, CancelStep
<1>4. ASSUME NEW t \in Tasks, ResumeCancelled(t) PROVE Inv'
  BY <1>4, ResumeCancelledStep
<1>5. ASSUME NEW n \in Completions, Release(n) PROVE Inv'
  BY <1>5, GiveBackStep, SemaphoreAssumption DEF Release
<1>6. ASSUME NEW n \in Completions, ReleaseBestEffort(n) PROVE Inv'
  <2> DEFINE count == IF value + n > limit THEN limit - value ELSE n
  <2>1. count \in Nat /\ value + count <= limit
    BY SemaphoreAssumption DEF Inv, TypeOK, WindowConserved
  <2>2. GiveBack(count)
    BY <1>6 DEF ReleaseBestEffort
  <2> HIDE DEF count
  <2> QED BY <2>1, <2>2, GiveBackStep
<1>7. CASE UNCHANGED vars
  BY <1>7 DEF vars, Inv, TypeOK, WindowConserved, QueueMatchesSleepers, NoLostWakeup
<1> QED BY <1>1, <1>2, <1>3, <1>4, <1>5, <1>6, <1>7 DEF Next

(* The window, the list of requests and the wakeups of the semaphore are   *)
(* right in every state, for all tasks, counts and limits.                 *)
THEOREM SemaphoreInvariant == Spec => []Inv
<1> QED BY Initially, Inductive, PTL DEF Spec

(* Both counters stay natural numbers and every request names a task.      *)
THEOREM SemaphoreTypeOK == Spec => []TypeOK
<1>1. Inv => TypeOK
  BY DEF Inv
<1> QED BY <1>1, SemaphoreInvariant, PTL

(* No credit is created or lost by acquire, its cancellation and the two   *)
(* kinds of release.                                                       *)
THEOREM CreditsConserved == Spec => []WindowConserved
<1>1. Inv => WindowConserved
  BY DEF Inv
<1> QED BY <1>1, SemaphoreInvariant, PTL

(* A task sleeps exactly when one request in the list is its own.          *)
THEOREM RequestsMatchSleepers == Spec => []QueueMatchesSleepers
<1>1. Inv => QueueMatchesSleepers
  BY DEF Inv
<1> QED BY <1>1, SemaphoreInvariant, PTL

(* Credits that would do for the first live request never lie idle: a task *)
(* is ready that will call _check_next again.                              *)
THEOREM WakeupsAreNotLost == Spec => []NoLostWakeup
<1>1. Inv => NoLostWakeup
  BY DEF Inv
<1> QED BY <1>1, SemaphoreInvariant, PTL

----------------------------------------------------------------------------
(* The order of the requests                                               *)

(* What FirstComeFirstWoken says of two tasks in a step.                   *)
KeepsTurn(ws, s, t) ==
    (Ahead(ws, s, t) /\ pc'[s] = "waiting") =>
        /\ pc'[t] # "woken"
        /\ pc'[t] = "waiting" => Ahead(waiters', s, t)

LEMMA CheckNextKeepsTurn ==
    ASSUME NEW v, NEW ws \in Seq(Entries), NEW p \in [Tasks -> PCs],
           Matches(ws, p), CheckNext(v, ws, p), NEW s \in Tasks, NEW t \in Tasks
    PROVE  KeepsTurn(ws, s, t)
<1> SUFFICES ASSUME Ahead(ws, s, t), pc'[s] = "waiting"
             PROVE  pc'[t] # "woken" /\ Ahead(waiters', s, t)
  BY DEF KeepsTurn
<1>1. Len(ws) \in Nat /\ DOMAIN ws = 1 .. Len(ws) /\ \A k \in 1 .. Len(ws) : ws[k] \in Entries
  BY LenProperties, ElementOfSeq
<1>2. PICK i \in 1 .. Len(ws), j \in 1 .. Len(ws) : i < j /\ ws[i] = s /\ ws[j] = t
  BY <1>1 DEF Ahead
<1>3. i \in Live(ws) /\ j \in Live(ws)
  BY <1>1, <1>2, SemaphoreAssumption DEF Live
<1> DEFINE f == Front(ws)
<1>4. f \in 1 .. Len(ws) /\ ws[f] \in Tasks /\ f <= i
  BY <1>3, FrontIsFirst
<1>5. p[t] = "waiting" /\ (t = ws[f] => j = f)
  BY <1>1, <1>2, <1>4 DEF Matches
<1>6. CASE v >= want[ws[f]]
  <2>1. waiters' = SubSeq(ws, f + 1, Len(ws)) /\ pc' = [p EXCEPT ![ws[f]] = "woken"]
    BY <1>3, <1>6 DEF CheckNext
  <2> HIDE DEF f
  <2>2. s # ws[f] /\ f < i /\ t # ws[f]
    <3>1. s # ws[f]
      BY <1>4, <2>1
    <3>2. f # i
      BY <1>2, <3>1
    <3> QED
      BY <1>1, <1>2, <1>4, <1>5, <3>1, <3>2
  <2>3. pc'[t] = "waiting"
    BY <1>5, <2>1, <2>2
  <2>4. /\ waiters' \in Seq(Entries)
        /\ Len(waiters') = IF f + 1 <= Len(ws) THEN Len(ws) - (f + 1) + 1 ELSE 0
        /\ \A k \in 1 .. Len(ws) - (f + 1) + 1 : waiters'[k] = ws[f + 1 + k - 1]
    BY <1>1, <1>4, <2>1, SubSeqProperties
  <2>5. /\ i - f \in 1 .. Len(ws) - (f + 1) + 1 /\ j - f \in 1 .. Len(ws) - (f + 1) + 1
        /\ f + 1 + (i - f) - 1 = i /\ f + 1 + (j - f) - 1 = j
        /\ f + 1 <= Len(ws) /\ i - f < j - f
    BY <1>1, <1>2, <1>4, <2>2
  <2>6. DOMAIN waiters' = 1 .. Len(ws) - (f + 1) + 1
    BY <2>4, <2>5, LenProperties
  <2>7. waiters'[i - f] = s /\ waiters'[j - f] = t
    BY <1>2, <2>4, <2>5
  <2> QED
    BY <2>3, <2>5, <2>6, <2>7 DEF Ahead
<1>7. CASE ~ v >= want[ws[f]]
  <2>1. waiters' = SubSeq(ws, f, Len(ws)) /\ pc' = p
    BY <1>3, <1>7 DEF CheckNext
  <2> HIDE DEF f
  <2>2. /\ waiters' \in Seq(Entries)
        /\ Len(waiters') = Len(ws) - f + 1
        /\ \A k \in 1 .. Len(ws) - f + 1 : waiters'[k] = ws[f + k - 1]
    BY <1>1, <1>4, <2>1, SubSeqProperties
  <2>3. /\ i - f + 1 \in 1 .. Len(ws) - f + 1 /\ j - f + 1 \in 1 .. Len(ws) - f + 1
        /\ f + (i - f + 1) - 1 = i /\ f + (j - f + 1) - 1 = j
        /\ i - f + 1 < j - f + 1
    BY <1>1, <1>2, <1>4
  <2>4. DOMAIN waiters' = 1 .. Len(ws) - f + 1
    BY <2>2, LenProperties
  <2>5. waiters'[i - f + 1] = s /\ waiters'[j - f + 1] = t
    BY <1>2, <2>2, <2>3
  <2> QED
    BY <1>5, <2>1, <2>3, <2>4, <2>5 DEF Ahead
<1> QED
  BY <1>6, <1>7

(* The same with the task that calls _check_next freed before.             *)
LEMMA FreedKeepsTurn ==
    ASSUME Inv, NEW u \in Tasks, pc[u] # "waiting", NEW v,
           CheckNext(v, waiters, [pc EXCEPT ![u] = "free"]), NEW s \in Tasks, NEW t \in Tasks
    PROVE  KeepsTurn(waiters, s, t)
<1> DEFINE p == [pc EXCEPT ![u] = "free"]
<1>1. /\ p \in [Tasks -> PCs] /\ waiters \in Seq(Entries)
      /\ \A x \in Tasks : p[x] = "waiting" <=> pc[x] = "waiting"
  BY DEF Inv, TypeOK, PCs, Entries
<1>2. CheckNext(v, waiters, p)
  OBVIOUS
<1> HIDE DEF p
<1>3. Matches(waiters, p)
  BY <1>1 DEF Inv, QueueMatchesSleepers, Matches
<1> QED
  BY <1>1, <1>2, <1>3, CheckNextKeepsTurn

LEMMA EnqueueKeepsTurn ==
    ASSUME Inv, NEW u \in Tasks, pc[u] # "waiting", NEW c, Enqueue(u, c), NEW s \in Tasks, NEW t \in Tasks
    PROVE  KeepsTurn(waiters, s, t)
<1>1. /\ waiters' = Append(waiters, u) /\ waiters \in Seq(Entries) /\ u \in Entries
      /\ pc' = [pc EXCEPT ![u] = "waiting"] /\ pc \in [Tasks -> PCs]
  BY DEF Enqueue, Inv, TypeOK, Entries
<1>2. /\ DOMAIN waiters = 1 .. Len(waiters) /\ Len(waiters) \in Nat
      /\ DOMAIN waiters' = 1 .. Len(waiters) + 1
      /\ \A i \in 1 .. Len(waiters) : waiters'[i] = waiters[i]
  BY <1>1, AppendProperties, LenProperties
<1>3. Ahead(waiters, s, t) => Ahead(waiters', s, t) /\ pc[t] = "waiting"
  <2>1. \A i \in DOMAIN waiters : i \in DOMAIN waiters' /\ waiters'[i] = waiters[i]
    BY <1>2
  <2>2. \A i \in DOMAIN waiters : waiters[i] = t => pc[t] = "waiting"
    BY DEF Inv, QueueMatchesSleepers
  <2> QED
    BY <2>1, <2>2 DEF Ahead
<1>4. pc[t] = "waiting" => pc'[t] = "waiting"
  BY <1>1
<1> QED
  BY <1>3, <1>4 DEF KeepsTurn

LEMMA CancelKeepsTurn ==
    ASSUME Inv, NEW u \in Tasks, Cancel(u), NEW s \in Tasks, NEW t \in Tasks
    PROVE  KeepsTurn(waiters, s, t)
<1>1. pc' = [pc EXCEPT ![u] = "cancelled"] /\ pc \in [Tasks -> PCs]
  BY DEF Cancel, Inv, TypeOK
<1>2. SUFFICES ASSUME Ahead(waiters, s, t), pc'[s] = "waiting"
               PROVE  pc'[t] # "woken" /\ (pc'[t] = "waiting" => Ahead(waiters', s, t))
  BY DEF KeepsTurn
<1>3. PICK i \in DOMAIN waiters, j \in DOMAIN waiters : i < j /\ waiters[i] = s /\ waiters[j] = t
  BY <1>2 DEF Ahead
<1>4. pc[t] = "waiting"
  BY <1>3 DEF Inv, QueueMatchesSleepers
<1>5. s # u
  BY <1>1, <1>2
<1>6. ASSUME pc'[t] = "waiting" PROVE Ahead(waiters', s, t)
  <2>1. t # u
    BY <1>1, <1>6
  <2>2. CASE waiters' = [k \in DOMAIN waiters |-> IF waiters[k] = u THEN Done ELSE waiters[k]]
    <3>1. DOMAIN waiters' = DOMAIN waiters /\ waiters'[i] = s /\ waiters'[j] = t
      BY <1>3, <1>5, <2>1, <2>2
    <3> QED
      BY <1>3, <3>1 DEF Ahead
  <2>3. CASE UNCHANGED waiters
    BY <1>2, <2>3
  <2> QED
    BY <2>2, <2>3 DEF Cancel
<1>7. pc'[t] # "woken"
  BY <1>1, <1>4
<1> QED
  BY <1>6, <1>7

LEMMA StepKeepsTurn ==
    ASSUME Inv, Next, NEW s \in Tasks, NEW t \in Tasks
    PROVE  KeepsTurn(waiters, s, t)
<1>1. ASSUME NEW u \in Tasks, NEW c, pc[u] # "waiting", Take(u, c) \/ Enqueue(u, c)
      PROVE  KeepsTurn(waiters, s, t)
  BY <1>1, FreedKeepsTurn, EnqueueKeepsTurn DEF Take
<1>2. ASSUME NEW u \in Tasks, NEW c \in Counts, Acquire(u, c)
      PROVE  KeepsTurn(waiters, s, t)
  BY <1>1, <1>2 DEF Acquire
<1>3. ASSUME NEW u \in Tasks, Resume(u)
      PROVE  KeepsTurn(waiters, s, t)
  BY <1>1, <1>3 DEF Resume
<1>4. ASSUME NEW u \in Tasks, ResumeCancelled(u)
      PROVE  KeepsTurn(waiters, s, t)
  BY <1>4, FreedKeepsTurn DEF ResumeCancelled
<1>5. ASSUME NEW n, GiveBack(n)
      PROVE  KeepsTurn(waiters, s, t)
  <2>1. Matches(waiters, pc) /\ pc \in [Tasks -> PCs] /\ waiters \in Seq(Entries)
    BY DEF Inv, TypeOK, QueueMatchesSleepers, Matches, Entries
  <2>2. CheckNext(value + n, waiters, pc)
    BY <1>5 DEF GiveBack
  <2> QED
    BY <2>1, <2>2, CheckNextKeepsTurn
<1>6. ASSUME NEW n \in Completions, Release(n) \/ ReleaseBestEffort(n)
      PROVE  KeepsTurn(waiters, s, t)
  BY <1>5, <1>6 DEF Release, ReleaseBestEffort
<1> QED
  BY <1>2, <1>3, <1>4, <1>6, CancelKeepsTurn DEF Next

(* Of two tasks asleep the one that came first is woken first: whatever is *)
(* acquired, released or cancelled, _check_next never wakes the later one  *)
(* while the earlier one sleeps, and never changes their order.            *)
THEOREM FirstComersAreWokenFirst == Spec => FirstComeFirstWoken
<1>1. Inv /\ [Next]_vars =>
          [\A s, t \in Tasks :
              (Ahead(waiters, s, t) /\ pc'[s] = "waiting") =>
                 /\ pc'[t] # "woken"
                 /\ pc'[t] = "waiting" => Ahead(waiters', s, t)]_vars
  BY StepKeepsTurn DEF KeepsTurn
<1> QED
  BY <1>1, SemaphoreInvariant, PTL DEF Spec, FirstComeFirstWoken
=============================================================================
