---------------------------- MODULE IPProxyProofs ----------------------------
(***************************************************************************)
(* Proofs about IPProxy, for queues of any size and any number of packets, *)
(* losses and restarts: the types, that the relay implements LossyFIFO,    *)
(* and that the packet of the test stays inside it.                        *)
(***************************************************************************)
EXTENDS IPProxy, SequenceTheorems, TLAPS

(* How far a stage is from the Switch.                                     *)
Rank == [out |-> 1, far |-> 2, read |-> 3, link |-> 4, near |-> 5]

Before(s, i, t, j) == Rank[s] < Rank[t] \/ (s = t /\ i < j)

(* The packet of the test counts as the first, as long as there is but one *)
(* of it.                                                                  *)
Oldest == IF nearStops = 0 THEN Test ELSE 1

(* Nothing overtakes: what is nearer to the Switch is older.               *)
Ordered ==
    \A s, t \in Stages : \A i \in 1 .. Len(pipe[s]), j \in 1 .. Len(pipe[t]) :
        Before(s, i, t, j) /\ pipe[s][i] >= Oldest /\ pipe[t][j] >= Oldest
            => pipe[s][i] < pipe[t][j]

(* Empty data is never sent to the other instance.                         *)
EmptyStaysNear ==
    \A s \in Stages \ {"near"} : \A i \in 1 .. Len(pipe[s]) : pipe[s][i] # Empty

NothingBeforeStart ==
    near = "down" /\ nearStops = 0 =>
        far \in {"down", "handshake"} /\ \A s \in Stages : pipe[s] = << >>

(* The test is met by the handshake, and by nothing behind it.             *)
TestAhead ==
    nearStops = 0 =>
        /\ ~ strayed
        /\ \A s \in Stages : \A i \in 1 .. Len(pipe[s]) :
              pipe[s][i] = Test => s \in {"link", "read"} /\ far \in {"down", "handshake"}

Inv == TypeOK /\ Ordered /\ EmptyStaysNear /\ NothingBeforeStart /\ TestAhead

----------------------------------------------------------------------------
(* Sequences                                                               *)

LEMMA TailEntries ==
    ASSUME NEW S, NEW q \in Seq(S), q # << >>
    PROVE  /\ Tail(q) \in Seq(S) /\ Len(q) \in Nat \ {0} /\ Len(Tail(q)) = Len(q) - 1
           /\ Head(q) = q[1] /\ q[1] \in S
           /\ \A i \in 1 .. Len(Tail(q)) : Tail(q)[i] = q[i + 1]
BY HeadTailProperties, EmptySeq, LenProperties, ElementOfSeq

LEMMA AppendEntries ==
    ASSUME NEW S, NEW q \in Seq(S), NEW p \in S
    PROVE  /\ Append(q, p) \in Seq(S) /\ Len(Append(q, p)) = Len(q) + 1
           /\ \A i \in 1 .. Len(q) : Append(q, p)[i] = q[i]
           /\ Append(q, p)[Len(q) + 1] = p
BY AppendProperties

LEMMA RemoveAtEntries ==
    ASSUME NEW S, NEW q \in Seq(S), NEW k \in 1 .. Len(q)
    PROVE  /\ RemoveAt(q, k) \in Seq(S) /\ Len(RemoveAt(q, k)) = Len(q) - 1
           /\ \A i \in 1 .. Len(q) - 1 :
                 RemoveAt(q, k)[i] = IF i < k THEN q[i] ELSE q[i + 1]
<1> DEFINE front == SubSeq(q, 1, k - 1)
           back == SubSeq(q, k + 1, Len(q))
<1>1. Len(q) \in Nat
  BY LenProperties
<1>2. /\ front \in Seq(S) /\ Len(front) = k - 1
      /\ \A i \in 1 .. k - 1 : front[i] = q[i]
  BY <1>1, SubSeqProperties
<1>3. /\ back \in Seq(S) /\ Len(back) = Len(q) - k
      /\ \A i \in 1 .. Len(q) - k : back[i] = q[k + i]
  BY <1>1, SubSeqProperties
<1> HIDE DEF front, back
<1>4. /\ front \o back \in Seq(S) /\ Len(front \o back) = Len(front) + Len(back)
      /\ \A i \in 1 .. Len(front) + Len(back) :
            (front \o back)[i] = IF i <= Len(front) THEN front[i] ELSE back[i - Len(front)]
  BY <1>2, <1>3, ConcatProperties
<1>5. RemoveAt(q, k) = front \o back
  BY DEF RemoveAt, front, back
<1>6. Len(front) + Len(back) = Len(q) - 1
  BY <1>1, <1>2, <1>3
<1>7. ASSUME NEW i \in 1 .. Len(q) - 1
      PROVE  RemoveAt(q, k)[i] = IF i < k THEN q[i] ELSE q[i + 1]
  <2>1. CASE i < k
    <3>1. i <= Len(front) /\ i \in 1 .. k - 1 /\ i \in 1 .. Len(front) + Len(back)
      BY <1>1, <1>2, <1>6, <2>1
    <3> QED
      BY <1>2, <1>4, <1>5, <2>1, <3>1
  <2>2. CASE k <= i
    <3>1. ~ i <= Len(front) /\ i - Len(front) = i - k + 1 /\ i - k + 1 \in 1 .. Len(q) - k
      BY <1>1, <1>2, <2>2
    <3>2. back[i - k + 1] = q[i + 1]
      BY <1>1, <1>3, <3>1
    <3> QED
      BY <1>1, <1>4, <1>5, <1>6, <2>2, <3>1, <3>2
  <2> QED
    BY <1>1, <2>1, <2>2
<1> QED
  BY <1>4, <1>5, <1>6, <1>7

----------------------------------------------------------------------------
(* What a step does to the pipe                                            *)

(* The first packet of a goes to the end of b.                             *)
MovesOn(a, b) ==
    /\ Len(pipe[a]) \in Nat \ {0} /\ Len(pipe[b]) \in Nat
    /\ Len(pipe'[a]) = Len(pipe[a]) - 1 /\ Len(pipe'[b]) = Len(pipe[b]) + 1
    /\ \A i \in 1 .. Len(pipe[a]) - 1 : pipe'[a][i] = pipe[a][i + 1]
    /\ \A i \in 1 .. Len(pipe[b]) : pipe'[b][i] = pipe[b][i]
    /\ pipe'[b][Len(pipe[b]) + 1] = pipe[a][1]
    /\ \A s \in Stages \ {a, b} : pipe'[s] = pipe[s]

(* The packet at k of a is gone.                                           *)
LeavesFrom(a, k) ==
    /\ Len(pipe[a]) \in Nat /\ k \in 1 .. Len(pipe[a])
    /\ Len(pipe'[a]) = Len(pipe[a]) - 1
    /\ \A i \in 1 .. Len(pipe[a]) - 1 : pipe'[a][i] = IF i < k THEN pipe[a][i] ELSE pipe[a][i + 1]
    /\ \A s \in Stages \ {a} : pipe'[s] = pipe[s]

(* The packet p comes to the end of b.                                     *)
ComesTo(b, p) ==
    /\ Len(pipe[b]) \in Nat
    /\ Len(pipe'[b]) = Len(pipe[b]) + 1
    /\ \A i \in 1 .. Len(pipe[b]) : pipe'[b][i] = pipe[b][i]
    /\ pipe'[b][Len(pipe[b]) + 1] = p
    /\ \A s \in Stages \ {b} : pipe'[s] = pipe[s]

Empties(S) == \A s \in Stages : pipe'[s] = IF s \in S THEN << >> ELSE pipe[s]

LEMMA MovesOnShape ==
    ASSUME NEW S, pipe \in [Stages -> Seq(S)], NEW a \in Stages, NEW b \in Stages \ {a},
           pipe[a] # << >>,
           pipe' = [Without(a) EXCEPT ![b] = Append(@, Head(pipe[a]))]
    PROVE  pipe' \in [Stages -> Seq(S)] /\ MovesOn(a, b)
<1>1. /\ pipe'[a] = Tail(pipe[a]) /\ pipe'[b] = Append(pipe[b], Head(pipe[a]))
      /\ \A s \in Stages \ {a, b} : pipe'[s] = pipe[s]
  BY DEF Without
<1>2. pipe[a] \in Seq(S) /\ pipe[b] \in Seq(S)
  OBVIOUS
<1>3. /\ Tail(pipe[a]) \in Seq(S) /\ Len(pipe[a]) \in Nat \ {0}
      /\ Len(Tail(pipe[a])) = Len(pipe[a]) - 1
      /\ Head(pipe[a]) = pipe[a][1] /\ pipe[a][1] \in S
      /\ \A i \in 1 .. Len(Tail(pipe[a])) : Tail(pipe[a])[i] = pipe[a][i + 1]
  BY <1>2, TailEntries
<1>4. /\ Append(pipe[b], pipe[a][1]) \in Seq(S)
      /\ Len(Append(pipe[b], pipe[a][1])) = Len(pipe[b]) + 1 /\ Len(pipe[b]) \in Nat
      /\ \A i \in 1 .. Len(pipe[b]) : Append(pipe[b], pipe[a][1])[i] = pipe[b][i]
      /\ Append(pipe[b], pipe[a][1])[Len(pipe[b]) + 1] = pipe[a][1]
  BY <1>2, <1>3, AppendEntries, LenProperties
<1>5. pipe' \in [Stages -> Seq(S)]
  BY <1>3, <1>4 DEF Without
<1>6. /\ Len(pipe'[a]) = Len(pipe[a]) - 1
      /\ \A i \in 1 .. Len(pipe[a]) - 1 : pipe'[a][i] = pipe[a][i + 1]
  BY <1>1, <1>3
<1>7. /\ Len(pipe'[b]) = Len(pipe[b]) + 1
      /\ \A i \in 1 .. Len(pipe[b]) : pipe'[b][i] = pipe[b][i]
      /\ pipe'[b][Len(pipe[b]) + 1] = pipe[a][1]
  BY <1>1, <1>3, <1>4
<1> QED
  BY <1>1, <1>3, <1>4, <1>5, <1>6, <1>7 DEF MovesOn

LEMMA LeavesShape ==
    ASSUME NEW S, pipe \in [Stages -> Seq(S)], NEW a \in Stages,
           pipe[a] # << >>, pipe' = Without(a)
    PROVE  pipe' \in [Stages -> Seq(S)] /\ LeavesFrom(a, 1)
<1>1. pipe'[a] = Tail(pipe[a]) /\ \A s \in Stages \ {a} : pipe'[s] = pipe[s]
  BY DEF Without
<1>2. /\ Tail(pipe[a]) \in Seq(S) /\ Len(pipe[a]) \in Nat \ {0}
      /\ Len(Tail(pipe[a])) = Len(pipe[a]) - 1
      /\ \A i \in 1 .. Len(Tail(pipe[a])) : Tail(pipe[a])[i] = pipe[a][i + 1]
  BY TailEntries
<1>3. pipe' \in [Stages -> Seq(S)]
  BY <1>2 DEF Without
<1> QED
  BY <1>1, <1>2, <1>3 DEF LeavesFrom

LEMMA RemovedShape ==
    ASSUME NEW S, pipe \in [Stages -> Seq(S)], NEW a \in Stages, NEW k \in 1 .. Len(pipe[a]),
           pipe' = [pipe EXCEPT ![a] = RemoveAt(@, k)]
    PROVE  pipe' \in [Stages -> Seq(S)] /\ LeavesFrom(a, k)
<1>1. pipe'[a] = RemoveAt(pipe[a], k) /\ \A s \in Stages \ {a} : pipe'[s] = pipe[s]
  OBVIOUS
<1>2. /\ RemoveAt(pipe[a], k) \in Seq(S) /\ Len(RemoveAt(pipe[a], k)) = Len(pipe[a]) - 1
      /\ \A i \in 1 .. Len(pipe[a]) - 1 :
            RemoveAt(pipe[a], k)[i] = IF i < k THEN pipe[a][i] ELSE pipe[a][i + 1]
      /\ Len(pipe[a]) \in Nat
  BY RemoveAtEntries, LenProperties
<1>3. pipe' \in [Stages -> Seq(S)]
  BY <1>2
<1> QED
  BY <1>1, <1>2, <1>3 DEF LeavesFrom

LEMMA ComesShape ==
    ASSUME NEW S, pipe \in [Stages -> Seq(S)], NEW b \in Stages, NEW p \in S,
           pipe' = [pipe EXCEPT ![b] = Append(@, p)]
    PROVE  pipe' \in [Stages -> Seq(S)] /\ ComesTo(b, p)
<1>1. pipe'[b] = Append(pipe[b], p) /\ \A s \in Stages \ {b} : pipe'[s] = pipe[s]
  OBVIOUS
<1>2. /\ Append(pipe[b], p) \in Seq(S)
      /\ Len(Append(pipe[b], p)) = Len(pipe[b]) + 1 /\ Len(pipe[b]) \in Nat
      /\ \A i \in 1 .. Len(pipe[b]) : Append(pipe[b], p)[i] = pipe[b][i]
      /\ Append(pipe[b], p)[Len(pipe[b]) + 1] = p
  BY AppendEntries, LenProperties
<1>3. pipe' \in [Stages -> Seq(S)]
  BY <1>2
<1> QED
  BY <1>1, <1>2, <1>3 DEF ComesTo

----------------------------------------------------------------------------
(* Order                                                                   *)

LEMMA RankProperties ==
    /\ \A s \in Stages : Rank[s] \in Int
    /\ \A s, t \in Stages : Rank[s] = Rank[t] => s = t
BY DEF Stages, Rank

(* Where the packet at i of the stage s was before.                        *)
LEMMA MovesOnOrigin ==
    ASSUME NEW a \in Stages, NEW b \in Stages, a # b, MovesOn(a, b),
           NEW s \in Stages, NEW i \in 1 .. Len(pipe'[s]), \A x \in Stages : Len(pipe[x]) \in Nat
    PROVE  \E r \in Stages, k \in Nat :
              /\ k \in 1 .. Len(pipe[r]) /\ pipe'[s][i] = pipe[r][k]
              /\ \/ r = s /\ k = i /\ s # a
                 \/ r = a /\ k = i + 1 /\ s = a
                 \/ r = a /\ k = 1 /\ s = b /\ i = Len(pipe[b]) + 1
<1>1. CASE s = a
  BY <1>1 DEF MovesOn
<1>2. CASE s = b
  <2>1. i \in 1 .. Len(pipe[b]) \/ i = Len(pipe[b]) + 1
    BY <1>2 DEF MovesOn
  <2> QED
    BY <1>2, <2>1 DEF MovesOn
<1>3. CASE s \notin {a, b}
  BY <1>3 DEF MovesOn
<1> QED
  BY <1>1, <1>2, <1>3

LEMMA MovesOnOrdered ==
    ASSUME Ordered, NEW a \in Stages, NEW b \in Stages, Rank[b] = Rank[a] - 1,
           MovesOn(a, b), Oldest' >= Oldest, Oldest \in Int, Oldest' \in Int,
           \A s \in Stages : Len(pipe[s]) \in Nat /\ \A i \in 1 .. Len(pipe[s]) : pipe[s][i] \in Int
    PROVE  Ordered'
<1>1. a # b
  BY RankProperties
<1>2. ASSUME NEW x \in Stages, NEW y \in 1 .. Len(pipe'[x])
      PROVE  \E r \in Stages, k \in Nat :
                /\ k \in 1 .. Len(pipe[r]) /\ pipe'[x][y] = pipe[r][k]
                /\ \/ r = x /\ k = y /\ x # a
                   \/ r = a /\ k = y + 1 /\ x = a
                   \/ r = a /\ k = 1 /\ x = b /\ y = Len(pipe[b]) + 1
  <2>1. /\ a \in Stages /\ b \in Stages /\ x \in Stages /\ y \in 1 .. Len(pipe'[x])
        /\ \A z \in Stages : Len(pipe[z]) \in Nat
        /\ MovesOn(a, b)
    OBVIOUS
  <2> QED
    BY ONLY <1>1, <2>1, MovesOnOrigin
<1>3. SUFFICES ASSUME NEW s \in Stages, NEW t \in Stages,
                      NEW i \in 1 .. Len(pipe'[s]), NEW j \in 1 .. Len(pipe'[t]),
                      Before(s, i, t, j), pipe'[s][i] >= Oldest', pipe'[t][j] >= Oldest'
               PROVE  pipe'[s][i] < pipe'[t][j]
  BY DEF Ordered, Before
<1>4. PICK r \in Stages, k \in Nat :
          /\ k \in 1 .. Len(pipe[r]) /\ pipe'[s][i] = pipe[r][k]
          /\ \/ r = s /\ k = i /\ s # a
             \/ r = a /\ k = i + 1 /\ s = a
             \/ r = a /\ k = 1 /\ s = b /\ i = Len(pipe[b]) + 1
  BY <1>2
<1>5. PICK u \in Stages, l \in Nat :
          /\ l \in 1 .. Len(pipe[u]) /\ pipe'[t][j] = pipe[u][l]
          /\ \/ u = t /\ l = j /\ t # a
             \/ u = a /\ l = j + 1 /\ t = a
             \/ u = a /\ l = 1 /\ t = b /\ j = Len(pipe[b]) + 1
  BY <1>2
<1>6. i \in Nat \ {0} /\ j \in Nat \ {0}
  OBVIOUS
<1>7. Before(r, k, u, l)
  <2>1. /\ {Rank[a], Rank[b], Rank[s], Rank[t]} \subseteq Int
        /\ Rank[s] = Rank[b] => s = b
        /\ Rank[t] = Rank[a] => t = a
        /\ Rank[s] = Rank[a] => s = a
        /\ Rank[t] = Rank[b] => t = b
    BY RankProperties
  <2>2. Rank[s] < Rank[t] \/ (s = t /\ i < j)
    BY <1>3 DEF Before
  <2>3. CASE r = s /\ k = i /\ s # a
    BY <1>5, <1>6, <2>1, <2>2, <2>3 DEF Before, MovesOn
  <2>4. CASE r = a /\ k = i + 1 /\ s = a
    <3>1. Rank[b] = Rank[a] - 1
      OBVIOUS
    <3> QED
      BY ONLY <1>5, <1>6, <2>1, <2>2, <2>4, <3>1 DEF Before
  <2>5. CASE r = a /\ k = 1 /\ s = b /\ i = Len(pipe[b]) + 1
    <3>1. t = b => j <= Len(pipe[b]) + 1
      BY DEF MovesOn
    <3> QED
      BY <1>5, <1>6, <2>1, <2>2, <2>5, <3>1 DEF Before
  <2> QED
    BY <1>4, <2>3, <2>4, <2>5
<1>8. pipe[r][k] >= Oldest /\ pipe[u][l] >= Oldest
  <2>1. pipe[r][k] \in Int /\ pipe[u][l] \in Int
    BY <1>4, <1>5
  <2>2. pipe[r][k] >= Oldest' /\ pipe[u][l] >= Oldest'
    BY <1>3, <1>4, <1>5
  <2>3. Oldest' >= Oldest /\ Oldest \in Int /\ Oldest' \in Int
    OBVIOUS
  <2> QED
    BY ONLY <2>1, <2>2, <2>3
<1> QED
  BY <1>4, <1>5, <1>7, <1>8 DEF Ordered

LEMMA LeavesOrdered ==
    ASSUME Ordered, NEW a \in Stages, NEW n, LeavesFrom(a, n),
           Oldest' >= Oldest, Oldest \in Int, Oldest' \in Int,
           \A s \in Stages : Len(pipe[s]) \in Nat /\ \A i \in 1 .. Len(pipe[s]) : pipe[s][i] \in Int
    PROVE  Ordered'
<1>1. SUFFICES ASSUME NEW s \in Stages, NEW t \in Stages,
                      NEW i \in 1 .. Len(pipe'[s]), NEW j \in 1 .. Len(pipe'[t]),
                      Before(s, i, t, j), pipe'[s][i] >= Oldest', pipe'[t][j] >= Oldest'
               PROVE  pipe'[s][i] < pipe'[t][j]
  BY DEF Ordered, Before
<1>2. \A x \in Stages : \A y \in 1 .. Len(pipe'[x]) :
          \E k \in 1 .. Len(pipe[x]) :
              /\ pipe'[x][y] = pipe[x][k]
              /\ k = IF x = a /\ y >= n THEN y + 1 ELSE y
  <2>1. ASSUME NEW y \in 1 .. Len(pipe'[a])
        PROVE  /\ (IF y >= n THEN y + 1 ELSE y) \in 1 .. Len(pipe[a])
               /\ pipe'[a][y] = pipe[a][IF y >= n THEN y + 1 ELSE y]
    BY DEF LeavesFrom
  <2>2. ASSUME NEW x \in Stages \ {a} PROVE pipe'[x] = pipe[x]
    BY DEF LeavesFrom
  <2> QED
    BY <2>1, <2>2
<1>3. PICK k \in 1 .. Len(pipe[s]) : pipe'[s][i] = pipe[s][k] /\ k = IF s = a /\ i >= n THEN i + 1 ELSE i
  BY <1>2
<1>4. PICK l \in 1 .. Len(pipe[t]) : pipe'[t][j] = pipe[t][l] /\ l = IF t = a /\ j >= n THEN j + 1 ELSE j
  BY <1>2
<1>5. n \in Nat /\ i \in Nat /\ j \in Nat
  BY DEF LeavesFrom
<1>6. Before(s, k, t, l)
  BY <1>1, <1>3, <1>4, <1>5 DEF Before
<1>7. pipe[s][k] >= Oldest /\ pipe[t][l] >= Oldest
  <2>1. pipe[s][k] \in Int /\ pipe[t][l] \in Int
    OBVIOUS
  <2>2. pipe[s][k] >= Oldest' /\ pipe[t][l] >= Oldest'
    BY <1>1, <1>3, <1>4
  <2>3. Oldest' >= Oldest /\ Oldest \in Int /\ Oldest' \in Int
    OBVIOUS
  <2> QED
    BY ONLY <2>1, <2>2, <2>3
<1> QED
  BY <1>3, <1>4, <1>6, <1>7 DEF Ordered

LEMMA EmptiesOrdered ==
    ASSUME Ordered, NEW S, Empties(S), Oldest' >= Oldest, Oldest \in Int, Oldest' \in Int,
           \A s \in Stages : Len(pipe[s]) \in Nat /\ \A i \in 1 .. Len(pipe[s]) : pipe[s][i] \in Int
    PROVE  Ordered'
<1>1. \A s \in Stages : \A i \in 1 .. Len(pipe'[s]) : s \notin S /\ pipe'[s] = pipe[s]
  BY DEF Empties
<1>2. SUFFICES ASSUME NEW s \in Stages, NEW t \in Stages,
                      NEW i \in 1 .. Len(pipe'[s]), NEW j \in 1 .. Len(pipe'[t]),
                      Before(s, i, t, j), pipe'[s][i] >= Oldest', pipe'[t][j] >= Oldest'
               PROVE  pipe'[s][i] < pipe'[t][j]
  BY DEF Ordered, Before
<1>3. pipe'[s] = pipe[s] /\ pipe'[t] = pipe[t]
  BY <1>1
<1>4. pipe[s][i] >= Oldest /\ pipe[t][j] >= Oldest
  BY <1>2, <1>3
<1> QED
  BY <1>2, <1>3, <1>4 DEF Ordered

(* Nothing is behind the last packet of the last stage that has any, and   *)
(* what comes after all the others is younger.                             *)
LEMMA ComesOrdered ==
    ASSUME Ordered, NEW b \in Stages, NEW p \in Int, ComesTo(b, p), UNCHANGED nearStops,
           \A s \in Stages : Len(pipe[s]) \in Nat /\ \A i \in 1 .. Len(pipe[s]) : pipe[s][i] \in Int,
           \/ p < Oldest
           \/ b = "near" /\ \A s \in Stages : \A i \in 1 .. Len(pipe[s]) : pipe[s][i] < p
           \/ \A s \in Stages : pipe[s] = << >>
    PROVE  Ordered'
<1>0. Oldest \in Int /\ Oldest' = Oldest
  BY DEF Oldest, Test
<1>1. SUFFICES ASSUME NEW s \in Stages, NEW t \in Stages,
                      NEW i \in 1 .. Len(pipe'[s]), NEW j \in 1 .. Len(pipe'[t]),
                      Before(s, i, t, j), pipe'[s][i] >= Oldest, pipe'[t][j] >= Oldest
               PROVE  pipe'[s][i] < pipe'[t][j]
  BY <1>0 DEF Ordered, Before
<1>2. \A x \in Stages : \A y \in 1 .. Len(pipe'[x]) :
          \/ y \in 1 .. Len(pipe[x]) /\ pipe'[x][y] = pipe[x][y]
          \/ x = b /\ y = Len(pipe[b]) + 1 /\ pipe'[x][y] = p
  BY DEF ComesTo
<1>3. CASE i \in 1 .. Len(pipe[s]) /\ pipe'[s][i] = pipe[s][i] /\ j \in 1 .. Len(pipe[t]) /\ pipe'[t][j] = pipe[t][j]
  BY <1>1, <1>3 DEF Ordered
<1>4. CASE s = b /\ i = Len(pipe[b]) + 1 /\ pipe'[s][i] = p
  <2>1. p >= Oldest
    BY <1>1, <1>4
  <2>2. CASE b = "near"
    <3>1. t = b
      BY <1>1, <1>4, <2>2 DEF Before, Rank, Stages
    <3>2. j > i
      BY <1>1, <1>4, <3>1, RankProperties DEF Before
    <3> QED
      BY <1>4, <3>1, <3>2 DEF ComesTo
  <2>3. CASE \A x \in Stages : pipe[x] = << >>
    <3>1. \A x \in Stages : Len(pipe[x]) = 0
      BY <2>3
    <3>2. t = b /\ j = 1 /\ i = 1
      BY <1>2, <1>4, <3>1
    <3> QED
      BY <1>1, <1>4, <3>2, RankProperties DEF Before
  <2> QED
    BY <1>0, <2>1, <2>2, <2>3
<1>5. CASE i \in 1 .. Len(pipe[s]) /\ pipe'[s][i] = pipe[s][i] /\ t = b /\ pipe'[t][j] = p
  <2>1. p >= Oldest /\ pipe[s] # << >>
    BY <1>1, <1>5
  <2> QED
    BY <1>0, <1>5, <2>1
<1> QED
  BY <1>2, <1>3, <1>4, <1>5

----------------------------------------------------------------------------
(* Types                                                                   *)

Numbers == 0 .. accepted \cup {Empty}

(* The lengths that TypeOK speaks of.                                      *)
Lengths ==
    /\ \A s \in Stages : Len(pipe[s]) \in Nat
    /\ \A s \in Queues : Len(pipe[s]) <= Buffer + (IF s \in putting THEN 1 ELSE 0)
    /\ \A s \in putting : Len(pipe[s]) >= 1
    /\ Len(pipe["link"]) <= MaxLink
    /\ Len(pipe["read"]) <= ReadBuffer
    /\ Len(pipe["out"]) <= 1

OtherTypes ==
    /\ accepted \in 0 .. MaxPackets
    /\ closed \in BOOLEAN /\ strayed \in BOOLEAN
    /\ near \in {"down", "forwarding"}
    /\ far \in {"down", "handshake", "connecting", "forwarding"}
    /\ putting \subseteq Queues
    /\ nearStops \in 0 .. MaxStops /\ farStops \in 0 .. MaxStops

Entries ==
    \A s \in Stages : Len(pipe[s]) \in Nat /\ \A i \in 1 .. Len(pipe[s]) : pipe[s][i] \in Int

LEMMA QueuesAreStages == Queues \subseteq Stages
BY DEF Queues, Stages

LEMMA TypeParts ==
    TypeOK <=> /\ OtherTypes /\ Lengths
               /\ pipe \in [Stages -> Seq(Numbers)] /\ delivered \in Seq(1 .. accepted)
<1>1. ASSUME pipe \in [Stages -> Seq(Numbers)]
      PROVE  \A s \in Stages : Len(pipe[s]) \in Nat /\ (pipe[s] = << >> <=> Len(pipe[s]) = 0)
  BY <1>1, EmptySeq, LenProperties
<1>2. ASSUME TypeOK
      PROVE  OtherTypes /\ Lengths /\ pipe \in [Stages -> Seq(Numbers)] /\ delivered \in Seq(1 .. accepted)
  <2>1. pipe \in [Stages -> Seq(Numbers)]
    BY <1>2 DEF TypeOK, Numbers
  <2>2. Lengths
    BY <1>1, <1>2, <2>1, QueuesAreStages DEF TypeOK, Lengths
  <2> QED
    BY <1>2, <2>1, <2>2 DEF TypeOK, OtherTypes
<1>3. ASSUME OtherTypes, Lengths, pipe \in [Stages -> Seq(Numbers)], delivered \in Seq(1 .. accepted)
      PROVE  TypeOK
  <2>1. \A s \in putting : pipe[s] # << >>
    BY <1>1, <1>3, QueuesAreStages DEF Lengths, OtherTypes
  <2> QED
    BY <1>3, <2>1 DEF TypeOK, Numbers, OtherTypes, Lengths
<1> QED
  BY <1>2, <1>3

LEMMA TypePartsNext ==
    TypeOK' <=> /\ OtherTypes' /\ Lengths'
                /\ pipe' \in [Stages -> Seq(Numbers')] /\ delivered' \in Seq(1 .. accepted')
<1>1. (TypeOK <=> /\ OtherTypes /\ Lengths
                   /\ pipe \in [Stages -> Seq(Numbers)] /\ delivered \in Seq(1 .. accepted))'
  BY TypeParts, PTL
<1> QED
  BY <1>1

LEMMA TypedEntries ==
    ASSUME TypeOK
    PROVE  /\ Entries
           /\ \A s \in Stages : \A i \in 1 .. Len(pipe[s]) : pipe[s][i] \in Numbers
           /\ \A s \in Stages : pipe[s] = << >> <=> Len(pipe[s]) = 0
           /\ Numbers \subseteq Int
<1>1. pipe \in [Stages -> Seq(Numbers)] /\ accepted \in Nat
  BY TypeParts DEF OtherTypes
<1>2. Numbers \subseteq Int
  BY <1>1 DEF Numbers, Empty
<1>3. \A s \in Stages : Len(pipe[s]) \in Nat /\ \A i \in 1 .. Len(pipe[s]) : pipe[s][i] \in Numbers
  BY <1>1, LenProperties, ElementOfSeq
<1>4. \A s \in Stages : pipe[s] = << >> <=> Len(pipe[s]) = 0
  BY <1>1, EmptySeq, LenProperties
<1> QED
  BY <1>2, <1>3, <1>4 DEF Entries

LEMMA NumbersGrow ==
    ASSUME accepted \in Nat, accepted' \in {accepted, accepted + 1}
    PROVE  /\ Numbers \subseteq Numbers'
           /\ Seq(Numbers) \subseteq Seq(Numbers')
           /\ Seq(1 .. accepted) \subseteq Seq(1 .. accepted')
<1>1. Numbers \subseteq Numbers' /\ 1 .. accepted \subseteq 1 .. accepted'
  BY DEF Numbers, Empty
<1> QED
  BY <1>1, SeqMonotonic

LEMMA OldestGrows ==
    ASSUME nearStops \in Nat, nearStops' \in {nearStops, nearStops + 1}
    PROVE  Oldest' >= Oldest /\ Oldest \in Int /\ Oldest' \in Int
BY DEF Oldest, Test

----------------------------------------------------------------------------
(* Where packets stay                                                      *)

Stays(s) ==
    \A i \in 1 .. Len(pipe'[s]) : \E k \in 1 .. Len(pipe[s]) : pipe'[s][i] = pipe[s][k]

LEMMA MovesOnStays ==
    ASSUME NEW a \in Stages, NEW b \in Stages, a # b, MovesOn(a, b), Entries
    PROVE  /\ \A s \in Stages \ {b} : Stays(s)
           /\ \A i \in 1 .. Len(pipe'[b]) :
                 pipe'[b][i] = pipe[a][1] \/ \E k \in 1 .. Len(pipe[b]) : pipe'[b][i] = pipe[b][k]
<1>1. ASSUME NEW i \in 1 .. Len(pipe'[a])
      PROVE  i + 1 \in 1 .. Len(pipe[a]) /\ pipe'[a][i] = pipe[a][i + 1]
  BY DEF MovesOn
<1>2. Stays(a)
  BY <1>1 DEF Stays
<1>3. ASSUME NEW s \in Stages \ {a, b} PROVE Stays(s)
  BY DEF MovesOn, Stays
<1>4. ASSUME NEW i \in 1 .. Len(pipe'[b])
      PROVE  i \in 1 .. Len(pipe[b]) \/ i = Len(pipe[b]) + 1
  BY DEF MovesOn
<1>5. \A i \in 1 .. Len(pipe'[b]) :
         pipe'[b][i] = pipe[a][1] \/ \E k \in 1 .. Len(pipe[b]) : pipe'[b][i] = pipe[b][k]
  BY <1>4 DEF MovesOn
<1> QED
  BY <1>2, <1>3, <1>5

LEMMA LeavesStays ==
    ASSUME NEW a \in Stages, NEW n, LeavesFrom(a, n), Entries
    PROVE  \A s \in Stages : Stays(s)
<1>1. ASSUME NEW i \in 1 .. Len(pipe'[a])
      PROVE  \E k \in 1 .. Len(pipe[a]) : pipe'[a][i] = pipe[a][k]
  <2>1. i \in 1 .. Len(pipe[a]) - 1 /\ i \in 1 .. Len(pipe[a]) /\ i + 1 \in 1 .. Len(pipe[a])
    BY DEF LeavesFrom
  <2> QED
    BY <2>1 DEF LeavesFrom
<1>2. ASSUME NEW s \in Stages \ {a} PROVE Stays(s)
  BY DEF LeavesFrom, Stays
<1> QED
  BY <1>1, <1>2 DEF Stays

LEMMA EmptiesStays ==
    ASSUME NEW S, Empties(S)
    PROVE  \A s \in Stages : Stays(s)
BY DEF Empties, Stays

(* A packet of the Joy-Con that is no longer in the pipe does not come     *)
(* back.                                                                   *)
Shrinks == \A n \in Nat \ {Test} : InPipe(n)' => InPipe(n)

(* Packets stay where they are, get lost, or the first of a passes to b,   *)
(* where it may be; the near instance goes on and the far one may stop or  *)
(* open.                                                                   *)
LEMMA FlowKeeps ==
    ASSUME Inv, Ordered', pipe' \in [Stages -> Seq(Numbers')],
           NEW a \in Stages, NEW b \in Stages \ {"near"},
           \A s \in Stages \ {b} : Stays(s),
           \A i \in 1 .. Len(pipe'[b]) :
              \/ /\ Len(pipe[a]) >= 1 /\ pipe'[b][i] = pipe[a][1]
                 /\ pipe[a][1] # Empty /\ (nearStops = 0 /\ pipe[a][1] = Test => b \in {"link", "read"})
              \/ \E k \in 1 .. Len(pipe[b]) : pipe'[b][i] = pipe[b][k],
           \/ far' = far
           \/ far' = "down"
           \/ far = "down" /\ far' = "handshake"
           \/ far = "connecting" /\ far' = "forwarding",
           UNCHANGED <<near, nearStops>>, nearStops = 0 => UNCHANGED strayed
    PROVE  EmptyStaysNear' /\ NothingBeforeStart' /\ TestAhead' /\ Shrinks
<1>1. TypeOK /\ EmptyStaysNear /\ NothingBeforeStart /\ TestAhead
  BY DEF Inv
<1>2. Entries /\ \A s \in Stages : pipe[s] = << >> <=> Len(pipe[s]) = 0
  BY <1>1, TypedEntries
<1>3. \A s \in Stages : \A i \in 1 .. Len(pipe'[s]) :
         \/ s = b /\ 1 \in 1 .. Len(pipe[a]) /\ pipe'[s][i] = pipe[a][1]
            /\ pipe[a][1] # Empty /\ (nearStops = 0 /\ pipe[a][1] = Test => b \in {"link", "read"})
         \/ \E k \in 1 .. Len(pipe[s]) : pipe'[s][i] = pipe[s][k]
  <2>1. Len(pipe[a]) >= 1 => 1 \in 1 .. Len(pipe[a])
    BY <1>2 DEF Entries
  <2>2. \A s \in Stages \ {b} : \A i \in 1 .. Len(pipe'[s]) :
           \E k \in 1 .. Len(pipe[s]) : pipe'[s][i] = pipe[s][k]
    BY DEF Stays
  <2>3. SUFFICES ASSUME NEW s \in Stages, NEW i \in 1 .. Len(pipe'[s])
                 PROVE  \/ /\ s = b /\ 1 \in 1 .. Len(pipe[a]) /\ pipe'[s][i] = pipe[a][1]
                           /\ pipe[a][1] # Empty
                           /\ (nearStops = 0 /\ pipe[a][1] = Test => b \in {"link", "read"})
                        \/ \E k \in 1 .. Len(pipe[s]) : pipe'[s][i] = pipe[s][k]
    OBVIOUS
  <2>4. CASE s = b
    BY <2>1, <2>4
  <2>5. CASE s # b
    BY <2>2, <2>5
  <2> QED
    BY <2>4, <2>5
<1>4. EmptyStaysNear'
  <2>1. SUFFICES ASSUME NEW s \in Stages \ {"near"}, NEW i \in 1 .. Len(pipe'[s])
                 PROVE  pipe'[s][i] # Empty
    BY DEF EmptyStaysNear, Empty
  <2>2. \A k \in 1 .. Len(pipe[s]) : pipe[s][k] # Empty
    BY <1>1 DEF EmptyStaysNear
  <2>3. CASE \E k \in 1 .. Len(pipe[s]) : pipe'[s][i] = pipe[s][k]
    BY <2>2, <2>3
  <2>4. CASE pipe'[s][i] = pipe[a][1] /\ pipe[a][1] # Empty
    BY <2>4
  <2> QED
    BY <1>3, <2>3, <2>4
<1>5. NothingBeforeStart'
  <2>1. SUFFICES ASSUME near = "down", nearStops = 0
                 PROVE  far' \in {"down", "handshake"} /\ \A s \in Stages : pipe'[s] = << >>
    BY DEF NothingBeforeStart
  <2>2. far \in {"down", "handshake"} /\ \A s \in Stages : Len(pipe[s]) = 0
    BY <1>1, <1>2, <2>1 DEF NothingBeforeStart
  <2>3. \A s \in Stages : Len(pipe'[s]) \in Nat /\ (pipe'[s] = << >> <=> Len(pipe'[s]) = 0)
    BY EmptySeq, LenProperties
  <2>4. \A s \in Stages : ~ \E i \in 1 .. Len(pipe'[s]) : TRUE
    BY <1>3, <2>2
  <2>5. \A s \in Stages : Len(pipe'[s]) = 0
    <3>1. SUFFICES ASSUME NEW s \in Stages, Len(pipe'[s]) # 0 PROVE FALSE
      OBVIOUS
    <3>2. 1 \in 1 .. Len(pipe'[s])
      BY <2>3, <3>1
    <3> QED
      BY <2>4, <3>2
  <2> QED
    BY <2>2, <2>3, <2>5
<1>6. TestAhead'
  <2>1. SUFFICES ASSUME nearStops = 0
                 PROVE  /\ ~ strayed'
                        /\ \A s \in Stages : \A i \in 1 .. Len(pipe'[s]) :
                              pipe'[s][i] = Test => s \in {"link", "read"} /\ far' \in {"down", "handshake"}
    BY DEF TestAhead, Test
  <2>2. /\ ~ strayed'
        /\ \A s \in Stages : \A k \in 1 .. Len(pipe[s]) :
              pipe[s][k] = Test => s \in {"link", "read"} /\ far' \in {"down", "handshake"}
    BY <1>1, <2>1 DEF TestAhead
  <2>3. ASSUME NEW s \in Stages, NEW i \in 1 .. Len(pipe'[s]), pipe'[s][i] = Test
        PROVE  s \in {"link", "read"} /\ far' \in {"down", "handshake"}
    <3>1. CASE \E k \in 1 .. Len(pipe[s]) : pipe'[s][i] = pipe[s][k]
      BY <2>2, <2>3, <3>1
    <3>2. CASE s = b /\ 1 \in 1 .. Len(pipe[a]) /\ pipe[a][1] = Test /\ b \in {"link", "read"}
      BY <2>2, <3>2
    <3> QED
      BY <1>3, <2>1, <2>3, <3>1, <3>2
  <2> QED
    BY <2>2, <2>3
<1>7. Shrinks
  <2>1. \A s \in Stages : \A i \in 1 .. Len(pipe'[s]) :
           \E r \in Stages : \E k \in 1 .. Len(pipe[r]) : pipe'[s][i] = pipe[r][k]
    BY <1>3
  <2>2. ASSUME NEW n \in Nat \ {Test}, InPipe(n)' PROVE InPipe(n)
    <3>1. PICK s \in Stages : \E i \in 1 .. Len(pipe'[s]) : pipe'[s][i] = n
      BY <2>2 DEF InPipe
    <3>2. PICK i \in 1 .. Len(pipe'[s]) : pipe'[s][i] = n
      BY <3>1
    <3>3. PICK r \in Stages : \E k \in 1 .. Len(pipe[r]) : pipe'[s][i] = pipe[r][k]
      BY <2>1
    <3> QED
      BY <3>2, <3>3 DEF InPipe
  <2> QED
    BY <2>2 DEF Shrinks
<1> QED
  BY <1>4, <1>5, <1>6, <1>7

(* The same when every packet stays or leaves.                             *)
LEMMA StayingKeeps ==
    ASSUME Inv, Ordered', pipe' \in [Stages -> Seq(Numbers')], \A s \in Stages : Stays(s),
           \/ far' = far
           \/ far' = "down"
           \/ far = "down" /\ far' = "handshake"
           \/ far = "connecting" /\ far' = "forwarding",
           UNCHANGED <<near, nearStops>>, nearStops = 0 => UNCHANGED strayed
    PROVE  EmptyStaysNear' /\ NothingBeforeStart' /\ TestAhead' /\ Shrinks
BY FlowKeeps DEF Stays, Stages

----------------------------------------------------------------------------
(* The actions                                                             *)

LEMMA UnchangedPipeKeeps ==
    ASSUME Inv, TypeOK', UNCHANGED <<pipe, near, nearStops, strayed>>,
           \/ far' = far
           \/ far = "down" /\ far' = "handshake"
           \/ far = "connecting" /\ far' = "forwarding"
    PROVE  Inv' /\ Shrinks
<1>1. \A s \in Stages : Stays(s)
  BY DEF Stays
<1>2. Ordered'
  BY DEF Inv, Ordered, Before, Oldest
<1>3. pipe' \in [Stages -> Seq(Numbers')]
  BY DEF TypeOK, Numbers
<1> QED
  BY <1>1, <1>2, <1>3, StayingKeeps DEF Inv

LEMMA ResumePutKeeps ==
    ASSUME Inv, NEW s \in Queues, ResumePut(s)
    PROVE  Inv' /\ Shrinks
<1>1. /\ UNCHANGED <<accepted, closed, near, far, pipe, delivered, strayed, nearStops, farStops>>
      /\ Len(pipe[s]) <= Buffer /\ putting' = putting \ {s}
  BY DEF ResumePut, switchVars, stopVars
<1>2. TypeOK'
  <2>1. OtherTypes' /\ Lengths'
    <3>1. Buffer \in Nat
      BY IPProxyAssumption
    <3> QED
      BY <1>1, <3>1, TypeParts DEF Inv, OtherTypes, Lengths
  <2>2. pipe' \in [Stages -> Seq(Numbers')] /\ delivered' \in Seq(1 .. accepted')
    BY <1>1, TypeParts DEF Inv, Numbers
  <2> QED
    BY <2>1, <2>2, TypePartsNext
<1> QED
  BY <1>1, <1>2, UnchangedPipeKeeps

LEMMA QuietKeeps ==
    ASSUME Inv, JoyconDisconnects \/ OpenFar \/ SwitchConnects \/ UNCHANGED vars
    PROVE  Inv' /\ Shrinks
<1> USE DEF JoyconDisconnects, OpenFar, SwitchConnects, vars, switchVars, stopVars
<1>1. TypeOK'
  <2>1. /\ UNCHANGED <<accepted, near, pipe, putting, delivered, strayed, nearStops, farStops>>
        /\ closed' \in BOOLEAN /\ far' \in {"down", "handshake", "connecting", "forwarding"}
    BY DEF Inv, TypeOK
  <2>2. OtherTypes' /\ Lengths'
    BY <2>1, TypeParts DEF Inv, OtherTypes, Lengths
  <2>3. pipe' \in [Stages -> Seq(Numbers')] /\ delivered' \in Seq(1 .. accepted')
    BY <2>1, TypeParts DEF Inv, Numbers
  <2> QED
    BY <2>2, <2>3, TypePartsNext
<1> QED
  BY <1>1, UnchangedPipeKeeps

LEMMA MoveKeeps ==
    ASSUME Inv, TypeOK', NEW a \in Stages, NEW b \in Stages \ {"near"}, Rank[b] = Rank[a] - 1,
           MovesOn(a, b), pipe[a][1] # Empty,
           nearStops = 0 /\ pipe[a][1] = Test => b \in {"link", "read"},
           UNCHANGED <<near, far, nearStops, strayed>>
    PROVE  Inv' /\ Shrinks
<1>1. TypeOK /\ Ordered
  BY DEF Inv
<1>2. Entries
  BY <1>1, TypedEntries
<1>3. Ordered'
  <2>1. Oldest' >= Oldest /\ Oldest \in Int /\ Oldest' \in Int
    BY <1>1, OldestGrows DEF TypeOK
  <2> QED
    BY <1>1, <1>2, <2>1, MovesOnOrdered DEF Entries
<1>4. a # b
  BY RankProperties
<1>5. /\ \A s \in Stages \ {b} : Stays(s)
      /\ \A i \in 1 .. Len(pipe'[b]) :
            pipe'[b][i] = pipe[a][1] \/ \E k \in 1 .. Len(pipe[b]) : pipe'[b][i] = pipe[b][k]
  BY <1>2, <1>4, MovesOnStays
<1>6. pipe' \in [Stages -> Seq(Numbers')] /\ Len(pipe[a]) >= 1
  BY TypePartsNext DEF MovesOn
<1>7. EmptyStaysNear' /\ NothingBeforeStart' /\ TestAhead' /\ Shrinks
  BY <1>3, <1>5, <1>6, FlowKeeps
<1> QED
  BY <1>3, <1>7 DEF Inv

LEMMA LeaveKeeps ==
    ASSUME Inv, TypeOK', NEW a \in Stages, NEW n, LeavesFrom(a, n),
           UNCHANGED <<near, far, nearStops>>, nearStops = 0 => UNCHANGED strayed
    PROVE  Inv' /\ Shrinks
<1>1. TypeOK /\ Ordered
  BY DEF Inv
<1>2. Entries
  BY <1>1, TypedEntries
<1>3. Ordered'
  <2>1. Oldest' >= Oldest /\ Oldest \in Int /\ Oldest' \in Int
    BY <1>1, OldestGrows DEF TypeOK
  <2> QED
    BY <1>1, <1>2, <2>1, LeavesOrdered DEF Entries
<1>4. \A s \in Stages : Stays(s)
  BY <1>2, LeavesStays
<1>5. pipe' \in [Stages -> Seq(Numbers')]
  BY TypePartsNext
<1>6. EmptyStaysNear' /\ NothingBeforeStart' /\ TestAhead' /\ Shrinks
  BY <1>3, <1>4, <1>5, StayingKeeps
<1> QED
  BY <1>3, <1>6 DEF Inv

(* What TypeOK says of a packet that may leave its queue.                  *)
LEMMA QueueOfGet ==
    ASSUME TypeOK, NEW s \in Queues, CanGet(s)
    PROVE  /\ pipe[s] # << >> /\ Len(pipe[s]) \in Nat \ {0}
           /\ s \in putting => Len(pipe[s]) > 1
<1>1. Len(pipe[s]) \in Nat
  BY TypeParts, QueuesAreStages DEF Lengths
<1> QED
  BY <1>1, TypedEntries, QueuesAreStages DEF CanGet

(* There is room for one more packet at b, or its putter waits.            *)
Room(b) ==
    /\ b \in Queues => /\ b \notin putting
                       /\ putting' = IF Len(pipe[b]) < Buffer THEN putting ELSE putting \cup {b}
    /\ b \notin Queues => putting' = putting
    /\ b = "link" => Len(pipe[b]) < MaxLink
    /\ b = "read" => Len(pipe[b]) < ReadBuffer
    /\ b = "out" => Len(pipe[b]) = 0

LEMMA LengthsGrow ==
    ASSUME TypeOK, NEW b \in Stages, Room(b), Len(pipe'[b]) = Len(pipe[b]) + 1,
           \A s \in Stages \ {b} : Len(pipe'[s]) \in Nat /\ Len(pipe'[s]) <= Len(pipe[s]),
           \A s \in putting : Len(pipe'[s]) >= 1
    PROVE  Lengths'
<1>1. /\ \A s \in Stages : Len(pipe[s]) \in Nat
      /\ \A s \in Queues : Len(pipe[s]) <= Buffer + (IF s \in putting THEN 1 ELSE 0)
      /\ Len(pipe["link"]) <= MaxLink /\ Len(pipe["read"]) <= ReadBuffer /\ Len(pipe["out"]) <= 1
      /\ {Buffer, MaxLink, ReadBuffer} \subseteq Nat
  BY TypeParts, IPProxyAssumption DEF Lengths
<1>2. \A s \in Stages : Len(pipe'[s]) \in Nat
  BY <1>1
<1>3. ASSUME NEW s \in Queues
      PROVE  Len(pipe'[s]) <= Buffer + (IF s \in putting' THEN 1 ELSE 0)
  <2>1. /\ Len(pipe[s]) \in Nat /\ Len(pipe'[s]) \in Nat
        /\ Len(pipe[s]) <= Buffer + (IF s \in putting THEN 1 ELSE 0)
    BY <1>1, <1>2, QueuesAreStages
  <2>2. CASE s = b
    BY <1>1, <2>1, <2>2 DEF Room
  <2>3. CASE s # b
    <3>1. Len(pipe'[s]) <= Len(pipe[s]) /\ (s \in putting => s \in putting')
      BY <2>3, QueuesAreStages DEF Room
    <3> QED
      BY <1>1, <2>1, <3>1
  <2> QED
    BY <2>2, <2>3
<1>4. \A s \in putting' : Len(pipe'[s]) >= 1
  <2>1. \A s \in putting' : s \in putting \/ s = b
    BY DEF Room
  <2>2. Len(pipe'[b]) >= 1
    BY <1>1
  <2> QED
    BY <2>1, <2>2
<1>5. Len(pipe'["link"]) <= MaxLink
  BY <1>1 DEF Room, Stages
<1>6. Len(pipe'["read"]) <= ReadBuffer
  BY <1>1 DEF Room, Stages
<1>7. Len(pipe'["out"]) <= 1
  BY <1>1 DEF Room, Stages
<1> QED
  BY <1>2, <1>3, <1>4, <1>5, <1>6, <1>7 DEF Lengths

LEMMA LengthsShrink ==
    ASSUME TypeOK, \A s \in Stages : Len(pipe'[s]) \in Nat /\ Len(pipe'[s]) <= Len(pipe[s]),
           \A s \in putting' : s \in putting /\ Len(pipe'[s]) >= 1,
           \A s \in putting : s \in putting' \/ Len(pipe'[s]) = 0
    PROVE  Lengths'
<1>1. /\ \A s \in Stages : Len(pipe[s]) \in Nat
      /\ \A s \in Queues : Len(pipe[s]) <= Buffer + (IF s \in putting THEN 1 ELSE 0)
      /\ Len(pipe["link"]) <= MaxLink /\ Len(pipe["read"]) <= ReadBuffer /\ Len(pipe["out"]) <= 1
      /\ {Buffer, MaxLink, ReadBuffer} \subseteq Nat
  BY TypeParts, IPProxyAssumption DEF Lengths
<1>2. ASSUME NEW s \in Queues
      PROVE  Len(pipe'[s]) <= Buffer + (IF s \in putting' THEN 1 ELSE 0)
  BY <1>1, QueuesAreStages
<1>3. Len(pipe'["link"]) <= MaxLink
  BY <1>1 DEF Stages
<1>4. Len(pipe'["read"]) <= ReadBuffer
  BY <1>1 DEF Stages
<1>5. Len(pipe'["out"]) <= 1
  BY <1>1 DEF Stages
<1> QED
  BY <1>2, <1>3, <1>4, <1>5 DEF Lengths

LEMMA MoveLengths ==
    ASSUME TypeOK, NEW a \in Stages, NEW b \in Stages, a # b, MovesOn(a, b), Room(b),
           a \in putting => Len(pipe[a]) > 1
    PROVE  Lengths'
<1>1. /\ \A s \in Stages : Len(pipe[s]) \in Nat
      /\ putting \subseteq Stages /\ \A s \in putting : Len(pipe[s]) >= 1
  BY TypeParts, QueuesAreStages DEF Lengths, OtherTypes
<1>2. /\ Len(pipe'[a]) = Len(pipe[a]) - 1 /\ Len(pipe'[b]) = Len(pipe[b]) + 1
      /\ Len(pipe[a]) \in Nat \ {0} /\ \A s \in Stages \ {a, b} : pipe'[s] = pipe[s]
  BY DEF MovesOn
<1>3. \A s \in Stages \ {b} : Len(pipe'[s]) \in Nat /\ Len(pipe'[s]) <= Len(pipe[s])
  BY <1>1, <1>2
<1>4. ASSUME NEW s \in putting PROVE Len(pipe'[s]) >= 1
  BY <1>1, <1>2
<1> QED
  BY <1>2, <1>3, <1>4, LengthsGrow

LEMMA ComeLengths ==
    ASSUME TypeOK, NEW b \in Stages, NEW p, ComesTo(b, p), Room(b)
    PROVE  Lengths'
<1>1. /\ \A s \in Stages : Len(pipe[s]) \in Nat
      /\ putting \subseteq Stages /\ \A s \in putting : Len(pipe[s]) >= 1
  BY TypeParts, QueuesAreStages DEF Lengths, OtherTypes
<1>2. Len(pipe'[b]) = Len(pipe[b]) + 1 /\ \A s \in Stages \ {b} : pipe'[s] = pipe[s]
  BY DEF ComesTo
<1>3. \A s \in Stages \ {b} : Len(pipe'[s]) \in Nat /\ Len(pipe'[s]) <= Len(pipe[s])
  BY <1>1, <1>2
<1>4. ASSUME NEW s \in putting PROVE Len(pipe'[s]) >= 1
  BY <1>1, <1>2
<1> QED
  BY <1>2, <1>3, <1>4, LengthsGrow

LEMMA LeaveLengths ==
    ASSUME TypeOK, NEW a \in Stages, NEW n, LeavesFrom(a, n), UNCHANGED putting,
           a \in putting => Len(pipe[a]) > 1
    PROVE  Lengths'
<1>1. /\ \A s \in Stages : Len(pipe[s]) \in Nat
      /\ putting \subseteq Stages /\ \A s \in putting : Len(pipe[s]) >= 1
  BY TypeParts, QueuesAreStages DEF Lengths, OtherTypes
<1>2. /\ Len(pipe[a]) \in Nat \ {0} /\ Len(pipe'[a]) = Len(pipe[a]) - 1
      /\ \A s \in Stages \ {a} : pipe'[s] = pipe[s]
  BY DEF LeavesFrom
<1>3. \A s \in Stages : Len(pipe'[s]) \in Nat /\ Len(pipe'[s]) <= Len(pipe[s])
  BY <1>1, <1>2
<1>4. ASSUME NEW s \in putting PROVE Len(pipe'[s]) >= 1
  BY <1>1, <1>2
<1> QED
  BY <1>3, <1>4, LengthsShrink

(* What stays the same of the types when only packets move.                *)
LEMMA OtherTypesStay ==
    ASSUME Inv, UNCHANGED <<accepted, closed, near, far, delivered, strayed, nearStops, farStops>>,
           putting' \subseteq putting \cup Queues
    PROVE  OtherTypes' /\ delivered' \in Seq(1 .. accepted') /\ Numbers' = Numbers
BY TypeParts DEF Inv, OtherTypes, Numbers

LEMMA SendDatagramKeeps ==
    ASSUME Inv, SendDatagram
    PROVE  Inv' /\ Shrinks
<1>1. /\ CanGet("near") /\ Len(pipe["link"]) < MaxLink
      /\ UNCHANGED <<accepted, closed, near, far, putting, delivered, strayed, nearStops, farStops>>
      /\ \/ pipe' = Without("near")
         \/ /\ Head(pipe["near"]) # Empty
            /\ pipe' = [Without("near") EXCEPT !["link"] = Append(@, Head(pipe["near"]))]
  BY DEF SendDatagram, Datagram, switchVars, stopVars
<1>2. TypeOK /\ pipe \in [Stages -> Seq(Numbers)]
  BY TypeParts DEF Inv
<1>3. /\ "near" \in Stages /\ "link" \in Stages /\ "near" \in Queues /\ "link" \notin Queues
      /\ Rank["link"] = Rank["near"] - 1
  BY DEF Stages, Queues, Rank
<1>4. pipe["near"] # << >> /\ ("near" \in putting => Len(pipe["near"]) > 1)
  BY <1>1, <1>2, <1>3, QueueOfGet
<1>5. OtherTypes' /\ delivered' \in Seq(1 .. accepted') /\ Numbers' = Numbers
  BY <1>1, OtherTypesStay
<1>6. CASE pipe' = Without("near")
  <2>1. pipe' \in [Stages -> Seq(Numbers)] /\ LeavesFrom("near", 1)
    BY <1>2, <1>3, <1>4, <1>6, LeavesShape
  <2>2. Lengths'
    BY <1>1, <1>2, <1>3, <1>4, <2>1, LeaveLengths
  <2>3. TypeOK'
    BY <1>5, <2>1, <2>2, TypePartsNext
  <2> QED
    BY <1>1, <1>3, <2>1, <2>3, LeaveKeeps
<1>7. CASE /\ Head(pipe["near"]) # Empty
           /\ pipe' = [Without("near") EXCEPT !["link"] = Append(@, Head(pipe["near"]))]
  <2>1. pipe' \in [Stages -> Seq(Numbers)] /\ MovesOn("near", "link")
    BY <1>2, <1>3, <1>4, <1>7, MovesOnShape
  <2>2. Room("link")
    BY <1>1, <1>3 DEF Room
  <2>3. Lengths'
    BY <1>2, <1>3, <1>4, <2>1, <2>2, MoveLengths
  <2>4. TypeOK'
    BY <1>5, <2>1, <2>3, TypePartsNext
  <2>5. pipe["near"][1] # Empty
    BY <1>2, <1>3, <1>4, <1>7, TailEntries
  <2> QED
    BY <1>1, <1>3, <2>1, <2>4, <2>5, MoveKeeps
<1> QED
  BY <1>1, <1>6, <1>7

LEMMA LoseDatagramKeeps ==
    ASSUME Inv, LoseDatagram
    PROVE  Inv' /\ Shrinks
<1>1. /\ UNCHANGED <<accepted, closed, near, far, putting, delivered, strayed, nearStops, farStops>>
      /\ \E k \in 1 .. Len(pipe["link"]) : pipe' = [pipe EXCEPT !["link"] = RemoveAt(@, k)]
  BY DEF LoseDatagram, switchVars, stopVars
<1>2. TypeOK /\ pipe \in [Stages -> Seq(Numbers)] /\ putting \subseteq Queues
  BY TypeParts DEF Inv, OtherTypes
<1>3. "link" \in Stages /\ "link" \notin putting
  BY <1>2 DEF Stages, Queues
<1>4. OtherTypes' /\ delivered' \in Seq(1 .. accepted') /\ Numbers' = Numbers
  BY <1>1, OtherTypesStay
<1>5. PICK k \in 1 .. Len(pipe["link"]) : pipe' = [pipe EXCEPT !["link"] = RemoveAt(@, k)]
  BY <1>1
<1>6. pipe' \in [Stages -> Seq(Numbers)] /\ LeavesFrom("link", k)
  BY <1>2, <1>3, <1>5, RemovedShape
<1>7. Lengths'
  BY <1>1, <1>2, <1>3, <1>6, LeaveLengths
<1>8. TypeOK'
  BY <1>4, <1>6, <1>7, TypePartsNext
<1> QED
  BY <1>1, <1>3, <1>6, <1>8, LeaveKeeps

LEMMA DatagramReceivedKeeps ==
    ASSUME Inv, DatagramReceived
    PROVE  Inv' /\ Shrinks
<1>1. /\ pipe["link"] # << >>
      /\ UNCHANGED <<accepted, closed, near, far, putting, delivered, strayed, nearStops, farStops>>
      /\ \/ pipe' = Without("link")
         \/ /\ Len(pipe["read"]) < ReadBuffer
            /\ pipe' = [Without("link") EXCEPT !["read"] = Append(@, Head(pipe["link"]))]
  BY DEF DatagramReceived, switchVars, stopVars
<1>2. TypeOK /\ pipe \in [Stages -> Seq(Numbers)] /\ putting \subseteq Queues /\ EmptyStaysNear
  BY TypeParts DEF Inv, OtherTypes
<1>3. /\ "link" \in Stages \ {"near"} /\ "read" \in Stages \ {"near"}
      /\ "link" \notin putting /\ "read" \notin Queues /\ Rank["read"] = Rank["link"] - 1
  BY <1>2 DEF Stages, Queues, Rank
<1>4. OtherTypes' /\ delivered' \in Seq(1 .. accepted') /\ Numbers' = Numbers
  BY <1>1, OtherTypesStay
<1>5. CASE pipe' = Without("link")
  <2>1. pipe' \in [Stages -> Seq(Numbers)] /\ LeavesFrom("link", 1)
    BY <1>1, <1>2, <1>3, <1>5, LeavesShape
  <2>2. Lengths'
    BY <1>1, <1>2, <1>3, <2>1, LeaveLengths
  <2>3. TypeOK'
    BY <1>4, <2>1, <2>2, TypePartsNext
  <2> QED
    BY <1>1, <1>3, <2>1, <2>3, LeaveKeeps
<1>6. CASE /\ Len(pipe["read"]) < ReadBuffer
           /\ pipe' = [Without("link") EXCEPT !["read"] = Append(@, Head(pipe["link"]))]
  <2>1. pipe' \in [Stages -> Seq(Numbers)] /\ MovesOn("link", "read")
    BY <1>1, <1>2, <1>3, <1>6, MovesOnShape
  <2>2. Room("read")
    BY <1>1, <1>3, <1>6 DEF Room
  <2>3. Lengths'
    BY <1>2, <1>3, <2>1, <2>2, MoveLengths
  <2>4. TypeOK'
    BY <1>4, <2>1, <2>3, TypePartsNext
  <2>5. 1 \in 1 .. Len(pipe["link"])
    BY <2>1 DEF MovesOn
  <2>6. pipe["link"][1] # Empty
    BY <1>2, <1>3, <2>5 DEF EmptyStaysNear
  <2> QED
    BY <1>1, <1>3, <2>1, <2>4, <2>6, MoveKeeps
<1> QED
  BY <1>1, <1>5, <1>6

(* Behind the handshake there is no packet of a test to meet.              *)
LEMMA ReadKeeps ==
    ASSUME Inv, Read
    PROVE  Inv' /\ Shrinks
<1>1. /\ far = "forwarding" /\ pipe["read"] # << >> /\ "far" \notin putting
      /\ UNCHANGED <<accepted, closed, near, far, delivered, strayed, nearStops, farStops>>
      /\ pipe' = [Without("read") EXCEPT !["far"] = Append(@, Head(pipe["read"]))]
      /\ putting' = IF Len(pipe["far"]) < Buffer THEN putting ELSE putting \cup {"far"}
  BY DEF Read, Put, switchVars, stopVars
<1>2. /\ TypeOK /\ pipe \in [Stages -> Seq(Numbers)] /\ putting \subseteq Queues
      /\ EmptyStaysNear /\ TestAhead
  BY TypeParts DEF Inv, OtherTypes
<1>3. /\ "read" \in Stages \ {"near"} /\ "far" \in Stages \ {"near"}
      /\ "read" \notin putting /\ "far" \in Queues /\ Rank["far"] = Rank["read"] - 1
      /\ "far" # "link" /\ "far" # "read" /\ "far" # "out"
  BY <1>2 DEF Stages, Queues, Rank
<1>4. OtherTypes' /\ delivered' \in Seq(1 .. accepted') /\ Numbers' = Numbers
  BY <1>1, <1>3, OtherTypesStay
<1>5. pipe' \in [Stages -> Seq(Numbers)] /\ MovesOn("read", "far")
  BY <1>1, <1>2, <1>3, MovesOnShape
<1>6. Room("far")
  BY <1>1, <1>3 DEF Room
<1>7. Lengths'
  BY <1>2, <1>3, <1>5, <1>6, MoveLengths
<1>8. TypeOK'
  BY <1>4, <1>5, <1>7, TypePartsNext
<1>9. 1 \in 1 .. Len(pipe["read"])
  BY <1>5 DEF MovesOn
<1>10. pipe["read"][1] # Empty
  BY <1>2, <1>3, <1>9 DEF EmptyStaysNear
<1>11. ~ (nearStops = 0 /\ pipe["read"][1] = Test)
  BY <1>1, <1>2, <1>3, <1>9 DEF TestAhead
<1> QED
  BY <1>1, <1>3, <1>5, <1>8, <1>10, <1>11, MoveKeeps

LEMMA GetKeeps ==
    ASSUME Inv, Get
    PROVE  Inv' /\ Shrinks
<1>1. /\ CanGet("far") /\ pipe["out"] = << >>
      /\ UNCHANGED <<accepted, closed, near, far, putting, delivered, strayed, nearStops, farStops>>
      /\ pipe' = [Without("far") EXCEPT !["out"] = <<Head(pipe["far"])>>]
  BY DEF Get, switchVars, stopVars
<1>2. /\ TypeOK /\ pipe \in [Stages -> Seq(Numbers)] /\ putting \subseteq Queues
      /\ EmptyStaysNear /\ TestAhead
  BY TypeParts DEF Inv, OtherTypes
<1>3. /\ "far" \in Stages \ {"near"} /\ "out" \in Stages \ {"near"} /\ "far" # "out"
      /\ "far" \in Queues /\ "out" \notin Queues /\ Rank["out"] = Rank["far"] - 1
      /\ "far" \notin {"link", "read"} /\ "out" # "link" /\ "out" # "read"
  BY <1>2 DEF Stages, Queues, Rank
<1>4. pipe["far"] # << >> /\ ("far" \in putting => Len(pipe["far"]) > 1)
  BY <1>1, <1>2, <1>3, QueueOfGet
<1>5. OtherTypes' /\ delivered' \in Seq(1 .. accepted') /\ Numbers' = Numbers
  BY <1>1, OtherTypesStay
<1>6. pipe' = [Without("far") EXCEPT !["out"] = Append(@, Head(pipe["far"]))]
  <2>1. Without("far")["out"] = << >>
    BY <1>1, <1>2, <1>3 DEF Without
  <2>2. Append(<< >>, Head(pipe["far"])) = <<Head(pipe["far"])>>
    OBVIOUS
  <2> QED
    BY <1>1, <1>2, <1>3, <2>1, <2>2 DEF Without
<1>7. pipe' \in [Stages -> Seq(Numbers)] /\ MovesOn("far", "out")
  BY <1>2, <1>3, <1>4, <1>6, MovesOnShape
<1>8. Room("out")
  BY <1>1, <1>3 DEF Room
<1>9. Lengths'
  BY <1>2, <1>3, <1>4, <1>7, <1>8, MoveLengths
<1>10. TypeOK'
  BY <1>5, <1>7, <1>9, TypePartsNext
<1>11. 1 \in 1 .. Len(pipe["far"])
  BY <1>7 DEF MovesOn
<1>12. pipe["far"][1] # Empty
  BY <1>2, <1>3, <1>11 DEF EmptyStaysNear
<1>13. ~ (nearStops = 0 /\ pipe["far"][1] = Test)
  BY <1>2, <1>3, <1>11 DEF TestAhead
<1> QED
  BY <1>1, <1>3, <1>7, <1>10, <1>12, <1>13, MoveKeeps

LEMMA DeliverKeeps ==
    ASSUME Inv, Deliver
    PROVE  Inv' /\ Shrinks
<1>1. /\ pipe["out"] # << >> /\ pipe' = Without("out")
      /\ UNCHANGED <<accepted, closed, near, far, putting, nearStops, farStops>>
      /\ IF Head(pipe["out"]) = Test
         THEN strayed' = TRUE /\ UNCHANGED delivered
         ELSE delivered' = Append(delivered, Head(pipe["out"])) /\ UNCHANGED strayed
  BY DEF Deliver, stopVars
<1>2. /\ TypeOK /\ pipe \in [Stages -> Seq(Numbers)] /\ EmptyStaysNear /\ TestAhead
      /\ OtherTypes /\ delivered \in Seq(1 .. accepted)
  BY TypeParts DEF Inv
<1>3. "out" \in Stages \ {"near"} /\ "out" \notin putting /\ "out" \notin {"link", "read"}
  BY <1>2 DEF Stages, Queues, OtherTypes
<1>4. pipe' \in [Stages -> Seq(Numbers)] /\ LeavesFrom("out", 1)
  BY <1>1, <1>2, <1>3, LeavesShape
<1>5. Lengths'
  BY <1>1, <1>2, <1>3, <1>4, LeaveLengths
<1>6. /\ Head(pipe["out"]) = pipe["out"][1] /\ pipe["out"][1] \in Numbers
      /\ 1 \in 1 .. Len(pipe["out"])
  <2>1. pipe["out"] \in Seq(Numbers)
    BY <1>2, <1>3
  <2>2. /\ Head(pipe["out"]) = pipe["out"][1] /\ pipe["out"][1] \in Numbers
        /\ Len(pipe["out"]) \in Nat \ {0}
    BY <1>1, <2>1, TailEntries
  <2> QED
    BY <2>2
<1>7. pipe["out"][1] # Empty
  BY <1>2, <1>3, <1>6 DEF EmptyStaysNear
<1>8. delivered' \in Seq(1 .. accepted')
  <2>1. CASE Head(pipe["out"]) = Test
    BY <1>1, <1>2, <2>1
  <2>2. CASE Head(pipe["out"]) # Test
    <3>1. Head(pipe["out"]) \in 1 .. accepted
      BY <1>2, <1>6, <1>7, <2>2 DEF Numbers, Test, Empty, OtherTypes
    <3>2. Append(delivered, Head(pipe["out"])) \in Seq(1 .. accepted)
      BY <1>2, <3>1, AppendEntries
    <3> QED
      BY <1>1, <2>2, <3>2
  <2> QED
    BY <2>1, <2>2
<1>9. OtherTypes' /\ Numbers' = Numbers
  BY <1>1, <1>2 DEF OtherTypes, Numbers
<1>10. TypeOK'
  BY <1>4, <1>5, <1>8, <1>9, TypePartsNext
<1>11. nearStops = 0 => UNCHANGED strayed
  <2>1. nearStops = 0 => pipe["out"][1] # Test
    BY <1>2, <1>3, <1>6 DEF TestAhead
  <2> QED
    BY <1>1, <1>6, <2>1
<1> QED
  BY <1>1, <1>3, <1>4, <1>10, <1>11, LeaveKeeps

(* While the near instance was not started anew, a packet of the test that *)
(* is anywhere is the first that the handshake reads.                      *)
LEMMA HandshakeKeeps ==
    ASSUME Inv, Handshake
    PROVE  Inv' /\ Shrinks
<1>1. /\ far = "handshake" /\ pipe["read"] # << >> /\ far' = "connecting" /\ pipe' = Without("read")
      /\ UNCHANGED <<accepted, closed, near, putting, delivered, strayed, nearStops, farStops>>
  BY DEF Handshake, switchVars, stopVars
<1>2. /\ TypeOK /\ pipe \in [Stages -> Seq(Numbers)] /\ Ordered /\ EmptyStaysNear /\ TestAhead
      /\ NothingBeforeStart /\ OtherTypes /\ delivered \in Seq(1 .. accepted)
  BY TypeParts DEF Inv
<1>3. "read" \in Stages \ {"near"} /\ "read" \notin putting
  BY <1>2 DEF Stages, Queues, OtherTypes
<1>4. pipe' \in [Stages -> Seq(Numbers)] /\ LeavesFrom("read", 1)
  BY <1>1, <1>2, <1>3, LeavesShape
<1>5. Lengths'
  BY <1>1, <1>2, <1>3, <1>4, LeaveLengths
<1>6. OtherTypes' /\ delivered' \in Seq(1 .. accepted') /\ Numbers' = Numbers
  BY <1>1, <1>2 DEF OtherTypes, Numbers
<1>7. TypeOK'
  BY <1>4, <1>5, <1>6, TypePartsNext
<1>8. Entries /\ \A s \in Stages : \A i \in 1 .. Len(pipe[s]) : pipe[s][i] \in Numbers
  BY <1>2, TypedEntries
<1>9. Ordered'
  <2>1. Oldest' >= Oldest /\ Oldest \in Int /\ Oldest' \in Int
    BY <1>1, <1>2, OldestGrows DEF OtherTypes
  <2> QED
    BY <1>2, <1>3, <1>4, <1>8, <2>1, LeavesOrdered DEF Entries
<1>10. \A s \in Stages : Stays(s)
  BY <1>3, <1>4, <1>8, LeavesStays
<1>11. EmptyStaysNear'
  BY <1>2, <1>10 DEF EmptyStaysNear, Stays, Empty
<1>12. NothingBeforeStart'
  BY <1>1, <1>2, <1>3 DEF NothingBeforeStart
<1>13. TestAhead'
  <2>1. SUFFICES ASSUME nearStops = 0, NEW s \in Stages, NEW i \in 1 .. Len(pipe'[s]), pipe'[s][i] = Test
                 PROVE  FALSE
    BY <1>1, <1>2 DEF TestAhead, Test
  <2>2. PICK k \in 1 .. Len(pipe[s]) : pipe'[s][i] = pipe[s][k] /\ (s = "read" => k > 1)
    <3>1. CASE s = "read"
      <4>1. i + 1 \in 1 .. Len(pipe[s]) /\ i + 1 > 1 /\ pipe'[s][i] = pipe[s][i + 1]
        BY <1>4, <3>1 DEF LeavesFrom
      <4> QED
        BY <4>1
    <3>2. CASE s # "read"
      BY <1>4, <3>2 DEF LeavesFrom
    <3> QED
      BY <3>1, <3>2
  <2>3. s \in {"link", "read"} /\ pipe[s][k] = Test
    BY <1>2, <2>1, <2>2 DEF TestAhead
  <2>4. 1 \in 1 .. Len(pipe["read"])
    BY <1>4 DEF LeavesFrom
  <2>5. pipe["read"][1] >= 0 /\ pipe["read"][1] \in Int
    <3>1. pipe["read"][1] \in Numbers /\ pipe["read"][1] # Empty
      BY <1>2, <1>3, <1>8, <2>4 DEF EmptyStaysNear
    <3> QED
      BY <1>2, <3>1 DEF Numbers, OtherTypes
  <2>6. Before("read", 1, s, k)
    BY <2>2, <2>3 DEF Before, Rank
  <2>7. pipe["read"][1] < pipe[s][k]
    BY <1>2, <1>3, <2>1, <2>3, <2>4, <2>5, <2>6 DEF Ordered, Oldest, Test
  <2> QED
    BY <2>3, <2>5, <2>7 DEF Test
<1>14. Shrinks
  <2>1. SUFFICES ASSUME NEW n \in Nat \ {Test}, NEW s \in Stages, NEW i \in 1 .. Len(pipe'[s]), pipe'[s][i] = n
                 PROVE  InPipe(n)
    BY DEF Shrinks, InPipe
  <2>2. PICK k \in 1 .. Len(pipe[s]) : pipe'[s][i] = pipe[s][k]
    BY <1>10 DEF Stays
  <2> QED
    BY <2>1, <2>2 DEF InPipe
<1> QED
  BY <1>7, <1>9, <1>11, <1>12, <1>13, <1>14 DEF Inv

(* Everything a stopping instance had is lost.                             *)
LEMMA EmptiesLengths ==
    ASSUME TypeOK, NEW S, Empties(S), putting' = putting \ S
    PROVE  Lengths'
<1>1. /\ \A s \in Stages : Len(pipe[s]) \in Nat
      /\ putting \subseteq Stages /\ \A s \in putting : Len(pipe[s]) >= 1
  BY TypeParts, QueuesAreStages DEF Lengths, OtherTypes
<1>2. \A s \in Stages : IF s \in S THEN Len(pipe'[s]) = 0 ELSE pipe'[s] = pipe[s]
  BY DEF Empties
<1>3. \A s \in Stages : Len(pipe'[s]) \in Nat /\ Len(pipe'[s]) <= Len(pipe[s])
  BY <1>1, <1>2
<1>4. \A s \in putting' : s \in putting /\ Len(pipe'[s]) >= 1
  BY <1>1, <1>2
<1>5. \A s \in putting : s \in putting' \/ Len(pipe'[s]) = 0
  BY <1>1, <1>2
<1> QED
  BY <1>3, <1>4, <1>5, LengthsShrink

LEMMA NearStopsKeeps ==
    ASSUME Inv, NearStops
    PROVE  Inv' /\ Shrinks
<1>1. /\ near' = "down" /\ nearStops < MaxStops /\ nearStops' = nearStops + 1
      /\ pipe' = [pipe EXCEPT !["near"] = << >>] /\ putting' = putting \ {"near"}
      /\ UNCHANGED <<accepted, closed, far, delivered, strayed, farStops>>
  BY DEF NearStops, switchVars
<1>2. /\ TypeOK /\ pipe \in [Stages -> Seq(Numbers)] /\ Ordered /\ EmptyStaysNear
      /\ OtherTypes /\ delivered \in Seq(1 .. accepted) /\ MaxStops \in Nat
  BY TypeParts, IPProxyAssumption DEF Inv
<1>3. nearStops \in Nat /\ nearStops' \in 1 .. MaxStops
  BY <1>1, <1>2 DEF OtherTypes
<1>4. pipe' \in [Stages -> Seq(Numbers)] /\ Empties({"near"})
  <2>1. << >> \in Seq(Numbers)
    OBVIOUS
  <2>2. \A s \in Stages : pipe'[s] = IF s = "near" THEN << >> ELSE pipe[s]
    BY <1>1, <1>2
  <2>3. pipe' \in [Stages -> Seq(Numbers)]
    BY <1>1, <1>2, <2>1
  <2> QED
    BY <2>2, <2>3 DEF Empties
<1>5. Lengths'
  BY <1>1, <1>2, <1>4, EmptiesLengths
<1>6. OtherTypes' /\ delivered' \in Seq(1 .. accepted') /\ Numbers' = Numbers
  BY <1>1, <1>2, <1>3 DEF OtherTypes, Numbers
<1>7. TypeOK'
  BY <1>4, <1>5, <1>6, TypePartsNext
<1>8. Entries
  BY <1>2, TypedEntries
<1>9. Ordered'
  <2>1. Oldest' >= Oldest /\ Oldest \in Int /\ Oldest' \in Int
    BY <1>1, <1>3, OldestGrows
  <2> QED
    BY <1>2, <1>4, <1>8, <2>1, EmptiesOrdered DEF Entries
<1>10. \A s \in Stages : Stays(s)
  BY <1>4, EmptiesStays
<1>11. EmptyStaysNear'
  BY <1>2, <1>10 DEF EmptyStaysNear, Stays, Empty
<1>12. NothingBeforeStart' /\ TestAhead'
  BY <1>3 DEF NothingBeforeStart, TestAhead
<1>13. Shrinks
  <2>1. SUFFICES ASSUME NEW n \in Nat \ {Test}, NEW s \in Stages, NEW i \in 1 .. Len(pipe'[s]), pipe'[s][i] = n
                 PROVE  InPipe(n)
    BY DEF Shrinks, InPipe
  <2>2. PICK k \in 1 .. Len(pipe[s]) : pipe'[s][i] = pipe[s][k]
    BY <1>10 DEF Stays
  <2> QED
    BY <2>1, <2>2 DEF InPipe
<1> QED
  BY <1>7, <1>9, <1>11, <1>12, <1>13 DEF Inv

LEMMA FarStopsKeeps ==
    ASSUME Inv, FarStops
    PROVE  Inv' /\ Shrinks
<1> DEFINE S == {"read", "far", "out"}
<1>1. /\ far' = "down" /\ farStops < MaxStops /\ farStops' = farStops + 1
      /\ pipe' = [s \in Stages |-> IF s \in S THEN << >> ELSE pipe[s]] /\ putting' = putting \ {"far"}
      /\ UNCHANGED <<accepted, closed, near, delivered, strayed, nearStops>>
  BY DEF FarStops, switchVars
<1>2. /\ TypeOK /\ pipe \in [Stages -> Seq(Numbers)] /\ Ordered
      /\ OtherTypes /\ delivered \in Seq(1 .. accepted) /\ MaxStops \in Nat
  BY TypeParts, IPProxyAssumption DEF Inv
<1>3. pipe' \in [Stages -> Seq(Numbers)] /\ Empties(S)
  <2>1. << >> \in Seq(Numbers)
    OBVIOUS
  <2> HIDE DEF S
  <2> QED
    BY <1>1, <1>2, <2>1 DEF Empties
<1>4. putting' = putting \ S
  BY <1>1, <1>2 DEF OtherTypes, Queues
<1> HIDE DEF S
<1>5. Lengths'
  BY <1>2, <1>3, <1>4, EmptiesLengths
<1>6. OtherTypes' /\ delivered' \in Seq(1 .. accepted') /\ Numbers' = Numbers
  BY <1>1, <1>2 DEF OtherTypes, Numbers
<1>7. TypeOK'
  BY <1>3, <1>5, <1>6, TypePartsNext
<1>8. Entries
  BY <1>2, TypedEntries
<1>9. Ordered'
  <2>1. Oldest' >= Oldest /\ Oldest \in Int /\ Oldest' \in Int
    BY <1>1, <1>2, OldestGrows DEF OtherTypes
  <2> QED
    BY <1>2, <1>3, <1>8, <2>1, EmptiesOrdered DEF Entries
<1>10. \A s \in Stages : Stays(s)
  BY <1>3, EmptiesStays
<1>11. EmptyStaysNear' /\ NothingBeforeStart' /\ TestAhead' /\ Shrinks
  BY <1>1, <1>3, <1>6, <1>9, <1>10, StayingKeeps
<1> QED
  BY <1>7, <1>9, <1>11 DEF Inv

(* A packet comes into the pipe from the near instance.                    *)
LEMMA ComeKeeps ==
    ASSUME Inv, TypeOK', NEW b \in Stages, NEW p \in Int, ComesTo(b, p),
           near' = "forwarding", UNCHANGED <<far, nearStops, strayed>>,
           p = Empty => b = "near",
           nearStops = 0 /\ p = Test => b = "link" /\ far \in {"down", "handshake"},
           \/ p < Oldest
           \/ b = "near" /\ \A s \in Stages : \A i \in 1 .. Len(pipe[s]) : pipe[s][i] < p
           \/ \A s \in Stages : pipe[s] = << >>
    PROVE  Inv' /\ \A n \in Nat : InPipe(n)' <=> InPipe(n) \/ n = p
<1>1. TypeOK /\ Ordered /\ EmptyStaysNear /\ TestAhead
  BY DEF Inv
<1>2. Entries
  BY <1>1, TypedEntries
<1>3. Ordered'
  BY <1>1, <1>2, ComesOrdered DEF Entries
<1>4. \A s \in Stages : \A i \in 1 .. Len(pipe'[s]) :
         \/ i \in 1 .. Len(pipe[s]) /\ pipe'[s][i] = pipe[s][i]
         \/ s = b /\ pipe'[s][i] = p
  BY DEF ComesTo
<1>5. EmptyStaysNear'
  BY <1>1, <1>4 DEF EmptyStaysNear, Empty
<1>6. NothingBeforeStart'
  BY DEF NothingBeforeStart
<1>7. TestAhead'
  BY <1>1, <1>4 DEF TestAhead, Test
<1>8. ASSUME NEW n \in Nat PROVE InPipe(n)' <=> InPipe(n) \/ n = p
  <2>1. ASSUME InPipe(n)' PROVE InPipe(n) \/ n = p
    BY <1>4, <2>1 DEF InPipe
  <2>2. ASSUME InPipe(n) PROVE InPipe(n)'
    <3>1. PICK s \in Stages : \E i \in 1 .. Len(pipe[s]) : pipe[s][i] = n
      BY <2>2 DEF InPipe
    <3>2. PICK i \in 1 .. Len(pipe[s]) : pipe[s][i] = n
      BY <3>1
    <3>3. i \in 1 .. Len(pipe'[s]) /\ pipe'[s][i] = pipe[s][i]
      <4>1. CASE s = b
        BY <4>1 DEF ComesTo
      <4>2. CASE s # b
        BY <4>2 DEF ComesTo
      <4> QED
        BY <4>1, <4>2
    <3> QED
      BY <3>2, <3>3 DEF InPipe
  <2>3. ASSUME n = p PROVE InPipe(n)'
    <3>1. Len(pipe[b]) + 1 \in 1 .. Len(pipe'[b]) /\ pipe'[b][Len(pipe[b]) + 1] = p
      BY DEF ComesTo
    <3> QED
      BY <2>3, <3>1 DEF InPipe
  <2> QED
    BY <2>1, <2>2, <2>3
<1> QED
  BY <1>3, <1>5, <1>6, <1>7, <1>8 DEF Inv

LEMMA StartNearKeeps ==
    ASSUME Inv, StartNear
    PROVE  Inv' /\ Shrinks
<1>1. /\ near = "down" /\ Len(pipe["link"]) < MaxLink
      /\ near' = "forwarding" /\ closed' = FALSE
      /\ UNCHANGED <<accepted, far, putting, delivered, strayed, nearStops, farStops>>
      /\ \/ pipe' = pipe
         \/ far # "down" /\ pipe' = [pipe EXCEPT !["link"] = Append(@, Test)]
  BY DEF StartNear, Datagram, switchVars, stopVars, Test, Empty
<1>2. /\ TypeOK /\ OtherTypes /\ Lengths /\ pipe \in [Stages -> Seq(Numbers)]
      /\ delivered \in Seq(1 .. accepted)
      /\ Ordered /\ EmptyStaysNear /\ NothingBeforeStart /\ TestAhead
  BY TypeParts DEF Inv
<1>3. OtherTypes' /\ delivered' \in Seq(1 .. accepted') /\ Numbers' = Numbers
  BY <1>1, <1>2 DEF OtherTypes, Numbers
<1>4. "link" \in Stages /\ "link" \notin Queues /\ Test \in Numbers /\ Test \in Int
  BY <1>2 DEF Stages, Queues, Numbers, Test, OtherTypes
<1>5. CASE pipe' = pipe
  <2>1. TypeOK'
    <3>1. Lengths'
      BY <1>1, <1>2, <1>5 DEF Lengths
    <3> QED
      BY <1>2, <1>3, <1>5, <3>1, TypePartsNext
  <2>2. Ordered' /\ EmptyStaysNear'
    BY <1>1, <1>2, <1>5 DEF Ordered, Before, Oldest, EmptyStaysNear, Empty
  <2>3. NothingBeforeStart' /\ TestAhead'
    BY <1>1, <1>2, <1>5 DEF NothingBeforeStart, TestAhead, Test
  <2>4. Shrinks
    BY <1>5 DEF Shrinks, InPipe
  <2> QED
    BY <2>1, <2>2, <2>3, <2>4 DEF Inv
<1>6. CASE far # "down" /\ pipe' = [pipe EXCEPT !["link"] = Append(@, Test)]
  <2>1. pipe' \in [Stages -> Seq(Numbers)] /\ ComesTo("link", Test)
    BY <1>2, <1>4, <1>6, ComesShape
  <2>2. Room("link")
    BY <1>1, <1>4 DEF Room
  <2>3. Lengths'
    BY <1>2, <1>4, <2>1, <2>2, ComeLengths
  <2>4. TypeOK'
    BY <1>3, <2>1, <2>3, TypePartsNext
  <2>5. Test < Oldest \/ \A s \in Stages : pipe[s] = << >>
    BY <1>1, <1>2 DEF NothingBeforeStart, Oldest, Test
  <2>6. nearStops = 0 => far \in {"down", "handshake"}
    BY <1>1, <1>2 DEF NothingBeforeStart
  <2>7. Test # Empty
    BY DEF Test, Empty
  <2>8. Inv' /\ \A n \in Nat : InPipe(n)' <=> InPipe(n) \/ n = Test
    BY <1>1, <1>4, <2>1, <2>4, <2>5, <2>6, <2>7, ComeKeeps
  <2> QED
    BY <2>8 DEF Shrinks
<1> QED
  BY <1>1, <1>5, <1>6

(* What recv_to_queue() of the near instance puts into the queue.          *)
LEMMA PutNearTypes ==
    ASSUME TypeOK, NEW p \in Numbers', Put("near", p, pipe), accepted' \in {accepted, accepted + 1}
    PROVE  pipe' \in [Stages -> Seq(Numbers')] /\ ComesTo("near", p) /\ Lengths'
<1>1. /\ "near" \notin putting /\ pipe' = [pipe EXCEPT !["near"] = Append(@, p)]
      /\ putting' = IF Len(pipe["near"]) < Buffer THEN putting ELSE putting \cup {"near"}
  BY DEF Put
<1>2. pipe \in [Stages -> Seq(Numbers)] /\ accepted \in Nat
  BY TypeParts DEF OtherTypes
<1>3. pipe \in [Stages -> Seq(Numbers')]
  BY <1>2, NumbersGrow
<1>4. "near" \in Stages /\ "near" \in Queues /\ "near" \notin {"link", "read", "out"}
  BY DEF Stages, Queues
<1>5. pipe' \in [Stages -> Seq(Numbers')] /\ ComesTo("near", p)
  BY <1>1, <1>3, <1>4, ComesShape
<1>6. Room("near")
  BY <1>1, <1>4 DEF Room
<1> QED
  BY <1>4, <1>5, <1>6, ComeLengths

LEMMA AcceptKeeps ==
    ASSUME Inv, Accept
    PROVE  Inv' /\ \A n \in Nat : InPipe(n)' <=> InPipe(n) \/ n = accepted + 1
<1>1. /\ near = "forwarding" /\ accepted < MaxPackets /\ accepted' = accepted + 1
      /\ Put("near", accepted + 1, pipe)
      /\ UNCHANGED <<closed, near, far, delivered, strayed, nearStops, farStops>>
  BY DEF Accept, switchVars, stopVars
<1>2. /\ TypeOK /\ OtherTypes /\ delivered \in Seq(1 .. accepted) /\ accepted \in Nat /\ MaxPackets \in Nat
      /\ putting \subseteq Queues
  BY TypeParts, IPProxyAssumption DEF Inv, OtherTypes
<1>3. accepted + 1 \in Numbers' /\ accepted + 1 \in Int /\ accepted' \in 0 .. MaxPackets
  BY <1>1, <1>2 DEF Numbers
<1>4. pipe' \in [Stages -> Seq(Numbers')] /\ ComesTo("near", accepted + 1) /\ Lengths'
  BY <1>1, <1>2, <1>3, PutNearTypes
<1>5. delivered' \in Seq(1 .. accepted')
  BY <1>1, <1>2, NumbersGrow
<1>6. OtherTypes'
  <2>1. putting' \subseteq Queues
    BY <1>1, <1>2 DEF Put, Queues
  <2> QED
    BY <1>1, <1>2, <1>3, <2>1 DEF OtherTypes
<1>7. TypeOK'
  BY <1>4, <1>5, <1>6, TypePartsNext
<1>8. \A s \in Stages : \A i \in 1 .. Len(pipe[s]) : pipe[s][i] < accepted + 1
  BY <1>2, TypedEntries DEF Numbers, Empty
<1>9. accepted + 1 # Empty /\ accepted + 1 # Test /\ "near" \in Stages
  BY <1>2 DEF Empty, Test, Stages
<1> QED
  BY <1>1, <1>3, <1>4, <1>7, <1>8, <1>9, ComeKeeps

LEMMA AcceptNothingKeeps ==
    ASSUME Inv, AcceptNothing
    PROVE  Inv' /\ Shrinks
<1>1. /\ near = "forwarding" /\ Put("near", Empty, pipe)
      /\ UNCHANGED <<accepted, closed, near, far, delivered, strayed, nearStops, farStops>>
  BY DEF AcceptNothing, switchVars, stopVars
<1>2. TypeOK /\ putting \subseteq Queues
  BY TypeParts DEF Inv, OtherTypes
<1>3. Empty \in Numbers' /\ Empty \in Int /\ Empty < Oldest /\ Empty # Test /\ "near" \in Stages
  BY DEF Numbers, Empty, Oldest, Test, Stages
<1>4. pipe' \in [Stages -> Seq(Numbers')] /\ ComesTo("near", Empty) /\ Lengths'
  BY <1>1, <1>2, <1>3, PutNearTypes
<1>5. OtherTypes' /\ delivered' \in Seq(1 .. accepted')
  <2>1. putting' \subseteq putting \cup Queues
    BY <1>1 DEF Put, Queues
  <2> QED
    BY <1>1, <2>1, OtherTypesStay
<1>6. TypeOK'
  BY <1>4, <1>5, TypePartsNext
<1>7. Inv' /\ \A n \in Nat : InPipe(n)' <=> InPipe(n) \/ n = Empty
  BY <1>1, <1>3, <1>4, <1>6, ComeKeeps
<1> QED
  BY <1>7 DEF Shrinks, Empty

----------------------------------------------------------------------------
(* The theorems                                                            *)

(* Any step but the acceptance of a packet only loses or forwards.         *)
LEMMA OtherStepsKeep ==
    ASSUME Inv, [Next]_vars, ~ Accept
    PROVE  Inv' /\ Shrinks
BY StartNearKeeps, QuietKeeps, AcceptNothingKeeps, SendDatagramKeeps, NearStopsKeeps,
   LoseDatagramKeeps, DatagramReceivedKeeps, HandshakeKeeps, ReadKeeps, GetKeeps, DeliverKeeps,
   FarStopsKeeps, ResumePutKeeps DEF Next

LEMMA InitInv == Init => Inv
<1> SUFFICES ASSUME Init PROVE Inv
  OBVIOUS
<1>1. \A s \in Stages : pipe[s] = << >>
  BY DEF Init
<1>2. \A s \in Stages : Len(pipe[s]) = 0 /\ ~ \E i \in 1 .. Len(pipe[s]) : TRUE
  BY <1>1
<1>3. TypeOK
  <2>1. Lengths
    BY <1>2, QueuesAreStages, IPProxyAssumption DEF Lengths, Init, Queues, Stages
  <2>2. OtherTypes
    <3>1. 0 \in 0 .. MaxPackets /\ 0 \in 0 .. MaxStops
      BY IPProxyAssumption
    <3> QED
      BY <3>1 DEF Init, OtherTypes
  <2>3. pipe \in [Stages -> Seq(Numbers)] /\ delivered \in Seq(1 .. accepted)
    BY DEF Init
  <2> QED
    BY <2>1, <2>2, <2>3, TypeParts
<1>4. Ordered /\ EmptyStaysNear
  BY <1>2 DEF Ordered, EmptyStaysNear
<1>5. NothingBeforeStart
  BY <1>1 DEF NothingBeforeStart, Init
<1>6. TestAhead
  BY <1>2 DEF TestAhead, Init
<1> QED
  BY <1>3, <1>4, <1>5, <1>6 DEF Inv

LEMMA Invariance == Spec => []Inv
<1>1. Inv /\ [Next]_vars => Inv'
  BY AcceptKeeps, OtherStepsKeep
<1> QED
  BY InitInv, <1>1, PTL DEF Spec

(* The queues keep to their sizes, what has no room waits in the hand of   *)
(* one task, and only packets that were accepted reach the Switch.         *)
THEOREM IPProxyTypes == Spec => []TypeOK
<1>1. Inv => TypeOK
  BY DEF Inv
<1> QED
  BY Invariance, <1>1, PTL

(* As long as the near instance was not started anew, the packet that      *)
(* connectEth() tests the connection with is not sent to the Switch: it is *)
(* the first that the handshake reads, whatever the network loses.         *)
THEOREM TestIsKept == Spec => []TestStaysInside
<1>1. Inv => TestStaysInside
  BY DEF Inv, TestAhead, TestStaysInside
<1> QED
  BY Invariance, <1>1, PTL

----------------------------------------------------------------------------
(* The steps of the relay as steps of the lossy queue                      *)

Pending == {n \in 1 .. accepted : InPipe(n)}

LEMMA AcceptMaps ==
    ASSUME Inv, Accept
    PROVE  fifo!Accept
<1>1. accepted \in Nat /\ accepted' = accepted + 1 /\ UNCHANGED delivered
  BY TypeParts DEF Inv, OtherTypes, Accept, switchVars
<1>2. \A n \in Nat : InPipe(n)' <=> InPipe(n) \/ n = accepted + 1
  BY AcceptKeeps
<1>3. Pending' = Pending \cup {accepted + 1}
  <2>1. \A n \in Nat : n \in 1 .. accepted + 1 <=> n \in 1 .. accepted \/ n = accepted + 1
    BY <1>1
  <2>2. Pending' = {n \in 1 .. accepted' : InPipe(n)'}
    BY DEF Pending
  <2>3. ASSUME NEW n PROVE n \in Pending' <=> n \in Pending \/ n = accepted + 1
    <3>1. n \in Pending' => n \in Nat
      BY <1>1, <2>2
    <3>2. n \in Pending \/ n = accepted + 1 => n \in Nat
      BY <1>1 DEF Pending
    <3>3. ASSUME n \in Nat PROVE n \in Pending' <=> n \in Pending \/ n = accepted + 1
      BY <1>1, <1>2, <2>1, <2>2, <3>3 DEF Pending
    <3> QED
      BY <3>1, <3>2, <3>3
  <2> QED
    BY <2>3
<1> QED
  BY <1>1, <1>3 DEF fifo!Accept, Pending

LEMMA DeliverMaps ==
    ASSUME Inv, Deliver, Head(pipe["out"]) # Test
    PROVE  \E n \in Pending : fifo!Deliver(n)
<1> DEFINE n == pipe["out"][1]
<1>1. /\ TypeOK /\ Ordered /\ EmptyStaysNear /\ accepted \in Nat
      /\ pipe \in [Stages -> Seq(Numbers)] /\ Len(pipe["out"]) <= 1
  BY TypeParts DEF Inv, OtherTypes, Lengths
<1>2. "out" \in Stages \ {"near"} /\ \A s \in Stages : s # "out" => Rank["out"] < Rank[s]
  BY DEF Stages, Rank
<1>3. /\ pipe["out"] # << >> /\ pipe' = Without("out") /\ accepted' = accepted
      /\ delivered' = Append(delivered, Head(pipe["out"]))
  BY DEF Deliver
<1>4. LeavesFrom("out", 1)
  BY <1>1, <1>2, <1>3, LeavesShape
<1>5. Len(pipe["out"]) = 1 /\ 1 \in 1 .. Len(pipe["out"]) /\ Len(pipe'["out"]) = 0
  <2>1. /\ Len(pipe["out"]) \in Nat /\ 1 \in 1 .. Len(pipe["out"])
        /\ Len(pipe'["out"]) = Len(pipe["out"]) - 1
    BY <1>4 DEF LeavesFrom
  <2>2. \A k \in Nat : k <= 1 /\ 1 \in 1 .. k => k = 1
    OBVIOUS
  <2>3. Len(pipe["out"]) <= 1
    BY <1>1
  <2>4. Len(pipe["out"]) = 1
    BY <2>1, <2>2, <2>3
  <2> QED
    BY <2>1, <2>4
<1>6. Head(pipe["out"]) = n /\ n \in Numbers /\ n # Empty
  <2>1. pipe["out"] \in Seq(Numbers)
    BY <1>1, <1>2
  <2>2. Head(pipe["out"]) = n /\ n \in Numbers
    BY <1>3, <2>1, TailEntries
  <2>3. n # Empty
    BY <1>1, <1>2, <1>5 DEF EmptyStaysNear
  <2> QED
    BY <2>2, <2>3
<1>7. n \in 1 .. accepted
  BY <1>1, <1>6 DEF Numbers, Test, Empty
<1>8. Oldest \in {0, 1}
  BY DEF Oldest, Test
<1> HIDE DEF n
<1>9. InPipe(n)
  BY <1>2, <1>5 DEF InPipe, n
(* What is still in the pipe is younger, so n is not there again.          *)
<1>10. ASSUME NEW s \in Stages \ {"out"}, NEW i \in 1 .. Len(pipe[s]), pipe[s][i] \in 1 .. accepted
       PROVE  n < pipe[s][i]
  <2>1. Before("out", 1, s, i)
    BY <1>2 DEF Before
  <2>2. pipe["out"][1] >= Oldest /\ pipe[s][i] >= Oldest
    BY <1>1, <1>7, <1>8, <1>10 DEF n
  <2> QED
    BY <1>1, <1>2, <1>5, <2>1, <2>2 DEF Ordered, n
<1>11. \A s \in Stages \ {"out"} : pipe'[s] = pipe[s]
  BY <1>4 DEF LeavesFrom
<1>12. ASSUME NEW m \in 1 .. accepted
       PROVE  InPipe(m)' <=> InPipe(m) /\ m # n
  <2>1. ASSUME InPipe(m)' PROVE InPipe(m) /\ m # n
    <3>1. PICK s \in Stages : \E i \in 1 .. Len(pipe'[s]) : pipe'[s][i] = m
      BY <2>1 DEF InPipe
    <3>2. PICK i \in 1 .. Len(pipe'[s]) : pipe'[s][i] = m
      BY <3>1
    <3>3. s # "out"
      BY <1>5, <3>2
    <3>4. i \in 1 .. Len(pipe[s]) /\ pipe[s][i] = m
      BY <1>11, <3>2, <3>3
    <3>5. n < m
      BY <1>10, <3>3, <3>4
    <3> QED
      BY <1>7, <3>4, <3>5 DEF InPipe
  <2>2. ASSUME InPipe(m), m # n PROVE InPipe(m)'
    <3>1. PICK s \in Stages : \E i \in 1 .. Len(pipe[s]) : pipe[s][i] = m
      BY <2>2 DEF InPipe
    <3>2. PICK i \in 1 .. Len(pipe[s]) : pipe[s][i] = m
      BY <3>1
    <3>3. s # "out"
      BY <1>5, <2>2, <3>2 DEF n
    <3> QED
      BY <1>11, <3>2, <3>3 DEF InPipe
  <2> QED
    BY <2>1, <2>2
<1>13. n \in Pending /\ \A m \in Pending : n <= m
  <2>1. ASSUME NEW m \in Pending PROVE n <= m
    <3>1. m \in 1 .. accepted /\ InPipe(m)
      BY DEF Pending
    <3>2. PICK s \in Stages : \E i \in 1 .. Len(pipe[s]) : pipe[s][i] = m
      BY <3>1 DEF InPipe
    <3>3. PICK i \in 1 .. Len(pipe[s]) : pipe[s][i] = m
      BY <3>2
    <3>4. CASE s = "out"
      <4>1. m = n
        BY <1>5, <3>3, <3>4 DEF n
      <4> QED
        BY <1>7, <4>1
    <3>5. CASE s # "out"
      <4>1. n < m
        BY <1>10, <3>1, <3>3, <3>5
      <4> QED
        BY <1>7, <3>1, <4>1
    <3> QED
      BY <3>4, <3>5
  <2> QED
    BY <1>7, <1>9, <2>1 DEF Pending
<1>14. Pending' = Pending \ {n}
  <2>1. Pending' = {m \in 1 .. accepted : InPipe(m)'}
    BY <1>3 DEF Pending
  <2> QED
    BY <1>12, <2>1 DEF Pending
<1>15. fifo!Deliver(n)
  BY <1>3, <1>6, <1>13, <1>14 DEF fifo!Deliver, Pending
<1> QED
  BY <1>13, <1>15

LEMMA OtherStepsMap ==
    ASSUME Inv, [Next]_vars, ~ Accept, ~ (Deliver /\ Head(pipe["out"]) # Test)
    PROVE  fifo!Lose
<1>1. UNCHANGED <<accepted, delivered>>
  BY DEF Next, vars, switchVars, stopVars, StartNear, Accept, JoyconDisconnects, AcceptNothing, SendDatagram,
         NearStops, LoseDatagram, DatagramReceived, OpenFar, Handshake, SwitchConnects, Read, Get,
         Deliver, FarStops, ResumePut
<1>2. Shrinks
  BY OtherStepsKeep
<1>3. Pending' \subseteq Pending
  <2>1. Pending' = {m \in 1 .. accepted : InPipe(m)'}
    BY <1>1 DEF Pending
  <2>2. \A m \in 1 .. accepted : m \in Nat \ {Test}
    BY DEF Test
  <2> QED
    BY <1>2, <2>1, <2>2 DEF Shrinks, Pending
<1> QED
  BY <1>1, <1>3 DEF fifo!Lose, Pending

(* Whatever is lost on the network, does not fit into readQueue or goes    *)
(* with an instance that stops, and however long the queues are, the       *)
(* packets that the Switch gets are some of those of the Joy-Con, in their *)
(* order, and none of them twice.                                          *)
THEOREM RelayImplementsFIFO == Spec => ImplementsFIFO
<1>1. Init => fifo!Init
  <2>1. accepted = 0 => {n \in 1 .. accepted : InPipe(n)} = {}
    OBVIOUS
  <2> QED
    BY <2>1 DEF Init, fifo!Init
<1>2. Inv /\ [Next]_vars => [fifo!Next]_fifo!fifoVars
  BY AcceptMaps, DeliverMaps, OtherStepsMap DEF fifo!Next, Pending
<1> QED
  BY Invariance, <1>1, <1>2, PTL DEF Spec, ImplementsFIFO, fifo!Spec
=============================================================================
