------------------------- MODULE ReadyQueuesProofs -------------------------
(***************************************************************************)
(* Lemmas about the operators of ReadyQueues, for every capacity, number   *)
(* of levels and content of the queues: dequeue finds a process that       *)
(* exists, takes out exactly that one and keeps the order of the others;   *)
(* get_mlq_proc, started at level 0, serves the first non-empty level.     *)
(***************************************************************************)
EXTENDS ReadyQueues, WellFoundedInduction, TLAPS

USE LevelsAssumption, CapacityAssumption

-----------------------------------------------------------------------------
(* Numbers.                                                                *)

LEMMA NatMinimum ==
  ASSUME NEW T, T \subseteq Nat, T # {}
  PROVE  \E x \in T : \A y \in T : x <= y
<1>1. PICK x \in T : \A y \in T : ~(<<y, x>> \in OpToRel(<, Nat))
  BY WFMin, NatLessThanWellFounded, Zenon
<1>2. \A y \in T : ~(y < x)
  BY <1>1 DEF OpToRel
<1>q. QED
  BY <1>2

LEMMA ModSmall ==
  ASSUME NEW a \in Levels
  PROVE  a % MAX_PRIO = a
  BY DEF Levels

LEMMA ModLevel ==
  ASSUME NEW a \in Nat
  PROVE  a % MAX_PRIO \in Levels
  BY DEF Levels

-----------------------------------------------------------------------------
(* queue.c.                                                                *)

LEMMA HighestIndexExists ==
  ASSUME NEW P, NEW M \in Nat, NEW pri \in [P -> 0..M],
         NEW q \in Seq(P), q # <<>>
  PROVE  LET h == HighestIndex(q, pri)
         IN  /\ h \in 1..Len(q)
             /\ \A j \in 1..Len(q) : pri[q[j]] <= pri[q[h]]
             /\ \A j \in 1..(h - 1) : pri[q[j]] < pri[q[h]]
<1> DEFINE Deficit == {M - pri[q[i]] : i \in 1..Len(q)}
           Top == {i \in 1..Len(q) : \A j \in 1..Len(q) : pri[q[j]] <= pri[q[i]]}
<1>1. Len(q) \in Nat /\ Len(q) >= 1 /\ \A i \in 1..Len(q) : q[i] \in P
  OBVIOUS
<1>2. \A i \in 1..Len(q) : pri[q[i]] \in 0..M
  BY <1>1
<1>3. Deficit \subseteq Nat /\ Deficit # {}
  <2>1. \A i \in 1..Len(q) : M - pri[q[i]] \in Nat
    BY <1>2
  <2>2. 1 \in 1..Len(q)
    BY <1>1
  <2>q. QED
    BY <2>1, <2>2
<1>4. PICK m \in Deficit : \A y \in Deficit : m <= y
  BY <1>3, NatMinimum
<1>5. PICK t \in 1..Len(q) : m = M - pri[q[t]]
  OBVIOUS
<1>6. t \in Top
  <2>1. ASSUME NEW j \in 1..Len(q)
        PROVE  pri[q[j]] <= pri[q[t]]
    <3>1. M - pri[q[t]] <= M - pri[q[j]]
      BY <1>4, <1>5
    <3>2. pri[q[j]] \in 0..M /\ pri[q[t]] \in 0..M
      BY <1>2
    <3>q. QED
      BY <3>1, <3>2
  <2>q. QED
    BY <2>1
<1>7. PICK h \in Top : \A y \in Top : h <= y
  <2>1. Top \subseteq Nat
    OBVIOUS
  <2>q. QED
    BY <1>6, <2>1, NatMinimum
<1>8. \A j \in 1..(h - 1) : pri[q[j]] < pri[q[h]]
  <2> SUFFICES ASSUME NEW j \in 1..(h - 1), ~(pri[q[j]] < pri[q[h]])
               PROVE  FALSE
    OBVIOUS
  <2>1. j \in 1..Len(q) /\ h \in 1..Len(q) /\ j < h
    BY <1>1
  <2>2. pri[q[j]] = pri[q[h]]
    BY <1>2, <2>1
  <2>3. j \in Top
    BY <2>1, <2>2
  <2>q. QED
    BY <1>7, <2>1, <2>3
<1>q. QED
  BY <1>7, <1>8 DEF HighestIndex

\* No process occurs twice in the queue.
Distinct(q) == \A i, j \in 1..Len(q) : q[i] = q[j] => i = j

\* The process occurs in the queue.
Occurs(p, q) == \E i \in 1..Len(q) : q[i] = p

LEMMA EnqueueKeeps ==
  ASSUME NEW P, NEW q \in Seq(P), NEW p \in P
  PROVE  /\ Enqueue(q, p) \in Seq(P)
         /\ Len(q) <= MAX_QUEUE_SIZE => Len(Enqueue(q, p)) <= MAX_QUEUE_SIZE
         /\ Len(Enqueue(q, p)) >= Len(q)
         /\ \A i \in 1..Len(q) : Enqueue(q, p)[i] = q[i]
         /\ \A i \in 1..Len(Enqueue(q, p)) : i <= Len(q) \/ Enqueue(q, p)[i] = p
         /\ Len(q) < MAX_QUEUE_SIZE => Occurs(p, Enqueue(q, p))
<1>1. CASE Len(q) < MAX_QUEUE_SIZE
  <2>1. Enqueue(q, p) = Append(q, p)
    BY <1>1 DEF Enqueue
  <2>2. /\ Append(q, p) \in Seq(P)
        /\ Len(Append(q, p)) = Len(q) + 1
        /\ \A i \in 1..Len(q) : Append(q, p)[i] = q[i]
        /\ Append(q, p)[Len(q) + 1] = p
        /\ Len(q) \in Nat
    OBVIOUS
  <2>3. \A i \in 1..(Len(q) + 1) : i <= Len(q) \/ i = Len(q) + 1
    BY <2>2
  <2>q. QED
    BY <1>1, <2>1, <2>2, <2>3 DEF Occurs
<1>2. CASE ~(Len(q) < MAX_QUEUE_SIZE)
  BY <1>2 DEF Enqueue
<1>q. QED
  BY <1>1, <1>2

LEMMA EnqueueDistinct ==
  ASSUME NEW P, NEW q \in Seq(P), NEW p \in P, Distinct(q), ~Occurs(p, q)
  PROVE  Distinct(Enqueue(q, p))
<1>1. /\ \A i \in 1..Len(q) : Enqueue(q, p)[i] = q[i]
      /\ \A i \in 1..Len(Enqueue(q, p)) : i <= Len(q) \/ Enqueue(q, p)[i] = p
      /\ Len(Enqueue(q, p)) \in {Len(q), Len(q) + 1}
      /\ Len(q) \in Nat
  BY EnqueueKeeps DEF Enqueue
<1>2. \A i \in 1..Len(q) : q[i] # p
  BY DEF Occurs
<1>q. QED
  BY <1>1, <1>2 DEF Distinct

\* Rest takes out the process at HighestIndex and nothing else.
LEMMA RestRemoves ==
  ASSUME NEW P, NEW M \in Nat, NEW pri \in [P -> 0..M],
         NEW q \in Seq(P), q # <<>>
  PROVE  /\ Front(q, pri) \in P
         /\ Occurs(Front(q, pri), q)
         /\ \A j \in 1..Len(q) : pri[q[j]] <= pri[Front(q, pri)]
         /\ Rest(q, pri) \in Seq(P)
         /\ Len(Rest(q, pri)) = Len(q) - 1
         /\ \A i \in 1..(Len(q) - 1) :
               Rest(q, pri)[i] = IF i < HighestIndex(q, pri) THEN q[i] ELSE q[i + 1]
<1> DEFINE h == HighestIndex(q, pri)
<1>1. /\ h \in 1..Len(q)
      /\ \A j \in 1..Len(q) : pri[q[j]] <= pri[q[h]]
  BY HighestIndexExists
<1>2. Len(q) \in Nat /\ Len(q) >= 1 /\ \A i \in 1..Len(q) : q[i] \in P
  OBVIOUS
<1>3. \A i \in 1..(Len(q) - 1) : i \in 1..Len(q) /\ i + 1 \in 1..Len(q)
  BY <1>2
<1> HIDE DEF h
<1>4. Rest(q, pri) = [i \in 1..(Len(q) - 1) |-> IF i < h THEN q[i] ELSE q[i + 1]]
  BY DEF Rest, h
<1>5. Rest(q, pri) \in [1..(Len(q) - 1) -> P]
  BY <1>2, <1>3, <1>4
<1>6. Len(q) - 1 \in Nat
  BY <1>2
<1>7. Rest(q, pri) \in Seq(P) /\ Len(Rest(q, pri)) = Len(q) - 1
  BY <1>5, <1>6
<1>q. QED
  BY <1>1, <1>2, <1>4, <1>7 DEF Front, Occurs, h

LEMMA RestDistinct ==
  ASSUME NEW P, NEW M \in Nat, NEW pri \in [P -> 0..M],
         NEW q \in Seq(P), q # <<>>, Distinct(q)
  PROVE  /\ Distinct(Rest(q, pri))
         /\ ~Occurs(Front(q, pri), Rest(q, pri))
         /\ \A p : p # Front(q, pri) => (Occurs(p, Rest(q, pri)) <=> Occurs(p, q))
<1> DEFINE h == HighestIndex(q, pri)
           r == Rest(q, pri)
<1>1. h \in 1..Len(q) /\ Front(q, pri) = q[h]
  BY HighestIndexExists DEF Front
<1>2. /\ Len(r) = Len(q) - 1 /\ Len(q) \in Nat
      /\ \A i \in 1..Len(r) : r[i] = IF i < h THEN q[i] ELSE q[i + 1]
  BY RestRemoves
<1> HIDE DEF h, r
<1>3. \A i \in 1..Len(r) : i \in 1..Len(q) /\ i + 1 \in 1..Len(q)
  BY <1>2
<1>4. Distinct(r)
  <2> SUFFICES ASSUME NEW i \in 1..Len(r), NEW j \in 1..Len(r), r[i] = r[j]
               PROVE  i = j
    BY DEF Distinct
  <2>1. CASE i < h /\ j < h
    BY <1>2, <1>3, <2>1 DEF Distinct
  <2>2. CASE i < h /\ ~(j < h)
    <3>1. i = j + 1
      BY <1>2, <1>3, <2>2 DEF Distinct
    <3>q. QED
      BY <1>1, <1>2, <2>2, <3>1
  <2>3. CASE ~(i < h) /\ j < h
    <3>1. i + 1 = j
      BY <1>2, <1>3, <2>3 DEF Distinct
    <3>q. QED
      BY <1>1, <1>2, <2>3, <3>1
  <2>4. CASE ~(i < h) /\ ~(j < h)
    <3>1. i + 1 = j + 1
      BY <1>2, <1>3, <2>4 DEF Distinct
    <3>q. QED
      BY <1>2, <3>1
  <2>q. QED
    BY <2>1, <2>2, <2>3, <2>4
<1>5. \A i \in 1..Len(r) : r[i] # q[h]
  <2> SUFFICES ASSUME NEW i \in 1..Len(r), r[i] = q[h]
               PROVE  FALSE
    OBVIOUS
  <2>1. \/ i = h /\ i < h
        \/ i + 1 = h /\ ~(i < h)
    BY <1>1, <1>2, <1>3 DEF Distinct
  <2>q. QED
    BY <1>1, <1>2, <2>1
<1>6. ASSUME NEW p, p # q[h], NEW i \in 1..Len(q), q[i] = p
      PROVE  Occurs(p, r)
  <2>1. CASE i < h
    BY <1>1, <1>2, <1>6, <2>1 DEF Occurs
  <2>2. CASE i > h
    <3>1. i - 1 \in 1..Len(r) /\ ~(i - 1 < h) /\ (i - 1) + 1 = i
      BY <1>1, <1>2, <2>2
    <3>q. QED
      BY <1>2, <1>6, <3>1 DEF Occurs
  <2>q. QED
    BY <1>1, <1>2, <1>6, <2>1, <2>2
<1>7. ASSUME NEW p, NEW i \in 1..Len(r), r[i] = p
      PROVE  Occurs(p, q)
  BY <1>2, <1>3, <1>7 DEF Occurs
<1>q. QED
  BY <1>1, <1>4, <1>5, <1>6, <1>7 DEF Occurs, r

\* Of two equal processes that stay, the older one stays in front.
LEMMA RestKeepsOrder ==
  ASSUME NEW P, NEW M \in Nat, NEW pri \in [P -> 0..M],
         NEW q \in Seq(P), q # <<>>
  PROVE  \A i, j \in 1..Len(q) :
            i < j /\ pri[q[i]] = pri[q[j]] /\ q[i] # Front(q, pri) =>
               \E k, m \in 1..Len(Rest(q, pri)) :
                  k < m /\ Rest(q, pri)[k] = q[i] /\ Rest(q, pri)[m] = q[j]
<1> DEFINE h == HighestIndex(q, pri)
           r == Rest(q, pri)
<1>1. /\ h \in 1..Len(q) /\ Front(q, pri) = q[h]
      /\ \A k \in 1..(h - 1) : pri[q[k]] < pri[q[h]]
  BY HighestIndexExists DEF Front
<1>2. /\ Len(r) = Len(q) - 1 /\ Len(q) \in Nat
      /\ \A k \in 1..Len(r) : r[k] = IF k < h THEN q[k] ELSE q[k + 1]
  BY RestRemoves
<1> HIDE DEF h, r
<1> SUFFICES ASSUME NEW i \in 1..Len(q), NEW j \in 1..Len(q), i < j,
                    pri[q[i]] = pri[q[j]], q[i] # Front(q, pri)
             PROVE  \E k, m \in 1..Len(r) : k < m /\ r[k] = q[i] /\ r[m] = q[j]
  BY DEF r
<1>3. i # h
  BY <1>1
<1>4. j # h
  <2> SUFFICES ASSUME j = h
               PROVE  FALSE
    OBVIOUS
  <2>1. i \in 1..(h - 1)
    BY <1>1
  <2>2. pri[q[i]] < pri[q[i]]
    BY <1>1, <2>1
  <2>3. pri[q[i]] \in 0..M
    OBVIOUS
  <2>q. QED
    BY <2>2, <2>3
<1>5. CASE j < h
  <2>1. i \in 1..Len(r) /\ j \in 1..Len(r) /\ i < h
    BY <1>1, <1>2, <1>5
  <2>2. r[i] = q[i] /\ r[j] = q[j]
    BY <1>2, <1>5, <2>1
  <2>q. QED
    BY <2>1, <2>2
<1>6. CASE i < h /\ h < j
  <2>1. PICK b : b = j - 1
    OBVIOUS
  <2>2. /\ i \in 1..Len(r) /\ b \in 1..Len(r)
        /\ i < b /\ ~(b < h) /\ b + 1 = j
    BY <1>1, <1>2, <1>6, <2>1
  <2>3. r[i] = q[i] /\ r[b] = q[j]
    BY <1>2, <1>6, <2>2
  <2>q. QED
    BY <2>2, <2>3
<1>7. CASE h < i
  <2>1. PICK a, b : a = i - 1 /\ b = j - 1
    OBVIOUS
  <2>2. /\ a \in 1..Len(r) /\ b \in 1..Len(r) /\ a < b
        /\ ~(a < h) /\ a + 1 = i /\ ~(b < h) /\ b + 1 = j
    BY <1>1, <1>2, <1>7, <2>1
  <2>3. r[a] = q[i] /\ r[b] = q[j]
    BY <1>2, <2>2
  <2>q. QED
    BY <2>2, <2>3
<1>q. QED
  BY <1>1, <1>3, <1>4, <1>5, <1>6, <1>7

-----------------------------------------------------------------------------
(* sched.c.                                                                *)

\* Started at level 0, the scan stops at the first non-empty level.
LEMMA AttemptFirst ==
  ASSUME NEW mlq, ~AllEmpty(mlq)
  PROVE  LET a == Attempt(mlq, 0)
         IN  /\ a \in Levels
             /\ Level(0, a) = a
             /\ ~Empty(mlq[a])
             /\ \A b \in Levels : b < a => Empty(mlq[b])
<1> DEFINE Full == {l \in Levels : ~Empty(mlq[l])}
<1>1. \A l \in Levels : Level(0, l) = l
  BY ModSmall DEF Level, Levels
<1>2. PICK a \in Full : \A l \in Full : a <= l
  <2>1. Full \subseteq Nat /\ Full # {}
    BY DEF Levels, AllEmpty
  <2>q. QED
    BY <2>1, NatMinimum
<1>3. \A b \in 0..(a - 1) : b \in Levels /\ b < a
  BY DEF Levels
<1>4. /\ ~Empty(mlq[Level(0, a)])
      /\ \A b \in 0..(a - 1) : Empty(mlq[Level(0, b)])
  BY <1>1, <1>2, <1>3 DEF Levels
<1> DEFINE c == Attempt(mlq, 0)
<1>5. /\ c \in Levels
      /\ ~Empty(mlq[Level(0, c)])
      /\ \A b \in 0..(c - 1) : Empty(mlq[Level(0, b)])
  BY <1>2, <1>4 DEF Attempt
<1> HIDE DEF c
<1>6. ASSUME NEW b \in Levels, b < c
      PROVE  Empty(mlq[b])
  <2>1. b \in 0..(c - 1)
    BY <1>5, <1>6 DEF Levels
  <2>q. QED
    BY <1>1, <1>5, <2>1
<1>q. QED
  BY <1>1, <1>5, <1>6 DEF c

(***************************************************************************)
(* From level 0, get_mlq_proc always has a slot left where it finds a      *)
(* process: it serves that level and leaves currentPrio at 0.              *)
(***************************************************************************)
LEMMA GetServesFirst ==
  ASSUME NEW mlq, NEW pri, ~AllEmpty(mlq)
  PROVE  \E l \in Levels :
            /\ mlq[l] # <<>>
            /\ \A m \in Levels : m < l => mlq[m] = <<>>
            /\ GetMlqProc(mlq, 0, pri).proc = Front(mlq[l], pri)
            /\ GetMlqProc(mlq, 0, pri).mlq = [mlq EXCEPT ![l] = Rest(mlq[l], pri)]
            /\ GetMlqProc(mlq, 0, pri).currentPrio = 0
<1> DEFINE l == Attempt(mlq, 0)
<1>1. /\ l \in Levels
      /\ Level(0, l) = l
      /\ ~Empty(mlq[l])
      /\ \A b \in Levels : b < l => Empty(mlq[b])
  BY AttemptFirst
<1>2. SlotLeft(0, l) > 0
  BY <1>1 DEF SlotLeft, Levels
<1>3. GetMlqProc(mlq, 0, pri) =
         [proc |-> Front(mlq[l], pri),
          mlq |-> [mlq EXCEPT ![l] = Rest(mlq[l], pri)],
          currentPrio |-> 0]
  BY <1>1, <1>2, Zenon DEF GetMlqProc
<1> HIDE DEF l
<1>4. PICK R, a, b : /\ R = GetMlqProc(mlq, 0, pri)
                     /\ a = Front(mlq[l], pri)
                     /\ b = [mlq EXCEPT ![l] = Rest(mlq[l], pri)]
  OBVIOUS
<1>5. R = [proc |-> a, mlq |-> b, currentPrio |-> 0]
  BY <1>3, <1>4, Zenon
<1>6. R.proc = a /\ R.mlq = b /\ R.currentPrio = 0
  BY <1>5
<1>q. QED
  BY <1>1, <1>4, <1>6, Zenon DEF Empty

LEMMA GetNothing ==
  ASSUME NEW mlq, NEW cur, NEW pri, AllEmpty(mlq)
  PROVE  GetMlqProc(mlq, cur, pri) =
            [proc |-> NULL, mlq |-> mlq, currentPrio |-> cur]
  BY DEF GetMlqProc
=============================================================================
