-------------------------- MODULE ThreadPoolProofs --------------------------
(***************************************************************************)
(* Proofs about ThreadPool, for any number of workers, tasks and delays.   *)
(* That no wake-up is lost rests on _lock, which a worker holds from       *)
(* ready() until it waits; that pop() may look at the back only rests on   *)
(* the place at which pushDelayed() inserts.                               *)
(***************************************************************************)
EXTENDS ThreadPool, SequencesExt, SequenceTheorems, FiniteSetTheorems, WellFoundedInduction, TLAPS

Timers == [at : 0 .. MaxTime, task : Tasks]
Sorted(s) == \A i, j \in DOMAIN s : i < j => s[i].at >= s[j].at
Distinct(s) == \A i, j \in DOMAIN s : s[i].task = s[j].task => i = j

\* What a worker's place says of its task, of _continue and of the queue.
Control ==
    \A w \in Workers :
        /\ current[w] # None <=> pc[w] \in {"run", "rest"}
        /\ pc[w] \in {"drain", "rest", "ended"} => ~cont
        /\ pc[w] = "arm" => tasks = <<>>

IInv == TypeOK /\ TimersSorted /\ SleepIsSafe /\ Control /\ Distinct(timers)
-----------------------------------------------------------------------------
(* What the proofs need to know of queues and lists as the code keeps them *)
(* (std::deque and std::vector of task_pool.h): insertion and removal at a *)
(* place, pop_front and pop_back.                                          *)

\* A set of natural numbers that is not empty has a least element: < is well founded
\* (the search loop of task_pool.h:95 stops at the least index that qualifies).
LEMMA LeastElement ==
    ASSUME NEW E, E \subseteq Nat, E # {}
    PROVE  \E m \in E : \A r \in E : m <= r
<1>1. PICK m \in E : \A y \in E : <<y, m>> \notin OpToRel(<, Nat)
  BY WFMin, NatLessThanWellFounded, Zenon
<1>2. ASSUME NEW r \in E PROVE ~(r < m)
  <2>1. r \in Nat /\ m \in Nat
    OBVIOUS
  <2>2. <<r, m>> \notin OpToRel(<, Nat)
    BY <1>1, Zenon
  <2> QED BY <2>1, <2>2, Zenon DEF OpToRel
<1> QED BY <1>2

\* std::vector::emplace(it, e), task_pool.h:103
LEMMA InsertAtLemma ==
    ASSUME NEW S, NEW s \in Seq(S), NEW e \in S, NEW i \in 1 .. Len(s) + 1
    PROVE  /\ InsertAt(s, i, e) \in Seq(S)
           /\ Len(InsertAt(s, i, e)) = Len(s) + 1
           /\ \A j \in 1 .. Len(s) + 1 :
                 InsertAt(s, i, e)[j] = IF j < i THEN s[j] ELSE IF j = i THEN e ELSE s[j - 1]
<1> DEFINE a == SubSeq(s, 1, i - 1)
           b == SubSeq(s, i, Len(s))
           c == <<e>>
<1>0. Len(s) \in Nat /\ i \in Int /\ \A k \in 1 .. Len(s) : s[k] \in S
  BY LenProperties, ElementOfSeq
<1>1. a \in Seq(S) /\ Len(a) = i - 1 /\ \A j \in 1 .. i - 1 : a[j] = s[j]
  BY <1>0, SubSeqProperties
<1>2. b \in Seq(S) /\ Len(b) = Len(s) + 1 - i /\ \A j \in 1 .. Len(s) + 1 - i : b[j] = s[i + j - 1]
  BY <1>0, SubSeqProperties
<1>3. c \in Seq(S) /\ Len(c) = 1 /\ c[1] = e
  OBVIOUS
<1> HIDE DEF a, b, c
<1>4. /\ a \o c \in Seq(S) /\ Len(a \o c) = i
      /\ \A j \in 1 .. i : (a \o c)[j] = IF j <= i - 1 THEN a[j] ELSE c[j - (i - 1)]
  <2>1. /\ a \o c \in Seq(S) /\ Len(a \o c) = Len(a) + Len(c)
        /\ \A j \in 1 .. Len(a) + Len(c) :
              (a \o c)[j] = IF j <= Len(a) THEN a[j] ELSE c[j - Len(a)]
    BY <1>1, <1>3, ConcatProperties, Zenon
  <2> QED BY <2>1, <1>0, <1>1, <1>3
<1>5. /\ (a \o c) \o b \in Seq(S) /\ Len((a \o c) \o b) = Len(s) + 1
      /\ \A j \in 1 .. Len(s) + 1 : ((a \o c) \o b)[j] = IF j <= i THEN (a \o c)[j] ELSE b[j - i]
  <2> DEFINE ac == a \o c
  <2> HIDE DEF ac
  <2>0. ac \in Seq(S)
    BY <1>4 DEF ac
  <2>1. /\ ac \o b \in Seq(S) /\ Len(ac \o b) = Len(ac) + Len(b)
        /\ \A j \in 1 .. Len(ac) + Len(b) :
              (ac \o b)[j] = IF j <= Len(ac) THEN ac[j] ELSE b[j - Len(ac)]
    BY <1>2, <2>0, ConcatProperties, Zenon
  <2>2. /\ ac \o b \in Seq(S) /\ Len(ac \o b) = Len(s) + 1
        /\ \A j \in 1 .. Len(s) + 1 : (ac \o b)[j] = IF j <= i THEN ac[j] ELSE b[j - i]
    <3>1. Len(ac) = i /\ Len(b) = Len(s) + 1 - i
      BY <1>2, <1>4 DEF ac
    <3> QED BY <2>1, <3>1, <1>0
  <2> QED BY <2>2 DEF ac
<1>6. InsertAt(s, i, e) = (a \o c) \o b
  BY DEF InsertAt, a, b, c
<1> QED BY <1>0, <1>1, <1>2, <1>3, <1>4, <1>5, <1>6

\* std::vector::erase(it), task_pool.h:182
LEMMA RemoveAtLemma ==
    ASSUME NEW S, NEW s \in Seq(S), NEW i \in 1 .. Len(s)
    PROVE  /\ RemoveAt(s, i) \in Seq(S)
           /\ Len(RemoveAt(s, i)) = Len(s) - 1
           /\ \A j \in 1 .. Len(s) - 1 : RemoveAt(s, i)[j] = IF j < i THEN s[j] ELSE s[j + 1]
<1> DEFINE a == SubSeq(s, 1, i - 1)
           b == SubSeq(s, i + 1, Len(s))
<1>0. Len(s) \in Nat /\ i \in Int /\ \A k \in 1 .. Len(s) : s[k] \in S
  BY LenProperties, ElementOfSeq
<1>1. a \in Seq(S) /\ Len(a) = i - 1 /\ \A j \in 1 .. i - 1 : a[j] = s[j]
  BY <1>0, SubSeqProperties
<1>2. b \in Seq(S) /\ Len(b) = Len(s) - i /\ \A j \in 1 .. Len(s) - i : b[j] = s[i + j]
  <2> DEFINE m == i + 1
             n == Len(s)
  <2>1. m \in Int /\ n \in Int /\ \A k \in m .. n : s[k] \in S
    BY <1>0
  <2>2. /\ SubSeq(s, m, n) \in Seq(S) /\ Len(SubSeq(s, m, n)) = IF m <= n THEN n - m + 1 ELSE 0
        /\ \A j \in 1 .. n - m + 1 : SubSeq(s, m, n)[j] = s[m + j - 1]
    <3> HIDE DEF m, n
    <3> QED BY <2>1, SubSeqProperties
  <2> QED BY <2>2, <1>0
<1> HIDE DEF a, b
<1>3. /\ a \o b \in Seq(S) /\ Len(a \o b) = Len(s) - 1
      /\ \A j \in 1 .. Len(s) - 1 : (a \o b)[j] = IF j <= i - 1 THEN a[j] ELSE b[j - (i - 1)]
  <2>1. /\ a \o b \in Seq(S) /\ Len(a \o b) = Len(a) + Len(b)
        /\ \A j \in 1 .. Len(a) + Len(b) :
              (a \o b)[j] = IF j <= Len(a) THEN a[j] ELSE b[j - Len(a)]
    BY <1>1, <1>2, ConcatProperties, Zenon
  <2> QED BY <2>1, <1>0, <1>1, <1>2
<1>4. RemoveAt(s, i) = a \o b
  BY DEF RemoveAt, a, b
<1>5. ASSUME NEW j \in 1 .. Len(s) - 1 PROVE (a \o b)[j] = IF j < i THEN s[j] ELSE s[j + 1]
  <2>1. CASE j < i
    BY <2>1, <1>0, <1>1, <1>3
  <2>2. CASE j >= i
    <3>1. (a \o b)[j] = b[j - (i - 1)]
      BY <2>2, <1>0, <1>3
    <3>2. j - (i - 1) \in 1 .. Len(s) - i /\ i + (j - (i - 1)) = j + 1
      BY <2>2, <1>0
    <3>3. b[j - (i - 1)] = s[i + (j - (i - 1))]
      BY <3>2, <1>2
    <3> QED BY <2>2, <1>0, <3>1, <3>2, <3>3
  <2>3. j < i \/ j >= i
    BY <1>0
  <2> QED BY <2>1, <2>2, <2>3, Zenon
<1> QED BY <1>3, <1>4, <1>5

\* The elements of a list without repetition, after one of them is erased
LEMMA RemoveAtRange ==
    ASSUME NEW S, NEW s \in Seq(S), NEW i \in 1 .. Len(s),
           \A j, k \in 1 .. Len(s) : s[j] = s[k] => j = k
    PROVE  Range(RemoveAt(s, i)) = Range(s) \ {s[i]}
<1> DEFINE r == RemoveAt(s, i)
<1>0. Len(s) \in Nat /\ i \in Int
  BY LenProperties
<1>1. r \in Seq(S) /\ Len(r) = Len(s) - 1 /\ \A j \in 1 .. Len(s) - 1 : r[j] = IF j < i THEN s[j] ELSE s[j + 1]
  BY RemoveAtLemma
<1> HIDE DEF r
<1>2. Range(r) = {r[j] : j \in 1 .. Len(s) - 1} /\ Range(s) = {s[j] : j \in 1 .. Len(s)}
  BY <1>1, RangeEquality
<1>3. ASSUME NEW x \in Range(r) PROVE x \in Range(s) /\ x # s[i]
  <2>1. PICK j \in 1 .. Len(s) - 1 : x = r[j]
    BY <1>2
  <2> QED BY <2>1, <1>0, <1>1, <1>2
<1>4. ASSUME NEW x \in Range(s), x # s[i] PROVE x \in Range(r)
  <2>1. PICK j \in 1 .. Len(s) : x = s[j] /\ j # i
    BY <1>2, <1>4
  <2>2. CASE j < i
    <3>1. j \in 1 .. Len(s) - 1 /\ r[j] = s[j]
      BY <2>2, <1>0, <1>1
    <3> QED BY <3>1, <2>1, <1>2
  <2>3. CASE j > i
    <3>1. j - 1 \in 1 .. Len(s) - 1 /\ r[j - 1] = s[j]
      BY <2>3, <1>0, <1>1
    <3> QED BY <3>1, <2>1, <1>2
  <2> QED BY <2>1, <2>2, <2>3, <1>0
<1> QED BY <1>3, <1>4 DEF r

\* ... and after one is inserted
LEMMA InsertAtRange ==
    ASSUME NEW S, NEW s \in Seq(S), NEW e \in S, NEW i \in 1 .. Len(s) + 1
    PROVE  Range(InsertAt(s, i, e)) = Range(s) \cup {e}
<1> DEFINE r == InsertAt(s, i, e)
<1>0. Len(s) \in Nat /\ i \in Int
  BY LenProperties
<1>1. /\ r \in Seq(S) /\ Len(r) = Len(s) + 1
      /\ \A j \in 1 .. Len(s) + 1 : r[j] = IF j < i THEN s[j] ELSE IF j = i THEN e ELSE s[j - 1]
  <2>1. r \in Seq(S)
    BY InsertAtLemma
  <2>2. Len(r) = Len(s) + 1
    BY InsertAtLemma
  <2>3. ASSUME NEW j \in 1 .. Len(s) + 1
        PROVE  r[j] = IF j < i THEN s[j] ELSE IF j = i THEN e ELSE s[j - 1]
    BY InsertAtLemma
  <2> QED BY <2>1, <2>2, <2>3
<1> HIDE DEF r
<1>2. Range(r) = {r[j] : j \in 1 .. Len(s) + 1} /\ Range(s) = {s[j] : j \in 1 .. Len(s)}
  BY <1>1, RangeEquality
<1>3. ASSUME NEW x \in Range(r) PROVE x \in Range(s) \cup {e}
  <2>1. PICK j \in 1 .. Len(s) + 1 : x = r[j]
    BY <1>2
  <2>2. CASE j < i
    <3>1. j \in 1 .. Len(s) /\ r[j] = s[j]
      BY <2>2, <1>0, <1>1
    <3> QED BY <3>1, <2>1, <1>2
  <2>3. CASE j > i
    <3>1. j - 1 \in 1 .. Len(s) /\ r[j] = s[j - 1]
      BY <2>3, <1>0, <1>1
    <3> QED BY <3>1, <2>1, <1>2
  <2>4. CASE j = i
    BY <2>1, <2>4, <1>1
  <2> QED BY <2>2, <2>3, <2>4, <1>0
<1>4. ASSUME NEW x \in Range(s) PROVE x \in Range(r)
  <2>1. PICK j \in 1 .. Len(s) : x = s[j]
    BY <1>2
  <2>2. CASE j < i
    <3>1. j \in 1 .. Len(s) + 1 /\ r[j] = s[j]
      BY <2>2, <1>0, <1>1
    <3> QED BY <3>1, <2>1, <1>2
  <2>3. CASE j >= i
    <3>1. j + 1 \in 1 .. Len(s) + 1 /\ r[j + 1] = s[j]
      BY <2>3, <1>0, <1>1
    <3> QED BY <3>1, <2>1, <1>2
  <2> QED BY <2>2, <2>3, <1>0
<1>5. e \in Range(r)
  BY <1>0, <1>1, <1>2
<1> QED BY <1>3, <1>4, <1>5 DEF r

\* pop_back() erases the last element.
LEMMA FrontIsRemoveAt ==
    ASSUME NEW S, NEW s \in Seq(S), s # <<>>
    PROVE  Len(s) \in 1 .. Len(s) /\ Front(s) = RemoveAt(s, Len(s)) /\ Last(s) = s[Len(s)]
<1>0. Len(s) \in Nat \ {0} /\ \A k \in 1 .. Len(s) : s[k] \in S
  BY EmptySeq, ElementOfSeq
<1> DEFINE a == SubSeq(s, 1, Len(s) - 1)
           n == Len(s)
<1>1. a \in Seq(S)
  <2> HIDE DEF n
  <2>1. \A k \in 1 .. n - 1 : s[k] \in S
    BY <1>0 DEF n
  <2> QED BY <2>1, <1>0, SubSeqProperties DEF n
<1>2. SubSeq(s, Len(s) + 1, Len(s)) = <<>>
  BY <1>0, SubSeqEmpty
<1>3. a \o <<>> = a
  <2> HIDE DEF a
  <2> QED BY <1>1, ConcatEmptySeq
<1> QED BY <1>0, <1>2, <1>3 DEF Front, RemoveAt, Last

-----------------------------------------------------------------------------
(* The list of timers                                                      *)

\* The timer at the back, if there is one
LEMMA LastTimer ==
    ASSUME NEW q \in Seq(Timers), q # <<>>, DelaysAssumption
    PROVE  /\ Len(q) \in 1 .. Len(q) /\ Last(q) = q[Len(q)]
           /\ Last(q) \in Timers /\ Last(q).at \in Nat
<1>1. Len(q) \in 1 .. Len(q)
  BY EmptySeq
<1>2. q[Len(q)] \in Timers
  BY <1>1, ElementOfSeq
<1>3. \A r \in Timers : r.at \in Nat
  BY DelaysAssumption DEF Timers
<1> QED BY <1>1, <1>2, <1>3 DEF Last

\* No timer is due earlier than the one at the back.
LEMMA BackIsFirst ==
    ASSUME NEW s \in Seq(Timers), Sorted(s), DelaysAssumption, NEW r \in Range(s)
    PROVE  s # <<>> /\ Last(s).at \in Nat /\ r.at \in Nat /\ Last(s).at <= r.at
<1>1. PICK i \in 1 .. Len(s) : r = s[i]
  BY LenProperties DEF Range
<1>2. s # <<>> /\ Len(s) \in Nat /\ DOMAIN s = 1 .. Len(s)
  BY <1>1, EmptySeq, LenProperties
<1>3. Len(s) \in 1 .. Len(s) /\ Last(s) = s[Len(s)] /\ Last(s).at \in Nat
  BY <1>2, LastTimer
<1>4. s[i] \in Timers
  BY ElementOfSeq
<1>5. s[i].at \in Nat
  BY <1>4, DelaysAssumption DEF Timers
<1>6. CASE i = Len(s)
  BY <1>1, <1>2, <1>3, <1>6
<1>7. CASE i < Len(s)
  BY <1>1, <1>2, <1>3, <1>5, <1>7 DEF Sorted
<1>8. i = Len(s) \/ i < Len(s)
  BY <1>3
<1> QED BY <1>6, <1>7, <1>8

\* The place that pushDelayed() finds is one: all before it are due no earlier,
\* and the one at it is due earlier.
LEMMA PlaceLemma ==
    ASSUME timers \in Seq(Timers), DelaysAssumption, NEW at \in Nat
    PROVE  /\ Place(at) \in 1 .. Len(timers) + 1
           /\ Place(at) <= Len(timers) => timers[Place(at)].at < at
           /\ \A j \in 1 .. Place(at) - 1 : timers[j].at >= at
<1> DEFINE n == Len(timers)
           E == {i \in 1 .. n + 1 : i <= n => timers[i].at < at}
<1>1. n \in Nat /\ \A k \in 1 .. n : timers[k] \in Timers
  BY LenProperties, ElementOfSeq
<1>2. \A k \in 1 .. n : timers[k].at \in Nat
  BY <1>1, DelaysAssumption DEF Timers
<1>3. E \subseteq Nat /\ E # {}
  <2>1. n + 1 \in E
    BY <1>1
  <2> QED BY <1>1, <2>1
<1>4. PICK m \in E : \A r \in E : m <= r
  <2> HIDE DEF E
  <2> QED BY <1>3, LeastElement
<1>5. ASSUME NEW j \in 1 .. m - 1 PROVE ~(timers[j].at < at)
  BY <1>1, <1>4, <1>2
<1>6. \E i \in 1 .. n + 1 : (i <= n => timers[i].at < at) /\ \A j \in 1 .. i - 1 : ~(timers[j].at < at)
  BY <1>4, <1>5
<1>7. /\ Place(at) \in 1 .. n + 1
      /\ Place(at) <= n => timers[Place(at)].at < at
      /\ \A j \in 1 .. Place(at) - 1 : ~(timers[j].at < at)
  BY <1>6 DEF Place
<1> QED BY <1>1, <1>2, <1>7

\* An insertion there keeps the list sorted and its tasks distinct.
LEMMA InsertKeeps ==
    ASSUME timers \in Seq(Timers), Sorted(timers), Distinct(timers), DelaysAssumption,
           NEW at \in 0 .. MaxTime, NEW t \in Tasks, \A i \in DOMAIN timers : timers[i].task # t,
           NEW s, s = InsertAt(timers, Place(at), [at |-> at, task |-> t])
    PROVE  s \in Seq(Timers) /\ Sorted(s) /\ Distinct(s)
<1> DEFINE n == Len(timers)
<1>1. n \in Nat /\ DOMAIN timers = 1 .. n /\ \A k \in 1 .. n : timers[k] \in Timers
  BY LenProperties, ElementOfSeq
<1>2. PICK e \in Timers : e = [at |-> at, task |-> t] /\ e.at = at /\ e.task = t /\ at \in Nat
  BY DelaysAssumption DEF Timers
<1>3. PICK p \in 1 .. n + 1 :
          /\ p = Place(at)
          /\ p <= n => timers[p].at < at
          /\ \A j \in 1 .. p - 1 : timers[j].at >= at
  BY <1>2, PlaceLemma
<1>4. /\ s \in Seq(Timers) /\ Len(s) = n + 1
      /\ \A j \in 1 .. n + 1 : s[j] = IF j < p THEN timers[j] ELSE IF j = p THEN e ELSE timers[j - 1]
  <2>1. s = InsertAt(timers, p, e)
    BY <1>2, <1>3
  <2>2. InsertAt(timers, p, e) \in Seq(Timers) /\ Len(InsertAt(timers, p, e)) = n + 1
    BY InsertAtLemma
  <2>3. ASSUME NEW j \in 1 .. n + 1
        PROVE  InsertAt(timers, p, e)[j] = IF j < p THEN timers[j] ELSE IF j = p THEN e ELSE timers[j - 1]
    BY InsertAtLemma
  <2> QED BY <2>1, <2>2, <2>3
<1>5. DOMAIN s = 1 .. n + 1
  BY <1>4, LenProperties
<1>6. \A k \in 1 .. n : timers[k].at \in Nat
  BY <1>1, DelaysAssumption DEF Timers
<1>7. Sorted(s)
  <2> SUFFICES ASSUME NEW i \in 1 .. n + 1, NEW j \in 1 .. n + 1, i < j
               PROVE  s[i].at >= s[j].at
    BY <1>5 DEF Sorted
  <2>0. \A k, l \in 1 .. n : k < l => timers[k].at >= timers[l].at
    BY <1>1, <1>3 DEF Sorted
  <2>1. CASE j < p
    <3>1. s[i] = timers[i] /\ s[j] = timers[j] /\ i \in 1 .. n /\ j \in 1 .. n
      BY <2>1, <1>1, <1>4
    <3> QED BY <3>1, <2>0
  <2>2. CASE j = p
    <3>1. s[i] = timers[i] /\ s[j] = e /\ i \in 1 .. p - 1
      BY <2>0, <2>2, <1>1, <1>4
    <3> QED BY <3>1, <1>2, <1>3
  <2>3. CASE i = p
    <3>1. s[i] = e /\ s[j] = timers[j - 1] /\ j - 1 \in p .. n /\ p \in 1 .. n
      BY <2>0, <2>3, <1>1, <1>4
    <3>2. timers[p].at >= timers[j - 1].at
      BY <3>1, <2>0, <1>6
    <3> QED BY <3>1, <3>2, <1>2, <1>3, <1>6, SMTT(30)
  <2>4. CASE i < p /\ p < j
    <3>1. s[i] = timers[i] /\ s[j] = timers[j - 1] /\ i \in 1 .. p - 1 /\ j - 1 \in p .. n /\ p \in 1 .. n
      BY <2>0, <2>4, <1>1, <1>4
    <3>2. timers[p].at >= timers[j - 1].at /\ timers[i].at >= at /\ at > timers[p].at
      BY <3>1, <2>0, <1>3, <1>6
    <3>3. i \in 1 .. n
      BY <3>1, <1>1
    <3> QED BY <3>1, <3>2, <3>3, <1>2, <1>6, SMTT(30)
  <2>5. CASE p < i
    <3>1. s[i] = timers[i - 1] /\ s[j] = timers[j - 1] /\ i - 1 \in 1 .. n /\ j - 1 \in 1 .. n /\ i - 1 < j - 1
      BY <2>0, <2>5, <1>1, <1>4
    <3> QED BY <3>1, <2>0
  <2> QED BY <2>0, <2>1, <2>2, <2>3, <2>4, <2>5
<1>8. Distinct(s)
  <2> SUFFICES ASSUME NEW i \in 1 .. n + 1, NEW j \in 1 .. n + 1, i < j
               PROVE  s[i].task # s[j].task
    BY <1>5, <1>1 DEF Distinct
  <2>0. \A k, l \in 1 .. n : timers[k].task = timers[l].task => k = l
    BY <1>1, <1>3 DEF Distinct
  <2>00. e.task = t /\ \A k \in 1 .. n : timers[k].task # t
    BY <1>1, <1>2
  <2>1. CASE j < p
    <3>1. s[i] = timers[i] /\ s[j] = timers[j] /\ i \in 1 .. n /\ j \in 1 .. n
      BY <2>1, <1>1, <1>4
    <3> QED BY <3>1, <2>0
  <2>2. CASE j = p
    BY <2>0, <2>00, <2>2, <1>1, <1>4, SMTT(30)
  <2>3. CASE i = p
    BY <2>0, <2>00, <2>3, <1>1, <1>4
  <2>4. CASE i < p /\ p < j
    <3>1. s[i] = timers[i] /\ s[j] = timers[j - 1] /\ i \in 1 .. n /\ j - 1 \in 1 .. n /\ i # j - 1
      BY <2>0, <2>4, <1>1, <1>4
    <3> QED BY <3>1, <2>0
  <2>5. CASE p < i
    <3>1. s[i] = timers[i - 1] /\ s[j] = timers[j - 1] /\ i - 1 \in 1 .. n /\ j - 1 \in 1 .. n /\ i - 1 # j - 1
      BY <2>0, <2>5, <1>1, <1>4
    <3> QED BY <3>1, <2>0
  <2> QED BY <2>0, <2>1, <2>2, <2>3, <2>4, <2>5
<1> QED BY <1>4, <1>7, <1>8

\* An erasure keeps it so as well, and the timer at the back is not due earlier.
LEMMA RemoveKeeps ==
    ASSUME timers \in Seq(Timers), Sorted(timers), Distinct(timers), DelaysAssumption,
           NEW i \in 1 .. Len(timers), NEW s, s = RemoveAt(timers, i)
    PROVE  /\ s \in Seq(Timers) /\ Sorted(s) /\ Distinct(s)
           /\ Range(s) = Range(timers) \ {timers[i]}
           /\ s # <<>> => timers # <<>> /\ Last(timers).at <= Last(s).at
<1> DEFINE n == Len(timers)
<1>1. n \in Nat \ {0} /\ DOMAIN timers = 1 .. n /\ \A k \in 1 .. n : timers[k] \in Timers
  BY LenProperties, ElementOfSeq
<1>2. /\ s \in Seq(Timers) /\ Len(s) = n - 1
      /\ \A j \in 1 .. n - 1 : s[j] = IF j < i THEN timers[j] ELSE timers[j + 1]
  BY RemoveAtLemma, Zenon
<1>3. DOMAIN s = 1 .. n - 1
  BY <1>2, LenProperties
<1>4. \A k \in 1 .. n : timers[k].at \in Nat
  BY <1>1, DelaysAssumption DEF Timers
<1>5. \A k, l \in 1 .. n : k < l => timers[k].at >= timers[l].at
  BY <1>1 DEF Sorted
<1>6. \A k, l \in 1 .. n : timers[k].task = timers[l].task => k = l
  BY <1>1 DEF Distinct
<1>7. Sorted(s)
  <2> SUFFICES ASSUME NEW j \in 1 .. n - 1, NEW k \in 1 .. n - 1, j < k
               PROVE  s[j].at >= s[k].at
    BY <1>3 DEF Sorted
  <2> DEFINE J == IF j < i THEN j ELSE j + 1
             K == IF k < i THEN k ELSE k + 1
  <2>1. J \in 1 .. n /\ K \in 1 .. n /\ J < K /\ s[j] = timers[J] /\ s[k] = timers[K]
    BY <1>1, <1>2
  <2> QED BY <2>1, <1>5
<1>8. Distinct(s)
  <2> SUFFICES ASSUME NEW j \in 1 .. n - 1, NEW k \in 1 .. n - 1, j # k
               PROVE  s[j].task # s[k].task
    BY <1>3 DEF Distinct
  <2> DEFINE J == IF j < i THEN j ELSE j + 1
             K == IF k < i THEN k ELSE k + 1
  <2>1. J \in 1 .. n /\ K \in 1 .. n /\ J # K /\ s[j] = timers[J] /\ s[k] = timers[K]
    BY <1>1, <1>2
  <2> QED BY <2>1, <1>6
<1>9. Range(s) = Range(timers) \ {timers[i]}
  <2>1. \A j, k \in 1 .. n : timers[j] = timers[k] => j = k
    BY <1>6
  <2> QED BY <2>1, RemoveAtRange
<1>10. ASSUME s # <<>> PROVE timers # <<>> /\ Last(timers).at <= Last(s).at
  <2>1. Len(s) \in Nat \ {0}
    BY <1>2, <1>10, EmptySeq
  <2>2. n - 1 \in 1 .. n - 1 /\ n \in 1 .. n /\ n - 1 \in 1 .. n
    BY <2>1, <1>1, <1>2
  <2>3. Last(s) = s[n - 1] /\ Last(timers) = timers[n]
    BY <1>2 DEF Last
  <2>4. timers[n].at <= s[n - 1].at
    <3>1. s[n - 1] = timers[n - 1] \/ s[n - 1] = timers[n]
      BY <2>2, <1>1, <1>2
    <3> QED BY <3>1, <2>2, <1>1, <1>4, <1>5, SMTT(30)
  <2>5. timers # <<>>
    BY <1>1
  <2> QED BY <2>3, <2>4, <2>5
<1> QED BY <1>2, <1>7, <1>8, <1>9, <1>10
-----------------------------------------------------------------------------
(* The inductive invariant                                                 *)

LEMMA InitIInv == Init => IInv
<1> SUFFICES ASSUME Init PROVE IInv
  OBVIOUS
<1> USE DEF Init
<1>1. TypeOK
  <2>1. tasks \in Seq(Tasks) /\ timers \in Seq(Timers) /\ now \in 0 .. MaxTime
    BY DelaysAssumption
  <2>2. cont \in BOOLEAN
    BY Zenon
  <2> QED BY <2>1, <2>2 DEF TypeOK, Timers, Labels
<1>2. TimersSorted /\ Distinct(timers) /\ Control /\ SleepIsSafe
  BY DEF TimersSorted, Distinct, Control, SleepIsSafe, Asleep, Waiting
<1> QED BY <1>1, <1>2 DEF IInv

\* The set of the workers that are on their way to pop() is finite.
LEMMA SeekingFinite ==
    ASSUME NEW S, S \subseteq Workers
    PROVE  IsFiniteSet(S) /\ Cardinality(S) \in Nat
BY WorkersAssumption, FS_Subset, FS_CardinalityType

\* A step that wakes nobody too few and shortens no wait keeps sleep safe.
LEMMA SleepKept ==
    ASSUME IInv, cont' = cont, Asleep' \subseteq Asleep,
           \A w \in Asleep : deadline'[w] = deadline[w],
           timers' # <<>> => timers # <<>> /\ Last(timers).at <= Last(timers').at,
           timers \in Seq(Timers), timers' \in Seq(Timers),
           Asleep # {} => Len(tasks') <= Cardinality(Seeking')
    PROVE  SleepIsSafe'
<1> SUFFICES ASSUME NEW w \in Asleep'
             PROVE  /\ cont'
                    /\ timers' # <<>> => deadline'[w] # None /\ deadline'[w] <= Last(timers').at
                    /\ Len(tasks') <= Cardinality(Seeking')
  BY Zenon DEF SleepIsSafe
<1>1. w \in Asleep /\ w \in Workers
  BY DEF Asleep, Waiting
<1>2. cont /\ (timers # <<>> => deadline[w] # None /\ deadline[w] <= Last(timers).at)
  BY <1>1, Zenon DEF IInv, SleepIsSafe
<1>3. ASSUME timers' # <<>> PROVE deadline'[w] # None /\ deadline'[w] <= Last(timers').at
  <2>1. deadline[w] # None /\ deadline[w] <= Last(timers).at /\ deadline'[w] = deadline[w]
    BY <1>1, <1>2, <1>3, Zenon
  <2>2. deadline[w] \in Nat
    BY <1>1, <2>1, DelaysAssumption DEF IInv, TypeOK
  <2>3. \A q \in Seq(Timers) : q # <<>> => Last(q).at \in Nat
    BY LastTimer, DelaysAssumption
  <2> QED BY <2>1, <2>2, <2>3, <1>3
<1> QED BY <1>1, <1>2, <1>3

\* push() keeps the invariant: it wakes one worker for one task.
LEMMA PushPreserves ==
    ASSUME IInv, NEW t \in Tasks, Push(t)
    PROVE  IInv'
<1> USE DEF IInv, Push
<1>1. TypeOK'
  <2>1. tasks' \in Seq(Tasks)
    BY AppendProperties DEF TypeOK
  <2>2. cont' \in BOOLEAN
    BY Zenon DEF TypeOK
  <2>3. notified' \subseteq Waiting'
    BY DEF TypeOK, NotifyOne, Asleep, Waiting
  <2> QED BY <2>1, <2>2, <2>3 DEF TypeOK
<1>2. TimersSorted' /\ Distinct(timers)'
  BY DEF TimersSorted, Distinct
<1>3. Control'
  BY DEF Control, LockFree, Holding
<1>4. SleepIsSafe'
  <2>1. CASE Asleep = {}
    <3>1. Asleep' = {}
      BY <2>1 DEF NotifyOne, Asleep, Waiting
    <3> QED BY <3>1 DEF SleepIsSafe
  <2>2. CASE Asleep # {}
    <3>1. PICK w \in Asleep : notified' = notified \cup {w}
      BY <2>2 DEF NotifyOne
    <3>2. Seeking' = Seeking \cup {w} /\ w \notin Seeking /\ Seeking \subseteq Workers
      BY <3>1 DEF Seeking, Asleep, Waiting, TypeOK
    <3>3. Cardinality(Seeking') = Cardinality(Seeking) + 1
      BY <3>2, SeekingFinite, FS_AddElement
    <3>4. Len(tasks') = Len(tasks) + 1 /\ Len(tasks) \in Nat
      BY AppendProperties, LenProperties DEF TypeOK
    <3>5. Len(tasks) <= Cardinality(Seeking)
      BY <2>2 DEF SleepIsSafe
    <3>6. Len(tasks') <= Cardinality(Seeking')
      BY <3>2, <3>3, <3>4, <3>5, SeekingFinite
    <3>7. /\ cont' = cont /\ Asleep' \subseteq Asleep /\ \A v \in Asleep : deadline'[v] = deadline[v]
          /\ timers \in Seq(Timers) /\ timers' = timers
      BY <3>1 DEF Asleep, Waiting, TypeOK, Timers
    <3>8. timers' # <<>> => timers # <<>> /\ Last(timers).at <= Last(timers').at
      <4>1. ASSUME timers # <<>> PROVE Last(timers).at \in Nat
        BY <3>7, <4>1, LastTimer, DelaysAssumption
      <4> QED BY <3>7, <4>1
    <3> QED BY <3>6, <3>7, <3>8, SleepKept
  <2> QED BY <2>1, <2>2
<1> QED BY <1>1, <1>2, <1>3, <1>4

\* pushDelayed() keeps the invariant: it wakes everybody.
LEMMA PushDelayedPreserves ==
    ASSUME IInv, NEW t \in Tasks, NEW d \in Delays, PushDelayed(t, d)
    PROVE  IInv'
<1> USE DEF IInv, PushDelayed
<1>1. At(d) \in 0 .. MaxTime
  BY DelaysAssumption DEF TypeOK, At
<1>2. timers' \in Seq(Timers) /\ Sorted(timers') /\ Distinct(timers')
  <2>1. timers \in Seq(Timers) /\ Sorted(timers) /\ Distinct(timers)
    BY DEF TypeOK, Timers, TimersSorted, Sorted
  <2>2. \A i \in DOMAIN timers : timers[i].task # t
    BY DEF Known
  <2> QED BY <1>1, <2>1, <2>2, DelaysAssumption, InsertKeeps
<1>3. TypeOK'
  <2>1. cont' \in BOOLEAN
    BY Zenon DEF TypeOK
  <2>2. notified' \subseteq Waiting'
    BY DEF TypeOK, NotifyAll, Waiting
  <2> QED BY <1>2, <2>1, <2>2 DEF TypeOK, Timers
<1>4. Control' /\ SleepIsSafe'
  BY DEF Control, SleepIsSafe, Asleep, NotifyAll, Waiting
<1> QED BY <1>2, <1>3, <1>4 DEF TimersSorted, Sorted

\* cancel() keeps the invariant, although it takes only _task_mutex: the first
\* timer is not due earlier than before.
LEMMA CancelPreserves ==
    ASSUME IInv, NEW i \in DOMAIN timers, Cancel(i)
    PROVE  IInv'
<1> USE DEF IInv, Cancel
<1>1. timers \in Seq(Timers) /\ Sorted(timers) /\ Distinct(timers) /\ i \in 1 .. Len(timers)
  BY LenProperties DEF TypeOK, Timers, TimersSorted, Sorted
<1>2. /\ timers' \in Seq(Timers) /\ Sorted(timers') /\ Distinct(timers')
      /\ timers' # <<>> => timers # <<>> /\ Last(timers).at <= Last(timers').at
  BY <1>1, DelaysAssumption, RemoveKeeps
<1>3. TypeOK'
  <2>1. cont' \in BOOLEAN
    BY Zenon DEF TypeOK
  <2> QED BY <1>2, <2>1 DEF TypeOK, Timers, workers, Waiting
<1>4. Control'
  BY DEF Control, workers
<1>5. SleepIsSafe'
  <2>1. cont' = cont /\ Asleep' = Asleep /\ deadline' = deadline /\ tasks' = tasks /\ Seeking' = Seeking
    BY DEF workers, Asleep, Waiting, Seeking
  <2>2. Asleep # {} => Len(tasks') <= Cardinality(Seeking')
    BY <2>1 DEF SleepIsSafe
  <2> QED BY <1>1, <1>2, <2>1, <2>2, SleepKept
<1> QED BY <1>2, <1>3, <1>4, <1>5 DEF TimersSorted, Sorted

\* stop() and the clock keep the invariant.
LEMMA StopTickPreserves ==
    ASSUME IInv, Stop \/ Tick
    PROVE  IInv'
<1> USE DEF IInv
<1>1. CASE Stop
  <2> USE <1>1 DEF Stop, queues
  <2>1. cont' \in BOOLEAN /\ notified' \subseteq Waiting'
    BY DEF NotifyAll, Waiting
  <2>2. TypeOK'
    BY <2>1 DEF TypeOK
  <2>3. TimersSorted' /\ Distinct(timers)' /\ Control' /\ SleepIsSafe'
    BY DEF TimersSorted, Distinct, Control, SleepIsSafe, Asleep, NotifyAll, Waiting
  <2> QED BY <2>2, <2>3
<1>2. CASE Tick
  <2> USE <1>2 DEF Tick, queues, workers
  <2>1. cont' \in BOOLEAN
    BY Zenon DEF TypeOK
  <2>2. now' \in 0 .. MaxTime
    BY DelaysAssumption DEF TypeOK
  <2>3. TypeOK'
    BY <2>1, <2>2 DEF TypeOK, Waiting
  <2>4. TimersSorted' /\ Distinct(timers)' /\ Control'
    BY DEF TimersSorted, Distinct, Control
  <2>5. SleepIsSafe'
    BY DEF SleepIsSafe, Asleep, Waiting, Seeking
  <2> QED BY <2>3, <2>4, <2>5
<1> QED BY <1>1, <1>2

\* A worker that moves on without touching the queues keeps the invariant.
LEMMA LoopPreserves ==
    ASSUME IInv, NEW w \in Workers, Loop(w) \/ PopNothing(w) \/ Ran(w) \/ Lock(w)
    PROVE  IInv'
<1> USE DEF IInv, Step, queues
<1> DEFINE Moved == UNCHANGED <<queues, now, cont, deadline, notified>>
<1>1. Moved /\ pc[w] \notin {"wait", "arm"} /\ \E l \in Labels \ {"wait", "arm"} : pc' = [pc EXCEPT ![w] = l]
  BY DEF Loop, PopNothing, Ran, Lock, Labels
<1>2. TypeOK'
  <2>1. cont' \in BOOLEAN
    BY <1>1, Zenon DEF TypeOK
  <2>2. current' \in [Workers -> Tasks \cup {None}]
    BY DEF TypeOK, Loop, PopNothing, Ran, Lock
  <2>3. pc' \in [Workers -> Labels] /\ Waiting' = Waiting
    BY <1>1 DEF TypeOK, Waiting
  <2> QED BY <1>1, <2>1, <2>2, <2>3 DEF TypeOK
<1>3. TimersSorted' /\ Distinct(timers)'
  BY <1>1 DEF TimersSorted, Distinct
<1>4. Control'
  <2>1. CASE Loop(w)
    BY <2>1 DEF Control, TypeOK, Loop
  <2>2. CASE PopNothing(w)
    BY <2>2 DEF Control, TypeOK, PopNothing
  <2>3. CASE Ran(w)
    BY <2>3 DEF Control, TypeOK, Ran
  <2>4. CASE Lock(w)
    BY <2>4 DEF Control, TypeOK, Lock
  <2> QED BY <2>1, <2>2, <2>3, <2>4
<1>5. SleepIsSafe'
  <2>1. Asleep' = Asleep
    BY <1>1 DEF Asleep, Waiting, TypeOK
  <2>2. CASE Asleep = {}
    BY <2>1, <2>2 DEF SleepIsSafe
  <2>3. CASE Asleep # {}
    <3>1. cont
      BY <2>3 DEF SleepIsSafe
    <3>2. pc[w] \notin {"drain", "rest"}
      BY <3>1 DEF Control
    <3>3. Seeking \subseteq Seeking' /\ Seeking' \subseteq Workers
      BY <3>1, <3>2, <1>1 DEF Seeking, Waiting, TypeOK, Loop, PopNothing, Ran, Lock
    <3>4. Cardinality(Seeking) <= Cardinality(Seeking')
      BY <3>3, SeekingFinite, FS_Subset
    <3>5. Len(tasks) \in Nat /\ Cardinality(Seeking) \in Nat /\ Cardinality(Seeking') \in Nat
      BY <3>3, SeekingFinite, LenProperties DEF TypeOK
    <3>6. \A v \in Asleep : Len(tasks) <= Cardinality(Seeking')
      BY <3>4, <3>5 DEF SleepIsSafe
    <3> QED BY <2>1, <3>6, <1>1 DEF SleepIsSafe
  <2> QED BY <2>2, <2>3
<1> QED BY <1>2, <1>3, <1>4, <1>5

\* A worker that takes a task keeps the invariant: one that seeks has found one.
LEMMA PopPreserves ==
    ASSUME IInv, NEW w \in Workers, Pop(w)
    PROVE  IInv'
<1> USE DEF IInv, Step
<1>1. /\ UNCHANGED <<now, cont, deadline, notified>>
      /\ \/ pc[w] = "pop" /\ pc' = [pc EXCEPT ![w] = "run"]
         \/ pc[w] = "drain" /\ pc' = [pc EXCEPT ![w] = "rest"]
      /\ \/ /\ tasks # <<>> /\ tasks' = Tail(tasks) /\ timers' = timers
            /\ current' = [current EXCEPT ![w] = Head(tasks)]
         \/ /\ tasks = <<>> /\ tasks' = tasks /\ timers # <<>> /\ timers' = Front(timers)
            /\ current' = [current EXCEPT ![w] = Last(timers).task]
  BY DEF Pop, PopTask, PopTimer, Ready
<1>2. timers \in Seq(Timers) /\ Sorted(timers) /\ Distinct(timers)
  BY DEF TypeOK, Timers, TimersSorted, Sorted
<1>3. /\ timers' \in Seq(Timers) /\ Sorted(timers') /\ Distinct(timers')
      /\ timers' # <<>> => timers # <<>> /\ Last(timers).at <= Last(timers').at
  <2>1. CASE timers' = timers
    <3>1. timers # <<>> => Last(timers).at \in Nat
      BY <1>2, LastTimer, DelaysAssumption
    <3> QED BY <2>1, <1>2, <3>1
  <2>2. CASE timers # <<>> /\ timers' = Front(timers)
    <3>1. Len(timers) \in 1 .. Len(timers) /\ timers' = RemoveAt(timers, Len(timers))
      BY <2>2, <1>2, FrontIsRemoveAt
    <3> QED BY <3>1, <1>2, DelaysAssumption, RemoveKeeps
  <2> QED BY <1>1, <2>1, <2>2
<1>4. tasks' \in Seq(Tasks) /\ \E t \in Tasks : current' = [current EXCEPT ![w] = t]
  <2>1. CASE tasks # <<>> /\ tasks' = Tail(tasks) /\ current' = [current EXCEPT ![w] = Head(tasks)]
    BY <2>1, HeadTailProperties DEF TypeOK
  <2>2. CASE tasks' = tasks /\ timers # <<>> /\ current' = [current EXCEPT ![w] = Last(timers).task]
    <3>1. Last(timers).task \in Tasks
      BY <2>2, <1>2, LastTimer, DelaysAssumption DEF Timers
    <3> QED BY <2>2, <3>1 DEF TypeOK
  <2> QED BY <1>1, <2>1, <2>2
<1>5. TypeOK'
  <2>1. cont' \in BOOLEAN
    BY <1>1, Zenon DEF TypeOK
  <2>2. pc' \in [Workers -> Labels] /\ Waiting' = Waiting
    BY <1>1 DEF TypeOK, Waiting, Labels
  <2>3. current' \in [Workers -> Tasks \cup {None}]
    BY <1>4 DEF TypeOK
  <2> QED BY <1>1, <1>3, <1>4, <2>1, <2>2, <2>3 DEF TypeOK, Timers
<1>6. Control'
  <2>1. \A v \in Workers : pc[v] = "arm" => tasks' = <<>>
    BY <1>1 DEF Control
  <2> QED BY <1>1, <1>4, <2>1, TasksAssumption DEF Control, TypeOK
<1>7. SleepIsSafe'
  <2>1. Asleep' = Asleep
    BY <1>1 DEF Asleep, Waiting, TypeOK
  <2>2. ASSUME Asleep # {} PROVE Len(tasks') <= Cardinality(Seeking')
    <3>1. cont
      BY <2>2 DEF SleepIsSafe
    <3>2. pc[w] = "pop" /\ pc' = [pc EXCEPT ![w] = "run"]
      BY <3>1, <1>1 DEF Control
    <3>3. w \in Seeking /\ Seeking' = Seeking \ {w} /\ Seeking \subseteq Workers
      BY <3>2, <1>1 DEF Seeking, Waiting, TypeOK
    <3>4. Cardinality(Seeking') = Cardinality(Seeking) - 1 /\ Cardinality(Seeking') \in Nat
          /\ Cardinality(Seeking) \in Nat
      BY <3>3, SeekingFinite, FS_RemoveElement
    <3>5. CASE tasks # <<>> /\ tasks' = Tail(tasks)
      <4>1. Len(tasks') = Len(tasks) - 1 /\ Len(tasks) \in Nat
        BY <3>5, HeadTailProperties, LenProperties DEF TypeOK
      <4>2. Len(tasks) <= Cardinality(Seeking)
        BY <2>2 DEF SleepIsSafe
      <4> QED BY <4>1, <4>2, <3>4
    <3>6. CASE tasks' = <<>>
      BY <3>4, <3>6
    <3> QED BY <1>1, <3>5, <3>6
  <2> QED BY <1>1, <1>2, <1>3, <2>1, <2>2, SleepKept
<1> QED BY <1>3, <1>5, <1>6, <1>7 DEF TimersSorted, Sorted

\* A worker that looks again under _lock, falls asleep or wakes keeps the invariant.
LEMMA WaitPreserves ==
    ASSUME IInv, NEW w \in Workers, LookAgain(w) \/ Wait(w) \/ WakeUp(w)
    PROVE  IInv'
<1> USE DEF IInv, Step, queues
<1>0. UNCHANGED <<tasks, timers, now, cont, current>>
  BY DEF LookAgain, Wait, WakeUp
<1>1. TimersSorted' /\ Distinct(timers)'
  BY <1>0 DEF TimersSorted, Distinct
<1>2. cont' \in BOOLEAN
  BY <1>0, Zenon DEF TypeOK
<1>3. timers \in Seq(Timers) /\ (timers # <<>> => Last(timers).at \in 0 .. MaxTime)
  <2>1. timers \in Seq(Timers)
    BY DEF TypeOK, Timers
  <2> QED BY <2>1, LastTimer, DelaysAssumption DEF Timers
<1>4. Len(tasks) \in Nat /\ \A S \in SUBSET Workers : Cardinality(S) \in Nat
  BY LenProperties, SeekingFinite DEF TypeOK
<1>5. CASE LookAgain(w)
  <2> USE <1>5 DEF LookAgain
  <2>1. TypeOK'
    BY <1>2 DEF TypeOK, Labels, Waiting
  <2>2. Control'
    BY DEF Control, TypeOK, Ready
  <2>3. SleepIsSafe'
    <3>1. CASE pc' = [pc EXCEPT ![w] = "loop"]
      <4>1. Asleep' = Asleep /\ Seeking' = Seeking
        BY <3>1 DEF Asleep, Waiting, Seeking, TypeOK
      <4> QED BY <4>1 DEF SleepIsSafe
    <3>2. CASE tasks = <<>>
      <4>1. Asleep' = Asleep /\ Seeking' \subseteq Workers
        BY DEF Asleep, Waiting, Seeking, TypeOK
      <4>2. Len(tasks') <= Cardinality(Seeking')
        BY <3>2, <4>1, <1>4
      <4> QED BY <4>1, <4>2 DEF SleepIsSafe
    <3> QED BY <3>1, <3>2 DEF Ready
  <2> QED BY <1>1, <2>1, <2>2, <2>3
<1>6. CASE Wait(w)
  <2> USE <1>6 DEF Wait
  <2>1. TypeOK'
    <3>1. NextTime \in (0 .. MaxTime) \cup {None}
      BY <1>3 DEF NextTime
    <3>2. pc' \in [Workers -> Labels] /\ deadline' \in [Workers -> (0 .. MaxTime) \cup {None}]
      BY <3>1 DEF TypeOK, Labels
    <3>3. notified' \subseteq Waiting'
      BY DEF TypeOK, Waiting
    <3> QED BY <1>2, <3>2, <3>3 DEF TypeOK
  <2>2. Control'
    BY DEF Control, TypeOK
  <2>3. SleepIsSafe'
    <3>1. tasks = <<>> /\ pc[w] = "arm"
      BY DEF Control
    <3>2. Len(tasks') <= Cardinality(Seeking')
      <4>1. Seeking' \subseteq Workers
        BY DEF Seeking, Waiting
      <4> QED BY <3>1, <4>1, <1>4
    <3>3. CASE ~cont
      <4>1. Asleep = {} /\ Asleep' = {}
        BY <3>1, <3>3 DEF SleepIsSafe, Asleep, Waiting, TypeOK
      <4> QED BY <4>1 DEF SleepIsSafe
    <3>4. CASE cont
      <4> SUFFICES ASSUME NEW v \in Asleep', timers # <<>>
                   PROVE  deadline'[v] # None /\ deadline'[v] <= Last(timers).at
        BY <3>2, <3>4 DEF SleepIsSafe
      <4>1. CASE v = w
        <5>1. deadline'[v] = Last(timers).at
          BY <4>1, <3>4 DEF TypeOK, NextTime
        <5> QED BY <5>1, <1>3, DelaysAssumption
      <4>2. CASE v # w
        <5>1. v \in Asleep /\ deadline'[v] = deadline[v]
          BY <4>2, <3>4 DEF Asleep, Waiting, TypeOK
        <5> QED BY <5>1 DEF SleepIsSafe
      <4> QED BY <4>1, <4>2
    <3> QED BY <3>3, <3>4 DEF TypeOK
  <2> QED BY <1>1, <2>1, <2>2, <2>3
<1>7. CASE WakeUp(w)
  <2> USE <1>7 DEF WakeUp
  <2>1. TypeOK'
    <3>1. notified' \subseteq Waiting'
      BY DEF TypeOK, Waiting
    <3> QED BY <1>2, <3>1 DEF TypeOK, Labels
  <2>2. Control'
    BY DEF Control, TypeOK
  <2>3. SleepIsSafe'
    <3>1. Asleep' \subseteq Asleep /\ Seeking \subseteq Seeking' /\ Seeking' \subseteq Workers
      BY DEF Asleep, Waiting, Seeking, TypeOK
    <3>2. Cardinality(Seeking) <= Cardinality(Seeking')
      BY <3>1, SeekingFinite, FS_Subset
    <3>3. Cardinality(Seeking) \in Nat /\ Cardinality(Seeking') \in Nat
      BY <3>1, SeekingFinite
    <3>4. ASSUME NEW v \in Asleep PROVE Len(tasks) <= Cardinality(Seeking')
      BY <3>2, <3>3, <3>4, <1>4 DEF SleepIsSafe
    <3> QED BY <3>1, <3>4 DEF SleepIsSafe
  <2> QED BY <1>1, <2>1, <2>2, <2>3
<1> QED BY <1>5, <1>6, <1>7

\* The invariant is inductive.
LEMMA NextPreserves == IInv /\ [Next]_vars => IInv'
<1> SUFFICES ASSUME IInv, [Next]_vars PROVE IInv'
  OBVIOUS
<1>1. CASE \E t \in Tasks : Push(t) \/ \E d \in Delays : PushDelayed(t, d)
  BY <1>1, PushPreserves, PushDelayedPreserves
<1>2. CASE \E i \in DOMAIN timers : Cancel(i)
  BY <1>2, CancelPreserves
<1>3. CASE Stop \/ Tick
  BY <1>3, StopTickPreserves
<1>4. CASE \E w \in Workers : Work(w) \/ WakeUp(w)
  <2>1. PICK w \in Workers : Work(w) \/ WakeUp(w)
    BY <1>4
  <2>2. CASE Loop(w) \/ PopNothing(w) \/ Ran(w) \/ Lock(w)
    BY <2>2, LoopPreserves
  <2>3. CASE Pop(w)
    BY <2>3, PopPreserves
  <2>4. CASE LookAgain(w) \/ Wait(w) \/ WakeUp(w)
    BY <2>4, WaitPreserves
  <2> QED BY <2>1, <2>2, <2>3, <2>4 DEF Work, Wake
<1>5. CASE UNCHANGED vars
  <2> USE <1>5 DEF vars, queues, workers, IInv
  <2>1. TypeOK'
    <3>1. cont' \in BOOLEAN
      BY Zenon DEF TypeOK
    <3> QED BY <3>1 DEF TypeOK, Waiting
  <2>2. TimersSorted' /\ Distinct(timers)' /\ Control'
    BY DEF TimersSorted, Distinct, Control
  <2>3. SleepIsSafe'
    BY DEF SleepIsSafe, Asleep, Waiting, Seeking
  <2> QED BY <2>1, <2>2, <2>3
<1> QED BY <1>1, <1>2, <1>3, <1>4, <1>5 DEF Next
-----------------------------------------------------------------------------
(* Theorems                                                                *)

\* The inductive invariant holds of _main() and its callers, for any number of workers.
THEOREM Invariance == Spec => []IInv
BY InitIInv, NextPreserves, PTL DEF Spec

\* Every variable keeps its type.
THEOREM TypeCorrect == Spec => []TypeOK
<1>1. IInv => TypeOK
  BY DEF IInv
<1> QED BY Invariance, <1>1, PTL

\* pushDelayed() and cancel() keep the timers sorted: the back of _timer_tasks is
\* due first.
THEOREM StaysSorted == Spec => []TimersSorted
<1>1. IInv => TimersSorted
  BY DEF IInv
<1> QED BY Invariance, <1>1, PTL

\* No worker sleeps in _main() through a task, a timer or stop().
THEOREM NoLostWakeUp == Spec => []SleepIsSafe
<1>1. IInv => SleepIsSafe
  BY DEF IInv
<1> QED BY Invariance, <1>1, PTL

USE DEF Promise!vars

LEMMA InitPromise == Init => Promise!Init
<1> SUFFICES ASSUME Init PROVE Promise!Init
  OBVIOUS
<1>1. Range(timers) = {}
  BY DEF Init, Range
<1>2. working = [w \in Workers |-> "idle"]
  BY DEF Init, working
<1> QED BY <1>1, <1>2 DEF Init, Promise!Init

\* Who is known to the pool is known to the promise.
LEMMA KnownToBoth ==
    ASSUME IInv, NEW t \in Tasks, ~Known(t)
    PROVE  ~Promise!Known(t)
<1>1. ASSUME NEW r \in Range(timers), r.task = t PROVE FALSE
  <2>1. PICK i \in DOMAIN timers : r = timers[i]
    BY DEF Range
  <2> QED BY <1>1, <2>1 DEF Known
<1>2. ASSUME NEW w \in Workers, working[w] = t PROVE FALSE
  BY <1>2, TasksAssumption DEF working, Known
<1> QED BY <1>1, <1>2 DEF Known, Promise!Known, Range

\* The steps of clients and of the clock are those of the promise.
LEMMA ClientSteps ==
    ASSUME IInv,
           \/ \E t \in Tasks : Push(t) \/ \E d \in Delays : PushDelayed(t, d)
           \/ \E i \in DOMAIN timers : Cancel(i)
           \/ Stop \/ Tick
    PROVE  Promise!Next
<1>0. timers \in Seq(Timers) /\ Sorted(timers) /\ Distinct(timers)
  BY DEF IInv, TypeOK, Timers, TimersSorted, Sorted
<1>1. ASSUME NEW t \in Tasks, Push(t) PROVE Promise!Push(t)
  <2>1. ~Promise!Known(t)
    BY <1>1, KnownToBoth DEF Push
  <2>2. working' = working
    BY <1>1 DEF Push, working
  <2> QED BY <1>1, <2>1, <2>2 DEF Push, Promise!Push
<1>2. ASSUME NEW t \in Tasks, NEW d \in Delays, PushDelayed(t, d) PROVE Promise!PushDelayed(t, d)
  <2>1. ~Promise!Known(t)
    BY <1>2, KnownToBoth DEF PushDelayed
  <2>2. working' = working
    BY <1>2 DEF PushDelayed, working
  <2>3. [at |-> At(d), task |-> t] \in Timers /\ At(d) \in Nat
    BY <1>2, DelaysAssumption DEF PushDelayed, At, Timers, IInv, TypeOK
  <2>4. Place(At(d)) \in 1 .. Len(timers) + 1
    BY <1>0, <2>3, PlaceLemma, DelaysAssumption
  <2>5. Range(timers') = Range(timers) \cup {[at |-> At(d), task |-> t]}
    BY <1>0, <1>2, <2>3, <2>4, InsertAtRange DEF PushDelayed
  <2> QED BY <1>2, <2>1, <2>2, <2>5 DEF PushDelayed, Promise!PushDelayed, At
<1>3. ASSUME NEW i \in DOMAIN timers, Cancel(i) PROVE \E r \in Range(timers) : Promise!Cancel(r)
  <2>1. i \in 1 .. Len(timers) /\ timers[i] \in Range(timers)
    BY <1>0, LenProperties DEF Range
  <2>2. Range(timers') = Range(timers) \ {timers[i]}
    BY <1>0, <1>3, <2>1, RemoveKeeps, DelaysAssumption DEF Cancel
  <2>3. working' = working
    BY <1>3 DEF Cancel, working, workers
  <2> QED BY <1>3, <2>1, <2>2, <2>3 DEF Cancel, Promise!Cancel, workers
<1>4. ASSUME Stop PROVE Promise!Stop
  <2>1. working' = working
    BY <1>4 DEF Stop, working
  <2> QED BY <1>4, <2>1 DEF Stop, queues, Promise!Stop
<1>5. ASSUME Tick PROVE Promise!Tick
  <2>1. working' = working
    BY <1>5 DEF Tick, working, workers
  <2> QED BY <1>5, <2>1 DEF Tick, queues, workers, Promise!Tick
<1> QED BY <1>1, <1>2, <1>3, <1>4, <1>5 DEF Promise!Next

\* A worker begins a task, finishes it or leaves as promised, or the promise sees nothing.
LEMMA WorkerSteps ==
    ASSUME IInv, NEW w \in Workers, Work(w) \/ WakeUp(w)
    PROVE  [Promise!Next]_(Promise!vars)
<1> USE DEF IInv, Step
<1>0. timers \in Seq(Timers) /\ Sorted(timers) /\ Distinct(timers)
  BY DEF TypeOK, Timers, TimersSorted, Sorted
<1>1. CASE Loop(w) \/ Lock(w) \/ LookAgain(w) \/ Wait(w) \/ WakeUp(w)
  <2>1. /\ UNCHANGED <<tasks, timers, now, cont, current>>
        /\ \A v \in Workers : pc'[v] = "ended" <=> pc[v] = "ended"
    BY <1>1 DEF Loop, Lock, LookAgain, Wait, WakeUp, queues, TypeOK
  <2>2. working' = working
    BY <2>1 DEF working
  <2> QED BY <2>1, <2>2
<1>2. CASE Ran(w)
  <2>1. working[w] \in Tasks
    BY <1>2 DEF Ran, Control, TypeOK, working
  <2>2. working' = [working EXCEPT ![w] = "idle"]
    BY <1>2 DEF Ran, Control, TypeOK, working
  <2>3. Promise!Finish(w)
    BY <1>2, <2>1, <2>2 DEF Ran, queues, Promise!Finish
  <2> QED BY <2>3 DEF Promise!Next
<1>3. CASE PopNothing(w)
  <2>1. CASE pc[w] = "pop"
    <3>1. UNCHANGED <<tasks, timers, now, cont, current>>
      BY <1>3 DEF PopNothing, queues
    <3>2. working' = working
      BY <1>3, <2>1 DEF PopNothing, TypeOK, working
    <3> QED BY <3>1, <3>2
  <2>2. CASE pc[w] = "drain"
    <3>1. ~cont /\ working[w] = "idle"
      BY <2>2 DEF Control, working
    <3>2. working' = [working EXCEPT ![w] = "gone"]
      BY <1>3, <2>2 DEF PopNothing, TypeOK, working
    <3>3. ASSUME NEW r \in Range(timers) PROVE ~(r.at <= now)
      <4>1. timers # <<>> /\ Last(timers).at \in Nat /\ r.at \in Nat /\ Last(timers).at <= r.at
        BY <1>0, BackIsFirst, DelaysAssumption
      <4>2. ~(Last(timers).at <= now)
        BY <1>3, <4>1 DEF PopNothing, Ready, HasCome
      <4>3. now \in Nat
        BY DelaysAssumption DEF TypeOK
      <4> QED BY <4>1, <4>2, <4>3
    <3>4. Promise!Leave(w)
      BY <1>3, <3>1, <3>2, <3>3 DEF PopNothing, Ready, queues, Promise!Leave, Promise!Due
    <3> QED BY <3>4 DEF Promise!Next
  <2> QED BY <1>3, <2>1, <2>2 DEF PopNothing
<1>4. CASE Pop(w)
  <2>0. /\ pc[w] \in {"pop", "drain"} /\ working[w] = "idle"
        /\ pc' = [pc EXCEPT ![w] = "run"] \/ pc' = [pc EXCEPT ![w] = "rest"]
        /\ UNCHANGED <<now, cont>>
    BY <1>4 DEF Pop, PopTask, PopTimer, Control, working
  <2>1. ASSUME NEW t \in Tasks, current' = [current EXCEPT ![w] = t]
        PROVE  working' = [working EXCEPT ![w] = t]
    BY <2>0, <2>1, TasksAssumption DEF TypeOK, working
  <2>2. CASE tasks # <<>> /\ tasks' = Tail(tasks) /\ timers' = timers
             /\ current' = [current EXCEPT ![w] = Head(tasks)]
    <3>1. Head(tasks) \in Tasks
      BY <2>2, HeadTailProperties DEF TypeOK
    <3>2. working' = [working EXCEPT ![w] = Head(tasks)]
      BY <2>1, <2>2, <3>1
    <3>3. Promise!BeginQueued(w)
      BY <2>0, <2>2, <3>2 DEF Promise!BeginQueued
    <3> QED BY <3>3 DEF Promise!Begin, Promise!Next
  <2>3. CASE /\ tasks = <<>> /\ tasks' = tasks /\ Ready /\ timers' = Front(timers)
             /\ current' = [current EXCEPT ![w] = Last(timers).task]
    <3>0. timers # <<>> /\ HasCome(Last(timers))
      BY <2>3 DEF Ready
    <3>1. /\ Len(timers) \in 1 .. Len(timers) /\ Last(timers) = timers[Len(timers)]
          /\ Last(timers) \in Timers /\ Last(timers).at \in Nat
      BY <1>0, <3>0, LastTimer, DelaysAssumption
    <3>2. timers' = RemoveAt(timers, Len(timers))
      BY <1>0, <2>3, <3>0, FrontIsRemoveAt
    <3>3. Range(timers') = Range(timers) \ {Last(timers)}
      BY <1>0, <3>1, <3>2, RemoveKeeps, DelaysAssumption
    <3>4. Last(timers) \in Range(timers) /\ Last(timers).task \in Tasks
      BY <1>0, <3>1, LenProperties DEF Range, Timers
    <3>5. ASSUME NEW q \in Range(timers) PROVE Last(timers).at <= q.at
      BY <1>0, BackIsFirst, DelaysAssumption
    <3>6. working' = [working EXCEPT ![w] = Last(timers).task]
      BY <2>1, <2>3, <3>4
    <3>7. Promise!BeginDelayed(w, Last(timers))
      BY <2>0, <2>3, <3>0, <3>3, <3>5, <3>6 DEF Promise!BeginDelayed, Promise!Due, HasCome
    <3> QED BY <3>4, <3>7 DEF Promise!Begin, Promise!Next
  <2> QED BY <1>4, <2>2, <2>3 DEF Pop, PopTask, PopTimer
<1> QED BY <1>1, <1>2, <1>3, <1>4 DEF Work, Wake

\* The pool keeps its promise: a task begins once for each push, in order and not
\* before its time, and a worker leaves only when nothing can begin.
THEOREM ImplementsPromise == Spec => KeepsPromise
<1>1. IInv /\ [Next]_vars => [Promise!Next]_(Promise!vars)
  <2> SUFFICES ASSUME IInv, [Next]_vars PROVE [Promise!Next]_(Promise!vars)
    OBVIOUS
  <2>1. CASE Next
    BY <2>1, ClientSteps, WorkerSteps DEF Next
  <2>2. CASE UNCHANGED vars
    BY <2>2 DEF vars, queues, workers, working
  <2> QED BY <2>1, <2>2
<1> QED BY Invariance, InitPromise, <1>1, PTL DEF Spec, KeepsPromise, Promise!Safe
=============================================================================
