------------------------ MODULE DynamicLimit_proofs -------------------------
(***************************************************************************)
(* One concurrency limit.  First what every operation of LimitOps keeps of *)
(* a limit, for any set of tasks; the limiter over the phases rests on it  *)
(* too (PhaseLimiter_proofs).  Then DynamicLimit, for any finite set of    *)
(* tasks and any largest limit: no slot is lost or made up, no task waits  *)
(* twice, no wake-up is lost, nobody overtakes a waiting task.             *)
(***************************************************************************)
EXTENDS DynamicLimit, FiniteSetTheorems, SequenceTheorems, TLAPS

Limits(T) == [value : Nat, queue : Seq(T), woken : SUBSET T, debt : Nat, limit : Nat]

(* The first k tasks of a queue. *)
First(q, k) == {q[i] : i \in 1 .. k}

Pending(l) == First(l.queue, Len(l.queue))

Distinct(q) == \A i, j \in 1 .. Len(q) : q[i] = q[j] => i = j

(* A task waits once, and no longer once it was handed a slot. *)
Sound(l, T) ==
  /\ l \in Limits(T)
  /\ Distinct(l.queue)
  /\ Pending(l) \cap l.woken = {}

(* The slots nobody holds yet: free, or handed to a task that has not run. *)
Slots(l) == l.value + Cardinality(l.woken)

Users(l) == Pending(l) \cup l.woken

(* A free slot with tasks waiting is about to be handed over. *)
Prompt(l) == l.value > 0 /\ l.queue # <<>> => l.woken # {}

(* The first k tasks of a queue without repetition are k tasks.            *)
LEMMA FirstCardinality ==
  ASSUME NEW T, NEW q \in Seq(T), Distinct(q), NEW k \in 0 .. Len(q)
  PROVE  /\ First(q, k) \subseteq T
         /\ IsFiniteSet(First(q, k))
         /\ Cardinality(First(q, k)) = k
<1> DEFINE f == [i \in 1 .. k |-> q[i]]
<1>1. k \in Nat /\ 1 .. k \subseteq 1 .. Len(q)
  BY LenProperties
<1>2. f \in Surjection(1 .. k, First(q, k))
  BY DEF Surjection, First
<1>3. f \in Injection(1 .. k, First(q, k))
  BY <1>1 DEF Injection, IsInjective, Distinct, First
<1>4. IsFiniteSet(1 .. k) /\ Cardinality(1 .. k) = k
  BY <1>1, FS_Interval
<1>5. IsFiniteSet(First(q, k)) /\ Cardinality(First(q, k)) = Cardinality(1 .. k)
  BY <1>2, <1>3, <1>4, FS_Surjection
<1>6. First(q, k) \subseteq T
  BY <1>1, ElementOfSeq DEF First
<1> QED
  BY <1>4, <1>5, <1>6

(* The rest of a queue: what SubSeq(q, k + 1, Len(q)) leaves.              *)
LEMMA Suffix ==
  ASSUME NEW T, NEW q \in Seq(T), NEW k \in 0 .. Len(q)
  PROVE  /\ SubSeq(q, k + 1, Len(q)) \in Seq(T)
         /\ Len(SubSeq(q, k + 1, Len(q))) = Len(q) - k
         /\ \A i \in 1 .. Len(q) - k : SubSeq(q, k + 1, Len(q))[i] = q[k + i]
<1>1. Len(q) \in Nat /\ k \in Nat /\ k <= Len(q)
  BY LenProperties
<1>2. \A i \in k + 1 .. Len(q) : q[i] \in T
  BY <1>1, ElementOfSeq
<1> DEFINE m == k + 1
           n == Len(q)
<1>3. m \in Int /\ n \in Int /\ n = Len(q) /\ m = k + 1
  BY <1>1
<1>4. \A i \in m .. n : q[i] \in T
  BY <1>2
<1> HIDE DEF m, n
<1>5. /\ SubSeq(q, m, n) \in Seq(T)
      /\ Len(SubSeq(q, m, n)) = IF m <= n THEN n - m + 1 ELSE 0
      /\ \A i \in 1 .. n - m + 1 : SubSeq(q, m, n)[i] = q[m + i - 1]
  BY <1>3, <1>4, SubSeqProperties
<1>6. n - m + 1 = Len(q) - k /\ (IF m <= n THEN n - m + 1 ELSE 0) = Len(q) - k
  BY <1>1, <1>3
<1>7. \A i \in 1 .. Len(q) - k : m + i - 1 = k + i
  BY <1>1, <1>3
<1> QED
  BY <1>3, <1>5, <1>6, <1>7

(* When the first k tasks of a queue have left it, they and the rest, r,   *)
(* are different tasks.                                                    *)
LEMMA SplitQueue ==
  ASSUME NEW T, NEW q \in Seq(T), Distinct(q), NEW k \in 0 .. Len(q),
         NEW r \in Seq(T), Len(r) = Len(q) - k, \A i \in 1 .. Len(r) : r[i] = q[k + i]
  PROVE  /\ Distinct(r)
         /\ First(r, Len(r)) \cap First(q, k) = {}
         /\ First(r, Len(r)) \cup First(q, k) = First(q, Len(q))
<1>1. Len(q) \in Nat /\ k \in Nat /\ k <= Len(q)
  BY LenProperties
<1>2. Distinct(r)
  <2>1. SUFFICES ASSUME NEW i \in 1 .. Len(r), NEW j \in 1 .. Len(r), r[i] = r[j]
                 PROVE  i = j
    BY DEF Distinct
  <2>2. k + i \in 1 .. Len(q) /\ k + j \in 1 .. Len(q)
    BY <1>1
  <2>3. q[k + i] = q[k + j]
    BY <2>1
  <2>4. k + i = k + j
    BY <2>2, <2>3 DEF Distinct
  <2> QED
    BY <1>1, <2>4
<1>3. First(r, Len(r)) \cap First(q, k) = {}
  <2>1. SUFFICES ASSUME NEW i \in 1 .. Len(r), NEW j \in 1 .. k, r[i] = q[j]
                 PROVE  FALSE
    BY DEF First
  <2>2. k + i \in 1 .. Len(q) /\ j \in 1 .. Len(q) /\ q[k + i] = q[j]
    BY <1>1, <2>1
  <2>3. k + i = j
    BY <2>2 DEF Distinct
  <2> QED
    BY <1>1, <2>3
<1>4. First(r, Len(r)) \subseteq First(q, Len(q))
  <2>1. SUFFICES ASSUME NEW i \in 1 .. Len(r)
                 PROVE  r[i] \in First(q, Len(q))
    BY DEF First
  <2>2. k + i \in 1 .. Len(q) /\ r[i] = q[k + i]
    BY <1>1
  <2> QED
    BY <2>2 DEF First
<1>5. First(q, k) \subseteq First(q, Len(q))
  BY <1>1 DEF First
<1>6. First(q, Len(q)) \subseteq First(r, Len(r)) \cup First(q, k)
  <2>1. SUFFICES ASSUME NEW i \in 1 .. Len(q), i \notin 1 .. k
                 PROVE  q[i] \in First(r, Len(r))
    BY DEF First
  <2>2. i - k \in 1 .. Len(r) /\ k + (i - k) = i
    BY <1>1, <2>1
  <2>3. r[i - k] = q[i]
    BY <2>2
  <2> QED
    BY <2>2, <2>3 DEF First
<1> QED
  BY <1>2, <1>3, <1>4, <1>5, <1>6

(* From l to m, the first k tasks were handed a slot. *)
Woken(l, m, k) ==
  /\ k \in 0 .. Len(l.queue)
  /\ Len(m.queue) = Len(l.queue) - k
  /\ \A i \in 1 .. Len(m.queue) : m.queue[i] = l.queue[k + i]
  /\ m.woken = l.woken \cup First(l.queue, k)

(* The tasks that are handed a slot move from the queue to the woken ones. *)
LEMMA HandOver ==
  ASSUME NEW T, IsFiniteSet(T), NEW l, Sound(l, T), NEW m \in Limits(T),
         NEW k, Woken(l, m, k)
  PROVE  /\ Sound(m, T)
         /\ Slots(m) = m.value + Cardinality(l.woken) + k
         /\ Users(m) = Users(l)
<1> DEFINE W == First(l.queue, k)
<1>1. l \in Limits(T) /\ l.queue \in Seq(T) /\ l.woken \in SUBSET T /\ Distinct(l.queue)
  BY Zenon DEF Sound, Limits
<1>2. m.queue \in Seq(T) /\ m.value \in Nat
  BY DEF Limits
<1>3. /\ Distinct(m.queue)
      /\ Pending(m) \cap W = {}
      /\ Pending(m) \cup W = Pending(l)
  BY <1>1, <1>2, SplitQueue DEF Pending, Woken
<1>4. W \subseteq T /\ IsFiniteSet(W) /\ Cardinality(W) = k
  BY <1>1, FirstCardinality DEF Woken
<1>5. m.woken = l.woken \cup W /\ k \in Nat
  BY <1>1, LenProperties DEF Woken
<1> HIDE DEF W
<1>6. W \cap l.woken = {} /\ Pending(m) \cap l.woken = {}
  BY <1>3, Zenon DEF Sound
<1>7. IsFiniteSet(l.woken) /\ Cardinality(l.woken) \in Nat
  BY <1>1, FS_Subset, FS_CardinalityType
<1>8. Cardinality(l.woken \cup W) = Cardinality(l.woken) + k
  <2>1. Cardinality(l.woken \cap W) = 0
    BY <1>6, FS_EmptySet
  <2>2. Cardinality(l.woken \cup W)
          = Cardinality(l.woken) + Cardinality(W) - Cardinality(l.woken \cap W)
    BY <1>4, <1>7, FS_Union, Zenon
  <2> QED
    BY <1>4, <1>5, <1>7, <2>1, <2>2
<1>9. Slots(m) = m.value + Cardinality(l.woken) + k
  <2>1. Slots(m) = m.value + Cardinality(l.woken \cup W)
    BY <1>5, Zenon DEF Slots
  <2> QED
    BY <1>2, <1>5, <1>7, <1>8, <2>1
<1>10. Sound(m, T)
  BY <1>3, <1>5, <1>6, Zenon DEF Sound
<1>11. Users(m) = Users(l)
  BY <1>3, <1>5, Zenon DEF Users
<1> QED
  BY <1>9, <1>10, <1>11

(* The components of a limit that is sound.                                *)
LEMMA Parts ==
  ASSUME NEW T, IsFiniteSet(T), NEW l, Sound(l, T)
  PROVE  /\ l \in Limits(T)
         /\ l.value \in Nat /\ l.debt \in Nat /\ l.limit \in Nat
         /\ l.queue \in Seq(T) /\ Len(l.queue) \in Nat /\ Distinct(l.queue)
         /\ l.woken \subseteq T /\ IsFiniteSet(l.woken) /\ Cardinality(l.woken) \in Nat
         /\ Slots(l) \in Nat
<1>1. l \in Limits(T) /\ Distinct(l.queue)
  BY DEF Sound
<1>2. /\ l.value \in Nat /\ l.debt \in Nat /\ l.limit \in Nat
      /\ l.queue \in Seq(T) /\ l.woken \subseteq T
  BY <1>1 DEF Limits
<1>3. IsFiniteSet(l.woken) /\ Cardinality(l.woken) \in Nat
  BY <1>2, FS_Subset, FS_CardinalityType
<1> QED
  BY <1>1, <1>2, <1>3, LenProperties DEF Slots

(* A step that moves no task only changes the numbers.                     *)
LEMMA SameTasks ==
  ASSUME NEW T, IsFiniteSet(T), NEW l, Sound(l, T),
         NEW m \in Limits(T), m.queue = l.queue, m.woken = l.woken
  PROVE  /\ Sound(m, T)
         /\ Slots(m) = Slots(l) + m.value - l.value
         /\ Users(m) = Users(l)
<1>1. m.value \in Nat
  BY DEF Limits
<1> QED
  BY <1>1, Parts DEF Sound, Slots, Users, Pending

(* _wake_up_next() with a slot to give keeps every slot and every task.    *)
LEMMA WakeNextSound ==
  ASSUME NEW T, IsFiniteSet(T), NEW l, Sound(l, T), l.value > 0,
         NEW m, m = WakeNext(l)
  PROVE  /\ Sound(m, T) /\ Prompt(m)
         /\ Slots(m) = Slots(l) /\ Users(m) = Users(l)
         /\ m.debt = l.debt /\ m.limit = l.limit
<1>1. CASE l.queue = <<>>
  BY <1>1 DEF WakeNext, Prompt
<1>2. CASE l.queue # <<>>
  <2> DEFINE q == l.queue
  <2>1. q \in Seq(T) /\ q # <<>> /\ Len(q) \in Nat \ {0} /\ l.value - 1 \in Nat
    BY <1>2, Parts, EmptySeq
  <2>2. Tail(q) \in Seq(T) /\ Len(Tail(q)) = Len(q) - 1
    BY <2>1, HeadTailProperties
  <2>3. \A i \in 1 .. Len(Tail(q)) : Tail(q)[i] = q[1 + i]
    BY <2>1, <2>2
  <2>4. First(q, 1) = {Head(q)}
    BY <2>1 DEF First
  <2>5. m = [l EXCEPT !.value = l.value - 1, !.queue = Tail(q),
                      !.woken = l.woken \cup First(q, 1)]
    BY <1>2, <2>4, Zenon DEF WakeNext
  <2>6. /\ m.value = l.value - 1 /\ m.queue = Tail(q)
        /\ m.woken = l.woken \cup First(q, 1)
        /\ m.debt = l.debt /\ m.limit = l.limit
        /\ m \in Limits(T)
    <3>1. First(q, 1) \subseteq T
      BY <2>1, FirstCardinality, Parts
    <3>2. l \in Limits(T)
      BY Parts
    <3> HIDE DEF q
    <3> QED
      BY <2>1, <2>2, <2>5, <3>1, <3>2 DEF Limits
  <2>7. /\ Sound(m, T)
        /\ Slots(m) = m.value + Cardinality(l.woken) + 1
        /\ Users(m) = Users(l)
    <3>1. Woken(l, m, 1)
      BY <2>1, <2>2, <2>3, <2>6 DEF Woken
    <3> QED
      BY <2>6, <3>1, HandOver
  <2>8. Head(q) \in m.woken
    BY <2>4, <2>6
  <2>9. Slots(m) = Slots(l)
    BY <2>6, <2>7, Parts DEF Slots
  <2> QED
    BY <2>6, <2>7, <2>8, <2>9 DEF Prompt
<1> QED
  BY <1>1, <1>2

(* Semaphore.release() adds one slot.                                      *)
LEMMA SemReleaseSound ==
  ASSUME NEW T, IsFiniteSet(T), NEW l, Sound(l, T), NEW m, m = SemRelease(l)
  PROVE  /\ Sound(m, T) /\ Prompt(m)
         /\ Slots(m) = Slots(l) + 1 /\ Users(m) = Users(l)
         /\ m.debt = l.debt /\ m.limit = l.limit
<1> DEFINE h == [l EXCEPT !.value = l.value + 1]
<1>1. /\ h \in Limits(T) /\ h.queue = l.queue /\ h.woken = l.woken
      /\ h.value = l.value + 1 /\ h.debt = l.debt /\ h.limit = l.limit
  BY Parts DEF Limits
<1>2. m = WakeNext(h)
  BY DEF SemRelease
<1> HIDE DEF h
<1>3. Sound(h, T) /\ Slots(h) = Slots(l) + h.value - l.value /\ Users(h) = Users(l)
  BY <1>1, SameTasks
<1>4. h.value > 0
  BY <1>1, Parts
<1>5. Slots(h) = Slots(l) + 1
  BY <1>1, <1>3, Parts
<1> QED
  BY <1>1, <1>2, <1>3, <1>4, <1>5, WakeNextSound

(* n calls of Semaphore.release() in a row add n slots.                    *)
LEMMA SemReleaseManySound ==
  ASSUME NEW T, IsFiniteSet(T), NEW l, Sound(l, T), Prompt(l), NEW n \in Nat,
         NEW m, m = SemReleaseMany(l, n)
  PROVE  /\ Sound(m, T) /\ Prompt(m)
         /\ Slots(m) = Slots(l) + n /\ Users(m) = Users(l)
         /\ m.debt = l.debt /\ m.limit = l.limit
<1> DEFINE q == l.queue
           k == Least(n, Len(q))
           v == l.value + n - k
           r == SubSeq(q, k + 1, Len(q))
<1>1. q \in Seq(T) /\ Len(q) \in Nat /\ l.value \in Nat
  BY Parts
<1>2. k \in 0 .. Len(q) /\ v \in Nat /\ (k = n \/ k = Len(q)) /\ k <= n
  BY <1>1 DEF Least
<1> HIDE DEF k
<1>3. r \in Seq(T) /\ Len(r) = Len(q) - k /\ \A i \in 1 .. Len(r) : r[i] = q[k + i]
  BY <1>1, <1>2, Suffix
<1>4. m = [l EXCEPT !.value = v, !.queue = r, !.woken = l.woken \cup First(q, k)]
  BY Zenon DEF SemReleaseMany, First, k
<1> HIDE DEF r
<1>5. /\ m.value = v /\ m.queue = r /\ m.woken = l.woken \cup First(q, k)
      /\ m.debt = l.debt /\ m.limit = l.limit
      /\ m \in Limits(T)
  <2> DEFINE w == l.woken \cup First(q, k)
             h1 == [l EXCEPT !.value = v]
             h2 == [h1 EXCEPT !.queue = r]
  <2>1. w \subseteq T /\ r \in Seq(T) /\ v \in Nat
    BY <1>2, <1>3, FirstCardinality, Parts
  <2>2. l \in Limits(T)
    BY Parts
  <2>3. m = [h2 EXCEPT !.woken = w]
    BY <1>4, <2>2 DEF Limits
  <2> HIDE DEF v, q, w
  <2>4. /\ h1 \in Limits(T) /\ h1.value = v /\ h1.debt = l.debt /\ h1.limit = l.limit
    BY <2>1, <2>2 DEF Limits
  <2> HIDE DEF h1
  <2>5. /\ h2 \in Limits(T) /\ h2.value = v /\ h2.queue = r
        /\ h2.debt = l.debt /\ h2.limit = l.limit
    BY <2>1, <2>4 DEF Limits
  <2> HIDE DEF h2
  <2>6. /\ m \in Limits(T) /\ m.value = v /\ m.queue = r /\ m.woken = w
        /\ m.debt = l.debt /\ m.limit = l.limit
    BY <2>1, <2>3, <2>5 DEF Limits
  <2> QED
    BY <2>6 DEF w
<1>6. /\ Sound(m, T)
      /\ Slots(m) = m.value + Cardinality(l.woken) + k
      /\ Users(m) = Users(l)
  <2>1. Woken(l, m, k)
    BY <1>2, <1>3, <1>5 DEF Woken
  <2> QED
    BY <1>5, <2>1, HandOver
<1>7. Slots(m) = Slots(l) + n
  <2> DEFINE w == Cardinality(l.woken)
  <2>1. w \in Nat
    BY Parts
  <2>2. Slots(l) = l.value + w
    BY DEF Slots
  <2> HIDE DEF w
  <2>3. Slots(m) = v + w + k
    BY <1>5, <1>6 DEF w
  <2> HIDE DEF q
  <2> QED
    BY <1>1, <1>2, <2>1, <2>2, <2>3
<1>8. Prompt(m)
  <2>1. SUFFICES ASSUME r # <<>>, v > 0
                 PROVE  l.woken \cup First(q, k) # {}
    BY <1>5 DEF Prompt
  <2>2. Len(r) # 0
    BY <1>3, <2>1, EmptySeq
  <2>3. k = n /\ k < Len(q)
    BY <1>1, <1>2, <1>3, <2>2
  <2>4. CASE n = 0
    <3>1. l.value > 0 /\ q # <<>>
      BY <1>1, <2>1, <2>3, <2>4, EmptySeq
    <3> QED
      BY <3>1 DEF Prompt
  <2>5. CASE n > 0
    <3>1. 1 \in 1 .. k
      BY <1>1, <1>2, <2>3, <2>5
    <3>2. q[1] \in First(q, k)
      BY <3>1 DEF First
    <3> QED
      BY <3>2
  <2> QED
    BY <2>4, <2>5
<1> QED
  BY <1>5, <1>6, <1>7, <1>8

(* release(): one slot more or one debt less.                              *)
LEMMA ReleaseSlotSound ==
  ASSUME NEW T, IsFiniteSet(T), NEW l, Sound(l, T), Prompt(l), NEW m, m = ReleaseSlot(l)
  PROVE  /\ Sound(m, T) /\ Prompt(m)
         /\ Slots(m) - m.debt = Slots(l) - l.debt + 1
         /\ Users(m) = Users(l) /\ m.limit = l.limit
<1>1. l \in Limits(T) /\ l.debt \in Nat /\ l.value \in Nat /\ Slots(l) \in Nat
  BY Parts
<1>2. CASE l.debt > 0
  <2>1. /\ m \in Limits(T) /\ m.queue = l.queue /\ m.woken = l.woken
        /\ m.value = l.value /\ m.debt = l.debt - 1 /\ m.limit = l.limit
    BY <1>1, <1>2 DEF ReleaseSlot, Limits
  <2>2. Sound(m, T) /\ Slots(m) = Slots(l) + m.value - l.value /\ Users(m) = Users(l)
    BY <2>1, SameTasks
  <2> QED
    BY <1>1, <2>1, <2>2 DEF Prompt
<1>3. CASE ~(l.debt > 0)
  <2>1. m = SemRelease(l)
    BY <1>3 DEF ReleaseSlot
  <2> QED
    BY <1>1, <2>1, SemReleaseSound
<1> QED
  BY <1>2, <1>3

(* A limit without debt gets none from release().                          *)
LEMMA NoNewDebt ==
  ASSUME NEW T, IsFiniteSet(T), NEW l, Sound(l, T), l.debt = 0
  PROVE  ReleaseSlot(l).debt = 0
<1>1. ReleaseSlot(l) = SemRelease(l)
  BY DEF ReleaseSlot
<1> QED
  BY <1>1, SemReleaseSound

(* n calls of release(): what does not pay debts adds slots.               *)
LEMMA ReleaseManySound ==
  ASSUME NEW T, IsFiniteSet(T), NEW l, Sound(l, T), Prompt(l), NEW n \in Nat,
         NEW m, m = ReleaseMany(l, n)
  PROVE  /\ Sound(m, T) /\ Prompt(m)
         /\ Slots(m) - m.debt = Slots(l) - l.debt + n
         /\ Users(m) = Users(l) /\ m.limit = l.limit
         /\ l.debt = 0 => m.debt = 0
<1> DEFINE c == Least(n, l.debt)
           h == [l EXCEPT !.debt = l.debt - c]
<1>1. l \in Limits(T) /\ l.debt \in Nat /\ l.value \in Nat /\ Slots(l) \in Nat
  BY Parts
<1>2. c \in Nat /\ l.debt - c \in Nat /\ n - c \in Nat /\ (l.debt = 0 => c = 0)
  BY <1>1 DEF Least
<1>3. m = SemReleaseMany(h, n - c)
  BY DEF ReleaseMany
<1> HIDE DEF c
<1>4. /\ h \in Limits(T) /\ h.queue = l.queue /\ h.woken = l.woken
      /\ h.value = l.value /\ h.debt = l.debt - c /\ h.limit = l.limit
  BY <1>1, <1>2 DEF Limits
<1> HIDE DEF h
<1>5. Sound(h, T) /\ Users(h) = Users(l) /\ Slots(h) = Slots(l) + h.value - l.value
  BY <1>4, SameTasks
<1>6. Prompt(h)
  BY <1>4 DEF Prompt
<1>7. /\ Sound(m, T) /\ Prompt(m)
      /\ Slots(m) = Slots(h) + (n - c) /\ Users(m) = Users(h)
      /\ m.debt = h.debt /\ m.limit = h.limit
  <2>1. n - c \in Nat /\ Sound(h, T) /\ Prompt(h) /\ m = SemReleaseMany(h, n - c)
    BY <1>2, <1>3, <1>5, <1>6
  <2> QED
    BY <2>1, SemReleaseManySound
<1>8. Slots(m) = Slots(l) + (n - c) /\ m.debt = l.debt - c
  BY <1>1, <1>4, <1>5, <1>7
<1>9. Users(m) = Users(l) /\ m.limit = l.limit
  BY <1>4, <1>5, <1>7
<1>10. Slots(m) - m.debt = Slots(l) - l.debt + n
  BY <1>1, <1>2, <1>8
<1> QED
  BY <1>2, <1>7, <1>8, <1>9, <1>10

(* acquire() of a free slot.                                               *)
LEMMA TakeSlotSound ==
  ASSUME NEW T, IsFiniteSet(T), NEW l, Sound(l, T), ~Locked(l), NEW m, m = TakeSlot(l)
  PROVE  /\ Sound(m, T) /\ Prompt(m)
         /\ Slots(m) = Slots(l) - 1 /\ Users(m) = Users(l)
         /\ m.debt = l.debt /\ m.limit = l.limit
<1>1. l \in Limits(T) /\ l.value \in Nat /\ Slots(l) \in Nat
  BY Parts
<1>2. l.value > 0 /\ l.queue = <<>>
  BY <1>1 DEF Locked
<1>3. /\ m \in Limits(T) /\ m.queue = l.queue /\ m.woken = l.woken
      /\ m.value = l.value - 1 /\ m.debt = l.debt /\ m.limit = l.limit
  BY <1>1, <1>2 DEF TakeSlot, Limits
<1>4. Sound(m, T) /\ Slots(m) = Slots(l) + m.value - l.value /\ Users(m) = Users(l)
  BY <1>3, SameTasks
<1> QED
  BY <1>1, <1>2, <1>3, <1>4 DEF Prompt

(* acquire() of a locked semaphore by a task that does not wait already.   *)
LEMMA EnqueueSound ==
  ASSUME NEW T, IsFiniteSet(T), NEW l, Sound(l, T), Prompt(l), Locked(l),
         NEW t \in T, t \notin Users(l), NEW m, m = Enqueue(l, t)
  PROVE  /\ Sound(m, T) /\ Prompt(m)
         /\ Slots(m) = Slots(l) /\ Users(m) = Users(l) \cup {t}
         /\ m.debt = l.debt /\ m.limit = l.limit
<1> DEFINE q == l.queue
<1>1. /\ l \in Limits(T) /\ l.value \in Nat /\ q \in Seq(T) /\ Len(q) \in Nat /\ Distinct(q)
      /\ l.woken \subseteq T
  BY Parts
<1>2. /\ m.queue = Append(q, t) /\ m.value = l.value /\ m.woken = l.woken
      /\ m.debt = l.debt /\ m.limit = l.limit /\ m \in Limits(T)
  <2>1. Append(q, t) \in Seq(T)
    BY <1>1, AppendProperties
  <2> QED
    BY <1>1, <2>1 DEF Enqueue, Limits
<1>3. /\ Len(m.queue) = Len(q) + 1
      /\ \A i \in 1 .. Len(q) : m.queue[i] = q[i]
      /\ m.queue[Len(q) + 1] = t
  BY <1>1, <1>2, AppendProperties
<1>4. 1 .. Len(m.queue) = (1 .. Len(q)) \cup {Len(q) + 1}
  BY <1>1, <1>3
<1>5. \A i \in 1 .. Len(q) : q[i] # t
  BY DEF Users, Pending, First
<1>6. Distinct(m.queue)
  <2>1. SUFFICES ASSUME NEW i \in 1 .. Len(m.queue), NEW j \in 1 .. Len(m.queue),
                        m.queue[i] = m.queue[j]
                 PROVE  i = j
    BY DEF Distinct
  <2>2. CASE i \in 1 .. Len(q) /\ j \in 1 .. Len(q)
    BY <1>1, <1>3, <2>1, <2>2 DEF Distinct
  <2>3. CASE i = Len(q) + 1 \/ j = Len(q) + 1
    BY <1>3, <1>4, <1>5, <2>1, <2>3
  <2> QED
    BY <1>4, <2>2, <2>3
<1>7. Pending(m) = Pending(l) \cup {t}
  <2>1. Pending(m) \subseteq Pending(l) \cup {t}
    BY <1>3, <1>4 DEF Pending, First
  <2>2. Pending(l) \subseteq Pending(m)
    BY <1>3, <1>4 DEF Pending, First
  <2>3. t \in Pending(m)
    BY <1>3, <1>4 DEF Pending, First
  <2> QED
    BY <2>1, <2>2, <2>3
<1>8. Sound(m, T)
  <2>1. Pending(m) \cap m.woken = {}
    BY <1>2, <1>7 DEF Sound, Users
  <2> QED
    BY <1>2, <1>6, <2>1, Zenon DEF Sound
<1>9. Users(m) = Users(l) \cup {t}
  BY <1>2, <1>7, Zenon DEF Users
<1>10. Prompt(m)
  <2>1. SUFFICES ASSUME l.value > 0
                 PROVE  l.woken # {}
    BY <1>2 DEF Prompt
  <2> QED
    BY <2>1 DEF Locked, Prompt
<1>11. Slots(m) = Slots(l)
  BY <1>2, Zenon DEF Slots
<1> QED
  BY <1>2, <1>8, <1>9, <1>10, <1>11

(* A task that was handed a slot leaves the woken ones, with its slot.     *)
LEMMA LeaveWoken ==
  ASSUME NEW T, IsFiniteSet(T), NEW l, Sound(l, T), NEW t \in l.woken,
         NEW m, m = [l EXCEPT !.woken = l.woken \ {t}]
  PROVE  /\ Sound(m, T)
         /\ Slots(m) = Slots(l) - 1 /\ Users(m) = Users(l) \ {t}
         /\ m.debt = l.debt /\ m.limit = l.limit
         /\ m.value = l.value /\ m.queue = l.queue
<1>1. /\ l \in Limits(T) /\ l.value \in Nat /\ l.woken \subseteq T
      /\ IsFiniteSet(l.woken) /\ Cardinality(l.woken) \in Nat
  BY Parts
<1>2. /\ m.woken = l.woken \ {t} /\ m.value = l.value /\ m.queue = l.queue
      /\ m.debt = l.debt /\ m.limit = l.limit /\ m \in Limits(T)
  BY <1>1 DEF Limits
<1>3. Cardinality(m.woken) = Cardinality(l.woken) - 1
  BY <1>1, <1>2, FS_RemoveElement
<1>4. Slots(m) = Slots(l) - 1
  BY <1>1, <1>2, <1>3 DEF Slots
<1>5. Pending(m) = Pending(l)
  BY <1>2, Zenon DEF Pending
<1>6. Sound(m, T)
  BY <1>2, <1>5 DEF Sound
<1>7. Users(m) = Users(l) \ {t}
  BY <1>2, <1>5 DEF Users, Sound
<1> QED
  BY <1>2, <1>4, <1>6, <1>7

(* The woken task runs, and passes the wake-up on if slots are left.       *)
LEMMA ResumeSound ==
  ASSUME NEW T, IsFiniteSet(T), NEW l, Sound(l, T), NEW t \in l.woken, NEW m, m = Resume(l, t)
  PROVE  /\ Sound(m, T) /\ Prompt(m)
         /\ Slots(m) = Slots(l) - 1 /\ Users(m) = Users(l) \ {t}
         /\ m.debt = l.debt /\ m.limit = l.limit
<1> DEFINE h == [l EXCEPT !.woken = l.woken \ {t}]
<1>1. /\ Sound(h, T)
      /\ Slots(h) = Slots(l) - 1 /\ Users(h) = Users(l) \ {t}
      /\ h.debt = l.debt /\ h.limit = l.limit
  BY LeaveWoken
<1>2. m = IF h.value > 0 THEN WakeNext(h) ELSE h
  BY DEF Resume
<1> HIDE DEF h
<1>3. CASE h.value > 0
  <2>1. m = WakeNext(h)
    BY <1>2, <1>3
  <2> QED
    BY <1>1, <1>3, <2>1, WakeNextSound
<1>4. CASE ~(h.value > 0)
  <2>1. m = h
    BY <1>2, <1>4
  <2> QED
    BY <1>1, <1>4, <2>1 DEF Prompt
<1> QED
  BY <1>3, <1>4

(* What precedes place k of a queue.                                       *)
LEMMA Prefix ==
  ASSUME NEW T, NEW q \in Seq(T), NEW k \in 1 .. Len(q)
  PROVE  /\ SubSeq(q, 1, k - 1) \in Seq(T)
         /\ Len(SubSeq(q, 1, k - 1)) = k - 1
         /\ \A i \in 1 .. k - 1 : SubSeq(q, 1, k - 1)[i] = q[i]
<1> DEFINE n == k - 1
<1>1. Len(q) \in Nat /\ k \in Nat /\ k <= Len(q) /\ k >= 1 /\ n \in Nat /\ n = k - 1
  BY LenProperties
<1>2. \A i \in 1 .. n : q[i] \in T
  BY <1>1, ElementOfSeq
<1> HIDE DEF n
<1>3. /\ SubSeq(q, 1, n) \in Seq(T)
      /\ Len(SubSeq(q, 1, n)) = IF 1 <= n THEN n - 1 + 1 ELSE 0
      /\ \A i \in 1 .. n - 1 + 1 : SubSeq(q, 1, n)[i] = q[1 + i - 1]
  BY <1>1, <1>2, SubSeqProperties
<1>4. (IF 1 <= n THEN n - 1 + 1 ELSE 0) = n /\ n - 1 + 1 = n
  BY <1>1
<1>5. \A i \in 1 .. n : 1 + i - 1 = i
  BY <1>1
<1> QED
  BY <1>1, <1>3, <1>4, <1>5

(* A queue without its place k.                                            *)
Without(q, k) == SubSeq(q, 1, k - 1) \o SubSeq(q, k + 1, Len(q))

(* Removing place k moves the later places forward and keeps the others.   *)
LEMMA WithoutPlace ==
  ASSUME NEW T, NEW q \in Seq(T), NEW k \in 1 .. Len(q)
  PROVE  /\ Without(q, k) \in Seq(T)
         /\ Len(Without(q, k)) = Len(q) - 1
         /\ \A i \in 1 .. Len(q) - 1 :
              Without(q, k)[i] = IF i < k THEN q[i] ELSE q[i + 1]
<1> DEFINE r == Without(q, k)
           a == SubSeq(q, 1, k - 1)
           b == SubSeq(q, k + 1, Len(q))
<1>1. Len(q) \in Nat /\ k \in Nat /\ k <= Len(q) /\ k >= 1 /\ k \in 0 .. Len(q)
  BY LenProperties
<1>2. a \in Seq(T) /\ Len(a) = k - 1 /\ \A i \in 1 .. k - 1 : a[i] = q[i]
  BY Prefix
<1>3. b \in Seq(T) /\ Len(b) = Len(q) - k /\ \A i \in 1 .. Len(q) - k : b[i] = q[k + i]
  BY <1>1, Suffix
<1>4. r = a \o b
  BY Zenon DEF Without
<1> HIDE DEF a, b, r
<1>5. /\ r \in Seq(T)
      /\ Len(r) = Len(a) + Len(b)
      /\ \A i \in 1 .. Len(a) + Len(b) : r[i] = IF i <= Len(a) THEN a[i] ELSE b[i - Len(a)]
  BY <1>2, <1>3, <1>4, ConcatProperties
<1>6. Len(r) = Len(q) - 1
  BY <1>1, <1>2, <1>3, <1>5
<1>7. ASSUME NEW i \in 1 .. Len(q) - 1
      PROVE  r[i] = IF i < k THEN q[i] ELSE q[i + 1]
  <2>1. r[i] = IF i <= k - 1 THEN a[i] ELSE b[i - (k - 1)]
    BY <1>1, <1>2, <1>3, <1>5
  <2>2. CASE i < k
    BY <1>1, <1>2, <2>1, <2>2
  <2>3. CASE ~(i < k)
    <3>1. i - (k - 1) \in 1 .. Len(q) - k /\ k + (i - (k - 1)) = i + 1
      BY <1>1, <2>3
    <3>2. r[i] = b[i - (k - 1)]
      BY <1>1, <2>1, <2>3
    <3> QED
      BY <1>3, <2>3, <3>1, <3>2
  <2> QED
    BY <2>2, <2>3
<1> QED
  BY <1>5, <1>6, <1>7 DEF r

(* A waiting task that is cancelled is gone from the queue, and only it.   *)
LEMMA DropWaiterSound ==
  ASSUME NEW T, NEW q \in Seq(T), Distinct(q), NEW t \in First(q, Len(q)),
         NEW r, r = DropWaiter(q, t)
  PROVE  /\ r \in Seq(T) /\ Distinct(r)
         /\ First(r, Len(r)) = First(q, Len(q)) \ {t}
         /\ r # <<>> => q # <<>>
<1> DEFINE k == CHOOSE i \in 1 .. Len(q) : q[i] = t
<1>1. \E i \in 1 .. Len(q) : q[i] = t
  BY DEF First
<1>2. k \in 1 .. Len(q) /\ q[k] = t
  BY <1>1
<1>3. r = Without(q, k)
  BY Zenon DEF DropWaiter, Without
<1> HIDE DEF k
<1>4. /\ r \in Seq(T) /\ Len(r) = Len(q) - 1
      /\ \A i \in 1 .. Len(q) - 1 : r[i] = IF i < k THEN q[i] ELSE q[i + 1]
  BY <1>2, <1>3, WithoutPlace
<1>5. Len(q) \in Nat /\ k \in Nat /\ k <= Len(q) /\ k >= 1
  BY <1>2, LenProperties
<1> DEFINE old(i) == IF i < k THEN i ELSE i + 1
<1>6. \A i \in 1 .. Len(r) : old(i) \in 1 .. Len(q) /\ old(i) # k /\ r[i] = q[old(i)]
  BY <1>4, <1>5
<1>7. \A i, j \in 1 .. Len(r) : old(i) = old(j) => i = j
  BY <1>4, <1>5
<1>8. \A j \in 1 .. Len(q) : j # k => \E i \in 1 .. Len(r) : old(i) = j
  <2>1. SUFFICES ASSUME NEW j \in 1 .. Len(q), j # k
                 PROVE  \E i \in 1 .. Len(r) : old(i) = j
    OBVIOUS
  <2>2. CASE j < k
    BY <1>4, <1>5, <2>2
  <2>3. CASE j > k
    <3>1. j - 1 \in 1 .. Len(r) /\ old(j - 1) = j
      BY <1>4, <1>5, <2>3
    <3> QED
      BY <3>1
  <2> QED
    BY <1>5, <2>1, <2>2, <2>3
<1> HIDE DEF old
<1>9. Distinct(r)
  BY <1>6, <1>7 DEF Distinct
<1>10. First(r, Len(r)) \subseteq First(q, Len(q)) \ {t}
  BY <1>2, <1>6 DEF First, Distinct
<1>11. First(q, Len(q)) \ {t} \subseteq First(r, Len(r))
  <2>1. SUFFICES ASSUME NEW j \in 1 .. Len(q), q[j] # t
                 PROVE  q[j] \in First(r, Len(r))
    BY DEF First
  <2>2. PICK i \in 1 .. Len(r) : old(i) = j
    BY <1>2, <1>8, <2>1
  <2> QED
    BY <1>6, <2>2 DEF First
<1>12. q # <<>>
  BY <1>5, EmptySeq
<1> QED
  BY <1>4, <1>9, <1>10, <1>11, <1>12

(* A wait that is cancelled ends without a slot, even if it had got one.   *)
LEMMA AbortWaitSound ==
  ASSUME NEW T, IsFiniteSet(T), NEW l, Sound(l, T), Prompt(l), NEW t \in Users(l),
         NEW m, m = AbortWait(l, t)
  PROVE  /\ Sound(m, T) /\ Prompt(m)
         /\ Slots(m) = Slots(l) /\ Users(m) = Users(l) \ {t}
         /\ m.debt = l.debt /\ m.limit = l.limit
<1>1. CASE t \in l.woken
  <2> DEFINE h == [l EXCEPT !.woken = l.woken \ {t}]
  <2>1. /\ Sound(h, T)
        /\ Slots(h) = Slots(l) - 1 /\ Users(h) = Users(l) \ {t}
        /\ h.debt = l.debt /\ h.limit = l.limit
    BY <1>1, LeaveWoken
  <2>2. m = SemRelease(h)
    BY <1>1 DEF AbortWait
  <2> HIDE DEF h
  <2>3. Slots(l) \in Nat
    BY Parts
  <2> QED
    BY <2>1, <2>2, <2>3, SemReleaseSound
<1>2. CASE t \notin l.woken
  <2> DEFINE r == DropWaiter(l.queue, t)
  <2>1. l \in Limits(T) /\ l.queue \in Seq(T) /\ Distinct(l.queue)
    BY Parts
  <2>2. t \in First(l.queue, Len(l.queue))
    BY <1>2 DEF Users, Pending
  <2>3. /\ r \in Seq(T) /\ Distinct(r)
        /\ First(r, Len(r)) = First(l.queue, Len(l.queue)) \ {t}
        /\ r # <<>> => l.queue # <<>>
    BY <2>1, <2>2, DropWaiterSound
  <2>4. m = [l EXCEPT !.queue = r]
    BY <1>2 DEF AbortWait
  <2> HIDE DEF r
  <2>5. /\ m.queue = r /\ m.woken = l.woken /\ m.value = l.value
        /\ m.debt = l.debt /\ m.limit = l.limit /\ m \in Limits(T)
    BY <2>1, <2>3, <2>4 DEF Limits
  <2>6. Pending(m) = Pending(l) \ {t}
    BY <2>3, <2>5, Zenon DEF Pending
  <2>7. Sound(m, T)
    BY <2>3, <2>5, <2>6 DEF Sound
  <2>8. Users(m) = Users(l) \ {t}
    BY <1>2, <2>5, <2>6 DEF Users
  <2>9. Slots(m) = Slots(l)
    BY <2>5, Zenon DEF Slots
  <2>10. Prompt(m)
    BY <2>3, <2>5 DEF Prompt
  <2> QED
    BY <2>5, <2>7, <2>8, <2>9, <2>10
<1> QED
  BY <1>1, <1>2

(* set_limit() upwards: the new slots cancel debt or become free.          *)
LEMMA RaiseLimitSound ==
  ASSUME NEW T, IsFiniteSet(T), NEW l, Sound(l, T), Prompt(l), NEW n \in Nat, n > l.limit,
         NEW m, m = RaiseLimit(l, n)
  PROVE  /\ Sound(m, T) /\ Prompt(m)
         /\ Slots(m) - m.debt - m.limit = Slots(l) - l.debt - l.limit
         /\ Users(m) = Users(l) /\ m.limit = n
<1> DEFINE c == Least(n - l.limit, l.debt)
           free == n - l.limit - c
           h == [l EXCEPT !.debt = l.debt - c]
           g == SemReleaseMany(h, free)
<1>1. l \in Limits(T) /\ l.debt \in Nat /\ l.value \in Nat /\ l.limit \in Nat /\ Slots(l) \in Nat
  BY Parts
<1>2. c \in Nat /\ l.debt - c \in Nat /\ free \in Nat
  BY <1>1 DEF Least
<1> HIDE DEF c
<1>3. /\ h \in Limits(T) /\ h.queue = l.queue /\ h.woken = l.woken
      /\ h.value = l.value /\ h.debt = l.debt - c /\ h.limit = l.limit
  BY <1>1, <1>2 DEF Limits
<1>4. m = [g EXCEPT !.limit = n]
  BY Zenon DEF RaiseLimit, c
<1> HIDE DEF h
<1>5. /\ Sound(h, T) /\ Prompt(h) /\ Users(h) = Users(l) /\ Slots(h) = Slots(l)
  <2>1. Sound(h, T) /\ Users(h) = Users(l) /\ Slots(h) = Slots(l) + h.value - l.value
    BY <1>3, SameTasks
  <2> QED
    BY <1>1, <1>3, <2>1 DEF Prompt
<1> HIDE DEF free
<1>6. /\ Sound(g, T) /\ Prompt(g)
      /\ Slots(g) = Slots(h) + free /\ Users(g) = Users(h)
      /\ g.debt = h.debt /\ g.limit = h.limit
  <2>1. free \in Nat /\ Sound(h, T) /\ Prompt(h) /\ g = SemReleaseMany(h, free)
    BY <1>2, <1>5
  <2> HIDE DEF g
  <2> QED
    BY <2>1, SemReleaseManySound
<1> HIDE DEF g
<1>7. g \in Limits(T) /\ g.value \in Nat /\ Slots(g) \in Nat
  BY <1>6, Parts
<1>8. /\ m \in Limits(T) /\ m.queue = g.queue /\ m.woken = g.woken
      /\ m.value = g.value /\ m.debt = g.debt /\ m.limit = n
  BY <1>4, <1>7 DEF Limits
<1>9. Sound(m, T) /\ Users(m) = Users(g) /\ Slots(m) = Slots(g) + m.value - g.value
  BY <1>6, <1>8, SameTasks
<1>10. Slots(m) - m.debt - m.limit = Slots(l) - l.debt - l.limit
  <2>1. Slots(m) = Slots(l) + free
    BY <1>5, <1>6, <1>7, <1>8, <1>9
  <2>2. m.debt = l.debt - c /\ m.limit = n
    BY <1>3, <1>6, <1>8
  <2> QED
    BY <1>1, <1>2, <2>1, <2>2 DEF free
<1>11. Prompt(m)
  BY <1>6, <1>8 DEF Prompt
<1> QED
  BY <1>5, <1>6, <1>8, <1>9, <1>10, <1>11

(* set_limit() downwards: free slots go at once, the rest becomes debt.    *)
LEMMA LowerLimitSound ==
  ASSUME NEW T, IsFiniteSet(T), NEW l, Sound(l, T), Prompt(l), NEW n \in Nat, n <= l.limit,
         NEW m, m = LowerLimit(l, n)
  PROVE  /\ Sound(m, T) /\ Prompt(m)
         /\ Slots(m) - m.debt - m.limit = Slots(l) - l.debt - l.limit
         /\ Users(m) = Users(l) /\ m.limit = n
<1> DEFINE diff == l.limit - n
           drain == IF Locked(l) THEN 0 ELSE Least(diff, l.value)
<1>1. l \in Limits(T) /\ l.debt \in Nat /\ l.value \in Nat /\ l.limit \in Nat /\ Slots(l) \in Nat
  BY Parts
<1>2. drain \in Nat /\ l.value - drain \in Nat /\ l.debt + diff - drain \in Nat
  BY <1>1 DEF Least
<1>3. m = [l EXCEPT !.value = l.value - drain, !.debt = l.debt + diff - drain, !.limit = n]
  BY Zenon DEF LowerLimit
<1> HIDE DEF drain
<1>4. /\ m \in Limits(T) /\ m.queue = l.queue /\ m.woken = l.woken
      /\ m.value = l.value - drain /\ m.debt = l.debt + diff - drain /\ m.limit = n
  BY <1>1, <1>2, <1>3 DEF Limits
<1>5. Sound(m, T) /\ Users(m) = Users(l) /\ Slots(m) = Slots(l) + m.value - l.value
  BY <1>4, SameTasks
<1>6. Prompt(m)
  BY <1>1, <1>2, <1>4 DEF Prompt
<1>7. Slots(m) - m.debt - m.limit = Slots(l) - l.debt - l.limit
  BY <1>1, <1>2, <1>4, <1>5
<1> QED
  BY <1>4, <1>5, <1>6, <1>7

(* set_limit() keeps slots, debt and limit in balance and moves no task    *)
(* out of the limit.                                                       *)
LEMMA SetLimitSound ==
  ASSUME NEW T, IsFiniteSet(T), NEW l, Sound(l, T), Prompt(l), NEW n \in Nat,
         NEW m, m = SetLimit(l, n)
  PROVE  /\ Sound(m, T) /\ Prompt(m)
         /\ Slots(m) - m.debt - m.limit = Slots(l) - l.debt - l.limit
         /\ Users(m) = Users(l) /\ m.limit = n
<1>1. CASE n > l.limit
  <2>1. m = RaiseLimit(l, n)
    BY <1>1 DEF SetLimit
  <2> QED
    BY <1>1, <2>1, RaiseLimitSound
<1>2. CASE ~(n > l.limit)
  <2>1. m = LowerLimit(l, n) /\ n <= l.limit
    BY <1>2, Parts DEF SetLimit
  <2> QED
    BY <2>1, LowerLimitSound
<1> QED
  BY <1>1, <1>2

-----------------------------------------------------------------------------
(* The specification.                                                      *)

(* The inductive invariant.  SlotConservation counts the union of the holders  *)
(* and the woken tasks, so it needs that no task is both; the queue has to *)
(* be free of repetitions for several releases to wake several tasks.      *)
SlotBalance == Slots(lim) + Cardinality(holding) = lim.limit + lim.debt

LimitInv ==
  /\ Sound(lim, Callers)
  /\ Prompt(lim)
  /\ lim.limit \in 1 .. MaxLimit
  /\ holding \subseteq Callers
  /\ Users(lim) \cap holding = {}
  /\ SlotBalance

(* What the invariant says of the parts of the state.                      *)
LEMMA LimitInvParts ==
  ASSUME LimitInv
  PROVE  /\ Slots(lim) \in Nat /\ lim.debt \in Nat /\ lim.limit \in Nat
         /\ IsFiniteSet(holding) /\ Cardinality(holding) \in Nat
         /\ lim.woken \subseteq Users(lim) /\ Waiting \subseteq Users(lim)
<1>1. IsFiniteSet(Callers) /\ Sound(lim, Callers)
  BY LimitAssumption DEF LimitInv
<1>2. IsFiniteSet(holding) /\ Cardinality(holding) \in Nat
  BY <1>1, FS_Subset, FS_CardinalityType DEF LimitInv
<1> QED
  BY <1>1, <1>2, Parts DEF Users, Waiting, Pending, First

(* DynamicConcurrencyLimit.__init__ establishes the invariant.             *)
LEMMA LimitInitInv == LimitInit => LimitInv
<1> SUFFICES ASSUME LimitInit
             PROVE  LimitInv
  OBVIOUS
<1>1. PICK n \in 1 .. MaxLimit : lim = NewLimit(n)
  BY DEF LimitInit
<1>2. /\ lim.value = n /\ lim.queue = <<>> /\ lim.woken = {}
      /\ lim.debt = 0 /\ lim.limit = n /\ lim \in Limits(Callers)
  BY <1>1, LimitAssumption, EmptySeq DEF NewLimit, Limits
<1>3. Pending(lim) = {} /\ Distinct(lim.queue)
  BY <1>2 DEF Pending, First, Distinct
<1>4. Slots(lim) = n /\ Cardinality(holding) = 0
  BY <1>2, FS_EmptySet DEF Slots, LimitInit
<1> QED
  BY <1>2, <1>3, <1>4 DEF LimitInv, Sound, Prompt, Users, SlotBalance, LimitInit

(* Every step of acquire(), release() and set_limit() preserves it.        *)
LEMMA LimitNextInv == LimitInv /\ [LimitNext]_limitVars => LimitInv'
<1> SUFFICES ASSUME LimitInv, [LimitNext]_limitVars
             PROVE  LimitInv'
  OBVIOUS
<1>a. IsFiniteSet(Callers) /\ Sound(lim, Callers) /\ Prompt(lim)
  BY LimitAssumption DEF LimitInv
<1>b. /\ Slots(lim) \in Nat /\ lim.debt \in Nat /\ lim.limit \in Nat
      /\ IsFiniteSet(holding) /\ Cardinality(holding) \in Nat
      /\ lim.woken \subseteq Users(lim) /\ Waiting \subseteq Users(lim)
  BY LimitInvParts
<1>c. \A t \in Outside : t \in Callers /\ t \notin holding /\ t \notin Users(lim)
  BY DEF Outside, Users, Waiting, Pending, First
<1>1. ASSUME NEW t \in Callers, AcquireNow(t)
      PROVE  LimitInv'
  <2>1. /\ Sound(lim', Callers) /\ Prompt(lim')
        /\ Slots(lim') = Slots(lim) - 1 /\ Users(lim') = Users(lim)
        /\ lim'.debt = lim.debt /\ lim'.limit = lim.limit
    BY <1>1, <1>a, TakeSlotSound DEF AcquireNow
  <2>2. Cardinality(holding') = Cardinality(holding) + 1
    BY <1>1, <1>b, <1>c, FS_AddElement DEF AcquireNow
  <2>3. holding' = holding \cup {t} /\ t \notin Users(lim)
    BY <1>1, <1>c DEF AcquireNow
  <2>4. SlotBalance'
    BY <1>b, <2>1, <2>2 DEF LimitInv, SlotBalance
  <2> QED
    BY <2>1, <2>3, <2>4 DEF LimitInv
<1>2. ASSUME NEW t \in Callers, AcquireLater(t)
      PROVE  LimitInv'
  <2>1. /\ Sound(lim', Callers) /\ Prompt(lim')
        /\ Slots(lim') = Slots(lim) /\ Users(lim') = Users(lim) \cup {t}
        /\ lim'.debt = lim.debt /\ lim'.limit = lim.limit
    BY <1>2, <1>a, <1>c, EnqueueSound DEF AcquireLater
  <2>2. holding' = holding /\ t \notin holding
    BY <1>2, <1>c DEF AcquireLater
  <2> QED
    BY <2>1, <2>2 DEF LimitInv, SlotBalance
<1>3. ASSUME NEW t \in Callers, WakeUp(t)
      PROVE  LimitInv'
  <2>1. /\ Sound(lim', Callers) /\ Prompt(lim')
        /\ Slots(lim') = Slots(lim) - 1 /\ Users(lim') = Users(lim) \ {t}
        /\ lim'.debt = lim.debt /\ lim'.limit = lim.limit
    BY <1>3, <1>a, ResumeSound DEF WakeUp
  <2>2. holding' = holding \cup {t} /\ t \notin holding
    BY <1>3, <1>b DEF WakeUp, LimitInv
  <2>3. Cardinality(holding') = Cardinality(holding) + 1
    BY <1>b, <2>2, FS_AddElement
  <2>4. SlotBalance'
    BY <1>b, <2>1, <2>3 DEF LimitInv, SlotBalance
  <2> QED
    BY <2>1, <2>2, <2>4 DEF LimitInv
<1>4. ASSUME NEW t \in Callers, CancelWait(t)
      PROVE  LimitInv'
  <2>1. t \in Users(lim)
    BY <1>4, <1>b DEF CancelWait
  <2>2. /\ Sound(lim', Callers) /\ Prompt(lim')
        /\ Slots(lim') = Slots(lim) /\ Users(lim') = Users(lim) \ {t}
        /\ lim'.debt = lim.debt /\ lim'.limit = lim.limit
    BY <1>4, <1>a, <2>1, AbortWaitSound DEF CancelWait
  <2>3. holding' = holding
    BY <1>4 DEF CancelWait
  <2> QED
    BY <2>2, <2>3 DEF LimitInv, SlotBalance
<1>5. ASSUME NEW t \in Callers, ReleaseNow(t)
      PROVE  LimitInv'
  <2>1. /\ Sound(lim', Callers) /\ Prompt(lim')
        /\ Slots(lim') - lim'.debt = Slots(lim) - lim.debt + 1
        /\ Users(lim') = Users(lim) /\ lim'.limit = lim.limit
    BY <1>5, <1>a, ReleaseSlotSound DEF ReleaseNow
  <2>2. Slots(lim') \in Nat /\ lim'.debt \in Nat
    BY <1>a, <2>1, Parts
  <2>3. holding' = holding \ {t}
    BY <1>5 DEF ReleaseNow
  <2>4. Cardinality(holding') = Cardinality(holding) - 1
    BY <1>5, <1>b, <2>3, FS_RemoveElement DEF ReleaseNow
  <2>5. SlotBalance'
    BY <1>b, <2>1, <2>2, <2>4 DEF LimitInv, SlotBalance
  <2> QED
    BY <2>1, <2>3, <2>5 DEF LimitInv
<1>6. ASSUME NEW n \in 1 .. MaxLimit, ChangeLimit(n)
      PROVE  LimitInv'
  <2>1. n \in Nat
    OBVIOUS
  <2>2. /\ Sound(lim', Callers) /\ Prompt(lim')
        /\ Slots(lim') - lim'.debt - lim'.limit = Slots(lim) - lim.debt - lim.limit
        /\ Users(lim') = Users(lim) /\ lim'.limit = n
    BY <1>6, <1>a, <2>1, SetLimitSound DEF ChangeLimit
  <2>3. Slots(lim') \in Nat /\ lim'.debt \in Nat /\ lim'.limit \in Nat
    BY <1>a, <2>2, Parts
  <2>4. holding' = holding
    BY <1>6 DEF ChangeLimit
  <2>5. SlotBalance'
    <3>1. Slots(lim) + Cardinality(holding) = lim.limit + lim.debt
      BY DEF LimitInv, SlotBalance
    <3>2. Slots(lim') + Cardinality(holding) = lim'.limit + lim'.debt
      BY <1>b, <2>2, <2>3, <3>1
    <3> QED
      BY <2>4, <3>2 DEF SlotBalance
  <2> QED
    BY <2>2, <2>4, <2>5 DEF LimitInv
<1>7. CASE UNCHANGED limitVars
  BY <1>7 DEF limitVars, LimitInv, SlotBalance
<1> QED
  BY <1>1, <1>2, <1>3, <1>4, <1>5, <1>6, <1>7 DEF LimitNext

(* The invariant holds in every state of every run.                        *)
LEMMA LimitSpecInv == LimitSpec => []LimitInv
  BY LimitInitInv, LimitNextInv, PTL DEF LimitSpec

-----------------------------------------------------------------------------
(* A limit and its users are always of their types: in particular the      *)
(* semaphore's counter and the debt never become negative.                 *)
THEOREM TypeCorrect == LimitSpec => []LimitTypeOK
<1>1. LimitInv => LimitTypeOK
  BY DEF LimitInv, Sound, Limits, LimitTypeOK
<1> QED
  BY <1>1, LimitSpecInv, PTL

(* No mix of waits, cancellations and limit changes loses a slot or makes  *)
(* one up: free slots and slots in use add up to the limit and the debt.   *)
THEOREM SlotsConserved == LimitSpec => []SlotConservation
<1>1. LimitInv => SlotConservation
  <2> SUFFICES ASSUME LimitInv
               PROVE  SlotConservation
    OBVIOUS
  <2>1. /\ Sound(lim, Callers) /\ Users(lim) \cap holding = {}
        /\ Slots(lim) + Cardinality(holding) = lim.limit + lim.debt
    BY DEF LimitInv, SlotBalance
  <2>2. IsFiniteSet(holding) /\ Cardinality(holding) \in Nat
    BY LimitInvParts
  <2>3. IsFiniteSet(lim.woken) /\ Cardinality(lim.woken) \in Nat /\ lim.value \in Nat
    BY <2>1, LimitAssumption, Parts
  <2>4. holding \cap lim.woken = {}
    BY <2>1 DEF Users
  <2>5. Cardinality(holding \cap lim.woken) = 0
    BY <2>4, FS_EmptySet
  <2>6. Cardinality(InUse) = Cardinality(holding) + Cardinality(lim.woken)
    <3>1. Cardinality(InUse)
            = Cardinality(holding) + Cardinality(lim.woken) - Cardinality(holding \cap lim.woken)
      BY <2>2, <2>3, FS_Union, Zenon DEF InUse
    <3> QED
      BY <2>2, <2>3, <2>5, <3>1
  <2>7. Slots(lim) = lim.value + Cardinality(lim.woken)
    BY DEF Slots
  <2>8. lim.value + Cardinality(InUse) = Slots(lim) + Cardinality(holding)
    BY <2>2, <2>3, <2>6, <2>7
  <2> QED
    BY <2>1, <2>8 DEF SlotConservation
<1> QED
  BY <1>1, LimitSpecInv, PTL

(* A task is idle, waits or holds, and waits in one place of the queue     *)
(* only, however waits are cancelled and resumed.                          *)
THEOREM WaitsInOnePlace == LimitSpec => []OnePlace
<1>1. LimitInv => OnePlace
  <2> SUFFICES ASSUME LimitInv
               PROVE  OnePlace
    OBVIOUS
  <2>1. /\ Users(lim) \cap holding = {}
        /\ Distinct(lim.queue) /\ Waiting \cap lim.woken = {}
    BY DEF LimitInv, Sound, Waiting, Pending, First
  <2>2. lim.woken \subseteq Users(lim) /\ Waiting \subseteq Users(lim)
    BY LimitInvParts
  <2> QED
    BY <2>1, <2>2 DEF OnePlace, InUse, Distinct
<1> QED
  BY <1>1, LimitSpecInv, PTL

(* No wake-up is lost: while a slot is free and a task waits, a woken task *)
(* has yet to run, and it hands the slot on.                               *)
THEOREM WakeUpNotLost == LimitSpec => []NoLostWakeUp
<1>1. LimitInv => NoLostWakeUp
  BY DEF LimitInv, Prompt, NoLostWakeUp
<1> QED
  BY <1>1, LimitSpecInv, PTL

(* acquire() and try_acquire() never overtake a waiting task: who gets a   *)
(* slot was woken for it, or nobody was waiting or about to run.           *)
THEOREM NobodyOvertakes == LimitSpec => NoBarging
<1> DEFINE Fair == \A t \in holding' \ holding :
                     t \in lim.woken \/ (lim.queue = <<>> /\ lim.woken = {})
<1>1. [LimitNext]_limitVars => [Fair]_limitVars
  <2> SUFFICES ASSUME [LimitNext]_limitVars
               PROVE  Fair \/ UNCHANGED limitVars
    BY DEF limitVars
  <2>1. ASSUME NEW t \in Callers, AcquireNow(t)
        PROVE  Fair
    BY <2>1 DEF AcquireNow, Locked
  <2>2. ASSUME NEW t \in Callers, AcquireLater(t)
        PROVE  Fair
    BY <2>2 DEF AcquireLater
  <2>3. ASSUME NEW t \in Callers, WakeUp(t)
        PROVE  Fair
    BY <2>3 DEF WakeUp
  <2>4. ASSUME NEW t \in Callers, CancelWait(t)
        PROVE  Fair
    BY <2>4 DEF CancelWait
  <2>5. ASSUME NEW t \in Callers, ReleaseNow(t)
        PROVE  Fair
    BY <2>5 DEF ReleaseNow
  <2>6. ASSUME NEW n \in 1 .. MaxLimit, ChangeLimit(n)
        PROVE  Fair
    BY <2>6 DEF ChangeLimit
  <2> QED
    BY <2>1, <2>2, <2>3, <2>4, <2>5, <2>6 DEF LimitNext
<1> QED
  BY <1>1, PTL DEF LimitSpec, NoBarging
=============================================================================
