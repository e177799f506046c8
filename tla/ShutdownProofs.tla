--------------------------- MODULE ShutdownProofs ---------------------------
(* Theorems about Shutdown, for all values of its constants. *)
EXTENDS Shutdown, SequencesExt, SequenceTheorems, FiniteSetTheorems, TLAPS

-----------------------------------------------------------------------------
(* Lists: the registry, and the snapshots of it.                           *)

\* `list[::-1]' of a list of entries is a list of entries.
LEMMA ReverseType ==
  ASSUME NEW S, NEW s \in Seq(S)
  PROVE  Reverse(s) \in Seq(S)
<1>1. \A i \in 1 .. Len(s) : s[(Len(s) - i) + 1] \in S
  OBVIOUS
<1>2. Reverse(s) \in [1 .. Len(s) -> S]
  BY <1>1 DEF Reverse
<1>3. Len(s) \in Nat
  OBVIOUS
<1>4. QED
  BY <1>2, <1>3, SeqDef

\* A set of naturals that is not empty has a least element.
LEMMA LeastNat ==
  ASSUME NEW I \in SUBSET Nat, I # {}
  PROVE  Min(I) \in I /\ \A y \in I : Min(I) <= y
<1>1. PICK x \in I : \A y \in I : <<y, x>> \notin OpToRel(<, Nat)
  BY NatLessThanWellFounded, WFMin
<1>2. OpToRel(<, Nat) = {p \in Nat \X Nat : p[1] < p[2]}
  BY DEF OpToRel
<1>3. \A y \in I : ~(y < x)
  BY <1>1, <1>2
<1>4. \A y \in I : x =< y
  BY <1>3
<1>5. QED
  BY <1>4 DEF Min

\* `list.remove()' takes one position out of the list.
Skip(I, k) == IF k < I THEN k ELSE k + 1

LEMMA RemoveFirstIs ==
  ASSUME NEW S, NEW s \in Seq(S), NEW e \in ToSet(s)
  PROVE  /\ RemoveFirst(s, e) \in Seq(S) /\ DOMAIN RemoveFirst(s, e) = 1 .. Len(s) - 1
         /\ \E I \in 1 .. Len(s) :
              /\ s[I] = e
              /\ \A k \in 1 .. Len(s) - 1 : RemoveFirst(s, e)[k] = s[Skip(I, k)]
<1> DEFINE J == {i \in 1 .. Len(s) : s[i] = e}
           I == SelectInSeq(s, LAMBDA v : v = e)
           a == SubSeq(s, 1, I - 1)
           b == SubSeq(s, I + 1, Len(s))
<1>0. DOMAIN s = 1 .. Len(s) /\ Len(s) \in Nat /\ \E i \in 1 .. Len(s) : s[i] = e
  BY DEF ToSet
<1>1. RemoveFirst(s, e) = a \o b
  BY <1>0 DEF RemoveFirst, RemoveAt
<1>2. J \in SUBSET Nat /\ J # {}
  BY <1>0
<1>3. Min(J) \in J
  BY <1>2, LeastNat
<1>4. I = Min(J)
  BY <1>2 DEF SelectInSeq
<1>5. I \in 1 .. Len(s) /\ s[I] = e
  BY <1>3, <1>4
<1> HIDE DEF I, J
<1>6. /\ a \in Seq(S) /\ Len(a) = I - 1
      /\ \A i \in 1 .. I - 1 : a[i] = s[i]
  <2>1. \A i \in 1 .. I - 1 : s[i] \in S
    BY <1>0, <1>5
  <2>2. /\ a \in Seq(S) /\ Len(a) = (IF 1 <= I - 1 THEN (I - 1) - 1 + 1 ELSE 0)
        /\ \A i \in 1 .. (I - 1) - 1 + 1 : a[i] = s[1 + i - 1]
    BY <1>0, <1>5, <2>1, SubSeqProperties
  <2> HIDE DEF a
  <2>3. QED
    BY <1>5, <2>2
<1>7. /\ b \in Seq(S) /\ Len(b) = Len(s) - I
      /\ \A i \in 1 .. Len(s) - I : b[i] = s[I + i]
  <2>1. \A i \in I + 1 .. Len(s) : s[i] \in S
    BY <1>0, <1>5
  <2>2. /\ b \in Seq(S) /\ Len(b) = (IF I + 1 <= Len(s) THEN Len(s) - (I + 1) + 1 ELSE 0)
        /\ \A i \in 1 .. Len(s) - (I + 1) + 1 : b[i] = s[(I + 1) + i - 1]
    BY <1>0, <1>5, <2>1, SubSeqProperties
  <2> HIDE DEF b
  <2>3. /\ Len(s) - (I + 1) + 1 = Len(s) - I
        /\ \A i \in 1 .. Len(s) - I : (I + 1) + i - 1 = I + i
    BY <1>0, <1>5
  <2>4. Len(b) = Len(s) - I
    <3>1. CASE I + 1 <= Len(s)
      BY <2>2, <2>3, <3>1
    <3>2. CASE ~(I + 1 <= Len(s))
      <4>0. I \in Int /\ Len(s) \in Int /\ I <= Len(s)
        BY <1>0, <1>5
      <4>1. I = Len(s)
        BY <3>2, <4>0
      <4>2. Len(b) = 0
        BY <2>2, <3>2
      <4>3. QED
        BY <1>0, <4>1, <4>2
    <3>3. QED
      BY <3>1, <3>2
  <2>5. QED
    BY <2>2, <2>3, <2>4
<1> HIDE DEF a, b
<1> DEFINE r == a \o b
<1>8. /\ r \in Seq(S) /\ Len(r) = Len(s) - 1
      /\ \A k \in 1 .. Len(s) - 1 : r[k] = s[Skip(I, k)]
  <2>1. /\ r \in Seq(S) /\ Len(r) = Len(a) + Len(b)
        /\ \A k \in 1 .. Len(a) + Len(b) : r[k] = IF k <= Len(a) THEN a[k] ELSE b[k - Len(a)]
    BY <1>6, <1>7, ConcatProperties
  <2> HIDE DEF r
  <2>2. Len(r) = Len(s) - 1 /\ Len(a) = I - 1 /\ Len(a) + Len(b) = Len(s) - 1
    BY <1>0, <1>5, <1>6, <1>7, <2>1
  <2>3. ASSUME NEW k \in 1 .. Len(s) - 1 PROVE r[k] = s[Skip(I, k)]
    <3>1. CASE k < I
      BY <1>0, <1>5, <1>6, <2>1, <2>2, <3>1 DEF Skip
    <3>2. CASE ~(k < I)
      <4>1. k - (I - 1) \in 1 .. Len(s) - I /\ I + (k - (I - 1)) = k + 1 /\ ~(k <= I - 1)
        BY <1>0, <1>5, <3>2
      <4>2. r[k] = b[k - (I - 1)]
        BY <2>1, <2>2, <4>1
      <4>3. QED
        BY <1>7, <3>2, <4>1, <4>2 DEF Skip
    <3>3. QED
      BY <3>1, <3>2
  <2>4. QED
    BY <2>1, <2>2, <2>3
<1>9. DOMAIN r = 1 .. Len(s) - 1
  BY <1>8, LenProperties
<1>10. QED
  BY <1>1, <1>5, <1>8, <1>9

Count(q, P) == Cardinality({i \in DOMAIN q : q[i] \in P})

\* A count is a number, at most the length.
LEMMA CountType ==
  ASSUME NEW S, NEW q \in Seq(S), NEW P
  PROVE  /\ IsFiniteSet({i \in DOMAIN q : q[i] \in P}) /\ Count(q, P) \in Nat
         /\ (\E i \in DOMAIN q : q[i] \in P) => Count(q, P) > 0
<1>1. IsFiniteSet(1 .. Len(q)) /\ DOMAIN q = 1 .. Len(q)
  BY FS_Interval, LenProperties
<1> DEFINE I == {i \in DOMAIN q : q[i] \in P}
<1>2. IsFiniteSet(I)
  BY <1>1, FS_Subset
<1> HIDE DEF I
<1>3. Cardinality(I) \in Nat /\ (I # {} => Cardinality(I) > 0)
  BY <1>2, FS_CardinalityType, FS_EmptySet
<1>4. QED
  BY <1>2, <1>3 DEF Count, I

\* `queue.put_nowait()' counts one more of what it puts.
LEMMA CountAppend ==
  ASSUME NEW S, NEW q \in Seq(S), NEW e \in S, NEW P
  PROVE  Count(Append(q, e), P) = Count(q, P) + (IF e \in P THEN 1 ELSE 0)
<1>1. /\ DOMAIN q = 1 .. Len(q) /\ DOMAIN Append(q, e) = 1 .. Len(q) + 1 /\ Len(q) \in Nat
      /\ Append(q, e)[Len(q) + 1] = e
      /\ \A i \in 1 .. Len(q) : Append(q, e)[i] = q[i]
  BY AppendProperties
<1> DEFINE I == {i \in DOMAIN q : q[i] \in P}
           J == {i \in DOMAIN Append(q, e) : Append(q, e)[i] \in P}
<1>2. IsFiniteSet(I) /\ Cardinality(I) \in Nat
  BY CountType DEF Count
<1>3. J = IF e \in P THEN I \cup {Len(q) + 1} ELSE I
  BY <1>1
<1>4. Len(q) + 1 \notin I
  BY <1>1
<1> HIDE DEF I, J
<1>5. Cardinality(I \cup {Len(q) + 1}) = Cardinality(I) + 1
  BY <1>2, <1>4, FS_AddElement
<1>6. Cardinality(J) = Cardinality(I) + (IF e \in P THEN 1 ELSE 0)
  BY <1>2, <1>3, <1>5
<1>7. QED
  BY <1>6 DEF Count, I, J

\* Of two sets of positions that are shifted copies of each other one is as large as the other.
LEMMA Shifted ==
  ASSUME NEW I \in SUBSET Int, NEW J \in SUBSET Int, NEW d \in Int, IsFiniteSet(I),
         \A i \in I : i + d \in J, \A j \in J : j - d \in I
  PROVE  IsFiniteSet(J) /\ Cardinality(J) = Cardinality(I)
<1> DEFINE f == [i \in I |-> i + d]
<1>1. f \in Bijection(I, J)
  <2>1. f \in [I -> J] /\ IsInjective(f)
    BY DEF IsInjective
  <2>2. \A j \in J : \E i \in I : f[i] = j
    <3> SUFFICES ASSUME NEW j \in J PROVE \E i \in I : f[i] = j
      OBVIOUS
    <3>1. j - d \in I /\ f[j - d] = j
      OBVIOUS
    <3>2. QED
      BY <3>1
  <2>3. QED
    BY <2>1, <2>2 DEF Bijection, Injection, Surjection
<1>2. ExistsBijection(I, J)
  BY <1>1 DEF ExistsBijection
<1>3. QED
  BY <1>2, FS_Bijection

\* `queue.get()' counts one less of what it gets.
LEMMA CountTail ==
  ASSUME NEW S, NEW q \in Seq(S), q # <<>>, NEW P
  PROVE  Count(Tail(q), P) = Count(q, P) - (IF Head(q) \in P THEN 1 ELSE 0)
<1>1. /\ Tail(q) \in Seq(S) /\ Len(q) \in Nat \ {0} /\ Head(q) = q[1]
      /\ DOMAIN q = 1 .. Len(q) /\ DOMAIN Tail(q) = 1 .. Len(q) - 1
      /\ \A i \in 1 .. Len(q) - 1 : Tail(q)[i] = q[i + 1]
  BY HeadTailProperties, EmptySeq
<1> DEFINE I == {i \in DOMAIN q : q[i] \in P}
           J == {i \in DOMAIN Tail(q) : Tail(q)[i] \in P}
<1>2. IsFiniteSet(I) /\ IsFiniteSet(J)
  BY <1>1, CountType
<1>3. IsFiniteSet(I \ {1}) /\ Cardinality(I \ {1}) = Cardinality(I) - (IF Head(q) \in P THEN 1 ELSE 0)
  <2>1. 1 \in I <=> Head(q) \in P
    BY <1>1
  <2>2. IsFiniteSet(I)
    BY <1>2
  <2> HIDE DEF I
  <2>3. IsFiniteSet(I \ {1}) /\ Cardinality(I \ {1}) = IF 1 \in I THEN Cardinality(I) - 1 ELSE Cardinality(I)
    BY <2>2, FS_RemoveElement
  <2>4. Cardinality(I) \in Nat
    BY <2>2, FS_CardinalityType
  <2>5. QED
    BY <2>1, <2>3, <2>4
<1> DEFINE d == -1
<1>4. /\ I \ {1} \in SUBSET Int /\ J \in SUBSET Int /\ d \in Int
      /\ \A i \in I \ {1} : i + d \in J
      /\ \A j \in J : j - d \in I \ {1}
  BY <1>1
<1> HIDE DEF d
<1> HIDE DEF I, J
<1>5. Cardinality(J) = Cardinality(I \ {1})
  BY <1>3, <1>4, Shifted
<1>6. QED
  BY <1>3, <1>5 DEF Count, I, J

\* `list.remove()' counts one less of what it takes out.
LEMMA CountRemove ==
  ASSUME NEW S, NEW s \in Seq(S), NEW e \in ToSet(s), NEW P
  PROVE  Count(RemoveFirst(s, e), P) = Count(s, P) - (IF e \in P THEN 1 ELSE 0)
<1> DEFINE r == RemoveFirst(s, e)
           I == {i \in DOMAIN s : s[i] \in P}
           J == {i \in DOMAIN r : r[i] \in P}
<1>1. PICK p \in 1 .. Len(s) : s[p] = e /\ \A k \in 1 .. Len(s) - 1 : r[k] = s[Skip(p, k)]
  BY RemoveFirstIs
<1>2. DOMAIN r = 1 .. Len(s) - 1 /\ DOMAIN s = 1 .. Len(s) /\ Len(s) \in Nat /\ r \in Seq(S)
  BY RemoveFirstIs
<1>3. IsFiniteSet(I) /\ IsFiniteSet(J)
  BY <1>2, CountType
<1> HIDE DEF r
<1>4. \A k \in DOMAIN r : Skip(p, k) \in DOMAIN s /\ Skip(p, k) # p /\ r[k] = s[Skip(p, k)]
  BY <1>1, <1>2 DEF Skip
<1>5. \A i \in DOMAIN s : i # p => \E k \in DOMAIN r : i = Skip(p, k)
  <2>1. SUFFICES ASSUME NEW i \in DOMAIN s, i # p PROVE \E k \in DOMAIN r : i = Skip(p, k)
    OBVIOUS
  <2>2. CASE i < p
    BY <1>2, <2>2 DEF Skip
  <2>3. CASE i > p
    <3>1. i - 1 \in DOMAIN r /\ i = Skip(p, i - 1)
      BY <1>2, <2>3 DEF Skip
    <3>2. QED
      BY <3>1
  <2>4. QED
    BY <1>2, <2>1, <2>2, <2>3
<1>6. \A k, l \in DOMAIN r : Skip(p, k) = Skip(p, l) => k = l
  BY <1>2 DEF Skip
<1> DEFINE f == [k \in J |-> Skip(p, k)]
<1>7. f \in Bijection(J, I \ {p})
  <2>1. f \in [J -> I \ {p}] /\ IsInjective(f)
    BY <1>4, <1>6 DEF IsInjective
  <2>2. \A i \in I \ {p} : \E k \in J : f[k] = i
    BY <1>4, <1>5
  <2>3. QED
    BY <2>1, <2>2 DEF Bijection, Injection, Surjection
<1>8. p \in I <=> e \in P
  BY <1>1, <1>2
<1> HIDE DEF I, J, f
<1>9. Cardinality(I \ {p}) = Cardinality(J)
  <2>1. ExistsBijection(J, I \ {p})
    BY <1>7 DEF ExistsBijection
  <2>2. QED
    BY <1>3, <2>1, FS_Bijection
<1>10. Cardinality(I \ {p}) = IF p \in I THEN Cardinality(I) - 1 ELSE Cardinality(I)
  BY <1>3, FS_RemoveElement
<1>11. Cardinality(I) \in Nat
  BY <1>3, FS_CardinalityType
<1>12. Cardinality(J) = Cardinality(I) - (IF e \in P THEN 1 ELSE 0)
  BY <1>8, <1>9, <1>10, <1>11
<1>13. QED
  BY <1>12 DEF Count, I, J, r

\* `list[::-1]' holds everything as often.
LEMMA CountReverse ==
  ASSUME NEW S, NEW s \in Seq(S), NEW P
  PROVE  Count(Reverse(s), P) = Count(s, P)
<1> DEFINE r == Reverse(s)
           n == Len(s)
           I == {i \in DOMAIN s : s[i] \in P}
           J == {i \in DOMAIN r : r[i] \in P}
           f == [k \in J |-> (n - k) + 1]
<1>1. n \in Nat /\ DOMAIN s = 1 .. n /\ DOMAIN r = 1 .. n /\ \A i \in 1 .. n : r[i] = s[(n - i) + 1]
  BY DEF Reverse
<1> HIDE DEF r, n
<1>2. f \in Bijection(J, I)
  <2>1. f \in [J -> I]
    BY <1>1
  <2>2. IsInjective(f)
    BY <1>1 DEF IsInjective
  <2>3. \A i \in I : \E k \in J : f[k] = i
    <3>1. SUFFICES ASSUME NEW i \in I PROVE \E k \in J : f[k] = i
      OBVIOUS
    <3>2. (n - i) + 1 \in 1 .. n /\ (n - ((n - i) + 1)) + 1 = i
      BY <1>1
    <3>3. (n - i) + 1 \in J
      BY <1>1, <3>2
    <3>4. QED
      BY <3>2, <3>3
  <2>4. QED
    BY <2>1, <2>2, <2>3 DEF Bijection, Injection, Surjection
<1>3. IsFiniteSet(I)
  BY CountType
<1> HIDE DEF I, J, f
<1>4. IsFiniteSet(J)
  <2>1. IsFiniteSet(1 .. n) /\ J \in SUBSET (1 .. n)
    BY <1>1, FS_Interval DEF J
  <2>2. QED
    BY <2>1, FS_Subset
<1>5. Cardinality(I) = Cardinality(J)
  <2>1. ExistsBijection(J, I)
    BY <1>2 DEF ExistsBijection
  <2>2. QED
    BY <1>4, <2>1, FS_Bijection
<1>6. QED
  BY <1>5 DEF Count, I, J, r

(* The frames of shutdown_coroutines().                                    *)

\* The frame shutdown_coroutines() starts with, its snapshot included, is a frame.
LEMMA NewFrameType ==
  ASSUME TypeOK, NEW after \in BOOLEAN, NEW timeout \in Int
  PROVE  NewFrame(after, timeout) \in Frame
<1>1. Reverse(registry) \in Seq(Entry)
  BY ReverseType DEF TypeOK
<1>2. Frame0 \in Frame
  BY DEF Frame0, Frame
<1>3. QED
  BY <1>1, <1>2 DEF NewFrame, Frame, Frame0

\* So is the frame of a caller that is not in shutdown_coroutines().
LEMMA Frame0Type == Frame0 \in Frame
BY DEF Frame0, Frame

\* The `for' loop goes on to the next entry of a snapshot.
LEMMA AdvanceType ==
  ASSUME TypeOK, NEW c \in Callers, call[c].todo # <<>>
  PROVE  /\ Advance(c) \in Frame
         /\ NextEntry(c) \in Entry
<1>1. call[c] \in Frame
  BY DEF TypeOK
<1>2. call[c].todo \in Seq(Entry)
  BY <1>1 DEF Frame
<1>3. /\ Tail(call[c].todo) \in Seq(Entry)
      /\ Head(call[c].todo) \in Entry
  BY <1>2, HeadTailProperties
<1>4. QED
  BY <1>1, <1>3 DEF Advance, NextEntry, Frame

\* `__on_shutdown.remove(entry)' leaves a list of entries, and counts a call.
LEMMA TakenType ==
  ASSUME TypeOK, NEW e \in Entry, Taken(e)
  PROVE  registry' \in Seq(Entry) /\ invoked' \in [Entry -> Nat]
<1>1. registry' = RemoveFirst(registry, e) /\ e \in ToSet(registry)
  BY DEF Taken, ToSet
<1>2. RemoveFirst(registry, e) \in Seq(Entry)
  BY <1>1, RemoveFirstIs DEF TypeOK
<1>3. invoked' \in [Entry -> Nat]
  BY DEF Taken, TypeOK
<1>4. QED
  BY <1>1, <1>2, <1>3

\* The updates of a frame that the actions make: a wait begins or goes on.
LEMMA SinceType ==
  ASSUME NEW f \in Frame, NEW m \in Int
  PROVE  [f EXCEPT !.since = m] \in Frame
BY DEF Frame

\* `start = time.time()' before a callback is called.
LEMMA StartType ==
  ASSUME NEW f \in Frame, NEW m \in Int
  PROVE  [f EXCEPT !.start = m, !.since = m] \in Frame
BY DEF Frame

\* A coroutine callback has become a task that is awaited.
LEMMA AwaitType ==
  ASSUME NEW f \in Frame, NEW m \in Int, NEW u \in Tid
  PROVE  [f EXCEPT !.cb = u, !.start = m, !.since = m] \in Frame
BY DEF Frame

\* The wait is over and `timeout -= took'.
LEMMA ChargeType ==
  ASSUME NEW f \in Frame, NEW m \in Int
  PROVE  [f EXCEPT !.cb = NoTask, !.timeout = m] \in Frame
BY DEF Frame

\* What a callback took is a number.
LEMMA TookType ==
  ASSUME TypeOK, NEW c \in Callers
  PROVE  Took(c) \in Int
BY DEF TypeOK, Took, Frame

-----------------------------------------------------------------------------
(* Every variable keeps its type.                                          *)

\* Init and every step of every action leave every variable in its type.
THEOREM TypeCorrect == Spec => []TypeOK
<1>1. Init => TypeOK
  <2> SUFFICES ASSUME Init PROVE TypeOK
    OBVIOUS
  <2>1. call \in [Callers -> Frame]
    BY Frame0Type DEF Init
  <2>2. registry \in Seq(Entry)
    BY EmptySeq DEF Init
  <2>3. QED
    BY <2>1, <2>2 DEF Init, TypeOK, Phases
<1>2. TypeOK /\ [Next]_vars => TypeOK'
  <2> SUFFICES ASSUME TypeOK, [Next]_vars PROVE TypeOK'
    OBVIOUS
  <2> USE ConstantsAssumption DEF Phases
  <2>1. ASSUME NEW t \in Tid, NEW e \in Entry, OnShutdown(t, e) PROVE TypeOK'
    BY <2>1 DEF TypeOK, OnShutdown
  <2>2. ASSUME NEW t \in Tid, NEW u \in Tid, CreateTask(t, u) PROVE TypeOK'
    BY <2>2 DEF TypeOK, CreateTask
  <2>3. ASSUME NEW t \in Tid, TaskEnds(t) PROVE TypeOK'
    BY <2>3 DEF TypeOK, TaskEnds
  <2>4. ASSUME NEW t \in Tid, NEW ends \in BOOLEAN, CancelDelivered(t, ends) PROVE TypeOK'
    <3>1. call' \in [Callers -> Frame]
      BY <2>4, Frame0Type DEF TypeOK, CancelDelivered
    <3>2. QED
      BY <2>4, <3>1 DEF TypeOK, CancelDelivered
  <2>5. ASSUME NEW r \in Restarters, NEW after \in BOOLEAN, NEW timeout \in 0 .. Timeout,
               CallExplicitly(r, after, timeout)
        PROVE TypeOK'
    <3>1. NewFrame(after, timeout) \in Frame
      BY NewFrameType
    <3>2. call' \in [Callers -> Frame] /\ turn' \in Callers
      BY <2>5, <3>1 DEF TypeOK, CallExplicitly, Callers
    <3>3. QED
      BY <2>5, <3>2 DEF TypeOK, CallExplicitly
  <2>6. CASE Signal
    BY <2>6 DEF TypeOK, Signal
  <2>7. CASE StartShutdown
    <3>1. NewFrame(FALSE, Timeout) \in Frame
      <4>1. Timeout \in Int
        OBVIOUS
      <4>2. QED
        BY <4>1, NewFrameType
    <3>2. call' \in [Callers -> Frame] /\ turn' \in Callers
      BY <2>7, <3>1 DEF TypeOK, StartShutdown, Callers
    <3>3. QED
      BY <2>7, <3>2 DEF TypeOK, StartShutdown
  <2>8. CASE CancelTasks
    <3>1. call' \in [Callers -> Frame]
      <4>1. call[Main] \in Frame /\ now \in Int
        BY DEF TypeOK, Callers
      <4>2. [call[Main] EXCEPT !.start = now, !.since = now] \in Frame
        BY <4>1, StartType
      <4>3. QED
        BY <2>8, <4>2 DEF TypeOK, CancelTasks
    <3>2. task' \in [Tid -> {"unused", "run", "cancelling", "done"}]
      BY <2>8 DEF TypeOK, CancelTasks, AfterCancel
    <3>3. QED
      BY <2>8, <3>1, <3>2 DEF TypeOK, CancelTasks
  <2>9. ASSUME StartAfter
        PROVE  call' \in [Callers -> Frame] /\ turn' \in Callers /\ phase' \in Phases
    <3>1. call[Main].timeout - Took(Main) \in Int
      <4>1. call[Main] \in Frame /\ Took(Main) \in Int
        BY TookType DEF TypeOK, Callers
      <4>2. QED
        BY <4>1 DEF Frame
    <3>2. NewFrame(TRUE, call[Main].timeout - Took(Main)) \in Frame
      BY <3>1, NewFrameType
    <3>3. QED
      BY <2>9, <3>2 DEF StartAfter, TypeOK, Callers
  <2>10. CASE SleepReturns
    <3>1. call' \in [Callers -> Frame]
      <4>1. call[Main] \in Frame /\ now \in Int
        BY DEF TypeOK, Callers
      <4>2. [call[Main] EXCEPT !.since = now] \in Frame
        BY <4>1, SinceType
      <4>3. QED
        BY <2>9, <2>10, <4>2 DEF TypeOK, SleepReturns
    <3>2. QED
      BY <2>9, <2>10, <3>1 DEF TypeOK, SleepReturns
  <2>11. CASE TasksWaitReturns
    BY <2>9, <2>11 DEF TypeOK, TasksWaitReturns
  <2>12. CASE Finish
    BY <2>12, Frame0Type DEF TypeOK, Finish
  <2>13. CASE Tick
    BY <2>13 DEF TypeOK, Tick
  <2>14. ASSUME NEW c \in Callers, SkipOther(c) PROVE TypeOK'
    <3>1. Advance(c) \in Frame
      BY <2>14, AdvanceType DEF SkipOther
    <3>2. QED
      BY <2>14, <3>1 DEF TypeOK, SkipOther
  <2>15. ASSUME NEW c \in Callers, RemoveFails(c) PROVE TypeOK'
    BY <2>15, Frame0Type DEF TypeOK, RemoveFails, Raised
  <2>16. ASSUME NEW c \in Callers, NameFails(c) PROVE TypeOK'
    <3>1. NextEntry(c) \in Entry
      BY <2>16, AdvanceType DEF NameFails, HasNext
    <3>2. registry' \in Seq(Entry) /\ invoked' \in [Entry -> Nat]
      BY <2>16, <3>1, TakenType DEF NameFails
    <3>3. QED
      BY <2>16, <3>2, Frame0Type DEF TypeOK, NameFails, Raised
  <2>17. ASSUME NEW c \in Callers, NEW d \in 0 .. MaxBlocked, CallPlain(c, d) PROVE TypeOK'
    <3>1. Advance(c) \in Frame /\ NextEntry(c) \in Entry
      BY <2>17, AdvanceType DEF CallPlain, HasNext
    <3>2. registry' \in Seq(Entry) /\ invoked' \in [Entry -> Nat]
      BY <2>17, <3>1, TakenType DEF CallPlain
    <3>3. call' \in [Callers -> Frame]
      <4>1. [Advance(c) EXCEPT !.timeout = @ - d] \in Frame
        BY <3>1 DEF Frame
      <4>2. QED
        BY <2>17, <4>1 DEF TypeOK, CallPlain
    <3>4. now' \in Nat /\ blocked' \in Nat
      BY <2>17 DEF TypeOK, CallPlain, Block
    <3>5. QED
      BY <2>17, <3>2, <3>3, <3>4 DEF TypeOK, CallPlain
  <2>18. ASSUME NEW c \in Callers, NEW u \in Tid, CallCoroutine(c, u) PROVE TypeOK'
    <3>1. Advance(c) \in Frame /\ NextEntry(c) \in Entry
      BY <2>18, AdvanceType DEF CallCoroutine, HasNext
    <3>2. registry' \in Seq(Entry) /\ invoked' \in [Entry -> Nat]
      BY <2>18, <3>1, TakenType DEF CallCoroutine
    <3>3. call' \in [Callers -> Frame]
      <4>1. [Advance(c) EXCEPT !.cb = u, !.start = now, !.since = now] \in Frame
        <5>1. now \in Int
          BY DEF TypeOK
        <5>2. QED
          BY <3>1, <5>1, AwaitType
      <4>2. QED
        BY <2>18, <4>1 DEF TypeOK, CallCoroutine
    <3>4. QED
      BY <2>18, <3>2, <3>3 DEF TypeOK, CallCoroutine
  <2>19. ASSUME NEW c \in Callers, WaitReturns(c) PROVE TypeOK'
    <3>1. call' \in [Callers -> Frame]
      <4>1. call[c] \in Frame /\ Took(c) \in Int
        BY TookType DEF TypeOK
      <4>2. call[c].timeout - Took(c) \in Int
        BY <4>1 DEF Frame
      <4>3. [call[c] EXCEPT !.cb = NoTask, !.timeout = call[c].timeout - Took(c)] \in Frame
        BY <4>1, <4>2, ChargeType
      <4>4. QED
        BY <2>19, <4>3 DEF TypeOK, WaitReturns
    <3>2. task' \in [Tid -> {"unused", "run", "cancelling", "done"}]
      BY <2>19 DEF TypeOK, WaitReturns, AfterCancel
    <3>3. QED
      BY <2>19, <3>1, <3>2 DEF TypeOK, WaitReturns
  <2>20. ASSUME NEW r \in Restarters, CallReturns(r) PROVE TypeOK'
    BY <2>20, Frame0Type DEF TypeOK, CallReturns
  <2>21. CASE UNCHANGED vars
    BY <2>21 DEF TypeOK, vars
  <2>22. QED
    BY <2>1, <2>2, <2>3, <2>4, <2>5, <2>6, <2>7, <2>8, <2>10, <2>11, <2>12, <2>13,
       <2>14, <2>15, <2>16, <2>17, <2>18, <2>19, <2>20, <2>21
       DEF Next, UserStep, RunnerStep, Iterate, Returned
<1>3. QED
  BY <1>1, <1>2, PTL DEF Spec

-----------------------------------------------------------------------------
(* The time budget.                                                        *)

\* runner() is none of the other tasks, and nobody is the idle loop.
LEMMA CallersDistinct ==
  /\ \A t \in Tid : t # Main
  /\ \A r \in Restarters : r # Main /\ r # Loop
  /\ Main \in Callers /\ Main # Loop
BY ConstantsAssumption DEF Callers

\* A step that leaves runner's frame, its phase and the clock alone.
LEMMA BudgetUntouched ==
  ASSUME BudgetInv, UNCHANGED <<phase, now, t0, report, blocked, mine>>,
         call'[Main] = call[Main], turn' = Main <=> turn = Main,
         phase \in {"done", "crashed"} => turn' = Loop
  PROVE  BudgetInv'
BY CallersDistinct DEF BudgetInv, InShutdown, Elapsed

\* A step of a caller other than runner does not touch runner's frame.
LEMMA OthersFrame ==
  ASSUME TypeOK, NEW c \in Restarters, NEW f, call' = [call EXCEPT ![c] = f]
  PROVE  call'[Main] = call[Main]
BY CallersDistinct DEF TypeOK

\* A plain callback keeps the loop: what it takes is charged to the budget if
\* runner called it, and counted as blocked in any case.
LEMMA BudgetPlain ==
  ASSUME TypeOK, BudgetInv, NEW c \in Callers, NEW d \in 0 .. MaxBlocked, CallPlain(c, d)
  PROVE  BudgetInv'
<1> USE CallersDistinct, ConstantsAssumption
<1>1. /\ turn = c /\ turn' = turn /\ phase' = phase /\ t0' = t0
      /\ report' = report /\ mine' = mine /\ now' = now + d
      /\ phase # "running" => blocked' = blocked + d
      /\ d \in Nat
  BY DEF CallPlain, HasNext, Block
<1>2. now \in Nat /\ t0 \in Nat /\ blocked \in Nat /\ Timeout \in Nat
  BY DEF TypeOK
<1>3. call[Main] \in Frame
  BY DEF TypeOK
<1>4. phase \in Phases
  BY DEF TypeOK
<1>5. CASE c = Main
  <2>1. /\ call'[Main].cb = call[Main].cb
        /\ call'[Main].active = call[Main].active
        /\ call'[Main].timeout = call[Main].timeout - d
    BY <1>5, <1>3 DEF CallPlain, Advance, TypeOK, Frame
  <2>2. phase \in {"before", "after"}
    BY <1>1, <1>5 DEF BudgetInv
  <2>3. blocked' = blocked + d /\ turn' = Main /\ phase' \in {"before", "after"}
    BY <1>1, <1>5, <2>2
  <2>4. /\ t0 <= now /\ now - t0 <= Timeout + blocked
        /\ call[Main].active
        /\ call[Main].cb = NoTask /\ call[Main].timeout = Timeout - (now - t0)
        /\ report = "none"
    BY <1>1, <1>5, <2>2 DEF BudgetInv, InShutdown, Elapsed
  <2>5. /\ t0' <= now' /\ now' - t0' <= Timeout + blocked'
        /\ call'[Main].active
        /\ call'[Main].cb = NoTask /\ call'[Main].timeout = Timeout - (now' - t0')
        /\ report' = "none"
    BY <1>1, <1>2, <2>1, <2>3, <2>4
  <2>6. QED
    BY <2>3, <2>5 DEF BudgetInv, InShutdown, Elapsed
<1>6. CASE c # Main
  <2>1. call'[Main] = call[Main]
    BY <1>6 DEF CallPlain, TypeOK, Callers
  <2>2. CASE phase = "running"
    BY <1>1, <1>2, <1>6, <2>1, <2>2 DEF BudgetInv, InShutdown, Elapsed
  <2>3. CASE phase # "running"
    <3>1. InShutdown /\ turn # Main /\ turn # Loop
      BY <1>1, <1>4, <1>6, <2>3 DEF BudgetInv, InShutdown, Phases, Callers
    <3>2. t0' <= now' /\ now' - t0' <= Timeout + blocked'
      BY <1>1, <1>2, <2>3, <3>1 DEF BudgetInv, Elapsed
    <3>3. CASE phase \in {"before", "after"}
      <4>1. /\ call[Main].active /\ call[Main].cb \in Tid
            /\ call[Main].since = call[Main].start /\ report = "none"
            /\ t0 <= call[Main].start /\ call[Main].start <= now
            /\ call[Main].timeout = Timeout - (call[Main].start - t0)
        BY <1>1, <1>6, <3>1, <3>3 DEF BudgetInv
      <4>2. call[Main].start <= now'
        BY <1>1, <1>2, <1>3, <4>1 DEF Frame
      <4>3. QED
        BY <1>1, <1>6, <2>1, <3>2, <3>3, <4>1, <4>2 DEF BudgetInv, InShutdown, Elapsed
    <3>4. CASE phase \in {"yielded", "waiting"}
      <4>1. /\ call[Main].cb = NoTask /\ report = "none"
            /\ t0 <= call[Main].start /\ call[Main].start <= call[Main].since
            /\ call[Main].since <= now
            /\ call[Main].timeout = Timeout - (call[Main].start - t0)
            /\ IF phase = "yielded" THEN now - call[Main].start <= blocked
               ELSE call[Main].since - call[Main].start <= blocked
        BY <3>4 DEF BudgetInv
      <4>2. now' = now + d /\ blocked' = blocked + d
        BY <1>1, <2>3
      <4>3. /\ call[Main].since <= now'
            /\ IF phase = "yielded" THEN now' - call[Main].start <= blocked'
               ELSE call[Main].since - call[Main].start <= blocked'
        <5>1. call[Main].start \in Int /\ call[Main].since \in Int
          BY <1>3 DEF Frame
        <5>2. d \in Nat
          BY <1>1
        <5>3. QED
          BY <1>2, <4>1, <4>2, <5>1, <5>2
      <4>4. QED
        BY <1>1, <1>6, <2>1, <3>1, <3>2, <3>4, <4>1, <4>3
           DEF BudgetInv, InShutdown, Elapsed
    <3>5. QED
      BY <3>1, <3>3, <3>4 DEF InShutdown
  <2>4. QED
    BY <2>2, <2>3
<1>7. QED
  BY <1>5, <1>6

\* Time passes only while runner's wait has time left.
LEMMA BudgetTick ==
  ASSUME TypeOK, BudgetInv, Tick
  PROVE  BudgetInv'
<1> USE CallersDistinct, ConstantsAssumption
<1>1. /\ turn = Loop /\ now' = now + 1 /\ phase \notin {"yielded", "done", "crashed"}
      /\ UNCHANGED <<call, turn, phase, t0, report, blocked, mine>>
  BY DEF Tick, LoopRuns
<1>2. now \in Nat /\ t0 \in Nat /\ blocked \in Nat /\ Timeout \in Nat /\ phase \in Phases
  BY DEF TypeOK
<1>3. call[Main] \in Frame
  BY DEF TypeOK
<1>4. CASE phase = "running"
  BY <1>1, <1>2, <1>4 DEF BudgetInv, InShutdown, Elapsed
<1>5. CASE phase \in {"before", "after"}
  <2>1. call[Main].active /\ call[Main].cb # NoTask
    BY <1>1, <1>5 DEF BudgetInv
  <2>2. ~TimedOut(Main)
    BY <1>5, <2>1 DEF Tick, WaitOver, Callers
  <2>3. now - call[Main].since < call[Main].timeout
    BY <1>1, <1>2, <1>3, <1>5, <2>2 DEF TimedOut, BudgetInv, Frame
  <2>4. QED
    BY <1>1, <1>2, <1>3, <1>5, <2>3 DEF BudgetInv, InShutdown, Elapsed, Frame
<1>6. CASE phase = "waiting"
  <2>1. ~TimedOut(Main)
    BY <1>6 DEF Tick, TasksWaitOver
  <2>2. now - call[Main].since < call[Main].timeout
    BY <1>1, <1>2, <1>3, <1>6, <2>1 DEF TimedOut, BudgetInv, Frame
  <2>3. QED
    BY <1>1, <1>2, <1>3, <1>6, <2>2 DEF BudgetInv, InShutdown, Elapsed, Frame
<1>7. QED
  BY <1>1, <1>2, <1>4, <1>5, <1>6 DEF Phases

\* A round of the loop of shutdown_coroutines() that takes no time.
LEMMA BudgetIterate ==
  ASSUME TypeOK, BudgetInv, NEW c \in Callers,
         \/ SkipOther(c) \/ RemoveFails(c) \/ NameFails(c)
         \/ \E u \in Tid : CallCoroutine(c, u)
  PROVE  BudgetInv'
<1> USE CallersDistinct
<1>1. now \in Nat /\ t0 \in Nat /\ call[Main] \in Frame /\ Timeout \in Nat
  BY ConstantsAssumption DEF TypeOK
<1>2. CASE c = Main
  <2>1. turn = Main /\ phase \in {"before", "after"}
    BY <1>2 DEF SkipOther, RemoveFails, NameFails, CallCoroutine, HasNext, BudgetInv
  <2>2. CASE SkipOther(c)
    <3>1. /\ call'[Main].active = call[Main].active /\ call'[Main].cb = call[Main].cb
          /\ call'[Main].timeout = call[Main].timeout
      BY <1>1, <1>2, <2>2 DEF SkipOther, Advance, TypeOK, Frame
    <3>2. QED
      BY <2>1, <2>2, <3>1 DEF SkipOther, BudgetInv, InShutdown, Elapsed
  <2>3. CASE RemoveFails(c) \/ NameFails(c)
    <3>1. call'[Main] = Frame0 /\ phase' = "crashed" /\ turn' = Loop
      BY <1>2, <2>3 DEF RemoveFails, NameFails, Raised, TypeOK
    <3>2. QED
      BY <2>1, <2>3, <3>1
         DEF RemoveFails, NameFails, BudgetInv, InShutdown, Elapsed, Frame0
  <2>4. ASSUME NEW u \in Tid, CallCoroutine(c, u) PROVE BudgetInv'
    <3>1. /\ call'[Main].active = call[Main].active /\ call'[Main].cb = u
          /\ call'[Main].timeout = call[Main].timeout
          /\ call'[Main].start = now /\ call'[Main].since = now
      BY <1>1, <1>2, <2>4 DEF CallCoroutine, Advance, TypeOK, Frame
    <3>2. /\ turn' = Loop
          /\ UNCHANGED <<phase, now, t0, report, blocked>>
      BY <2>4 DEF CallCoroutine
    <3>3. call[Main].active
      BY <1>2, <2>1, <2>4 DEF BudgetInv, CallCoroutine, HasNext
    <3>4. QED
      BY <1>1, <2>1, <3>1, <3>2, <3>3 DEF BudgetInv, InShutdown, Elapsed
  <2>5. QED
    BY <2>2, <2>3, <2>4
<1>3. CASE c # Main
  <2>1. call'[Main] = call[Main]
    BY <1>3 DEF SkipOther, RemoveFails, NameFails, CallCoroutine, Raised, TypeOK
  <2>2. UNCHANGED <<phase, now, t0, report, blocked, mine>>
    BY <1>3 DEF SkipOther, RemoveFails, NameFails, CallCoroutine, Raised
  <2>3. turn = c /\ turn' \in {c, Loop}
    BY DEF SkipOther, RemoveFails, NameFails, CallCoroutine, Raised, HasNext
  <2>4. phase \notin {"done", "crashed"}
    BY <1>3, <2>3 DEF BudgetInv, Callers
  <2>5. QED
    BY <1>3, <2>1, <2>2, <2>3, <2>4, BudgetUntouched
<1>4. QED
  BY <1>2, <1>3

\* The wait for a callback returns and its duration is charged.
LEMMA BudgetWaitReturns ==
  ASSUME TypeOK, BudgetInv, NEW c \in Callers, WaitReturns(c)
  PROVE  BudgetInv'
<1> USE CallersDistinct
<1>1. now \in Nat /\ t0 \in Nat /\ call[Main] \in Frame /\ Timeout \in Nat
  BY ConstantsAssumption DEF TypeOK
<1>2. /\ UNCHANGED <<phase, now, t0, report, blocked, mine>>
      /\ turn = Loop /\ turn' = c /\ phase \notin {"done", "crashed"}
      /\ call[c].active /\ call[c].cb # NoTask
  BY DEF WaitReturns, LoopRuns, WaitOver
<1>3. CASE c = Main
  <2>1. phase \in {"before", "after"}
    BY <1>2, <1>3 DEF BudgetInv, TypeOK, Phases
  <2>2. /\ call'[Main].active = call[Main].active /\ call'[Main].cb = NoTask
        /\ call'[Main].timeout = call[Main].timeout - (now - call[Main].start)
    BY <1>1, <1>3 DEF WaitReturns, Took, TypeOK, Frame
  <2>3. call[Main].timeout = Timeout - (call[Main].start - t0)
    BY <1>2, <2>1 DEF BudgetInv
  <2>4. call'[Main].timeout = Timeout - (now - t0)
    BY <1>1, <2>2, <2>3 DEF Frame
  <2>5. QED
    BY <1>2, <1>3, <2>1, <2>2, <2>4 DEF BudgetInv, InShutdown, Elapsed
<1>4. CASE c # Main
  <2>1. call'[Main] = call[Main]
    BY <1>4 DEF WaitReturns, TypeOK
  <2>2. QED
    BY <1>2, <1>4, <2>1, BudgetUntouched
<1>5. QED
  BY <1>3, <1>4

\* The steps of runner(), __graceful_shutdown() and __shutdown_tasks().
LEMMA BudgetRunner ==
  ASSUME TypeOK, BudgetInv, RunnerStep
  PROVE  BudgetInv'
<1> USE CallersDistinct
<1>1. /\ now \in Nat /\ t0 \in Nat /\ blocked \in Nat
      /\ call[Main] \in Frame /\ Timeout \in Nat
  BY ConstantsAssumption DEF TypeOK
<1>2. CASE StartShutdown
  <2>1. /\ call'[Main].active /\ call'[Main].cb = NoTask
        /\ call'[Main].timeout = Timeout
    BY <1>2 DEF StartShutdown, NewFrame, Frame0, TypeOK
  <2>2. /\ phase' = "before" /\ turn' = Main /\ t0' = now /\ now' = now
        /\ blocked' = blocked /\ report' = report /\ phase = "running"
    BY <1>2 DEF StartShutdown
  <2>3. now' - t0' = 0
    BY <1>1, <2>2
  <2>4. QED
    BY <1>1, <2>1, <2>2, <2>3 DEF BudgetInv, InShutdown, Elapsed
<1>3. CASE CancelTasks
  <2>1. /\ call'[Main].active = call[Main].active /\ call'[Main].cb = call[Main].cb
        /\ call'[Main].timeout = call[Main].timeout
        /\ call'[Main].start = now /\ call'[Main].since = now
    BY <1>1, <1>3 DEF CancelTasks, TypeOK, Frame
  <2>2. /\ UNCHANGED <<now, t0, report, blocked, mine>>
        /\ phase = "before" /\ phase' = "yielded" /\ turn = Main /\ turn' = Loop
    BY <1>3 DEF CancelTasks
  <2>3. now - now <= blocked
    BY <1>1
  <2>4. /\ call[Main].active /\ call[Main].cb = NoTask
        /\ call[Main].timeout = Timeout - (now - t0)
        /\ t0 <= now /\ now - t0 <= Timeout + blocked /\ report = "none"
    BY <2>2 DEF BudgetInv, InShutdown, Elapsed
  <2>5. now <= now
    BY <1>1
  <2>6. QED
    BY <2>1, <2>2, <2>3, <2>4, <2>5, ConstantsAssumption
       DEF BudgetInv, InShutdown, Elapsed
<1>4. ASSUME phase \in {"yielded", "waiting"}, StartAfter,
             UNCHANGED <<now, t0, report, blocked, mine>>
      PROVE  BudgetInv'
  <2>1. call[Main].timeout - (now - call[Main].start) = Timeout - (now - t0)
    BY <1>1, <1>4 DEF BudgetInv, Frame
  <2>2. /\ call'[Main].active /\ call'[Main].cb = NoTask
        /\ call'[Main].timeout = Timeout - (now - t0)
    BY <1>4, <2>1 DEF StartAfter, Took, NewFrame, Frame0, TypeOK
  <2>3. phase' = "after" /\ turn' = Main
    BY <1>4 DEF StartAfter
  <2>4. QED
    BY <1>4, <2>2, <2>3 DEF BudgetInv, InShutdown, Elapsed
<1>5. CASE SleepReturns
  <2>1. phase = "yielded" /\ UNCHANGED <<now, t0, report, blocked, mine>>
    BY <1>5 DEF SleepReturns
  <2>2. CASE AllDone(tasks)
    BY <1>4, <1>5, <2>1, <2>2 DEF SleepReturns
  <2>3. CASE ~AllDone(tasks)
    <3>1. /\ call'[Main].active = call[Main].active /\ call'[Main].cb = call[Main].cb
          /\ call'[Main].timeout = call[Main].timeout
          /\ call'[Main].start = call[Main].start /\ call'[Main].since = now
      BY <1>1, <1>5, <2>3 DEF SleepReturns, TypeOK, Frame
    <3>2. phase' = "waiting" /\ turn = Loop /\ turn' = Loop
      BY <1>5, <2>3 DEF SleepReturns
    <3>3. /\ call[Main].start <= now
          /\ now - call[Main].start <= blocked
      BY <1>1, <2>1 DEF BudgetInv, Frame
    <3>4. QED
      BY <1>1, <2>1, <3>1, <3>2, <3>3 DEF BudgetInv, InShutdown, Elapsed
  <2>4. QED
    BY <2>2, <2>3
<1>6. CASE TasksWaitReturns
  BY <1>4, <1>6 DEF TasksWaitReturns, TasksWaitOver
<1>7. CASE Finish
  <2>1. call'[Main] = Frame0 /\ phase' = "done" /\ turn' = Loop
    BY <1>7 DEF Finish, TypeOK
  <2>2. /\ phase = "after" /\ turn = Main /\ UNCHANGED <<now, t0, blocked, mine>>
        /\ report' = IF call[Main].timeout > 0 THEN "completed" ELSE "timeout"
    BY <1>7 DEF Finish
  <2>3. /\ call[Main].timeout = Timeout - (now - t0)
        /\ t0 <= now /\ now - t0 <= Timeout + blocked
    BY <2>2 DEF BudgetInv, InShutdown, Elapsed
  <2>4. report' = "completed" <=> now' - t0' < Timeout
    BY <1>1, <2>2, <2>3 DEF Frame
  <2>5. QED
    BY <2>1, <2>2, <2>3, <2>4 DEF BudgetInv, InShutdown, Elapsed, Frame0
<1>8. QED
  BY <1>2, <1>3, <1>5, <1>6, <1>7 DEF RunnerStep

\* The budget invariant holds of every behaviour.
LEMMA BudgetHolds == Spec => []BudgetInv
<1>1. Init => BudgetInv
  BY CallersDistinct DEF Init, BudgetInv, InShutdown, Frame0
<1>2. TypeOK /\ BudgetInv /\ [Next]_vars => BudgetInv'
  <2> SUFFICES ASSUME TypeOK, BudgetInv, [Next]_vars PROVE BudgetInv'
    OBVIOUS
  <2> USE CallersDistinct
  <2>1. CASE UserStep
    <3>1. call'[Main] = call[Main]
      BY <2>1 DEF UserStep, OnShutdown, CreateTask, TaskEnds, CancelDelivered,
                  CallExplicitly, TypeOK
    <3>2. /\ UNCHANGED <<phase, now, t0, report, blocked, mine>>
          /\ phase \notin {"done", "crashed"}
          /\ turn = Loop /\ turn' \in {Loop} \cup Restarters
      BY <2>1 DEF UserStep, OnShutdown, CreateTask, TaskEnds, CancelDelivered,
                  CallExplicitly, OwnCode, LoopRuns
    <3>3. QED
      BY <3>1, <3>2, BudgetUntouched
  <2>2. CASE Signal
    BY <2>2, BudgetUntouched DEF Signal
  <2>3. ASSUME NEW r \in Restarters, CallReturns(r) PROVE BudgetInv'
    <3>1. call'[Main] = call[Main] /\ turn = r /\ turn' = Loop
      BY <2>3 DEF CallReturns, TypeOK
    <3>2. UNCHANGED <<phase, now, t0, report, blocked, mine>>
      BY <2>3 DEF CallReturns
    <3>3. QED
      BY <3>1, <3>2, BudgetUntouched
  <2>4. CASE UNCHANGED vars
    BY <2>4 DEF vars, BudgetInv, InShutdown, Elapsed
  <2>5. QED
    BY <2>1, <2>2, <2>3, <2>4, BudgetRunner, BudgetTick, BudgetPlain, BudgetIterate,
       BudgetWaitReturns DEF Next, Iterate, Returned
<1>3. QED
  BY <1>1, <1>2, TypeCorrect, PTL DEF Spec

\* The total shutdown_timeout is kept, for any number of tasks and callbacks.
THEOREM DeadlineKept == Spec => []Deadline
<1>1. BudgetInv => Deadline
  BY DEF BudgetInv, Deadline
<1>2. QED
  BY <1>1, BudgetHolds, PTL

\* The last message of a shutdown tells whether the total was kept.
THEOREM ReportIsTruthful == Spec => []ReportTruthful
<1>1. BudgetInv => ReportTruthful
  BY DEF BudgetInv, ReportTruthful
<1>2. QED
  BY <1>1, BudgetHolds, PTL

-----------------------------------------------------------------------------
(* What a completed shutdown says of the tasks.                            *)

\* A finished task stays finished.
LEMMA DoneStays ==
  ASSUME TypeOK, [Next]_vars, NEW t \in Tid, task[t] = "done"
  PROVE  task'[t] = "done"
<1>1. CASE UserStep
  BY <1>1 DEF UserStep, OnShutdown, CreateTask, TaskEnds, CancelDelivered,
              CallExplicitly, OwnCode, TypeOK
<1>2. CASE Signal \/ RunnerStep
  BY <1>2 DEF Signal, RunnerStep, StartShutdown, CancelTasks, SleepReturns,
              TasksWaitReturns, Finish, AfterCancel, TypeOK
<1>3. CASE Tick \/ UNCHANGED vars
  BY <1>3 DEF Tick, vars
<1>4. ASSUME NEW c \in Callers, Iterate(c) \/ WaitReturns(c) PROVE task'[t] = "done"
  BY <1>4 DEF Iterate, SkipOther, RemoveFails, NameFails, CallPlain, CallCoroutine,
              WaitReturns, AfterCancel, TypeOK
<1>5. ASSUME NEW r \in Restarters, CallReturns(r) PROVE task'[t] = "done"
  BY <1>5 DEF CallReturns
<1>6. QED
  BY <1>1, <1>2, <1>3, <1>4, <1>5 DEF Next, Returned

\* Once the shutdown has started, the elapsed time only grows.
LEMMA ElapsedGrows ==
  ASSUME TypeOK, [Next]_vars, phase # "running"
  PROVE  Elapsed' \in Int /\ Elapsed' >= Elapsed
<1>1. now \in Nat /\ t0 \in Nat
  BY DEF TypeOK
<1>2. t0' = t0 /\ (now' = now \/ now' = now + 1 \/ \E d \in 0 .. MaxBlocked : now' = now + d)
  <2>1. CASE UserStep
    BY <2>1 DEF UserStep, OnShutdown, CreateTask, TaskEnds, CancelDelivered,
                CallExplicitly
  <2>2. CASE Signal \/ RunnerStep
    BY <2>2 DEF Signal, RunnerStep, StartShutdown, CancelTasks, SleepReturns,
                TasksWaitReturns, Finish
  <2>3. CASE Tick \/ UNCHANGED vars
    BY <2>3 DEF Tick, vars
  <2>4. ASSUME NEW c \in Callers, Iterate(c) \/ WaitReturns(c)
        PROVE  t0' = t0 /\ (now' = now \/ \E d \in 0 .. MaxBlocked : now' = now + d)
    BY <2>4 DEF Iterate, SkipOther, RemoveFails, NameFails, CallPlain, Block,
                CallCoroutine, WaitReturns
  <2>5. ASSUME NEW r \in Restarters, CallReturns(r) PROVE t0' = t0 /\ now' = now
    BY <2>5 DEF CallReturns
  <2>6. QED
    BY <2>1, <2>2, <2>3, <2>4, <2>5 DEF Next, Returned
<1>3. QED
  BY <1>1, <1>2, ConstantsAssumption DEF Elapsed

\* When an asyncio.wait() of runner runs into its timeout, the total is used up.
LEMMA TimeoutUsesUp ==
  ASSUME TypeOK, BudgetInv, TimedOut(Main),
         \/ phase \in {"before", "after"} /\ turn # Main
         \/ phase = "waiting"
  PROVE  Elapsed >= Timeout
<1>1. now \in Nat /\ t0 \in Nat /\ Timeout \in Nat /\ call[Main] \in Frame
  BY CallersDistinct, ConstantsAssumption DEF TypeOK
<1>2. /\ call[Main].timeout = Timeout - (call[Main].start - t0)
      /\ call[Main].start <= call[Main].since
  BY <1>1 DEF BudgetInv, Frame
<1>3. QED
  BY <1>1, <1>2 DEF TimedOut, Elapsed, Frame

\* How a step changes the set of callback tasks and the one runner awaits.
LEMMA MineStep ==
  ASSUME TypeOK, BudgetInv, [Next]_vars, phase # "running", NEW t \in mine',
         task'[t] # "done"
  PROVE  \/ turn' # Main /\ t = call'[Main].cb
         \/ t \in mine /\ ~(turn # Main /\ t = call[Main].cb)
         \/ Elapsed >= Timeout
<1> USE CallersDistinct
<1>1. call[Main] \in Frame /\ t \in Tid /\ phase \in Phases
  <2>1. mine \subseteq Tid /\ call[Main] \in Frame /\ phase \in Phases
    BY DEF TypeOK
  <2>2. mine' \subseteq Tid
    BY <2>1 DEF Next, UserStep, OnShutdown, CreateTask, TaskEnds, CancelDelivered,
                CallExplicitly, Signal, RunnerStep, StartShutdown, CancelTasks,
                SleepReturns, TasksWaitReturns, Finish, Tick, Returned, vars, Iterate,
                SkipOther, RemoveFails, NameFails, CallPlain, CallCoroutine,
                WaitReturns, CallReturns
  <2>3. QED
    BY <2>1, <2>2
<1>2. CASE UserStep
  BY <1>2 DEF UserStep, OnShutdown, CreateTask, TaskEnds, CancelDelivered,
              CallExplicitly, TypeOK
<1>3. CASE Signal \/ Tick \/ UNCHANGED vars
  BY <1>3 DEF Signal, Tick, vars
<1>4. CASE RunnerStep
  <2>1. mine' = mine
    BY <1>4 DEF RunnerStep, StartShutdown, CancelTasks, SleepReturns,
                TasksWaitReturns, Finish
  <2>2. turn = Main \/ phase \in {"yielded", "waiting"}
    BY <1>4 DEF RunnerStep, StartShutdown, CancelTasks, SleepReturns,
                TasksWaitReturns, TasksWaitOver, Finish
  <2>3. phase \in {"yielded", "waiting"} => call[Main].cb = NoTask
    BY DEF BudgetInv
  <2>4. QED
    BY <1>1, <2>1, <2>2, <2>3, ConstantsAssumption
<1>5. ASSUME NEW c \in Callers, Iterate(c)
      PROVE  \/ turn' # Main /\ t = call'[Main].cb
             \/ t \in mine /\ ~(turn # Main /\ t = call[Main].cb)
  <2>1. turn = c
    BY <1>5 DEF Iterate, SkipOther, RemoveFails, NameFails, CallPlain, CallCoroutine, HasNext
  <2>2. CASE c # Main
    <3>1. call'[Main] = call[Main]
      BY <1>5, <2>2 DEF Iterate, SkipOther, RemoveFails, NameFails, CallPlain,
                        CallCoroutine, Raised, TypeOK
    <3>2. turn' \in {c, Loop}
      BY <1>5, <2>1 DEF Iterate, SkipOther, RemoveFails, NameFails, CallPlain,
                        CallCoroutine, Raised
    <3>3. mine' = mine
      BY <1>5, <2>2 DEF Iterate, SkipOther, RemoveFails, NameFails, CallPlain,
                        CallCoroutine
    <3>4. QED
      BY <2>1, <2>2, <3>1, <3>2, <3>3
  <2>3. CASE c = Main /\ t \in mine
    BY <2>1, <2>3
  <2>4. CASE c = Main /\ t \notin mine
    <3>1. PICK u \in Tid : CallCoroutine(c, u)
      BY <1>5, <2>4 DEF Iterate, SkipOther, RemoveFails, NameFails, CallPlain
    <3>2. t = u /\ turn' = Loop
      BY <2>4, <3>1 DEF CallCoroutine
    <3>3. call'[Main].cb = u
      BY <1>1, <2>4, <3>1 DEF CallCoroutine, Advance, TypeOK, Frame
    <3>4. QED
      BY <3>2, <3>3
  <2>5. QED
    BY <2>2, <2>3, <2>4
<1>6. ASSUME NEW c \in Callers, WaitReturns(c)
      PROVE  \/ turn' # Main /\ t = call'[Main].cb
             \/ t \in mine /\ ~(turn # Main /\ t = call[Main].cb)
             \/ Elapsed >= Timeout
  <2>1. mine' = mine /\ WaitOver(c) /\ turn = Loop /\ turn' = c
    BY <1>6 DEF WaitReturns
  <2>2. CASE c # Main
    <3>1. call'[Main] = call[Main]
      BY <1>6, <2>2 DEF WaitReturns, TypeOK
    <3>2. QED
      BY <2>1, <2>2, <3>1
  <2>3. CASE c = Main /\ t = call[Main].cb
    <3>1. task[t] # "done"
      BY <1>1, DoneStays
    <3>2. TimedOut(Main)
      BY <2>1, <2>3, <3>1 DEF WaitOver
    <3>3. phase \in {"before", "after"}
      BY <1>1, <2>1, <2>3, ConstantsAssumption DEF BudgetInv, WaitOver, Phases
    <3>4. QED
      BY <2>1, <3>2, <3>3, TimeoutUsesUp
  <2>4. QED
    BY <2>1, <2>2, <2>3
<1>7. ASSUME NEW r \in Restarters, CallReturns(r)
      PROVE  \/ turn' # Main /\ t = call'[Main].cb
             \/ t \in mine /\ ~(turn # Main /\ t = call[Main].cb)
  <2>1. mine' = mine /\ turn = r /\ turn' = Loop /\ call'[Main] = call[Main]
    BY <1>7 DEF CallReturns, TypeOK
  <2>2. QED
    BY <2>1
<1>8. QED
  BY <1>2, <1>3, <1>4, <1>5, <1>6, <1>7 DEF Next, Returned

\* The after-callbacks start when the tasks are finished or the total is used.
LEMMA TasksStep ==
  ASSUME TypeOK, BudgetInv, SettledInv, [Next]_vars, phase' \in {"after", "done"}
  PROVE  /\ phase # "running"
         /\ tasks' = tasks /\ (AllDone(tasks) \/ Elapsed >= Timeout)
<1> USE CallersDistinct
<1>1. CASE phase \in {"after", "done"}
  <2>1. tasks' = tasks
    BY <1>1 DEF Next, UserStep, OnShutdown, CreateTask, TaskEnds, CancelDelivered,
                CallExplicitly, Signal, RunnerStep, StartShutdown, CancelTasks,
                SleepReturns, TasksWaitReturns, Finish, Tick, Returned, vars, Iterate,
                SkipOther, RemoveFails, NameFails, CallPlain, CallCoroutine,
                WaitReturns, CallReturns
  <2>2. QED
    BY <1>1, <2>1 DEF SettledInv
<1>2. CASE phase \notin {"after", "done"}
  <2>1. SleepReturns \/ TasksWaitReturns
    BY <1>2 DEF Next, UserStep, OnShutdown, CreateTask, TaskEnds, CancelDelivered,
                CallExplicitly, Signal, RunnerStep, StartShutdown, CancelTasks,
                Finish, Tick, Returned, vars, Iterate,
                SkipOther, RemoveFails, NameFails, Raised, CallPlain, CallCoroutine,
                WaitReturns, CallReturns
  <2>2. CASE SleepReturns
    BY <1>2, <2>2 DEF SleepReturns
  <2>3. CASE TasksWaitReturns
    <3>1. /\ tasks' = tasks /\ phase = "waiting"
          /\ AllDone(tasks) \/ TimedOut(Main)
      BY <2>3 DEF TasksWaitReturns, TasksWaitOver
    <3>2. QED
      BY <3>1, TimeoutUsesUp
  <2>4. QED
    BY <2>1, <2>2, <2>3
<1>3. QED
  BY <1>1, <1>2

\* The invariant on settled tasks holds of every behaviour.
LEMMA SettledHolds == Spec => []SettledInv
<1>1. Init => SettledInv
  BY DEF Init, SettledInv
<1>2. TypeOK /\ BudgetInv /\ SettledInv /\ [Next]_vars => SettledInv'
  <2> SUFFICES ASSUME TypeOK, BudgetInv, SettledInv, [Next]_vars PROVE SettledInv'
    OBVIOUS
  <2> USE CallersDistinct
  <2>1. ASSUME phase # "running"
        PROVE  Elapsed >= Timeout => Elapsed' >= Timeout
    <3>1. Elapsed \in Int /\ Elapsed' \in Int /\ Elapsed' >= Elapsed
      BY <2>1, ElapsedGrows DEF TypeOK, Elapsed
    <3>2. QED
      BY <3>1, ConstantsAssumption
  <2>2. ASSUME NEW t \in mine', task'[t] # "done"
        PROVE  Elapsed' >= Timeout \/ (turn' # Main /\ t = call'[Main].cb)
    <3>1. CASE phase = "running"
      <4>1. mine = {} /\ turn # Main
        BY <3>1 DEF BudgetInv
      <4>2. mine' = mine
        BY <3>1, <4>1 DEF Next, UserStep, OnShutdown, CreateTask, TaskEnds,
                CancelDelivered, CallExplicitly, Signal, RunnerStep, StartShutdown,
                CancelTasks, SleepReturns, TasksWaitReturns, Finish, Tick, Returned, vars,
                Iterate, SkipOther, RemoveFails, NameFails, CallPlain, CallCoroutine,
                HasNext, WaitReturns, CallReturns
      <4>3. QED
        BY <2>2, <4>1, <4>2
    <3>2. CASE phase # "running"
      <4>1. \/ turn' # Main /\ t = call'[Main].cb
            \/ t \in mine /\ ~(turn # Main /\ t = call[Main].cb)
            \/ Elapsed >= Timeout
        BY <2>2, <3>2, MineStep
      <4>2. t \in mine => task[t] # "done"
        BY <2>2, DoneStays DEF TypeOK
      <4>3. QED
        BY <2>1, <3>2, <4>1, <4>2 DEF SettledInv
    <3>3. QED
      BY <3>1, <3>2
  <2>3. ASSUME phase' \in {"after", "done"}
        PROVE  AllDone(tasks)' \/ Elapsed' >= Timeout
    <3>1. phase # "running" /\ tasks' = tasks /\ (AllDone(tasks) \/ Elapsed >= Timeout)
      BY <2>3, TasksStep
    <3>2. AllDone(tasks) => AllDone(tasks)'
      BY <3>1, DoneStays DEF AllDone, TypeOK
    <3>3. QED
      BY <2>1, <3>1, <3>2
  <2>4. QED
    BY <2>2, <2>3 DEF SettledInv
<1>3. QED
  BY <1>1, <1>2, TypeCorrect, BudgetHolds, PTL DEF Spec

\* A shutdown reported as completed left no task it knew of unfinished.
THEOREM CompletedIsSettled == Spec => []CompletedMeansSettled
<1>1. TypeOK /\ BudgetInv /\ SettledInv => CompletedMeansSettled
  <2> SUFFICES ASSUME TypeOK, BudgetInv, SettledInv, report = "completed",
                      NEW t \in tasks \cup mine
               PROVE  task[t] = "done"
    BY DEF CompletedMeansSettled
  <2>1. phase = "done" /\ Elapsed < Timeout
    BY DEF BudgetInv
  <2>2. ~(Elapsed >= Timeout)
    BY <2>1, ConstantsAssumption DEF Elapsed, TypeOK
  <2>3. t \in Tid /\ call[Main].cb = NoTask
    BY <2>1 DEF BudgetInv, TypeOK
  <2>4. QED
    BY <2>1, <2>2, <2>3, ConstantsAssumption DEF SettledInv, AllDone
<1>2. QED
  BY <1>1, TypeCorrect, BudgetHolds, SettledHolds, PTL

\* The after-callbacks are never called while a cancelled task could still use
\* what they close, unless the total is used up.
THEOREM AfterCallbacksAreLast == Spec => []AfterCallbacksLast
<1>1. SettledInv => AfterCallbacksLast
  BY DEF SettledInv, AfterCallbacksLast
<1>2. QED
  BY <1>1, SettledHolds, PTL

-----------------------------------------------------------------------------
(* What becomes of the registered callbacks.                               *)

\* How often a list holds an entry: `on_shutdown()' appends, `remove()' takes out, [::-1]
\* reverses, and the loop goes on to the tail.
LEMMA OccurrencesAre ==
  ASSUME NEW s \in Seq(Entry), NEW e \in Entry
  PROVE  /\ Occurrences(s, e) = Count(s, {e}) /\ Occurrences(s, e) \in Nat
         /\ Occurrences(Reverse(s), e) = Occurrences(s, e)
         /\ s = <<>> => Occurrences(s, e) = 0
<1>1. Occurrences(s, e) = Count(s, {e})
  <2>1. {i \in DOMAIN s : s[i] = e} = {i \in DOMAIN s : s[i] \in {e}}
    OBVIOUS
  <2>2. QED
    BY <2>1 DEF Occurrences, Count
<1>2. Occurrences(Reverse(s), e) = Count(Reverse(s), {e})
  <2>1. {i \in DOMAIN Reverse(s) : Reverse(s)[i] = e} = {i \in DOMAIN Reverse(s) : Reverse(s)[i] \in {e}}
    OBVIOUS
  <2>2. QED
    BY <2>1 DEF Occurrences, Count
<1>3. Count(s, {e}) \in Nat /\ Count(Reverse(s), {e}) = Count(s, {e})
  BY CountType, CountReverse
<1>4. s = <<>> => Occurrences(s, e) = 0
  <2>1. s = <<>> => {i \in DOMAIN s : s[i] = e} = {}
    OBVIOUS
  <2>2. QED
    BY <2>1, FS_EmptySet DEF Occurrences
<1>5. QED
  BY <1>1, <1>2, <1>3, <1>4

LEMMA OneMore ==
  ASSUME NEW s \in Seq(Entry), NEW d \in Entry, NEW e \in Entry
  PROVE  Occurrences(Append(s, d), e) = Occurrences(s, e) + (IF d = e THEN 1 ELSE 0)
<1>1. Append(s, d) \in Seq(Entry)
  OBVIOUS
<1>2. Count(Append(s, d), {e}) = Count(s, {e}) + (IF d \in {e} THEN 1 ELSE 0)
  BY CountAppend
<1>3. QED
  BY <1>1, <1>2, OccurrencesAre

LEMMA OneLess ==
  ASSUME NEW s \in Seq(Entry), NEW e \in Entry
  PROVE  /\ s # <<>> => Occurrences(Tail(s), e) = Occurrences(s, e) - (IF Head(s) = e THEN 1 ELSE 0)
         /\ \A d \in ToSet(s) :
              Occurrences(RemoveFirst(s, d), e) = Occurrences(s, e) - (IF d = e THEN 1 ELSE 0)
<1>1. ASSUME s # <<>>
      PROVE  Occurrences(Tail(s), e) = Occurrences(s, e) - (IF Head(s) = e THEN 1 ELSE 0)
  <2>1. Tail(s) \in Seq(Entry)
    BY <1>1
  <2>2. Count(Tail(s), {e}) = Count(s, {e}) - (IF Head(s) \in {e} THEN 1 ELSE 0)
    BY <1>1, CountTail
  <2>3. QED
    BY <2>1, <2>2, OccurrencesAre
<1>2. ASSUME NEW d \in ToSet(s)
      PROVE  Occurrences(RemoveFirst(s, d), e) = Occurrences(s, e) - (IF d = e THEN 1 ELSE 0)
  <2>1. RemoveFirst(s, d) \in Seq(Entry)
    BY RemoveFirstIs
  <2>2. Count(RemoveFirst(s, d), {e}) = Count(s, {e}) - (IF d \in {e} THEN 1 ELSE 0)
    BY CountRemove
  <2>3. QED
    BY <2>1, <2>2, OccurrencesAre
<1>3. QED
  BY <1>1, <1>2

LEMMA TakenCounts ==
  ASSUME TypeOK, NEW d \in Entry, Taken(d)
  PROVE  \A e \in Entry :
           /\ Occurrences(registry', e) = Occurrences(registry, e) - (IF d = e THEN 1 ELSE 0)
           /\ invoked'[e] = invoked[e] + (IF d = e THEN 1 ELSE 0)
<1>1. registry \in Seq(Entry) /\ invoked \in [Entry -> Nat]
  BY DEF TypeOK
<1>2. d \in ToSet(registry) /\ registry' = RemoveFirst(registry, d)
      /\ invoked' = [invoked EXCEPT ![d] = @ + 1]
  BY DEF Taken, ToSet
<1>3. QED
  BY <1>1, <1>2, OneLess

\* A step registers a callback, calls one of the list, or leaves the list alone.
LEMMA RegistryStep ==
  ASSUME TypeOK, [Next]_vars
  PROVE  \/ UNCHANGED <<registry, invoked, registered, late>>
         \/ \E t \in Tid, e \in Entry : OnShutdown(t, e)
         \/ \E e \in Entry : Taken(e) /\ UNCHANGED <<registered, late>>
<1> DEFINE Same == UNCHANGED <<registry, invoked, registered, late>>
           Takes == \E e \in Entry : Taken(e) /\ UNCHANGED <<registered, late>>
<1>1. CASE UserStep
  BY <1>1 DEF UserStep, CreateTask, TaskEnds, CancelDelivered, CallExplicitly
<1>2. CASE Signal \/ RunnerStep \/ Tick \/ UNCHANGED vars
  BY <1>2 DEF Signal, RunnerStep, StartShutdown, CancelTasks, SleepReturns, TasksWaitReturns, Finish, Tick, vars
<1>3. ASSUME NEW c \in Callers, Iterate(c) PROVE Same \/ Takes
  <2>1. ASSUME HasNext(c) PROVE NextEntry(c) \in Entry
    BY <2>1, AdvanceType DEF HasNext
  <2>2. CASE SkipOther(c) \/ RemoveFails(c)
    BY <2>2 DEF SkipOther, RemoveFails
  <2>3. CASE NameFails(c)
    BY <2>1, <2>3 DEF NameFails
  <2>4. CASE \E d \in 0 .. MaxBlocked : CallPlain(c, d)
    BY <2>1, <2>4 DEF CallPlain
  <2>5. CASE \E u \in Tid : CallCoroutine(c, u)
    BY <2>1, <2>5 DEF CallCoroutine
  <2>6. QED
    BY <1>3, <2>2, <2>3, <2>4, <2>5 DEF Iterate
<1>4. CASE \E c \in Callers : WaitReturns(c)
  BY <1>4 DEF WaitReturns
<1>5. CASE \E r \in Restarters : CallReturns(r)
  BY <1>5 DEF CallReturns
<1>6. QED
  BY <1>1, <1>2, <1>3, <1>4, <1>5 DEF Next, Returned

\* on_shutdown() and shutdown_coroutines() by whoever and in whatever order: a registration
\* is called once or is still in the list.
THEOREM CalledOnceEach == Spec => []CalledOnce
<1>1. Init => CalledOnce
  <2>1. SUFFICES ASSUME Init, NEW e \in Entry PROVE invoked[e] + Occurrences(registry, e) = registered[e]
    BY DEF CalledOnce
  <2>2. Occurrences(registry, e) = 0
    BY <2>1, OccurrencesAre, EmptySeq DEF Init
  <2>3. QED
    BY <2>1, <2>2 DEF Init
<1>2. TypeOK /\ CalledOnce /\ [Next]_vars => CalledOnce'
  <2>1. SUFFICES ASSUME TypeOK, CalledOnce, [Next]_vars, NEW e \in Entry
                 PROVE  invoked'[e] + Occurrences(registry', e) = registered'[e]
    BY DEF CalledOnce
  <2>2. /\ registry \in Seq(Entry) /\ registered \in [Entry -> Nat] /\ invoked \in [Entry -> Nat]
        /\ invoked[e] + Occurrences(registry, e) = registered[e]
        /\ Occurrences(registry, e) \in Nat
    BY <2>1, OccurrencesAre DEF TypeOK, CalledOnce
  <2>3. CASE UNCHANGED <<registry, invoked, registered, late>>
    BY <2>2, <2>3
  <2>4. ASSUME NEW t \in Tid, NEW d \in Entry, OnShutdown(t, d)
        PROVE  invoked'[e] + Occurrences(registry', e) = registered'[e]
    <3>1. /\ Occurrences(registry', e) = Occurrences(registry, e) + (IF d = e THEN 1 ELSE 0)
          /\ registered'[e] = registered[e] + (IF d = e THEN 1 ELSE 0) /\ invoked' = invoked
      BY <2>2, <2>4, OneMore DEF OnShutdown
    <3>2. invoked[e] \in Nat /\ registered[e] \in Nat
      BY <2>2
    <3>3. QED
      BY <2>2, <3>1, <3>2
  <2>5. ASSUME NEW d \in Entry, Taken(d), UNCHANGED <<registered, late>>
        PROVE  invoked'[e] + Occurrences(registry', e) = registered'[e]
    <3>1. /\ Occurrences(registry', e) = Occurrences(registry, e) - (IF d = e THEN 1 ELSE 0)
          /\ invoked'[e] = invoked[e] + (IF d = e THEN 1 ELSE 0)
      BY <2>1, <2>5, TakenCounts
    <3>2. invoked[e] \in Nat /\ registered[e] \in Nat
      BY <2>2
    <3>3. QED
      BY <2>2, <2>5, <3>1, <3>2
  <2>6. QED
    BY <2>1, <2>3, <2>4, <2>5, RegistryStep
<1>3. QED
  BY <1>1, <1>2, TypeCorrect, PTL DEF Spec

\* What of the list runner still has to call: no more than its snapshot holds and was
\* registered too late for it.
Served ==
  /\ phase = "before" => ~call[Main].after
  /\ phase = "after" => call[Main].after
  /\ \A e \in Entry :
       /\ SnapshotServed(e.after) => Occurrences(registry, e) <= late[e]
       /\ phase \in {"before", "after"} /\ call[Main].after = e.after =>
            Occurrences(registry, e) <= late[e] + Occurrences(call[Main].todo, e)

\* What is called or registered while runner's frame stays as it is.
LEMMA ServedOthers ==
  ASSUME TypeOK, Served, [Next]_vars, phase' = phase, call'[Main].after = call[Main].after,
         call'[Main].todo = call[Main].todo
  PROVE  Served'
<1>1. SUFFICES ASSUME NEW e \in Entry
               PROVE  /\ SnapshotServed(e.after) => Occurrences(registry', e) <= late'[e]
                      /\ phase \in {"before", "after"} /\ call[Main].after = e.after =>
                           Occurrences(registry', e) <= late'[e] + Occurrences(call[Main].todo, e)
  BY DEF Served, SnapshotServed
<1>2. /\ registry \in Seq(Entry) /\ late \in [Entry -> Nat] /\ call[Main].todo \in Seq(Entry)
      /\ late[e] \in Nat
  BY CallersDistinct DEF TypeOK, Frame
<1>3. Occurrences(registry, e) \in Nat /\ Occurrences(call[Main].todo, e) \in Nat
  BY <1>2, OccurrencesAre
<1>4. /\ SnapshotServed(e.after) => Occurrences(registry, e) <= late[e]
      /\ phase \in {"before", "after"} /\ call[Main].after = e.after =>
           Occurrences(registry, e) <= late[e] + Occurrences(call[Main].todo, e)
  BY DEF Served
<1>5. CASE UNCHANGED <<registry, invoked, registered, late>>
  BY <1>4, <1>5
<1>6. ASSUME NEW t \in Tid, NEW d \in Entry, OnShutdown(t, d)
      PROVE  /\ SnapshotServed(e.after) => Occurrences(registry', e) <= late'[e]
             /\ phase \in {"before", "after"} /\ call[Main].after = e.after =>
                  Occurrences(registry', e) <= late'[e] + Occurrences(call[Main].todo, e)
  <2>1. /\ Occurrences(registry', e) = Occurrences(registry, e) + (IF d = e THEN 1 ELSE 0)
        /\ late'[e] = late[e] + (IF d = e /\ SnapshotTaken(e.after) THEN 1 ELSE 0)
        /\ LoopRuns
    BY <1>2, <1>6, OneMore DEF OnShutdown, OwnCode
  <2>2. SnapshotServed(e.after) => SnapshotTaken(e.after)
    BY <2>1 DEF SnapshotServed, SnapshotTaken, LoopRuns, InShutdown
  <2>3. phase \in {"before", "after"} /\ call[Main].after = e.after => SnapshotTaken(e.after)
    BY DEF Served, SnapshotTaken, InShutdown
  <2>4. QED
    BY <1>2, <1>3, <1>4, <2>1, <2>2, <2>3
<1>7. ASSUME NEW d \in Entry, Taken(d), UNCHANGED <<registered, late>>
      PROVE  /\ SnapshotServed(e.after) => Occurrences(registry', e) <= late'[e]
             /\ phase \in {"before", "after"} /\ call[Main].after = e.after =>
                  Occurrences(registry', e) <= late'[e] + Occurrences(call[Main].todo, e)
  <2>1. Occurrences(registry', e) = Occurrences(registry, e) - (IF d = e THEN 1 ELSE 0)
    BY <1>7, TakenCounts
  <2>2. QED
    BY <1>2, <1>3, <1>4, <1>7, <2>1
<1>8. QED
  BY <1>5, <1>6, <1>7, RegistryStep

\* Runner goes on to the next entry of its snapshot: it is of the other kind, or is called.
LEMMA ServedNext ==
  ASSUME TypeOK, Served, phase' = phase, UNCHANGED late, call[Main].todo # <<>>,
         call'[Main].after = call[Main].after, call'[Main].todo = Tail(call[Main].todo),
         \/ NextEntry(Main).after # call[Main].after /\ UNCHANGED registry
         \/ Taken(NextEntry(Main))
  PROVE  Served'
<1>1. SUFFICES ASSUME NEW e \in Entry
               PROVE  /\ SnapshotServed(e.after) => Occurrences(registry', e) <= late[e]
                      /\ phase \in {"before", "after"} /\ call[Main].after = e.after =>
                           Occurrences(registry', e) <= late[e] + Occurrences(Tail(call[Main].todo), e)
  BY DEF Served, SnapshotServed
<1>2. /\ registry \in Seq(Entry) /\ call[Main].todo \in Seq(Entry) /\ late[e] \in Nat
      /\ NextEntry(Main) \in Entry /\ NextEntry(Main) = Head(call[Main].todo)
  BY CallersDistinct, AdvanceType DEF TypeOK, Frame, NextEntry
<1>3. Occurrences(registry, e) \in Nat /\ Occurrences(call[Main].todo, e) \in Nat
  BY <1>2, OccurrencesAre
<1>4. /\ SnapshotServed(e.after) => Occurrences(registry, e) <= late[e]
      /\ phase \in {"before", "after"} /\ call[Main].after = e.after =>
           Occurrences(registry, e) <= late[e] + Occurrences(call[Main].todo, e)
  BY DEF Served
<1>5. Occurrences(Tail(call[Main].todo), e)
        = Occurrences(call[Main].todo, e) - (IF NextEntry(Main) = e THEN 1 ELSE 0)
  BY <1>2, OneLess
<1>6. CASE NextEntry(Main).after # call[Main].after /\ UNCHANGED registry
  BY <1>2, <1>3, <1>4, <1>5, <1>6
<1>7. CASE Taken(NextEntry(Main))
  <2>1. Occurrences(registry', e) = Occurrences(registry, e) - (IF NextEntry(Main) = e THEN 1 ELSE 0)
    BY <1>2, <1>7, TakenCounts
  <2>2. QED
    BY <1>2, <1>3, <1>4, <1>5, <2>1
<1>8. QED
  BY <1>6, <1>7

\* A snapshot that is just made holds the whole list.
LEMMA ServedSnapshot ==
  ASSUME TypeOK, Served, NEW after \in BOOLEAN, NEW timeout \in Int, UNCHANGED <<registry, late>>,
         call' = [call EXCEPT ![Main] = NewFrame(after, timeout)],
         \/ ~after /\ phase' = "before"
         \/ after /\ phase' = "after" /\ phase \in {"yielded", "waiting"}
  PROVE  Served'
<1>1. call'[Main].after = after /\ call'[Main].todo = Reverse(registry)
  BY CallersDistinct DEF TypeOK, NewFrame, Frame0
<1>2. \A e \in Entry : SnapshotServed(e.after)' => SnapshotServed(e.after)
  BY DEF SnapshotServed
<1>3. \A e \in Entry : /\ Occurrences(Reverse(registry), e) = Occurrences(registry, e)
                       /\ Occurrences(registry, e) \in Nat /\ late[e] \in Nat
  BY OccurrencesAre DEF TypeOK
<1>4. QED
  BY <1>1, <1>2, <1>3 DEF Served

LEMMA ServedHolds == Spec => []Served
<1>1. Init => Served
  BY DEF Init, Served, SnapshotServed
<1>2. TypeOK /\ BudgetInv /\ Served /\ [Next]_vars => Served'
  <2> SUFFICES ASSUME TypeOK, BudgetInv, Served, [Next]_vars PROVE Served'
    OBVIOUS
  <2>1. call \in [Callers -> Frame] /\ Main \in Callers
    BY CallersDistinct DEF TypeOK
  <2>2. CASE UNCHANGED <<phase, call>>
    BY <2>2, ServedOthers
  <2>3. CASE UserStep
    <3>1. phase' = phase
      BY <2>3 DEF UserStep, OnShutdown, CreateTask, TaskEnds, CancelDelivered, CallExplicitly
    <3>2. call'[Main] = call[Main]
      <4>1. CASE UNCHANGED call
        BY <4>1
      <4>2. ASSUME NEW r \in Restarters, NEW f, call' = [call EXCEPT ![r] = f]
            PROVE  call'[Main] = call[Main]
        BY <4>2, OthersFrame
      <4>3. QED
        BY <2>3, <4>1, <4>2
           DEF UserStep, OnShutdown, CreateTask, TaskEnds, CancelDelivered, CallExplicitly
    <3>3. QED
      BY <3>1, <3>2, ServedOthers
  <2>4. CASE Signal \/ Tick \/ UNCHANGED vars
    BY <2>2, <2>4 DEF Signal, Tick, vars
  <2>5. CASE StartShutdown
    <3>1. Timeout \in Int
      BY ConstantsAssumption
    <3>2. QED
      BY <2>5, <3>1, ServedSnapshot DEF StartShutdown
  <2>6. CASE CancelTasks
    <3>1. call[Main].todo = <<>> /\ ~call[Main].after /\ phase = "before" /\ phase' = "yielded"
          /\ UNCHANGED <<registry, late>>
      BY <2>6 DEF CancelTasks, Served
    <3>2. ASSUME NEW e \in Entry, ~e.after PROVE Occurrences(registry, e) <= late[e]
      <4>1. /\ Occurrences(registry, e) <= late[e] + Occurrences(call[Main].todo, e)
            /\ call[Main].after = e.after
        BY <2>1, <3>1, <3>2 DEF Served, Entry, Frame
      <4>2. Occurrences(call[Main].todo, e) = 0 /\ late[e] \in Nat
        BY <3>1, OccurrencesAre, EmptySeq DEF TypeOK
      <4>3. Occurrences(registry, e) \in Nat
        BY OccurrencesAre DEF TypeOK
      <4>4. QED
        BY <4>1, <4>2, <4>3
    <3>3. QED
      BY <3>1, <3>2 DEF Served, SnapshotServed
  <2>7. CASE SleepReturns \/ TasksWaitReturns
    <3>1. CASE StartAfter
      <4>1. /\ phase \in {"yielded", "waiting"} /\ UNCHANGED <<registry, late>>
            /\ phase' = "after"
            /\ call' = [call EXCEPT ![Main] = NewFrame(TRUE, call[Main].timeout - Took(Main))]
        BY <2>1, <2>7, <3>1 DEF SleepReturns, TasksWaitReturns, TasksWaitOver, StartAfter
      <4>2. call[Main].timeout - Took(Main) \in Int
        <5>1. call[Main].timeout \in Int /\ Took(Main) \in Int
          BY <2>1, TookType DEF Frame
        <5>2. QED
          BY <5>1
      <4>3. QED
        BY <4>1, <4>2, ServedSnapshot
    <3>2. CASE ~StartAfter
      <4>1. phase = "yielded" /\ phase' = "waiting" /\ UNCHANGED <<registry, late>>
        BY <2>7, <3>2 DEF SleepReturns, TasksWaitReturns
      <4>2. QED
        BY <4>1 DEF Served, SnapshotServed
    <3>3. QED
      BY <3>1, <3>2
  <2>8. CASE Finish
    <3>1. call[Main].todo = <<>> /\ call[Main].after /\ phase = "after" /\ phase' = "done"
          /\ UNCHANGED <<registry, late>>
      BY <2>8 DEF Finish, Served
    <3>2. ASSUME NEW e \in Entry PROVE Occurrences(registry, e) <= late[e]
      <4>1. CASE ~e.after
        BY <3>1, <4>1 DEF Served, SnapshotServed
      <4>2. CASE e.after
        <5>1. Occurrences(registry, e) <= late[e] + Occurrences(call[Main].todo, e)
          BY <2>1, <3>1, <4>2 DEF Served, Entry, Frame
        <5>2. Occurrences(call[Main].todo, e) = 0 /\ late[e] \in Nat
          BY <3>1, OccurrencesAre, EmptySeq DEF TypeOK
        <5>3. Occurrences(registry, e) \in Nat
          BY OccurrencesAre DEF TypeOK
        <5>4. QED
          BY <5>1, <5>2, <5>3
      <4>3. QED
        BY <4>1, <4>2
    <3>3. QED
      BY <3>1, <3>2 DEF Served, SnapshotServed
  <2>9. ASSUME NEW c \in Restarters, Iterate(c) \/ WaitReturns(c) \/ CallReturns(c) PROVE Served'
    <3>1. c # Main /\ c \in Callers
      BY CallersDistinct DEF Callers
    <3>2. phase' = phase
      BY <2>9, <3>1 DEF Iterate, SkipOther, RemoveFails, NameFails, CallPlain, CallCoroutine, Raised,
                        WaitReturns, CallReturns
    <3>3. \E f : call' = [call EXCEPT ![c] = f]
      BY <2>9 DEF Iterate, SkipOther, RemoveFails, NameFails, CallPlain, CallCoroutine, Raised,
                  WaitReturns, CallReturns
    <3>4. call'[Main] = call[Main]
      BY <3>3, OthersFrame
    <3>5. QED
      BY <3>2, <3>4, ServedOthers
  <2>10. CASE WaitReturns(Main)
    <3>1. phase' = phase /\ call'[Main].after = call[Main].after /\ call'[Main].todo = call[Main].todo
      BY <2>1, <2>10 DEF WaitReturns, Frame
    <3>2. QED
      BY <3>1, ServedOthers
  <2>11. CASE Iterate(Main)
    <3>1. CASE RemoveFails(Main) \/ NameFails(Main)
      BY <3>1 DEF RemoveFails, NameFails, Raised, Served, SnapshotServed
    <3>2. CASE SkipOther(Main)
      <4>1. /\ phase' = phase /\ UNCHANGED <<late, registry>> /\ call[Main].todo # <<>>
            /\ NextEntry(Main).after # call[Main].after
            /\ call'[Main].after = call[Main].after /\ call'[Main].todo = Tail(call[Main].todo)
        BY <2>1, <3>2 DEF SkipOther, Advance, Frame
      <4>2. QED
        BY <4>1, ServedNext
    <3>3. CASE \E d \in 0 .. MaxBlocked : CallPlain(Main, d)
      <4>1. /\ phase' = phase /\ UNCHANGED late /\ call[Main].todo # <<>> /\ Taken(NextEntry(Main))
            /\ call'[Main].after = call[Main].after /\ call'[Main].todo = Tail(call[Main].todo)
        BY <2>1, <3>3 DEF CallPlain, HasNext, Advance, Frame
      <4>2. QED
        BY <4>1, ServedNext
    <3>4. CASE \E u \in Tid : CallCoroutine(Main, u)
      <4>1. /\ phase' = phase /\ UNCHANGED late /\ call[Main].todo # <<>> /\ Taken(NextEntry(Main))
            /\ call'[Main].after = call[Main].after /\ call'[Main].todo = Tail(call[Main].todo)
        BY <2>1, <3>4 DEF CallCoroutine, HasNext, Advance, Frame
      <4>2. QED
        BY <4>1, ServedNext
    <3>5. QED
      BY <2>11, <3>1, <3>2, <3>3, <3>4 DEF Iterate
  <2>12. QED
    BY <2>3, <2>4, <2>5, <2>6, <2>7, <2>8, <2>9, <2>10, <2>11 DEF Next, RunnerStep, Returned, Callers
<1>3. QED
  BY <1>1, <1>2, TypeCorrect, BudgetHolds, PTL DEF Spec

\* Whatever other callers take and whenever callbacks are registered, shutdown_coroutines()
\* as runner calls it leaves no callback of its snapshot behind.
THEOREM EveryCallbackIsCalled == Spec => []EveryCallbackCalled
<1>1. Served => EveryCallbackCalled
  BY DEF Served, EveryCallbackCalled
<1>2. QED
  BY <1>1, ServedHolds, PTL
=============================================================================
