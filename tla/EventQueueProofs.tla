-------------------------- MODULE EventQueueProofs --------------------------
(* Theorems about EventQueue, for all values of its constants. *)
EXTENDS EventQueue, SequencesExt, SequenceTheorems, FiniteSetTheorems, TLAPS

-----------------------------------------------------------------------------
(* Queues and lists of handlers: what they hold, and how often.            *)

\* A set of naturals that is not empty has a least element.
LEMMA LeastNat ==
  ASSUME NEW I \in SUBSET Nat, I # {}
  PROVE  Min(I) \in I /\ \A y \in I : Min(I) <= y
<1>1. PICK x \in I : \A y \in I : <<y, x>> \notin OpToRel(<, Nat)
  BY NatLessThanWellFounded, WFMin
<1>2. OpToRel(<, Nat) = {p \in Nat \X Nat : p[1] < p[2]}
  BY DEF OpToRel
<1>3. \A y \in I : ~(y < x)
  BY <1>1, <1>2
<1>4. \A y \in I : x =< y
  BY <1>3
<1>5. QED
  BY <1>4 DEF Min

\* Appending to a sequence adds one element to what it holds.
LEMMA AppendHolds ==
  ASSUME NEW S, NEW s \in Seq(S), NEW e \in S
  PROVE  /\ ToSet(Append(s, e)) = ToSet(s) \cup {e}
         /\ IsInjective(s) /\ e \notin ToSet(s) => IsInjective(Append(s, e))
<1>1. /\ Append(s, e) \in Seq(S) /\ Len(Append(s, e)) = Len(s) + 1 /\ Append(s, e)[Len(s) + 1] = e
      /\ \A i \in 1 .. Len(s) : Append(s, e)[i] = s[i]
      /\ Len(s) \in Nat
  BY AppendProperties
<1>2. DOMAIN s = 1 .. Len(s) /\ DOMAIN Append(s, e) = 1 .. Len(s) + 1
  BY <1>1
<1> DEFINE t == Append(s, e)
<1> HIDE DEF t
<1>3. ToSet(t) = ToSet(s) \cup {e}
  <2>1. \A x : x \in ToSet(t) => x \in ToSet(s) \cup {e}
    BY <1>1, <1>2 DEF ToSet, t
  <2>2. \A x : x \in ToSet(s) \cup {e} => x \in ToSet(t)
    BY <1>1, <1>2 DEF ToSet, t
  <2>3. QED
    BY <2>1, <2>2
<1>4. IsInjective(s) /\ e \notin ToSet(s) => IsInjective(t)
  BY <1>1, <1>2 DEF ToSet, IsInjective, t
<1>5. QED
  BY <1>3, <1>4 DEF t

\* The tail of a sequence holds what is not only its head.
LEMMA TailHolds ==
  ASSUME NEW S, NEW s \in Seq(S), s # <<>>
  PROVE  /\ ToSet(s) = {Head(s)} \cup ToSet(Tail(s))
         /\ IsInjective(s) => IsInjective(Tail(s)) /\ Head(s) \notin ToSet(Tail(s))
<1>1. /\ Tail(s) \in Seq(S) /\ Len(Tail(s)) = Len(s) - 1 /\ Len(s) \in Nat \ {0}
      /\ \A i \in 1 .. Len(s) - 1 : Tail(s)[i] = s[i + 1]
      /\ Head(s) = s[1]
  BY HeadTailProperties, EmptySeq
<1>2. DOMAIN s = 1 .. Len(s) /\ DOMAIN Tail(s) = 1 .. Len(s) - 1
  BY <1>1
<1> DEFINE t == Tail(s)
<1> HIDE DEF t
<1>3. ToSet(s) = {Head(s)} \cup ToSet(t)
  <2>1. \A x : x \in ToSet(t) => x \in ToSet(s)
    BY <1>1, <1>2 DEF ToSet, t
  <2>2. \A i \in DOMAIN s : s[i] = Head(s) \/ s[i] \in ToSet(t)
    <3>1. SUFFICES ASSUME NEW i \in DOMAIN s, i # 1 PROVE s[i] \in ToSet(t)
      BY <1>1
    <3>2. i - 1 \in DOMAIN t /\ t[i - 1] = s[i]
      BY <1>1, <1>2, <3>1 DEF t
    <3>3. QED
      BY <3>2 DEF ToSet
  <2>3. Head(s) \in ToSet(s)
    BY <1>1, <1>2 DEF ToSet
  <2>4. QED
    BY <2>1, <2>2, <2>3 DEF ToSet
<1>4. IsInjective(s) => IsInjective(t) /\ Head(s) \notin ToSet(t)
  BY <1>1, <1>2 DEF ToSet, IsInjective, t
<1>5. QED
  BY <1>3, <1>4 DEF t

\* A concatenation holds what its parts do.
LEMMA ConcatHolds ==
  ASSUME NEW S, NEW s \in Seq(S), NEW t \in Seq(S)
  PROVE  ToSet(s \o t) = ToSet(s) \cup ToSet(t)
<1>1. /\ s \o t \in Seq(S) /\ Len(s \o t) = Len(s) + Len(t) /\ Len(s) \in Nat /\ Len(t) \in Nat
      /\ \A i \in 1 .. Len(s) + Len(t) : (s \o t)[i] = IF i <= Len(s) THEN s[i] ELSE t[i - Len(s)]
  BY ConcatProperties
<1> DEFINE c == s \o t
<1>2. DOMAIN s = 1 .. Len(s) /\ DOMAIN t = 1 .. Len(t) /\ DOMAIN c = 1 .. Len(s) + Len(t)
  BY <1>1
<1> HIDE DEF c
<1>3. \A i \in DOMAIN s : i \in DOMAIN c /\ c[i] = s[i]
  BY <1>1, <1>2 DEF c
<1>4. \A i \in DOMAIN t : i + Len(s) \in DOMAIN c /\ c[i + Len(s)] = t[i]
  BY <1>1, <1>2 DEF c
<1>5. ASSUME NEW i \in DOMAIN c
      PROVE  \/ i \in DOMAIN s /\ c[i] = s[i]
             \/ i - Len(s) \in DOMAIN t /\ c[i] = t[i - Len(s)]
  <2>1. i \in 1 .. Len(s) + Len(t) /\ c[i] = IF i <= Len(s) THEN s[i] ELSE t[i - Len(s)]
    BY <1>1, <1>2 DEF c
  <2>2. CASE i <= Len(s)
    BY <1>1, <1>2, <2>1, <2>2
  <2>3. CASE ~(i <= Len(s))
    BY <1>1, <1>2, <2>1, <2>3
  <2>4. QED
    BY <2>2, <2>3
<1>6. ToSet(c) = ToSet(s) \cup ToSet(t)
  BY <1>3, <1>4, <1>5 DEF ToSet
<1>7. QED
  BY <1>6 DEF c

\* `list.remove()' takes one position out of the list.
Skip(I, k) == IF k < I THEN k ELSE k + 1

LEMMA RemoveFirstIs ==
  ASSUME NEW S, NEW s \in Seq(S), NEW e \in ToSet(s)
  PROVE  /\ RemoveFirst(s, e) \in Seq(S) /\ DOMAIN RemoveFirst(s, e) = 1 .. Len(s) - 1
         /\ \E I \in 1 .. Len(s) :
              /\ s[I] = e
              /\ \A k \in 1 .. Len(s) - 1 : RemoveFirst(s, e)[k] = s[Skip(I, k)]
<1> DEFINE J == {i \in 1 .. Len(s) : s[i] = e}
           I == SelectInSeq(s, LAMBDA v : v = e)
           a == SubSeq(s, 1, I - 1)
           b == SubSeq(s, I + 1, Len(s))
<1>0. DOMAIN s = 1 .. Len(s) /\ Len(s) \in Nat /\ \E i \in 1 .. Len(s) : s[i] = e
  BY DEF ToSet
<1>1. RemoveFirst(s, e) = a \o b
  BY <1>0 DEF RemoveFirst, RemoveAt
<1>2. J \in SUBSET Nat /\ J # {}
  BY <1>0
<1>3. Min(J) \in J
  BY <1>2, LeastNat
<1>4. I = Min(J)
  BY <1>2 DEF SelectInSeq
<1>5. I \in 1 .. Len(s) /\ s[I] = e
  BY <1>3, <1>4
<1> HIDE DEF I, J
<1>6. /\ a \in Seq(S) /\ Len(a) = I - 1
      /\ \A i \in 1 .. I - 1 : a[i] = s[i]
  <2>1. \A i \in 1 .. I - 1 : s[i] \in S
    BY <1>0, <1>5
  <2>2. /\ a \in Seq(S) /\ Len(a) = (IF 1 <= I - 1 THEN (I - 1) - 1 + 1 ELSE 0)
        /\ \A i \in 1 .. (I - 1) - 1 + 1 : a[i] = s[1 + i - 1]
    BY <1>0, <1>5, <2>1, SubSeqProperties
  <2> HIDE DEF a
  <2>3. QED
    BY <1>5, <2>2
<1>7. /\ b \in Seq(S) /\ Len(b) = Len(s) - I
      /\ \A i \in 1 .. Len(s) - I : b[i] = s[I + i]
  <2>1. \A i \in I + 1 .. Len(s) : s[i] \in S
    BY <1>0, <1>5
  <2>2. /\ b \in Seq(S) /\ Len(b) = (IF I + 1 <= Len(s) THEN Len(s) - (I + 1) + 1 ELSE 0)
        /\ \A i \in 1 .. Len(s) - (I + 1) + 1 : b[i] = s[(I + 1) + i - 1]
    BY <1>0, <1>5, <2>1, SubSeqProperties
  <2> HIDE DEF b
  <2>3. /\ Len(s) - (I + 1) + 1 = Len(s) - I
        /\ \A i \in 1 .. Len(s) - I : (I + 1) + i - 1 = I + i
    BY <1>0, <1>5
  <2>4. Len(b) = Len(s) - I
    <3>1. CASE I + 1 <= Len(s)
      BY <2>2, <2>3, <3>1
    <3>2. CASE ~(I + 1 <= Len(s))
      <4>0. I \in Int /\ Len(s) \in Int /\ I <= Len(s)
        BY <1>0, <1>5
      <4>1. I = Len(s)
        BY <3>2, <4>0
      <4>2. Len(b) = 0
        BY <2>2, <3>2
      <4>3. QED
        BY <1>0, <4>1, <4>2
    <3>3. QED
      BY <3>1, <3>2
  <2>5. QED
    BY <2>2, <2>3, <2>4
<1> HIDE DEF a, b
<1> DEFINE r == a \o b
<1>8. /\ r \in Seq(S) /\ Len(r) = Len(s) - 1
      /\ \A k \in 1 .. Len(s) - 1 : r[k] = s[Skip(I, k)]
  <2>1. /\ r \in Seq(S) /\ Len(r) = Len(a) + Len(b)
        /\ \A k \in 1 .. Len(a) + Len(b) : r[k] = IF k <= Len(a) THEN a[k] ELSE b[k - Len(a)]
    BY <1>6, <1>7, ConcatProperties
  <2> HIDE DEF r
  <2>2. Len(r) = Len(s) - 1 /\ Len(a) = I - 1 /\ Len(a) + Len(b) = Len(s) - 1
    BY <1>0, <1>5, <1>6, <1>7, <2>1
  <2>3. ASSUME NEW k \in 1 .. Len(s) - 1 PROVE r[k] = s[Skip(I, k)]
    <3>1. CASE k < I
      BY <1>0, <1>5, <1>6, <2>1, <2>2, <3>1 DEF Skip
    <3>2. CASE ~(k < I)
      <4>1. k - (I - 1) \in 1 .. Len(s) - I /\ I + (k - (I - 1)) = k + 1 /\ ~(k <= I - 1)
        BY <1>0, <1>5, <3>2
      <4>2. r[k] = b[k - (I - 1)]
        BY <2>1, <2>2, <4>1
      <4>3. QED
        BY <1>7, <3>2, <4>1, <4>2 DEF Skip
    <3>3. QED
      BY <3>1, <3>2
  <2>4. QED
    BY <2>1, <2>2, <2>3
<1>9. DOMAIN r = 1 .. Len(s) - 1
  BY <1>8, LenProperties
<1>10. QED
  BY <1>1, <1>5, <1>8, <1>9

\* `list.remove()' of what a list without duplicates holds leaves the rest, without duplicates.
LEMMA RemoveFirstHolds ==
  ASSUME NEW S, NEW s \in Seq(S), IsInjective(s), NEW e \in ToSet(s)
  PROVE  /\ RemoveFirst(s, e) \in Seq(S)
         /\ ToSet(RemoveFirst(s, e)) = ToSet(s) \ {e}
         /\ IsInjective(RemoveFirst(s, e))
<1> DEFINE r == RemoveFirst(s, e)
<1>1. PICK I \in 1 .. Len(s) : s[I] = e /\ \A k \in 1 .. Len(s) - 1 : r[k] = s[Skip(I, k)]
  BY RemoveFirstIs
<1> DEFINE at(k) == Skip(I, k)
<1>2. r \in Seq(S) /\ \A k \in 1 .. Len(s) - 1 : r[k] = s[at(k)]
  BY <1>1, RemoveFirstIs
<1>3. DOMAIN r = 1 .. Len(s) - 1
  BY RemoveFirstIs
<1>4. DOMAIN s = 1 .. Len(s) /\ Len(s) \in Nat
  OBVIOUS
<1>5. I \in 1 .. Len(s) /\ s[I] = e
  BY <1>1
<1> HIDE DEF r
<1>6. \A k \in DOMAIN r : at(k) \in DOMAIN s /\ at(k) # I /\ r[k] = s[at(k)]
  BY <1>4, <1>5, <1>2, <1>3 DEF Skip
<1>7. \A i \in DOMAIN s : i # I => \E k \in DOMAIN r : i = at(k)
  <2> SUFFICES ASSUME NEW i \in DOMAIN s, i # I PROVE \E k \in DOMAIN r : i = at(k)
    OBVIOUS
  <2>1. CASE i < I
    BY <1>4, <1>5, <1>3, <2>1 DEF Skip
  <2>2. CASE i > I
    <3>1. i - 1 \in DOMAIN r /\ i = at(i - 1)
      BY <1>4, <1>5, <1>3, <2>2 DEF Skip
    <3>2. QED
      BY <3>1
  <2>3. QED
    BY <1>4, <1>5, <2>1, <2>2
<1>8. \A k, l \in DOMAIN r : at(k) = at(l) => k = l
  BY <1>4, <1>5, <1>3 DEF Skip
<1> HIDE DEF at
<1>9. ToSet(r) = ToSet(s) \ {e}
  <2>1. \A x : x \in ToSet(r) => x \in ToSet(s) \ {e}
    BY <1>4, <1>5, <1>6 DEF ToSet, IsInjective
  <2>2. \A i \in DOMAIN s : s[i] # e => s[i] \in ToSet(r)
    BY <1>5, <1>6, <1>7 DEF ToSet
  <2>3. QED
    BY <2>1, <2>2 DEF ToSet
<1>10. IsInjective(r)
  BY <1>6, <1>8 DEF IsInjective
<1>11. QED
  BY <1>2, <1>9, <1>10 DEF r

Count(q, P) == Cardinality({i \in DOMAIN q : q[i] \in P})

\* A count is a number, at most the length.
LEMMA CountType ==
  ASSUME NEW S, NEW q \in Seq(S), NEW P
  PROVE  /\ IsFiniteSet({i \in DOMAIN q : q[i] \in P}) /\ Count(q, P) \in Nat
         /\ (\E i \in DOMAIN q : q[i] \in P) => Count(q, P) > 0
<1>1. IsFiniteSet(1 .. Len(q)) /\ DOMAIN q = 1 .. Len(q)
  BY FS_Interval, LenProperties
<1> DEFINE I == {i \in DOMAIN q : q[i] \in P}
<1>2. IsFiniteSet(I)
  BY <1>1, FS_Subset
<1> HIDE DEF I
<1>3. Cardinality(I) \in Nat /\ (I # {} => Cardinality(I) > 0)
  BY <1>2, FS_CardinalityType, FS_EmptySet
<1>4. QED
  BY <1>2, <1>3 DEF Count, I

\* `queue.put_nowait()' counts one more of what it puts.
LEMMA CountAppend ==
  ASSUME NEW S, NEW q \in Seq(S), NEW e \in S, NEW P
  PROVE  Count(Append(q, e), P) = Count(q, P) + (IF e \in P THEN 1 ELSE 0)
<1>1. /\ DOMAIN q = 1 .. Len(q) /\ DOMAIN Append(q, e) = 1 .. Len(q) + 1 /\ Len(q) \in Nat
      /\ Append(q, e)[Len(q) + 1] = e
      /\ \A i \in 1 .. Len(q) : Append(q, e)[i] = q[i]
  BY AppendProperties
<1> DEFINE I == {i \in DOMAIN q : q[i] \in P}
           J == {i \in DOMAIN Append(q, e) : Append(q, e)[i] \in P}
<1>2. IsFiniteSet(I) /\ Cardinality(I) \in Nat
  BY CountType DEF Count
<1>3. J = IF e \in P THEN I \cup {Len(q) + 1} ELSE I
  BY <1>1
<1>4. Len(q) + 1 \notin I
  BY <1>1
<1> HIDE DEF I, J
<1>5. Cardinality(I \cup {Len(q) + 1}) = Cardinality(I) + 1
  BY <1>2, <1>4, FS_AddElement
<1>6. Cardinality(J) = Cardinality(I) + (IF e \in P THEN 1 ELSE 0)
  BY <1>2, <1>3, <1>5
<1>7. QED
  BY <1>6 DEF Count, I, J

\* Of two sets of positions that are shifted copies of each other one is as large as the other.
LEMMA Shifted ==
  ASSUME NEW I \in SUBSET Int, NEW J \in SUBSET Int, NEW d \in Int, IsFiniteSet(I),
         \A i \in I : i + d \in J, \A j \in J : j - d \in I
  PROVE  IsFiniteSet(J) /\ Cardinality(J) = Cardinality(I)
<1> DEFINE f == [i \in I |-> i + d]
<1>1. f \in Bijection(I, J)
  <2>1. f \in [I -> J] /\ IsInjective(f)
    BY DEF IsInjective
  <2>2. \A j \in J : \E i \in I : f[i] = j
    <3> SUFFICES ASSUME NEW j \in J PROVE \E i \in I : f[i] = j
      OBVIOUS
    <3>1. j - d \in I /\ f[j - d] = j
      OBVIOUS
    <3>2. QED
      BY <3>1
  <2>3. QED
    BY <2>1, <2>2 DEF Bijection, Injection, Surjection
<1>2. ExistsBijection(I, J)
  BY <1>1 DEF ExistsBijection
<1>3. QED
  BY <1>2, FS_Bijection

\* `queue.get()' counts one less of what it gets.
LEMMA CountTail ==
  ASSUME NEW S, NEW q \in Seq(S), q # <<>>, NEW P
  PROVE  Count(Tail(q), P) = Count(q, P) - (IF Head(q) \in P THEN 1 ELSE 0)
<1>1. /\ Tail(q) \in Seq(S) /\ Len(q) \in Nat \ {0} /\ Head(q) = q[1]
      /\ DOMAIN q = 1 .. Len(q) /\ DOMAIN Tail(q) = 1 .. Len(q) - 1
      /\ \A i \in 1 .. Len(q) - 1 : Tail(q)[i] = q[i + 1]
  BY HeadTailProperties, EmptySeq
<1> DEFINE I == {i \in DOMAIN q : q[i] \in P}
           J == {i \in DOMAIN Tail(q) : Tail(q)[i] \in P}
<1>2. IsFiniteSet(I) /\ IsFiniteSet(J)
  BY <1>1, CountType
<1>3. IsFiniteSet(I \ {1}) /\ Cardinality(I \ {1}) = Cardinality(I) - (IF Head(q) \in P THEN 1 ELSE 0)
  <2>1. 1 \in I <=> Head(q) \in P
    BY <1>1
  <2>2. IsFiniteSet(I)
    BY <1>2
  <2> HIDE DEF I
  <2>3. IsFiniteSet(I \ {1}) /\ Cardinality(I \ {1}) = IF 1 \in I THEN Cardinality(I) - 1 ELSE Cardinality(I)
    BY <2>2, FS_RemoveElement
  <2>4. Cardinality(I) \in Nat
    BY <2>2, FS_CardinalityType
  <2>5. QED
    BY <2>1, <2>3, <2>4
<1> DEFINE d == -1
<1>4. /\ I \ {1} \in SUBSET Int /\ J \in SUBSET Int /\ d \in Int
      /\ \A i \in I \ {1} : i + d \in J
      /\ \A j \in J : j - d \in I \ {1}
  BY <1>1
<1> HIDE DEF d
<1> HIDE DEF I, J
<1>5. Cardinality(J) = Cardinality(I \ {1})
  BY <1>3, <1>4, Shifted
<1>6. QED
  BY <1>3, <1>5 DEF Count, I, J

\* What only one part of a concatenation holds is counted there.
LEMMA CountConcat ==
  ASSUME NEW S, NEW q \in Seq(S), NEW r \in Seq(S), NEW P
  PROVE  /\ (\A i \in DOMAIN r : r[i] \notin P) => Count(q \o r, P) = Count(q, P)
         /\ (\A i \in DOMAIN q : q[i] \notin P) => Count(q \o r, P) = Count(r, P)
<1> DEFINE c == q \o r
<1>1. /\ c \in Seq(S) /\ Len(q) \in Nat /\ Len(r) \in Nat
      /\ DOMAIN q = 1 .. Len(q) /\ DOMAIN r = 1 .. Len(r) /\ DOMAIN c = 1 .. Len(q) + Len(r)
      /\ \A i \in 1 .. Len(q) : c[i] = q[i]
      /\ \A i \in 1 .. Len(r) : c[i + Len(q)] = r[i]
      /\ \A i \in DOMAIN c : i \in 1 .. Len(q) \/ i - Len(q) \in 1 .. Len(r)
  BY ConcatProperties
<1> HIDE DEF c
<1> DEFINE I == {i \in DOMAIN q : q[i] \in P}
           J == {i \in DOMAIN r : r[i] \in P}
           K == {i \in DOMAIN c : c[i] \in P}
<1>2. IsFiniteSet(J)
  BY CountType
<1>3. (\A i \in DOMAIN r : r[i] \notin P) => K = I
  <2> SUFFICES ASSUME \A i \in DOMAIN r : r[i] \notin P PROVE K = I
    OBVIOUS
  <2>1. I \subseteq K
    BY <1>1
  <2>2. \A i \in K : i \in I
    <3> SUFFICES ASSUME NEW i \in K, i \notin 1 .. Len(q) PROVE FALSE
      BY <1>1
    <3>1. i - Len(q) \in 1 .. Len(r) /\ c[(i - Len(q)) + Len(q)] = r[i - Len(q)]
      BY <1>1
    <3>2. (i - Len(q)) + Len(q) = i
      BY <1>1
    <3>3. QED
      BY <1>1, <3>1, <3>2
  <2>3. QED
    BY <2>1, <2>2
<1>4. (\A i \in DOMAIN q : q[i] \notin P) => Cardinality(K) = Cardinality(J)
  <2> SUFFICES ASSUME \A i \in DOMAIN q : q[i] \notin P PROVE Cardinality(K) = Cardinality(J)
    OBVIOUS
  <2>1. J \in SUBSET Int /\ K \in SUBSET Int /\ Len(q) \in Int
    BY <1>1
  <2>2. \A i \in J : i + Len(q) \in K
    BY <1>1
  <2>3. \A i \in K : i - Len(q) \in J
    <3> SUFFICES ASSUME NEW i \in K PROVE i - Len(q) \in J
      OBVIOUS
    <3>1. i - Len(q) \in 1 .. Len(r)
      BY <1>1
    <3>2. c[(i - Len(q)) + Len(q)] = r[i - Len(q)] /\ (i - Len(q)) + Len(q) = i
      BY <1>1, <3>1
    <3>3. QED
      BY <1>1, <3>1, <3>2
  <2> HIDE DEF J, K
  <2>4. QED
    BY <1>2, <2>1, <2>2, <2>3, Shifted
<1>5. QED
  BY <1>3, <1>4 DEF Count, c

\* What a queue holds only of one kind is counted by its length.
LEMMA CountAll ==
  ASSUME NEW S, NEW q \in Seq(S), NEW P, \A i \in DOMAIN q : q[i] \in P
  PROVE  Count(q, P) = Len(q)
<1>1. {i \in DOMAIN q : q[i] \in P} = 1 .. Len(q)
  OBVIOUS
<1>2. Len(q) \in Nat
  OBVIOUS
<1>3. Cardinality(1 .. Len(q)) = Len(q)
  BY <1>2, FS_Interval
<1>4. QED
  BY <1>1, <1>3 DEF Count

(***************************************************************************)
(* The inductive invariant of the counts: what the worker is at, where the *)
(* messages of a subscription wait before and after EventQueue.add(), and  *)
(* who has the lock.                                                       *)
(***************************************************************************)
WorkerShape == /\ current # <<>> => todo # <<>>
               /\ conn = "down" => current = <<>>

OwnQueues == \A s \in Sid :
               /\ s \notin swapped => handlers[s] = <<>> /\ s \notin routed /\ pending[s] = Len(own[s])
               /\ s \in swapped => own[s] = <<>>
               /\ s > sids => s \notin swapped /\ s \notin active /\ own[s] = <<>>
               /\ \A i \in DOMAIN own[s] : own[s][i].sid = s

SharedQueue == \A i \in DOMAIN queue : queue[i].sid \in swapped

Entries == \A k \in Key : subscriptions[k] # 0 => subscriptions[k] \in swapped

Locks == \A u \in User :
           /\ user[u].op \in {"subscribing", "flush", "unsubscribing"} => lock = u
           /\ user[u].op = "subscribing" => user[u].sid \in Sid \ swapped /\ user[u].sid <= sids
           /\ user[u].op \in {"subscribe", "subscribing", "unsubscribe"}
                => user[u].key \in Key /\ user[u].handler \in Handler

\* The messages of subscription s.
Of(s) == {m \in Msg : m.sid = s}

\* CountsRight in terms of the lemmas about sequences.
Counts == /\ unfinished = Len(queue) + Len(current)
          /\ \A s \in routed : pending[s] = Count(queue, Of(s))

Inv == TypeOK /\ WorkerShape /\ OwnQueues /\ SharedQueue /\ Entries /\ Locks /\ Counts

\* What a user task is doing.
UserState == [op : {"idle", "subscribe", "subscribing", "flush", "unsubscribe", "unsubscribing"},
              key : Key \cup {None}, handler : Handler \cup {None}, sid : 0 .. MaxSid]

-----------------------------------------------------------------------------
(* What the operators of EventQueue do.                                    *)

\* on_message() goes on with the first handler that wants the message, or there is none.
LEMMA CallNextCases ==
  ASSUME NEW m \in Msg, NEW hs \in Seq(Handler), CallNext(m, hs)
  PROVE  \/ /\ \A i \in DOMAIN hs : ~Wants(hs[i], m.id)
            /\ current' = <<>> /\ todo' = <<>> /\ unfinished' = unfinished - 1
            /\ UNCHANGED <<calls, owed>>
         \/ \E i \in DOMAIN hs :
              /\ Wants(hs[i], m.id) /\ \A j \in 1 .. i - 1 : ~Wants(hs[j], m.id)
              /\ current' = <<m>> /\ todo' = SubSeq(hs, i, Len(hs))
              /\ calls' = Append(calls, <<m.id, hs[i]>>) /\ owed' = owed \ {<<m, hs[i]>>}
              /\ UNCHANGED unfinished
<1> DEFINE J == {i \in 1 .. Len(hs) : Wants(hs[i], m.id)}
           I == SelectInSeq(hs, LAMBDA h : Wants(h, m.id))
<1>1. DOMAIN hs = 1 .. Len(hs) /\ Len(hs) \in Nat
  OBVIOUS
<1>2. CASE J = {}
  <2>1. I = 0
    BY <1>2 DEF SelectInSeq
  <2>2. \A i \in DOMAIN hs : ~Wants(hs[i], m.id)
    BY <1>1, <1>2
  <2>3. QED
    BY <2>1, <2>2 DEF CallNext
<1>3. CASE J # {}
  <2>1. I = Min(J)
    BY <1>3 DEF SelectInSeq
  <2>2. J \in SUBSET Nat
    BY <1>1
  <2>3. Min(J) \in J
    BY <1>3, <2>2, LeastNat
  <2>4. \A y \in J : Min(J) <= y
    BY <1>3, <2>2, LeastNat
  <2>5. I \in DOMAIN hs /\ Wants(hs[I], m.id) /\ I # 0
    BY <1>1, <2>1, <2>3
  <2>6. \A j \in 1 .. I - 1 : ~Wants(hs[j], m.id)
    <3> SUFFICES ASSUME NEW j \in 1 .. I - 1, Wants(hs[j], m.id) PROVE FALSE
      OBVIOUS
    <3>1. j \in J
      BY <1>1, <2>5
    <3>2. I <= j /\ I \in Int
      BY <1>1, <2>1, <2>4, <2>5, <3>1
    <3>3. QED
      BY <3>2
  <2>7. /\ current' = <<m>> /\ todo' = SubSeq(hs, I, Len(hs))
        /\ calls' = Append(calls, <<m.id, hs[I]>>) /\ owed' = owed \ {<<m, hs[I]>>}
        /\ UNCHANGED unfinished
    BY <2>5 DEF CallNext
  <2> HIDE DEF I
  <2>8. QED
    BY <2>5, <2>6, <2>7
<1>4. QED
  BY <1>2, <1>3

\* The rest of a snapshot is a list of handlers that begins with the one that runs.
LEMMA SnapshotRest ==
  ASSUME NEW hs \in Seq(Handler), NEW i \in DOMAIN hs
  PROVE  /\ SubSeq(hs, i, Len(hs)) \in Seq(Handler)
         /\ SubSeq(hs, i, Len(hs)) # <<>>
         /\ Tail(SubSeq(hs, i, Len(hs))) = SubSeq(hs, i + 1, Len(hs))
         /\ DOMAIN SubSeq(hs, i + 1, Len(hs)) = 1 .. Len(hs) - i
         /\ \A j \in 1 .. Len(hs) - i : SubSeq(hs, i + 1, Len(hs))[j] = hs[i + j]
<1>1. Len(hs) \in Nat /\ i \in 1 .. Len(hs) /\ \A j \in 1 .. Len(hs) : hs[j] \in Handler
  OBVIOUS
<1>2. \A j \in i .. Len(hs) : hs[j] \in Handler
  BY <1>1
<1> DEFINE a == SubSeq(hs, i, Len(hs))
           b == SubSeq(hs, i + 1, Len(hs))
<1>3. a \in Seq(Handler) /\ Len(a) = IF i <= Len(hs) THEN Len(hs) - i + 1 ELSE 0
  BY <1>1, <1>2, SubSeqProperties
<1>4. a # <<>>
  <2>1. i \in Int /\ Len(hs) \in Int /\ i <= Len(hs)
    BY <1>1
  <2> HIDE DEF a
  <2>2. Len(a) # 0
    BY <1>3, <2>1
  <2>3. QED
    BY <2>2, EmptySeq
<1>5. Tail(a) = b
  <2>1. Len(hs) \in i .. Len(hs) /\ hs \in Seq(Handler) /\ i \in 1 .. Len(hs)
    BY <1>1
  <2>2. QED
    BY <2>1, HeadTailOfSubSeq
<1>6. /\ b \in Seq(Handler) /\ Len(b) = (IF i + 1 <= Len(hs) THEN Len(hs) - (i + 1) + 1 ELSE 0)
      /\ \A j \in 1 .. Len(hs) - (i + 1) + 1 : b[j] = hs[(i + 1) + j - 1]
  BY <1>1, <1>2, SubSeqProperties
<1> HIDE DEF a, b
<1>7. DOMAIN b = 1 .. Len(hs) - i
  <2>1. DOMAIN b = 1 .. Len(b)
    BY <1>6
  <2>2. i \in Int /\ Len(hs) \in Int /\ i <= Len(hs)
    BY <1>1
  <2>3. Len(b) = Len(hs) - i
    BY <1>6, <2>2
  <2>4. QED
    BY <2>1, <2>3
<1>8. \A j \in 1 .. Len(hs) - i : b[j] = hs[i + j]
  <2>1. Len(hs) - (i + 1) + 1 = Len(hs) - i /\ \A j \in 1 .. Len(hs) - i : (i + 1) + j - 1 = i + j
    BY <1>1
  <2>2. QED
    BY <1>6, <2>1
<1>9. QED
  BY <1>3, <1>4, <1>5, <1>7, <1>8 DEF a, b

-----------------------------------------------------------------------------
(* The counts: nats-py and the worker.                                     *)

\* Nothing was subscribed before the first connect().
LEMMA InitInv == Init => Inv
<1> SUFFICES ASSUME Init PROVE Inv
  OBVIOUS
<1>1. TypeOK
  <2>1. MaxMsg \in Nat /\ MaxSid \in Nat /\ MaxConnect \in Nat
    BY EventConstants
  <2>2. \A s \in Sid : own[s] = <<>> /\ handlers[s] = <<>> /\ pending[s] = 0
    BY DEF Init
  <2>3. own \in [Sid -> Seq(Msg)] /\ handlers \in [Sid -> Seq(Handler)] /\ pending \in [Sid -> Nat]
    BY EmptySeq DEF Init
  <2>4. queue \in Seq(Msg) /\ current \in Seq(Msg) /\ Len(current) <= 1
    BY EmptySeq DEF Init
  <2>5. todo \in Seq(Handler) /\ handled \in Seq(Id) /\ calls \in Seq(Id \X Handler)
    BY EmptySeq DEF Init
  <2>6. user \in [User -> UserState]
    BY <2>1 DEF Init, Idle, UserState
  <2>7. /\ conn \in {"down", "up", "draining"} /\ timedOut \in BOOLEAN
        /\ connects \in 0 .. MaxConnect /\ sids \in 0 .. MaxSid /\ arrived \in 0 .. MaxMsg
        /\ subscriptions \in [Key -> 0 .. MaxSid] /\ unfinished \in Nat
    <3>1. conn \in {"down", "up", "draining"} /\ timedOut \in BOOLEAN
      BY DEF Init
    <3>2. connects = 0 /\ sids = 0 /\ arrived = 0 /\ unfinished = 0
      BY DEF Init
    <3>3. 0 \in 0 .. MaxSid
      BY <2>1
    <3>4. subscriptions \in [Key -> 0 .. MaxSid]
      BY <3>3 DEF Init
    <3>5. QED
      BY <2>1, <3>1, <3>2, <3>4
  <2>8. /\ swapped \subseteq Sid /\ routed \subseteq Sid /\ active \subseteq Sid /\ joining \subseteq Sid
        /\ owed \subseteq Msg \X Handler /\ lock \in User \cup {None}
    BY DEF Init
  <2>9. QED
    BY <2>3, <2>4, <2>5, <2>6, <2>7, <2>8 DEF TypeOK, UserState
<1>2. WorkerShape /\ OwnQueues /\ SharedQueue /\ Entries
  BY EmptySeq DEF Init, WorkerShape, OwnQueues, SharedQueue, Entries
<1>3. Locks /\ Counts
  BY EmptySeq DEF Init, Locks, Counts, Idle
<1>4. QED
  BY <1>1, <1>2, <1>3 DEF Inv

LEMMA ArriveInv ==
  ASSUME Inv, NEW s \in Sid, Arrive(s)
  PROVE  Inv'
<1> DEFINE m == [id |-> arrived + 1, sid |-> s]
<1>1. /\ arrived \in Nat /\ MaxMsg \in Nat /\ arrived + 1 \in Id /\ arrived' = arrived + 1
      /\ arrived' \in 0 .. MaxMsg
      /\ UNCHANGED <<connVars, subVars, workVars, userVars>>
  BY EventConstants DEF Arrive, Inv, TypeOK, Id
<1>2. m \in Msg /\ m.sid = s
  BY <1>1 DEF Msg
<1>3. handlers[s] \in Seq(Handler)
  BY DEF Inv, TypeOK
<1>4. s <= sids
  BY DEF Arrive, Inv, OwnQueues, Sid, TypeOK
<1>5. {<<m, h>> : h \in {x \in ToSet(handlers[s]) : Wants(x, m.id)}} \subseteq Msg \X Handler
  BY <1>2, <1>3 DEF ToSet
<1> HIDE DEF m
<1>6. CASE /\ s \in swapped /\ queue' = Append(queue, m) /\ unfinished' = unfinished + 1
           /\ pending' = [pending EXCEPT ![s] = @ + 1] /\ UNCHANGED own
           /\ owed' = owed \cup {<<m, h>> : h \in {x \in ToSet(handlers[s]) : Wants(x, m.id)}}
  <2>1. /\ queue' \in Seq(Msg) /\ Len(queue') = Len(queue) + 1
        /\ \A i \in DOMAIN queue' : (i \in DOMAIN queue /\ queue'[i] = queue[i]) \/ queue'[i] = m
    BY <1>2, <1>6, AppendProperties DEF Inv, TypeOK
  <2>2. unfinished' \in Nat /\ pending' \in [Sid -> Nat] /\ owed' \subseteq Msg \X Handler
    BY <1>5, <1>6 DEF Inv, TypeOK
  <2>3. TypeOK'
    BY <1>1, <1>6, <2>1, <2>2 DEF Inv, TypeOK, connVars, subVars, workVars, userVars
  <2>4. WorkerShape' /\ Entries' /\ Locks'
    BY <1>1 DEF Inv, WorkerShape, Entries, Locks, connVars, subVars, workVars, userVars
  <2>5. OwnQueues'
    BY <1>1, <1>6 DEF Inv, OwnQueues, subVars, TypeOK
  <2>6. SharedQueue'
    BY <1>1, <1>2, <1>6, <2>1 DEF Inv, SharedQueue, subVars
  <2>7. Counts'
    <3>1. unfinished' = Len(queue') + Len(current')
      BY <1>1, <1>6, <2>1 DEF Inv, Counts, TypeOK, workVars
    <3>2. ASSUME NEW t \in routed PROVE pending'[t] = Count(queue', Of(t))
      <4>1. Count(queue', Of(t)) = Count(queue, Of(t)) + (IF m \in Of(t) THEN 1 ELSE 0)
        BY <1>2, <1>6, CountAppend DEF Inv, TypeOK
      <4>2. m \in Of(t) <=> t = s
        BY <1>2 DEF Of
      <4>3. t \in Sid /\ pending[t] = Count(queue, Of(t)) /\ pending \in [Sid -> Nat]
        BY DEF Inv, TypeOK, Counts
      <4>4. QED
        BY <1>6, <4>1, <4>2, <4>3
    <3>3. routed' = routed
      BY <1>1 DEF subVars
    <3>4. QED
      BY <3>1, <3>2, <3>3 DEF Counts
  <2>8. QED
    BY <2>3, <2>4, <2>5, <2>6, <2>7 DEF Inv
<1>7. CASE /\ s \notin swapped /\ own' = [own EXCEPT ![s] = Append(@, m)]
           /\ pending' = [pending EXCEPT ![s] = @ + 1] /\ UNCHANGED <<queue, unfinished>>
           /\ owed' = owed \cup {<<m, h>> : h \in {x \in ToSet(handlers[s]) : Wants(x, m.id)}}
  <2>1. /\ own' \in [Sid -> Seq(Msg)] /\ Len(own'[s]) = Len(own[s]) + 1
        /\ \A i \in DOMAIN own'[s] : (i \in DOMAIN own[s] /\ own'[s][i] = own[s][i]) \/ own'[s][i] = m
    BY <1>2, <1>7, AppendProperties DEF Inv, TypeOK
  <2>2. pending' \in [Sid -> Nat] /\ owed' \subseteq Msg \X Handler
    BY <1>5, <1>7 DEF Inv, TypeOK
  <2>3. TypeOK'
    BY <1>1, <1>7, <2>1, <2>2 DEF Inv, TypeOK, connVars, subVars, workVars, userVars
  <2>4. WorkerShape' /\ Entries' /\ Locks' /\ SharedQueue'
    BY <1>1, <1>7 DEF Inv, WorkerShape, Entries, Locks, SharedQueue, connVars, subVars, workVars, userVars
  <2>5. OwnQueues'
    <3> SUFFICES ASSUME NEW t \in Sid
                 PROVE  /\ t \notin swapped => handlers[t] = <<>> /\ t \notin routed /\ pending'[t] = Len(own'[t])
                        /\ t \in swapped => own'[t] = <<>>
                        /\ t > sids => t \notin swapped /\ t \notin active /\ own'[t] = <<>>
                        /\ \A i \in DOMAIN own'[t] : own'[t][i].sid = t
      BY <1>1 DEF OwnQueues, subVars
    <3>1. CASE t = s
      <4>1. pending'[t] = Len(own'[t])
        BY <1>7, <2>1, <3>1 DEF Inv, OwnQueues, TypeOK
      <4>2. \A i \in DOMAIN own'[t] : own'[t][i].sid = t
        BY <1>2, <2>1, <3>1 DEF Inv, OwnQueues
      <4>3. ~(t > sids)
        BY <1>4, <3>1 DEF Sid, Inv, TypeOK
      <4>4. QED
        BY <1>7, <3>1, <4>1, <4>2, <4>3 DEF Inv, OwnQueues
    <3>2. CASE t # s
      BY <1>7, <3>2 DEF Inv, OwnQueues, TypeOK
    <3>3. QED
      BY <3>1, <3>2
  <2>6. Counts'
    <3>1. \A t \in routed : t # s /\ t \in Sid
      BY <1>7 DEF Inv, OwnQueues, TypeOK
    <3>2. QED
      BY <1>1, <1>7, <3>1 DEF Inv, Counts, TypeOK, subVars, workVars
  <2>7. QED
    BY <2>3, <2>4, <2>5, <2>6 DEF Inv
<1>8. CASE UNCHANGED <<own, queue, unfinished, pending, owed>>
  <2>1. TypeOK'
    BY <1>1, <1>8 DEF Inv, TypeOK, connVars, subVars, workVars, userVars
  <2>2. QED
    BY <1>1, <1>8, <2>1 DEF Inv, WorkerShape, OwnQueues, Entries, Locks, SharedQueue, Counts,
                            connVars, subVars, workVars, userVars
<1>9. QED
  BY <1>6, <1>7, <1>8 DEF Arrive, m

LEMMA DropMessageInv ==
  ASSUME Inv, DropMessage
  PROVE  Inv'
<1>1. /\ queue # <<>> /\ Head(queue).sid \notin routed /\ current = <<>>
      /\ queue' = Tail(queue) /\ unfinished' = unfinished - 1
      /\ UNCHANGED <<connVars, subVars, own, pending, arrived, workVars, userVars, owed>>
  BY DEF DropMessage, WorkerIdle
<1>2. /\ queue' \in Seq(Msg) /\ Len(queue') = Len(queue) - 1 /\ Len(queue) \in Nat \ {0}
      /\ \A i \in DOMAIN queue' : i + 1 \in DOMAIN queue /\ queue'[i] = queue[i + 1]
  BY <1>1, HeadTailProperties, EmptySeq DEF Inv, TypeOK
<1>3. unfinished' = Len(queue') + Len(current') /\ unfinished' \in Nat
  BY <1>1, <1>2, EmptySeq DEF Inv, Counts, workVars
<1>4. TypeOK'
  BY <1>1, <1>2, <1>3 DEF Inv, TypeOK, connVars, subVars, workVars, userVars
<1>5. WorkerShape' /\ Entries' /\ Locks' /\ OwnQueues'
  BY <1>1 DEF Inv, WorkerShape, Entries, Locks, OwnQueues, connVars, subVars, workVars, userVars
<1>6. SharedQueue'
  BY <1>1, <1>2 DEF Inv, SharedQueue, subVars
<1>7. ASSUME NEW t \in routed PROVE pending[t] = Count(queue', Of(t))
  <2>1. Count(queue', Of(t)) = Count(queue, Of(t)) - (IF Head(queue) \in Of(t) THEN 1 ELSE 0)
    BY <1>1, CountTail DEF Inv, TypeOK
  <2>2. Head(queue) \notin Of(t)
    BY <1>1 DEF Of
  <2>3. Count(queue, Of(t)) \in Nat /\ pending[t] = Count(queue, Of(t))
    BY CountType DEF Inv, TypeOK, Counts
  <2>4. QED
    BY <2>1, <2>2, <2>3
<1>8. Counts'
  BY <1>1, <1>3, <1>7 DEF Counts, subVars
<1>9. QED
  BY <1>4, <1>5, <1>6, <1>8 DEF Inv

\* Whatever handler is called next, what the worker is at has its type and is counted.
LEMMA CallNextType ==
  ASSUME TypeOK, NEW m \in Msg, NEW hs \in Seq(Handler), CallNext(m, hs)
  PROVE  /\ current' \in Seq(Msg) /\ Len(current') <= 1 /\ todo' \in Seq(Handler)
         /\ calls' \in Seq(Id \X Handler) /\ owed' \subseteq Msg \X Handler
         /\ current' # <<>> => todo' # <<>>
         /\ unfinished' - Len(current') = unfinished - 1
<1>1. CASE /\ current' = <<>> /\ todo' = <<>> /\ unfinished' = unfinished - 1
           /\ UNCHANGED <<calls, owed>>
  BY <1>1, EmptySeq DEF TypeOK
<1>2. CASE \E i \in DOMAIN hs :
              /\ current' = <<m>> /\ todo' = SubSeq(hs, i, Len(hs))
              /\ calls' = Append(calls, <<m.id, hs[i]>>) /\ owed' = owed \ {<<m, hs[i]>>}
              /\ UNCHANGED unfinished
  <2>1. PICK i \in DOMAIN hs :
              /\ current' = <<m>> /\ todo' = SubSeq(hs, i, Len(hs))
              /\ calls' = Append(calls, <<m.id, hs[i]>>) /\ owed' = owed \ {<<m, hs[i]>>}
              /\ UNCHANGED unfinished
    BY <1>2
  <2>2. todo' \in Seq(Handler) /\ todo' # <<>>
    BY <2>1, SnapshotRest
  <2>3. <<m.id, hs[i]>> \in Id \X Handler
    BY DEF Msg
  <2>4. calls' \in Seq(Id \X Handler)
    BY <2>1, <2>3, AppendProperties DEF TypeOK
  <2>5. current' \in Seq(Msg) /\ Len(current') = 1 /\ unfinished' = unfinished /\ unfinished \in Nat
    BY <2>1 DEF TypeOK
  <2>6. owed' \subseteq Msg \X Handler
    BY <2>1 DEF TypeOK
  <2>7. QED
    BY <2>2, <2>4, <2>5, <2>6
<1>3. QED
  BY <1>1, <1>2, CallNextCases

LEMMA TakeMessageInv ==
  ASSUME Inv, TakeMessage
  PROVE  Inv'
<1> DEFINE m == Head(queue)
<1>1. /\ queue # <<>> /\ m.sid \in routed /\ current = <<>> /\ conn # "down"
      /\ pending' = [pending EXCEPT ![m.sid] = @ - 1]
      /\ handled' = Append(handled, m.id)
      /\ CallNext(m, handlers[m.sid])
      /\ queue' = Tail(queue)
      /\ UNCHANGED <<connVars, subVars, own, arrived, userVars>>
  BY DEF TakeMessage, WorkerIdle
<1>2. /\ queue' \in Seq(Msg) /\ Len(queue') = Len(queue) - 1 /\ Len(queue) \in Nat \ {0}
      /\ \A i \in DOMAIN queue' : i + 1 \in DOMAIN queue /\ queue'[i] = queue[i + 1]
      /\ m \in Msg /\ 1 \in DOMAIN queue /\ m = queue[1]
  BY <1>1, HeadTailProperties, EmptySeq DEF Inv, TypeOK
<1>3. m.sid \in Sid /\ m.id \in Id /\ handlers[m.sid] \in Seq(Handler) /\ handled' \in Seq(Id)
  BY <1>1, <1>2, AppendProperties DEF Inv, TypeOK, Msg
<1>4. /\ current' \in Seq(Msg) /\ Len(current') <= 1 /\ todo' \in Seq(Handler)
      /\ calls' \in Seq(Id \X Handler) /\ owed' \subseteq Msg \X Handler
      /\ current' # <<>> => todo' # <<>>
      /\ unfinished' - Len(current') = unfinished - 1
  BY <1>1, <1>2, <1>3, CallNextType DEF Inv
<1> HIDE DEF m
<1>5. unfinished' = Len(queue') + Len(current') /\ unfinished' \in Nat
  <2>1. unfinished = Len(queue) /\ Len(current') \in Nat
    BY <1>1, <1>2, <1>4, EmptySeq DEF Inv, Counts
  <2>2. unfinished' \in Int
    <3>1. unfinished' \in {unfinished, unfinished - 1}
      BY <1>1 DEF CallNext
    <3>2. QED
      BY <1>2, <2>1, <3>1
  <2>3. QED
    BY <1>2, <1>4, <2>1, <2>2
<1>6. m \in Of(m.sid) /\ Count(queue, Of(m.sid)) > 0 /\ Count(queue, Of(m.sid)) \in Nat
  <2>1. m \in Of(m.sid)
    BY <1>2 DEF Of
  <2>2. QED
    BY <1>2, <2>1, CountType DEF Inv, TypeOK
<1>7. pending' \in [Sid -> Nat]
  BY <1>1, <1>3, <1>6 DEF Inv, TypeOK, Counts
<1>8. TypeOK'
  BY <1>1, <1>2, <1>3, <1>4, <1>5, <1>7 DEF Inv, TypeOK, connVars, subVars, userVars
<1>9. WorkerShape' /\ Entries' /\ Locks'
  BY <1>1, <1>4 DEF Inv, WorkerShape, Entries, Locks, connVars, subVars, userVars
<1>10. OwnQueues'
  BY <1>1, <1>3 DEF Inv, OwnQueues, subVars, TypeOK
<1>11. SharedQueue'
  BY <1>1, <1>2 DEF Inv, SharedQueue, subVars
<1>12. ASSUME NEW t \in routed PROVE pending'[t] = Count(queue', Of(t))
  <2>1. Count(queue', Of(t)) = Count(queue, Of(t)) - (IF m \in Of(t) THEN 1 ELSE 0)
    BY <1>1, CountTail DEF Inv, TypeOK, m
  <2>2. m \in Of(t) <=> t = m.sid
    BY <1>2 DEF Of
  <2>3. t \in Sid /\ pending[t] = Count(queue, Of(t)) /\ pending \in [Sid -> Nat]
    BY DEF Inv, TypeOK, Counts
  <2>4. QED
    BY <1>1, <2>1, <2>2, <2>3
<1>13. Counts'
  BY <1>1, <1>5, <1>12 DEF Counts, subVars
<1>14. QED
  BY <1>8, <1>9, <1>10, <1>11, <1>13 DEF Inv

LEMMA HandlerEndsInv ==
  ASSUME Inv, HandlerEnds
  PROVE  Inv'
<1> DEFINE m == current[1]
<1>1. /\ current # <<>> /\ CallNext(m, Tail(todo)) /\ conn # "down"
      /\ UNCHANGED <<connVars, subVars, own, queue, pending, arrived, handled, userVars>>
  BY DEF HandlerEnds, WorkerIdle
<1>2. m \in Msg /\ Len(current) = 1
  <2>1. Len(current) # 0 /\ Len(current) \in Nat /\ Len(current) <= 1
    BY <1>1, EmptySeq DEF Inv, TypeOK
  <2>2. Len(current) = 1
    <3> DEFINE n == Len(current)
    <3>1. n \in Nat /\ n # 0 /\ n <= 1
      BY <2>1
    <3> HIDE DEF n
    <3>2. n = 1
      BY <3>1
    <3>3. QED
      BY <3>2 DEF n
  <2>3. current \in Seq(Msg)
    BY DEF Inv, TypeOK
  <2>4. 1 \in 1 .. Len(current)
    BY <2>2
  <2>5. current[1] \in Msg
    BY <2>3, <2>4, ElementOfSeq
  <2>6. QED
    BY <2>2, <2>5
<1>3. Tail(todo) \in Seq(Handler)
  BY <1>1, HeadTailProperties DEF Inv, WorkerShape, TypeOK
<1>4. /\ current' \in Seq(Msg) /\ Len(current') <= 1 /\ todo' \in Seq(Handler)
      /\ calls' \in Seq(Id \X Handler) /\ owed' \subseteq Msg \X Handler
      /\ current' # <<>> => todo' # <<>>
      /\ unfinished' - Len(current') = unfinished - 1
  BY <1>1, <1>2, <1>3, CallNextType DEF Inv
<1>5. unfinished' = Len(queue') + Len(current') /\ unfinished' \in Nat
  <2>1. /\ unfinished = Len(queue) + 1 /\ Len(current') \in Nat /\ Len(queue) \in Nat
        /\ queue' = queue
    BY <1>1, <1>2, <1>4 DEF Inv, Counts, TypeOK
  <2>2. unfinished' \in {unfinished, unfinished - 1}
    BY <1>1 DEF CallNext
  <2>3. QED
    BY <1>4, <2>1, <2>2
<1> HIDE DEF m
<1>6. TypeOK'
  BY <1>1, <1>4, <1>5 DEF Inv, TypeOK, connVars, subVars, userVars
<1>7. WorkerShape' /\ Entries' /\ Locks' /\ OwnQueues' /\ SharedQueue'
  BY <1>1, <1>4 DEF Inv, WorkerShape, Entries, Locks, OwnQueues, SharedQueue, connVars, subVars, userVars
<1>8. Counts'
  BY <1>1, <1>5 DEF Inv, Counts, subVars
<1>9. QED
  BY <1>6, <1>7, <1>8 DEF Inv

-----------------------------------------------------------------------------
(* The counts: subscribe() and unsubscribe().                              *)

\* A user task that only changes what it is doing, and the lock, keeps the counts.
LEMMA UserInv ==
  ASSUME Inv, NEW u \in User, NEW x \in UserState, user' = [user EXCEPT ![u] = x],
         x.op \in {"idle", "subscribe", "unsubscribe"},
         x.op # "idle" => x.key \in Key /\ x.handler \in Handler,
         lock' = lock \/ (lock = u /\ lock' = None),
         UNCHANGED <<connVars, subVars, queueVars, workVars, owed>>
  PROVE  Inv'
<1>1. user' \in [User -> UserState] /\ lock' \in User \cup {None}
  BY DEF Inv, TypeOK, UserState
<1>2. TypeOK'
  BY <1>1 DEF Inv, TypeOK, UserState, connVars, subVars, queueVars, workVars
<1>3. WorkerShape' /\ Entries' /\ OwnQueues' /\ SharedQueue' /\ Counts'
  BY DEF Inv, WorkerShape, Entries, OwnQueues, SharedQueue, Counts, connVars, subVars, queueVars, workVars
<1>4. Locks'
  <2> SUFFICES ASSUME NEW v \in User
               PROVE  /\ user'[v].op \in {"subscribing", "flush", "unsubscribing"} => lock' = v
                      /\ user'[v].op = "subscribing" => user'[v].sid \in Sid \ swapped /\ user'[v].sid <= sids
                      /\ user'[v].op \in {"subscribe", "subscribing", "unsubscribe"}
                           => user'[v].key \in Key /\ user'[v].handler \in Handler
    BY DEF Locks, subVars
  <2>1. CASE v = u
    <3>1. user'[v] = x
      BY <2>1 DEF Inv, TypeOK
    <3>2. QED
      BY <3>1
  <2>2. CASE v # u
    BY <2>2 DEF Inv, Locks, TypeOK
  <2>3. QED
    BY <2>1, <2>2
<1>5. QED
  BY <1>2, <1>3, <1>4 DEF Inv

\* What subscribe() and unsubscribe() do before they wait, and when they end.
LEMMA UserStepInv ==
  ASSUME Inv, NEW u \in User,
         UserCalls(u) \/ SubscribeFails(u) \/ Flushed(u) \/ Unsubscribed(u)
  PROVE  Inv'
<1>1. MaxSid \in Nat
  BY EventConstants
<1>2. Idle \in UserState /\ Idle.op = "idle"
  BY <1>1 DEF Idle, UserState
<1>3. ASSUME NEW k \in Key, NEW h \in Handler, Subscribe(u, k, h) PROVE Inv'
  <2> DEFINE x == [op |-> "subscribe", key |-> k, handler |-> h, sid |-> 0]
  <2>1. x \in UserState /\ x.op = "subscribe" /\ x.key = k /\ x.handler = h
    BY <1>1 DEF UserState
  <2>2. /\ user' = [user EXCEPT ![u] = x] /\ lock' = lock
        /\ UNCHANGED <<connVars, subVars, queueVars, workVars, owed>>
    BY <1>3 DEF Subscribe
  <2> HIDE DEF x
  <2>3. QED
    BY <2>1, <2>2, UserInv
<1>4. ASSUME NEW k \in Key, NEW h \in Handler, Unsubscribe(u, k, h) PROVE Inv'
  <2> DEFINE x == [op |-> "unsubscribe", key |-> k, handler |-> h, sid |-> 0]
  <2>1. x \in UserState /\ x.op = "unsubscribe" /\ x.key = k /\ x.handler = h
    BY <1>1 DEF UserState
  <2>2. /\ user' = [user EXCEPT ![u] = x] /\ lock' = lock
        /\ UNCHANGED <<connVars, subVars, queueVars, workVars, owed>>
    BY <1>4 DEF Unsubscribe
  <2> HIDE DEF x
  <2>3. QED
    BY <2>1, <2>2, UserInv
<1>5. CASE SubscribeFails(u)
  <2>1. /\ user' = [user EXCEPT ![u] = Idle] /\ lock' = lock
        /\ UNCHANGED <<connVars, subVars, queueVars, workVars, owed>>
    BY <1>5 DEF SubscribeFails, Raise, Return
  <2>2. QED
    BY <1>2, <2>1, UserInv
<1>6. CASE Flushed(u) \/ Unsubscribed(u)
  <2>1. /\ user' = [user EXCEPT ![u] = Idle] /\ lock = u /\ lock' = None
        /\ UNCHANGED <<connVars, subVars, queueVars, workVars, owed>>
    BY <1>6 DEF Flushed, Unsubscribed, Return, Doing, Inv, Locks
  <2>2. QED
    BY <1>2, <2>1, UserInv
<1>7. QED
  BY <1>3, <1>4, <1>5, <1>6 DEF UserCalls

LEMMA SubscribeToExistingInv ==
  ASSUME Inv, NEW u \in User, SubscribeToExisting(u)
  PROVE  Inv'
<1> DEFINE k == user[u].key
           h == user[u].handler
           s == subscriptions[k]
<1>1. /\ user[u].op = "subscribe" /\ lock = None /\ s # 0
      /\ handlers' = (IF h \in ToSet(handlers[s]) THEN handlers
                      ELSE [handlers EXCEPT ![s] = Append(@, h)])
      /\ user' = [user EXCEPT ![u] = Idle]
      /\ UNCHANGED <<connVars, subscriptions, swapped, routed, active, sids, queueVars,
                     workVars, lock, owed>>
  BY DEF SubscribeToExisting, Doing, Return
<1>2. k \in Key /\ h \in Handler
  BY <1>1 DEF Inv, Locks
<1>3. s \in swapped /\ s \in Sid
  BY <1>1, <1>2 DEF Inv, Entries, TypeOK
<1> HIDE DEF k, h, s
<1>4. handlers' \in [Sid -> Seq(Handler)] /\ \A t \in Sid : t \notin swapped => handlers'[t] = handlers[t]
  <2>1. handlers \in [Sid -> Seq(Handler)]
    BY DEF Inv, TypeOK
  <2>2. Append(handlers[s], h) \in Seq(Handler)
    BY <1>2, <1>3, <2>1, AppendProperties
  <2>3. QED
    BY <1>1, <1>3, <2>1, <2>2
<1>5. user' \in [User -> UserState] /\ user'[u].op = "idle" /\ \A v \in User : v # u => user'[v] = user[v]
  <2>1. MaxSid \in Nat
    BY EventConstants
  <2>2. Idle \in UserState /\ Idle.op = "idle"
    BY <2>1 DEF Idle, UserState
  <2>3. user \in [User -> UserState]
    BY DEF Inv, TypeOK, UserState
  <2>4. QED
    BY <1>1, <2>2, <2>3
<1>6. TypeOK'
  BY <1>1, <1>4, <1>5 DEF Inv, TypeOK, UserState, connVars, queueVars, workVars
<1>7. WorkerShape' /\ Entries' /\ SharedQueue' /\ Counts'
  BY <1>1 DEF Inv, WorkerShape, Entries, SharedQueue, Counts, connVars, queueVars, workVars
<1>8. OwnQueues'
  BY <1>1, <1>4 DEF Inv, OwnQueues, queueVars
<1>9. Locks'
  BY <1>1, <1>5 DEF Inv, Locks
<1>10. QED
  BY <1>6, <1>7, <1>8, <1>9 DEF Inv

\* What EventQueue.add() moves from the old queue of a subscription to the shared one.
Moved(s) == IF Fits(s) THEN own[s] ELSE SubSeq(own[s], 1, Limit - Len(queue))

LEMMA MovedType ==
  ASSUME TypeOK, NEW s \in Sid, \A i \in DOMAIN own[s] : own[s][i].sid = s
  PROVE  /\ Moved(s) \in Seq(Msg) /\ Len(Moved(s)) \in Nat
         /\ \A i \in DOMAIN Moved(s) : i \in DOMAIN own[s] /\ Moved(s)[i] = own[s][i] /\ Moved(s)[i].sid = s
<1>1. own[s] \in Seq(Msg) /\ Len(own[s]) \in Nat /\ Len(queue) \in Nat /\ Limit \in Nat
  BY EventConstants DEF TypeOK
<1>2. CASE Fits(s)
  BY <1>1, <1>2 DEF Moved
<1>3. CASE ~Fits(s)
  <2> DEFINE n == Limit - Len(queue)
             q == SubSeq(own[s], 1, n)
  <2>1. n \in Int /\ n < Len(own[s])
    BY <1>1, <1>3 DEF Fits
  <2> HIDE DEF n
  <2>2. \A i \in 1 .. n : own[s][i] \in Msg /\ i \in DOMAIN own[s]
    BY <1>1, <2>1
  <2>3. /\ q \in Seq(Msg) /\ Len(q) = (IF 1 <= n THEN n - 1 + 1 ELSE 0)
        /\ \A i \in 1 .. n - 1 + 1 : q[i] = own[s][1 + i - 1]
    BY <1>1, <2>1, <2>2, SubSeqProperties
  <2> HIDE DEF q
  <2>4. \A i \in DOMAIN q : i \in 1 .. n - 1 + 1 /\ 1 + i - 1 = i /\ i \in 1 .. n
    BY <2>1, <2>3
  <2>5. \A i \in DOMAIN q : i \in DOMAIN own[s] /\ q[i] = own[s][i] /\ q[i].sid = s
    BY <2>2, <2>3, <2>4
  <2>6. Moved(s) = q
    BY <1>3 DEF Moved, q, n
  <2>7. QED
    BY <2>3, <2>5, <2>6
<1>4. QED
  BY <1>2, <1>3

\* EventQueue.add() keeps the counts, whether it succeeds or raises.
LEMMA AddSubscriptionInv ==
  ASSUME Inv, NEW u \in User, NEW s \in Sid, s \notin swapped, AddSubscription(u, s),
         user[u].key \in Key, user[u].handler \in Handler,
         \A v \in User : v # u => user[v].op \notin {"subscribing", "flush", "unsubscribing"},
         sids' \in 0 .. MaxSid, sids <= sids', s <= sids',
         active' \subseteq active \cup {s},
         lock' \in User \cup {None}, Fits(s) => lock' = u,
         UNCHANGED <<connVars, pending, arrived, workVars>>
  PROVE  Inv'
<1>1. /\ swapped' = swapped \cup {s}
      /\ queue' = queue \o Moved(s) /\ unfinished' = unfinished + Len(Moved(s))
      /\ own' = [own EXCEPT ![s] = <<>>]
  BY DEF AddSubscription, Moved
<1>2. Fits(s) =>
         /\ handlers' = [handlers EXCEPT ![s] = <<user[u].handler>>]
         /\ routed' = routed \cup {s}
         /\ subscriptions' = [subscriptions EXCEPT ![user[u].key] = s]
         /\ owed' = owed \cup {<<m, user[u].handler>> :
                       m \in {x \in ToSet(queue') : x.sid = s /\ Wants(user[u].handler, x.id)}}
         /\ user' = [user EXCEPT ![u] = [@ EXCEPT !.op = "flush", !.sid = s]]
  BY DEF AddSubscription
<1>3. ~Fits(s) => user' = [user EXCEPT ![u] = Idle] /\ UNCHANGED <<handlers, routed, subscriptions, owed>>
  BY DEF AddSubscription, Raise, Return
<1>4. /\ Moved(s) \in Seq(Msg) /\ Len(Moved(s)) \in Nat
      /\ \A i \in DOMAIN Moved(s) : Moved(s)[i].sid = s
  BY MovedType DEF Inv, OwnQueues
<1>5. /\ queue' \in Seq(Msg) /\ Len(queue') = Len(queue) + Len(Moved(s)) /\ Len(queue) \in Nat
      /\ \A i \in DOMAIN queue' : queue'[i].sid \in swapped'
  <2>1. queue \in Seq(Msg)
    BY DEF Inv, TypeOK
  <2>2. /\ queue' \in Seq(Msg) /\ Len(queue') = Len(queue) + Len(Moved(s)) /\ Len(queue) \in Nat
        /\ ToSet(queue') = ToSet(queue) \cup ToSet(Moved(s))
    BY <1>1, <1>4, <2>1, ConcatProperties, ConcatHolds
  <2>3. /\ \A m \in ToSet(queue) : m.sid \in swapped
        /\ \A m \in ToSet(Moved(s)) : m.sid = s
    BY <1>4 DEF ToSet, Inv, SharedQueue
  <2>4. \A m \in ToSet(queue') : m.sid \in swapped'
    BY <1>1, <2>2, <2>3
  <2>5. QED
    BY <2>2, <2>4 DEF ToSet
<1>6. /\ user' \in [User -> UserState] /\ \A v \in User : v # u => user'[v] = user[v]
      /\ user'[u].op = (IF Fits(s) THEN "flush" ELSE "idle")
  <2>1. MaxSid \in Nat /\ s \in 0 .. MaxSid
    BY EventConstants DEF Sid
  <2>2. user \in [User -> UserState]
    BY DEF Inv, TypeOK, UserState
  <2>3. CASE Fits(s)
    <3>1. [user[u] EXCEPT !.op = "flush", !.sid = s] \in UserState
      BY <2>1, <2>2 DEF UserState
    <3>2. QED
      BY <1>2, <2>2, <2>3, <3>1 DEF UserState
  <2>4. CASE ~Fits(s)
    <3>1. Idle \in UserState /\ Idle.op = "idle"
      BY <2>1 DEF Idle, UserState
    <3>2. QED
      BY <1>3, <2>2, <2>4, <3>1
  <2>5. QED
    BY <2>3, <2>4
<1>7. /\ handlers' \in [Sid -> Seq(Handler)] /\ routed' \subseteq routed \cup {s}
      /\ subscriptions' \in [Key -> 0 .. MaxSid] /\ owed' \subseteq Msg \X Handler
      /\ \A t \in Sid : t # s => handlers'[t] = handlers[t]
      /\ \A k \in Key : subscriptions'[k] \in {subscriptions[k], s}
  <2>1. CASE Fits(s)
    <3>1. handlers \in [Sid -> Seq(Handler)] /\ <<user[u].handler>> \in Seq(Handler)
      BY DEF Inv, TypeOK
    <3>2. handlers' \in [Sid -> Seq(Handler)] /\ \A t \in Sid : t # s => handlers'[t] = handlers[t]
      BY <1>2, <2>1, <3>1
    <3>3. subscriptions \in [Key -> 0 .. MaxSid] /\ s \in 0 .. MaxSid
      BY EventConstants DEF Inv, TypeOK, Sid
    <3>4. subscriptions' \in [Key -> 0 .. MaxSid] /\ \A k \in Key : subscriptions'[k] \in {subscriptions[k], s}
      BY <1>2, <2>1, <3>3
    <3>5. ToSet(queue') \subseteq Msg
      BY <1>5 DEF ToSet
    <3>6. owed' \subseteq Msg \X Handler
      BY <1>2, <2>1, <3>5 DEF Inv, TypeOK
    <3>7. QED
      BY <1>2, <2>1, <3>2, <3>4, <3>6
  <2>2. CASE ~Fits(s)
    BY <1>3, <2>2 DEF Inv, TypeOK
  <2>3. QED
    BY <2>1, <2>2
<1>8. own' \in [Sid -> Seq(Msg)] /\ own'[s] = <<>> /\ \A t \in Sid : t # s => own'[t] = own[t]
  <2>1. own \in [Sid -> Seq(Msg)] /\ <<>> \in Seq(Msg)
    BY EmptySeq DEF Inv, TypeOK
  <2>2. QED
    BY <1>1, <2>1
<1>9. unfinished' = Len(queue') + Len(current) /\ unfinished' \in Nat
  BY <1>1, <1>4, <1>5 DEF Inv, TypeOK, Counts
<1>10. TypeOK'
  <2>1. swapped' \subseteq Sid /\ routed' \subseteq Sid /\ active' \subseteq Sid
    BY <1>1, <1>7 DEF Inv, TypeOK
  <2>2. QED
    BY <1>5, <1>6, <1>7, <1>8, <1>9, <2>1 DEF Inv, TypeOK, UserState, connVars, workVars
<1>11. WorkerShape' /\ SharedQueue' /\ Entries'
  <2>1. WorkerShape' /\ SharedQueue'
    BY <1>5 DEF Inv, WorkerShape, SharedQueue, connVars, workVars
  <2>2. Entries'
    BY <1>1, <1>7 DEF Inv, Entries
  <2>3. QED
    BY <2>1, <2>2
<1>12. Locks'
  <2> SUFFICES ASSUME NEW v \in User
               PROVE  /\ user'[v].op \in {"subscribing", "flush", "unsubscribing"} => lock' = v
                      /\ user'[v].op = "subscribing" => user'[v].sid \in Sid \ swapped' /\ user'[v].sid <= sids'
                      /\ user'[v].op \in {"subscribe", "subscribing", "unsubscribe"}
                           => user'[v].key \in Key /\ user'[v].handler \in Handler
    BY DEF Locks
  <2>1. CASE v = u
    BY <1>6, <2>1
  <2>2. CASE v # u
    BY <1>6, <2>2 DEF Inv, Locks
  <2>3. QED
    BY <2>1, <2>2
<1>13. OwnQueues'
  <2> SUFFICES ASSUME NEW t \in Sid
               PROVE  /\ t \notin swapped' => handlers'[t] = <<>> /\ t \notin routed' /\ pending[t] = Len(own'[t])
                      /\ t \in swapped' => own'[t] = <<>>
                      /\ t > sids' => t \notin swapped' /\ t \notin active' /\ own'[t] = <<>>
                      /\ \A i \in DOMAIN own'[t] : own'[t][i].sid = t
    BY DEF OwnQueues
  <2>1. CASE t = s
    <3>1. ~(t > sids') /\ own'[t] = <<>> /\ t \in swapped'
      BY <1>1, <1>8, <2>1 DEF Sid
    <3>2. DOMAIN own'[t] = {}
      BY <3>1
    <3>3. QED
      BY <3>1, <3>2
  <2>2. CASE t # s
    <3>1. t > sids' => t > sids
      BY DEF Inv, TypeOK, Sid
    <3>2. handlers'[t] = handlers[t] /\ own'[t] = own[t] /\ (t \in swapped' <=> t \in swapped)
      BY <1>1, <1>7, <1>8, <2>2
    <3>3. (t \in routed' => t \in routed) /\ (t \in active' => t \in active)
      BY <1>7, <2>2
    <3>4. /\ t \notin swapped => handlers[t] = <<>> /\ t \notin routed /\ pending[t] = Len(own[t])
          /\ t \in swapped => own[t] = <<>>
          /\ t > sids => t \notin swapped /\ t \notin active /\ own[t] = <<>>
          /\ \A i \in DOMAIN own[t] : own[t][i].sid = t
      BY DEF Inv, OwnQueues
    <3>5. QED
      BY <3>1, <3>2, <3>3, <3>4
  <2>3. QED
    BY <2>1, <2>2
<1>14. ASSUME NEW t \in routed' PROVE pending[t] = Count(queue', Of(t))
  <2>1. queue \in Seq(Msg)
    BY DEF Inv, TypeOK
  <2>2. CASE t # s
    <3>1. t \in routed
      BY <1>7, <2>2
    <3>2. \A i \in DOMAIN Moved(s) : Moved(s)[i] \notin Of(t)
      BY <1>4, <2>2 DEF Of
    <3>3. Count(queue', Of(t)) = Count(queue, Of(t))
      BY <1>1, <1>4, <2>1, <3>2, CountConcat
    <3>4. QED
      BY <3>1, <3>3 DEF Inv, Counts
  <2>3. CASE t = s
    <3>1. Fits(s)
      BY <1>3, <2>3 DEF Inv, OwnQueues
    <3>2. Moved(s) = own[s] /\ \A i \in DOMAIN own[s] : own[s][i] \in Of(s)
      BY <1>4, <3>1 DEF Moved, Of
    <3>3. \A i \in DOMAIN queue : queue[i] \notin Of(s)
      BY DEF Inv, SharedQueue, Of
    <3>4. Count(queue', Of(s)) = Count(own[s], Of(s))
      BY <1>1, <1>4, <2>1, <3>2, <3>3, CountConcat
    <3>5. Count(own[s], Of(s)) = Len(own[s])
      BY <1>4, <3>2, CountAll
    <3>6. QED
      BY <2>3, <3>4, <3>5 DEF Inv, OwnQueues
  <2>4. QED
    BY <2>2, <2>3
<1>15. Counts'
  BY <1>9, <1>14 DEF Counts, workVars
<1>16. QED
  BY <1>10, <1>11, <1>12, <1>13, <1>15 DEF Inv

LEMMA SubscribeNewInv ==
  ASSUME Inv, NEW u \in User, NEW s \in Sid, SubscribeAtOnce(u, s)
  PROVE  Inv'
<1>1. /\ user[u].op = "subscribe" /\ lock = None /\ s = sids + 1 /\ sids' = s
      /\ active' = active \cup {s} /\ lock' = u
      /\ AddSubscription(u, s) /\ UNCHANGED <<connVars, pending, arrived, workVars>>
  BY DEF SubscribeAtOnce, NewSubscription, Doing
<1>2. sids' \in 0 .. MaxSid /\ sids <= sids' /\ s <= sids' /\ s > sids
  BY <1>1, EventConstants DEF Sid, Inv, TypeOK
<1>3. s \notin swapped
  BY <1>2 DEF Inv, OwnQueues
<1>4. user[u].key \in Key /\ user[u].handler \in Handler
  BY <1>1 DEF Inv, Locks
<1>5. \A v \in User : v # u => user[v].op \notin {"subscribing", "flush", "unsubscribing"}
  BY <1>1, EventConstants DEF Inv, Locks
<1>6. QED
  BY <1>1, <1>2, <1>3, <1>4, <1>5, AddSubscriptionInv

LEMMA SubscribeResumesInv ==
  ASSUME Inv, NEW u \in User, SubscribeResumes(u)
  PROVE  Inv'
<1> DEFINE s == user[u].sid
<1>1. /\ user[u].op = "subscribing" /\ AddSubscription(u, s)
      /\ lock' = (IF Fits(s) THEN lock ELSE None)
      /\ UNCHANGED <<connVars, active, sids, pending, arrived, workVars>>
  BY DEF SubscribeResumes, Doing
<1>2. s \in Sid /\ s \notin swapped /\ s <= sids /\ lock = u
  BY <1>1 DEF Inv, Locks
<1>3. user[u].key \in Key /\ user[u].handler \in Handler
  BY <1>1 DEF Inv, Locks
<1>4. \A v \in User : v # u => user[v].op \notin {"subscribing", "flush", "unsubscribing"}
  BY <1>2 DEF Inv, Locks
<1> HIDE DEF s
<1>5. sids' \in 0 .. MaxSid /\ sids <= sids' /\ s <= sids' /\ active' \subseteq active \cup {s}
  BY <1>1, <1>2 DEF Inv, TypeOK
<1>6. QED
  BY <1>1, <1>2, <1>3, <1>4, <1>5, AddSubscriptionInv

LEMMA SubscribeSuspendsInv ==
  ASSUME Inv, NEW u \in User, NEW s \in Sid, SubscribeSuspends(u, s)
  PROVE  Inv'
<1>1. /\ user[u].op = "subscribe" /\ lock = None /\ s = sids + 1 /\ sids' = s
      /\ active' = active \cup {s} /\ lock' = u
      /\ user' = [user EXCEPT ![u] = [@ EXCEPT !.op = "subscribing", !.sid = s]]
      /\ UNCHANGED <<connVars, subscriptions, handlers, swapped, routed, queueVars, workVars, owed>>
  BY DEF SubscribeSuspends, NewSubscription, Doing
<1>2. sids' \in 0 .. MaxSid /\ s > sids /\ sids \in Nat /\ s \in Nat /\ s \in 0 .. MaxSid
  BY <1>1, EventConstants DEF Sid, Inv, TypeOK
<1>3. s \notin swapped
  BY <1>2 DEF Inv, OwnQueues
<1>4. /\ user' \in [User -> UserState] /\ \A v \in User : v # u => user'[v] = user[v]
      /\ user'[u].op = "subscribing" /\ user'[u].sid = s
      /\ user'[u].key = user[u].key /\ user'[u].handler = user[u].handler
  <2>1. user \in [User -> UserState]
    BY DEF Inv, TypeOK, UserState
  <2>2. [user[u] EXCEPT !.op = "subscribing", !.sid = s] \in UserState
    BY <1>2, <2>1 DEF UserState
  <2>3. QED
    BY <1>1, <2>1, <2>2 DEF UserState
<1>5. active' \subseteq Sid /\ lock' \in User \cup {None}
  BY <1>1 DEF Inv, TypeOK
<1>6. TypeOK'
  BY <1>1, <1>2, <1>4, <1>5 DEF Inv, TypeOK, UserState, connVars, queueVars, workVars
<1>7. WorkerShape' /\ SharedQueue' /\ Entries' /\ Counts'
  BY <1>1 DEF Inv, WorkerShape, SharedQueue, Entries, Counts, connVars, queueVars, workVars
<1>8. OwnQueues'
  <2>1. \A t \in Sid : t > sids' => t > sids /\ t # s
    BY <1>1, <1>2 DEF Sid
  <2>2. QED
    BY <1>1, <2>1 DEF Inv, OwnQueues, queueVars
<1>9. Locks'
  <2> SUFFICES ASSUME NEW v \in User
               PROVE  /\ user'[v].op \in {"subscribing", "flush", "unsubscribing"} => lock' = v
                      /\ user'[v].op = "subscribing" => user'[v].sid \in Sid \ swapped /\ user'[v].sid <= sids'
                      /\ user'[v].op \in {"subscribe", "subscribing", "unsubscribe"}
                           => user'[v].key \in Key /\ user'[v].handler \in Handler
    BY <1>1 DEF Locks
  <2>1. CASE v = u
    BY <1>1, <1>2, <1>3, <1>4, <2>1 DEF Inv, Locks
  <2>2. CASE v # u
    BY <1>1, <1>4, <2>2, EventConstants DEF Inv, Locks
  <2>3. QED
    BY <2>1, <2>2
<1>10. QED
  BY <1>6, <1>7, <1>8, <1>9 DEF Inv

LEMMA UnsubscribeHandlerInv ==
  ASSUME Inv, NEW u \in User, UnsubscribeHandler(u)
  PROVE  Inv'
<1> DEFINE k == user[u].key
           h == user[u].handler
           s == subscriptions[k]
<1>1. user[u].op = "unsubscribe" /\ lock = None /\ UNCHANGED <<connVars, queueVars, workVars>>
  BY DEF UnsubscribeHandler, Doing
<1>2. k \in Key /\ h \in Handler /\ s \in 0 .. MaxSid
  BY <1>1 DEF Inv, Locks, TypeOK
<1>3. user \in [User -> UserState] /\ Idle \in UserState /\ Idle.op = "idle"
  BY EventConstants DEF Inv, TypeOK, UserState, Idle
<1>4. CASE s = 0 \/ ~Subscribed(s, h)
  <2>1. user' = [user EXCEPT ![u] = Idle] /\ lock' = lock /\ UNCHANGED <<subVars, owed>>
    BY <1>4 DEF UnsubscribeHandler, Return
  <2>2. QED
    BY <1>1, <1>3, <2>1, UserInv
<1>5. CASE s # 0 /\ Subscribed(s, h)
  <2>1. /\ handlers' = [handlers EXCEPT ![s] = RemoveFirst(@, h)]
        /\ owed' = {o \in owed : o[1].sid # s \/ o[2] # h}
        /\ active' \subseteq active /\ UNCHANGED <<swapped, sids>>
        /\ \/ /\ user' = [user EXCEPT ![u] = Idle]
              /\ UNCHANGED <<subscriptions, routed, lock>>
           \/ /\ subscriptions' = [subscriptions EXCEPT ![k] = 0]
              /\ routed' = routed \ {s} /\ lock' = u
              /\ user' = [user EXCEPT ![u] = [@ EXCEPT !.op = "unsubscribing", !.sid = s]]
    BY <1>5 DEF UnsubscribeHandler, RemoveSubscription, Return, Forget
  <2>2. s \in Sid /\ s \in swapped /\ \E i \in DOMAIN handlers[s] : handlers[s][i] = h
    BY <1>2, <1>5 DEF Subscribed, ToSet, Inv, Entries
  <2>3. [user[u] EXCEPT !.op = "unsubscribing", !.sid = s] \in UserState
    BY <1>2, <1>3 DEF UserState
  <2> HIDE DEF k, h, s
  <2>4. handlers' \in [Sid -> Seq(Handler)] /\ \A t \in Sid : t \notin swapped => handlers'[t] = handlers[t]
    <3>1. handlers \in [Sid -> Seq(Handler)]
      BY DEF Inv, TypeOK
    <3>2. RemoveFirst(handlers[s], h) \in Seq(Handler)
      <4>1. h \in ToSet(handlers[s]) /\ handlers[s] \in Seq(Handler)
        BY <2>2, <3>1 DEF ToSet
      <4>2. QED
        BY <4>1, RemoveFirstIs
    <3>3. QED
      BY <2>1, <2>2, <3>1, <3>2
  <2>5. /\ user' \in [User -> UserState] /\ \A v \in User : v # u => user'[v] = user[v]
        /\ user'[u].op = "idle" \/ (user'[u].op = "unsubscribing" /\ lock' = u)
    <3>1. CASE user' = [user EXCEPT ![u] = Idle]
      BY <1>3, <3>1
    <3>2. CASE lock' = u /\ user' = [user EXCEPT ![u] = [@ EXCEPT !.op = "unsubscribing", !.sid = s]]
      BY <1>3, <2>3, <3>2 DEF UserState
    <3>3. QED
      BY <2>1, <3>1, <3>2
  <2>6. /\ subscriptions' \in [Key -> 0 .. MaxSid] /\ routed' \subseteq routed
        /\ lock' \in User \cup {None}
        /\ \A j \in Key : subscriptions'[j] \in {0, subscriptions[j]}
    <3>1. 0 \in 0 .. MaxSid
      BY EventConstants
    <3>2. subscriptions \in [Key -> 0 .. MaxSid] /\ lock \in User \cup {None}
      BY DEF Inv, TypeOK
    <3>3. QED
      BY <2>1, <3>1, <3>2
  <2>7. TypeOK'
    BY <1>1, <2>1, <2>4, <2>5, <2>6 DEF Inv, TypeOK, UserState, connVars, queueVars, workVars
  <2>8. WorkerShape' /\ SharedQueue' /\ Entries' /\ Counts'
    BY <1>1, <2>1, <2>6 DEF Inv, WorkerShape, SharedQueue, Entries, Counts, connVars, queueVars, workVars
  <2>9. OwnQueues'
    BY <1>1, <2>1, <2>4, <2>6 DEF Inv, OwnQueues, queueVars
  <2>10. Locks'
    <3> SUFFICES ASSUME NEW v \in User
                 PROVE  /\ user'[v].op \in {"subscribing", "flush", "unsubscribing"} => lock' = v
                        /\ user'[v].op = "subscribing" => user'[v].sid \in Sid \ swapped /\ user'[v].sid <= sids
                        /\ user'[v].op \in {"subscribe", "subscribing", "unsubscribe"}
                             => user'[v].key \in Key /\ user'[v].handler \in Handler
      BY <2>1 DEF Locks
    <3>1. CASE v = u
      BY <2>5, <3>1
    <3>2. CASE v # u
      <4>1. user'[v] = user[v] /\ user[v].op \notin {"subscribing", "flush", "unsubscribing"}
        BY <1>1, <2>5, <3>2, EventConstants DEF Inv, Locks
      <4>2. QED
        BY <4>1 DEF Inv, Locks
    <3>3. QED
      BY <3>1, <3>2
  <2>11. QED
    BY <2>7, <2>8, <2>9, <2>10 DEF Inv
<1>6. QED
  BY <1>4, <1>5

-----------------------------------------------------------------------------
(* The counts: connect() and disconnect().                                 *)

LEMMA ConnectionInv ==
  ASSUME Inv, Connect \/ Disconnect \/ \E s \in Sid : SubscriptionDrained(s) \/ Joined(s)
  PROVE  Inv'
<1>1. CASE Connect
  <2>1. connects' \in 0 .. MaxConnect
    BY <1>1, EventConstants DEF Connect, Inv, TypeOK
  <2>2. TypeOK'
    BY <1>1, <2>1 DEF Connect, Inv, TypeOK, subVars, queueVars, workVars, userVars
  <2>3. WorkerShape' /\ OwnQueues' /\ SharedQueue' /\ Entries' /\ Locks' /\ Counts'
    BY <1>1 DEF Connect, Inv, WorkerShape, OwnQueues, SharedQueue, Entries, Locks, Counts,
                subVars, queueVars, workVars, userVars
  <2>4. QED
    BY <2>2, <2>3 DEF Inv
<1>2. CASE Disconnect
  <2>1. 0 \in 0 .. MaxSid
    BY EventConstants
  <2>2. subscriptions' \in [Key -> 0 .. MaxSid] /\ \A k \in Key : subscriptions'[k] = 0
    BY <1>2, <2>1 DEF Disconnect
  <2>3. TypeOK'
    BY <1>2, <2>2 DEF Disconnect, Inv, TypeOK, queueVars, workVars, userVars
  <2>4. WorkerShape' /\ OwnQueues' /\ SharedQueue' /\ Locks' /\ Counts'
    BY <1>2 DEF Disconnect, Inv, WorkerShape, OwnQueues, SharedQueue, Locks, Counts,
                queueVars, workVars, userVars
  <2>5. Entries'
    BY <2>2 DEF Entries
  <2>6. QED
    BY <2>3, <2>4, <2>5 DEF Inv
<1>3. ASSUME NEW s \in Sid, SubscriptionDrained(s) PROVE Inv'
  <2>1. TypeOK'
    BY <1>3 DEF SubscriptionDrained, Inv, TypeOK, connVars, queueVars, workVars, userVars
  <2>2. WorkerShape' /\ OwnQueues' /\ SharedQueue' /\ Entries' /\ Locks' /\ Counts'
    BY <1>3 DEF SubscriptionDrained, Inv, WorkerShape, OwnQueues, SharedQueue, Entries, Locks, Counts,
                connVars, queueVars, workVars, userVars
  <2>3. QED
    BY <2>1, <2>2 DEF Inv
<1>4. ASSUME NEW s \in Sid, Joined(s) PROVE Inv'
  <2>1. TypeOK'
    BY <1>4 DEF Joined, Inv, TypeOK, subVars, queueVars, workVars, userVars
  <2>2. WorkerShape' /\ OwnQueues' /\ SharedQueue' /\ Entries' /\ Locks' /\ Counts'
    BY <1>4 DEF Joined, Inv, WorkerShape, OwnQueues, SharedQueue, Entries, Locks, Counts,
                subVars, queueVars, workVars, userVars
  <2>3. QED
    BY <2>1, <2>2 DEF Inv
<1>5. QED
  BY <1>1, <1>2, <1>3, <1>4

\* A worker that is cancelled while it handles a message still counts it.
LEMMA StopInv ==
  ASSUME Inv, Drained \/ DrainTimesOut
  PROVE  Inv'
<1>1. /\ Stop /\ timedOut' \in BOOLEAN /\ owed' \subseteq Msg \X Handler
  BY DEF Drained, DrainTimesOut, Inv, TypeOK
<1>2. unfinished' = Len(queue) /\ unfinished' \in Nat
  <2>1. unfinished = Len(queue) + Len(current) /\ Len(queue) \in Nat
    BY DEF Inv, Counts, TypeOK
  <2>2. CASE current = <<>>
    BY <1>1, <2>1, <2>2, EmptySeq DEF Stop, WorkerIdle
  <2>3. CASE current # <<>>
    <3> DEFINE n == Len(current)
    <3>1. n \in Nat /\ n # 0 /\ n <= 1
      BY <2>3, EmptySeq DEF Inv, TypeOK
    <3> HIDE DEF n
    <3>2. n = 1
      BY <3>1
    <3>3. unfinished' = unfinished - 1 /\ unfinished = Len(queue) + 1
      BY <1>1, <2>1, <2>3, <3>2 DEF Stop, WorkerIdle, n
    <3>4. QED
      BY <2>1, <3>3
  <2>4. QED
    BY <2>2, <2>3
<1>3. current' \in Seq(Msg) /\ todo' \in Seq(Handler) /\ Len(current') = 0 /\ current' = <<>>
  BY <1>1, EmptySeq DEF Stop
<1>4. TypeOK'
  BY <1>1, <1>2, <1>3 DEF Stop, Inv, TypeOK, userVars
<1>5. WorkerShape' /\ OwnQueues' /\ SharedQueue' /\ Entries' /\ Locks'
  BY <1>1, <1>3 DEF Stop, Inv, WorkerShape, OwnQueues, SharedQueue, Entries, Locks, userVars
<1>6. Counts'
  <2>1. routed' = {} /\ queue' = queue /\ Len(queue) \in Nat
    BY <1>1 DEF Stop, Inv, TypeOK
  <2>2. QED
    BY <1>2, <1>3, <2>1 DEF Counts
<1>7. QED
  BY <1>4, <1>5, <1>6 DEF Inv

\* Every step keeps the counts.
LEMMA InvKept == Inv /\ [Next]_vars => Inv'
<1> SUFFICES ASSUME Inv, [Next]_vars PROVE Inv'
  OBVIOUS
<1>1. ASSUME NEW s \in Sid, Arrive(s) PROVE Inv'
  BY <1>1, ArriveInv
<1>2. ASSUME NEW s \in Sid, SubscriptionDrained(s) \/ Joined(s) PROVE Inv'
  BY <1>2, ConnectionInv
<1>3. CASE Worker
  BY <1>3, DropMessageInv, TakeMessageInv, HandlerEndsInv DEF Worker
<1>4. ASSUME NEW u \in User, UserCalls(u) PROVE Inv'
  BY <1>4, UserStepInv DEF UserCalls
<1>5. ASSUME NEW u \in User, UserResumes(u) PROVE Inv'
  <2>1. \A s \in Sid : SubscribeAtOnce(u, s) \/ SubscribeSuspends(u, s) => Inv'
    BY SubscribeNewInv, SubscribeSuspendsInv
  <2>2. SubscribeFails(u) \/ Flushed(u) \/ Unsubscribed(u) => Inv'
    BY UserStepInv
  <2>3. SubscribeToExisting(u) \/ SubscribeResumes(u) => Inv'
    BY SubscribeToExistingInv, SubscribeResumesInv
  <2>4. UnsubscribeHandler(u) => Inv'
    BY UnsubscribeHandlerInv
  <2>5. QED
    BY <1>5, <2>1, <2>2, <2>3, <2>4 DEF UserResumes
<1>6. CASE Connect \/ Disconnect
  BY <1>6, ConnectionInv
<1>7. CASE Drained \/ DrainTimesOut
  BY <1>7, StopInv
<1>8. CASE Quiet \/ UNCHANGED vars
  <2>1. UNCHANGED vars
    BY <1>8 DEF Quiet
  <2>2. TypeOK'
    BY <2>1 DEF vars, Inv, TypeOK
  <2>3. WorkerShape' /\ OwnQueues' /\ SharedQueue'
    BY <2>1 DEF vars, Inv, WorkerShape, OwnQueues, SharedQueue
  <2>4. Entries' /\ Locks' /\ Counts'
    BY <2>1 DEF vars, Inv, Entries, Locks, Counts
  <2>5. QED
    BY <2>2, <2>3, <2>4 DEF Inv
<1>9. QED
  BY <1>1, <1>2, <1>3, <1>4, <1>5, <1>6, <1>7, <1>8 DEF Next

LEMMA Inductive == Spec => []Inv
<1>1. QED
  BY InitInv, InvKept, PTL DEF Spec

\* Every variable has its type: the handlers of a subscription stay a list of
\* handlers, and the counts of nats-py never become negative.
THEOREM TypeCorrect == Spec => []TypeOK
<1>1. Inv => TypeOK
  BY DEF Inv
<1>2. QED
  BY <1>1, Inductive, PTL

\* The counts nats-py relies on are right, whatever is subscribed, moved, dropped,
\* handled or cancelled: join() of the shared queue waits for what is left to do,
\* and the count of a subscription's waiting messages is theirs.
THEOREM CountsAreRight == Spec => []CountsRight
<1>1. Inv => CountsRight
  <2> SUFFICES ASSUME Inv, NEW s \in routed
               PROVE  pending[s] = Cardinality({i \in DOMAIN queue : queue[i].sid = s})
    BY DEF Inv, Counts, CountsRight
  <2>1. queue \in Seq(Msg)
    BY DEF Inv, TypeOK
  <2>2. \A i \in DOMAIN queue : queue[i] \in Msg
    BY <2>1
  <2>3. {i \in DOMAIN queue : queue[i] \in Of(s)} = {i \in DOMAIN queue : queue[i].sid = s}
    BY <2>2 DEF Of
  <2>4. QED
    BY <2>3 DEF Inv, Counts, Count
<1>2. QED
  BY <1>1, Inductive, PTL

(***************************************************************************)
(* No call is lost.  A call that is owed is one of a handler that is still *)
(* listed, for a subscription the worker still knows; that the worker      *)
(* knows whom messages come for needs the keys to be told apart.           *)
(***************************************************************************)
ListsUnique == \A s \in Sid : IsInjective(handlers[s])

ListedIsRouted == \A s \in active : handlers[s] # <<>> => s \in routed

EntryRouted == \A k \in Key : subscriptions[k] \in active => subscriptions[k] \in routed

OneKeyEach == \A k, l \in Key : subscriptions[k] = subscriptions[l] /\ subscriptions[k] # 0 => k = l

OwedComes ==
  \A o \in owed :
    /\ o[1].sid \in routed /\ o[2] \in ToSet(handlers[o[1].sid]) /\ Wants(o[2], o[1].id)
    /\ \/ o[1] \in ToSet(queue)
       \/ current = <<o[1]>> /\ o[2] \in ToSet(Tail(todo))

Delivery == ListsUnique /\ ListedIsRouted /\ EntryRouted /\ OneKeyEach /\ OwedComes

\* What a handler list holds after the first handler called is in the rest of the snapshot.
LEMMA CallNextOwed ==
  ASSUME NEW m \in Msg, NEW hs \in Seq(Handler), CallNext(m, hs)
  PROVE  /\ owed' \subseteq owed
         /\ \A h \in ToSet(hs) : Wants(h, m.id) /\ <<m, h>> \in owed'
              => current' = <<m>> /\ h \in ToSet(Tail(todo'))
<1>1. CASE /\ \A i \in DOMAIN hs : ~Wants(hs[i], m.id)
           /\ UNCHANGED owed
  BY <1>1 DEF ToSet
<1>2. ASSUME NEW i \in DOMAIN hs,
             \A j \in 1 .. i - 1 : ~Wants(hs[j], m.id),
             current' = <<m>>, todo' = SubSeq(hs, i, Len(hs)), owed' = owed \ {<<m, hs[i]>>}
      PROVE  /\ owed' \subseteq owed
             /\ \A h \in ToSet(hs) : Wants(h, m.id) /\ <<m, h>> \in owed'
                  => current' = <<m>> /\ h \in ToSet(Tail(todo'))
  <2>1. owed' \subseteq owed
    BY <1>2
  <2>2. ASSUME NEW j \in DOMAIN hs, Wants(hs[j], m.id), <<m, hs[j]>> \in owed'
        PROVE  hs[j] \in ToSet(Tail(todo'))
    <3> DEFINE r == Tail(todo')
    <3>1. Len(hs) \in Nat /\ i \in 1 .. Len(hs) /\ j \in 1 .. Len(hs)
      OBVIOUS
    <3>2. j # i
      BY <1>2, <2>2
    <3>3. ~(j \in 1 .. i - 1)
      BY <1>2, <2>2
    <3>4. j - i \in 1 .. Len(hs) - i /\ i + (j - i) = j
      BY <3>1, <3>2, <3>3
    <3>5. DOMAIN r = 1 .. Len(hs) - i /\ \A l \in 1 .. Len(hs) - i : r[l] = hs[i + l]
      BY <1>2, SnapshotRest
    <3>6. j - i \in DOMAIN r /\ r[j - i] = hs[j]
      BY <3>4, <3>5
    <3> HIDE DEF r
    <3>7. hs[j] \in ToSet(r)
      BY <3>6 DEF ToSet
    <3>8. QED
      BY <3>7 DEF r
  <2>3. QED
    BY <1>2, <2>1, <2>2 DEF ToSet
<1>3. QED
  BY <1>1, <1>2, CallNextCases

LEMMA ArriveDelivers ==
  ASSUME Inv, Delivery, NEW s \in Sid, Arrive(s)
  PROVE  Delivery'
<1> DEFINE m == [id |-> arrived + 1, sid |-> s]
<1>1. /\ s \in active /\ arrived + 1 \in Id
      /\ UNCHANGED <<connVars, subVars, workVars, userVars>>
  BY EventConstants DEF Arrive, Inv, TypeOK, Id
<1>2. m \in Msg /\ m.sid = s
  BY <1>1 DEF Msg
<1>3. m.id = arrived + 1
  OBVIOUS
<1> HIDE DEF m
<1>4. /\ ToSet(queue) \subseteq ToSet(queue')
      /\ \A o \in owed' :
           \/ o \in owed
           \/ \E h \in ToSet(handlers[s]) : o = <<m, h>> /\ Wants(h, m.id) /\ m \in ToSet(queue')
  <2>1. CASE /\ queue' = Append(queue, m)
             /\ owed' = owed \cup {<<m, h>> : h \in {x \in ToSet(handlers[s]) : Wants(x, m.id)}}
    <3>1. ToSet(queue') = ToSet(queue) \cup {m}
      BY <1>2, <2>1, AppendHolds DEF Inv, TypeOK
    <3>2. QED
      BY <2>1, <3>1
  <2>2. CASE /\ s \notin swapped /\ queue' = queue
             /\ owed' = owed \cup {<<m, h>> : h \in {x \in ToSet(handlers[s]) : Wants(x, m.id)}}
    <3>1. ToSet(handlers[s]) = {}
      BY <2>2 DEF Inv, OwnQueues, ToSet
    <3>2. QED
      BY <2>2, <3>1
  <2>3. CASE UNCHANGED <<queue, owed>>
    BY <2>3
  <2>4. QED
    BY <2>1, <2>2, <2>3 DEF Arrive, m
<1>5. ListsUnique' /\ ListedIsRouted' /\ EntryRouted' /\ OneKeyEach'
  BY <1>1 DEF Delivery, ListsUnique, ListedIsRouted, EntryRouted, OneKeyEach, subVars
<1>6. OwedComes'
  <2> SUFFICES ASSUME NEW o \in owed'
               PROVE  /\ o[1].sid \in routed /\ o[2] \in ToSet(handlers[o[1].sid]) /\ Wants(o[2], o[1].id)
                      /\ \/ o[1] \in ToSet(queue')
                         \/ current = <<o[1]>> /\ o[2] \in ToSet(Tail(todo))
    BY <1>1 DEF OwedComes, subVars, workVars
  <2>1. CASE o \in owed
    BY <1>4, <2>1 DEF Delivery, OwedComes
  <2>2. ASSUME NEW h \in ToSet(handlers[s]), o = <<m, h>>, Wants(h, m.id), m \in ToSet(queue')
        PROVE  o[1].sid \in routed /\ o[2] \in ToSet(handlers[o[1].sid]) /\ Wants(o[2], o[1].id) /\ o[1] \in ToSet(queue')
    <3>1. handlers[s] # <<>>
      BY DEF ToSet
    <3>2. s \in routed
      BY <1>1, <3>1 DEF Delivery, ListedIsRouted
    <3>3. o[1] = m /\ o[2] = h
      BY <2>2
    <3>4. QED
      BY <1>2, <2>2, <3>2, <3>3
  <2>3. QED
    BY <1>4, <2>1, <2>2
<1>7. QED
  BY <1>5, <1>6 DEF Delivery

LEMMA WorkerDelivers ==
  ASSUME Inv, Delivery, Worker
  PROVE  Delivery'
<1>1. UNCHANGED <<connVars, subVars>>
  BY DEF Worker, DropMessage, TakeMessage, HandlerEnds
<1>2. ListsUnique' /\ ListedIsRouted' /\ EntryRouted' /\ OneKeyEach'
  BY <1>1 DEF Delivery, ListsUnique, ListedIsRouted, EntryRouted, OneKeyEach, subVars
<1>3. SUFFICES ASSUME NEW o \in owed'
               PROVE  /\ o \in owed
                      /\ \/ o[1] \in ToSet(queue')
                         \/ current' = <<o[1]>> /\ o[2] \in ToSet(Tail(todo'))
  BY <1>1, <1>2 DEF Delivery, OwedComes, subVars
<1>4. owed \subseteq Msg \X Handler /\ queue \in Seq(Msg)
  BY DEF Inv, TypeOK
<1>5. CASE DropMessage
  <2>1. /\ queue # <<>> /\ Head(queue).sid \notin routed /\ current = <<>>
        /\ queue' = Tail(queue) /\ UNCHANGED <<workVars, owed>>
    BY <1>5 DEF DropMessage, WorkerIdle
  <2>2. o[1] \in ToSet(queue) /\ o[1].sid \in routed
    BY <2>1 DEF Delivery, OwedComes
  <2>3. o[1] \in ToSet(queue')
    BY <1>4, <2>1, <2>2, TailHolds
  <2>4. QED
    BY <2>1, <2>3
<1>6. CASE TakeMessage
  <2> DEFINE m == Head(queue)
  <2>1. /\ queue # <<>> /\ m.sid \in routed /\ current = <<>> /\ queue' = Tail(queue)
        /\ CallNext(m, handlers[m.sid])
    BY <1>6 DEF TakeMessage, WorkerIdle
  <2>2. m \in Msg
    BY <1>4, <2>1, HeadTailProperties
  <2>3. handlers[m.sid] \in Seq(Handler)
    BY <2>1 DEF Inv, TypeOK
  <2>4. /\ owed' \subseteq owed
        /\ \A h \in ToSet(handlers[m.sid]) : Wants(h, m.id) /\ <<m, h>> \in owed'
             => current' = <<m>> /\ h \in ToSet(Tail(todo'))
    BY <2>1, <2>2, <2>3, CallNextOwed
  <2>5. o \in owed /\ o[1] \in ToSet(queue) /\ o[2] \in ToSet(handlers[o[1].sid]) /\ Wants(o[2], o[1].id)
    BY <2>1, <2>4 DEF Delivery, OwedComes
  <2>6. CASE o[1] # m
    BY <1>4, <2>1, <2>5, <2>6, TailHolds
  <2>7. CASE o[1] = m
    <3>1. o = <<m, o[2]>>
      BY <1>4, <2>5, <2>7
    <3>2. QED
      BY <2>4, <2>5, <2>7, <3>1
  <2>8. QED
    BY <2>5, <2>6, <2>7
<1>7. CASE HandlerEnds
  <2> DEFINE m == current[1]
  <2>1. current # <<>> /\ CallNext(m, Tail(todo)) /\ queue' = queue
    BY <1>7 DEF HandlerEnds, WorkerIdle
  <2>2. m \in Msg /\ Tail(todo) \in Seq(Handler)
    <3>1. 1 \in 1 .. Len(current) /\ current \in Seq(Msg)
      BY <2>1, EmptySeq DEF Inv, TypeOK
    <3>2. current[1] \in Msg
      BY <3>1, ElementOfSeq
    <3>3. Tail(todo) \in Seq(Handler)
      BY <2>1, HeadTailProperties DEF Inv, WorkerShape, TypeOK
    <3>4. QED
      BY <3>2, <3>3
  <2>3. /\ owed' \subseteq owed
        /\ \A h \in ToSet(Tail(todo)) : Wants(h, m.id) /\ <<m, h>> \in owed'
             => current' = <<m>> /\ h \in ToSet(Tail(todo'))
    BY <2>1, <2>2, CallNextOwed
  <2>4. o \in owed /\ Wants(o[2], o[1].id)
    BY <2>3 DEF Delivery, OwedComes
  <2>5. CASE o[1] \in ToSet(queue)
    BY <2>1, <2>4, <2>5
  <2>6. CASE current = <<o[1]>> /\ o[2] \in ToSet(Tail(todo))
    <3>1. m = o[1]
      BY <2>6
    <3>2. o = <<m, o[2]>>
      BY <1>4, <2>4, <3>1
    <3>3. QED
      BY <2>3, <2>4, <2>6, <3>1, <3>2
  <2>7. QED
    BY <2>4, <2>5, <2>6 DEF Delivery, OwedComes
<1>8. QED
  BY <1>5, <1>6, <1>7 DEF Worker

LEMMA SubscribeToExistingDelivers ==
  ASSUME Inv, Delivery, NEW u \in User, SubscribeToExisting(u)
  PROVE  Delivery'
<1> DEFINE k == user[u].key
           h == user[u].handler
           s == subscriptions[k]
<1>1. /\ user[u].op = "subscribe" /\ s # 0
      /\ handlers' = (IF h \in ToSet(handlers[s]) THEN handlers
                      ELSE [handlers EXCEPT ![s] = Append(@, h)])
      /\ UNCHANGED <<connVars, subscriptions, swapped, routed, active, sids, queueVars,
                     workVars, owed>>
  BY DEF SubscribeToExisting, Doing
<1>2. k \in Key /\ h \in Handler
  BY <1>1 DEF Inv, Locks
<1>3. s \in Sid /\ (s \in active => s \in routed)
  BY <1>1, <1>2 DEF Inv, Entries, TypeOK, Delivery, EntryRouted
<1> HIDE DEF k, h, s
<1>4. handlers \in [Sid -> Seq(Handler)]
  BY DEF Inv, TypeOK
<1>5. \A t \in Sid : /\ IsInjective(handlers'[t]) /\ ToSet(handlers[t]) \subseteq ToSet(handlers'[t])
                     /\ t # s => handlers'[t] = handlers[t]
  <2>1. CASE h \in ToSet(handlers[s])
    BY <1>1, <2>1 DEF Delivery, ListsUnique
  <2>2. CASE h \notin ToSet(handlers[s])
    <3>1. /\ ToSet(Append(handlers[s], h)) = ToSet(handlers[s]) \cup {h}
          /\ IsInjective(handlers[s]) => IsInjective(Append(handlers[s], h))
      BY <1>2, <1>3, <1>4, <2>2, AppendHolds
    <3>2. handlers' = [handlers EXCEPT ![s] = Append(@, h)]
      BY <1>1, <2>2
    <3>3. QED
      BY <1>3, <1>4, <3>1, <3>2 DEF Delivery, ListsUnique
  <2>3. QED
    BY <2>1, <2>2
<1>6. ListsUnique' /\ EntryRouted' /\ OneKeyEach'
  BY <1>1, <1>5 DEF Delivery, ListsUnique, EntryRouted, OneKeyEach
<1>7. ListedIsRouted'
  <2>1. active \subseteq Sid
    BY DEF Inv, TypeOK
  <2>2. QED
    BY <1>1, <1>3, <1>5, <2>1 DEF Delivery, ListedIsRouted
<1>8. OwedComes'
  <2>1. routed \subseteq Sid
    BY DEF Inv, TypeOK
  <2>2. QED
    BY <1>1, <1>5, <2>1 DEF Delivery, OwedComes, queueVars, workVars
<1>9. QED
  BY <1>6, <1>7, <1>8 DEF Delivery

LEMMA AddSubscriptionDelivers ==
  ASSUME Inv, Delivery, NEW u \in User, NEW s \in Sid, s \notin swapped, AddSubscription(u, s),
         user[u].key \in Key, user[u].handler \in Handler,
         active' \subseteq active \cup {s},
         UNCHANGED workVars
  PROVE  Delivery'
<1> DEFINE k == user[u].key
           h == user[u].handler
<1>1. queue' = queue \o Moved(s)
  BY DEF AddSubscription, Moved
<1>2. ToSet(queue) \subseteq ToSet(queue')
  <2>1. Moved(s) \in Seq(Msg) /\ queue \in Seq(Msg)
    BY MovedType DEF Inv, OwnQueues, TypeOK
  <2>2. QED
    BY <1>1, <2>1, ConcatHolds
<1>3. handlers[s] = <<>> /\ s \notin routed /\ \A j \in Key : subscriptions[j] # s
  BY DEF Inv, OwnQueues, Entries, Sid
<1>4. handlers \in [Sid -> Seq(Handler)] /\ subscriptions \in [Key -> 0 .. MaxSid] /\ routed \subseteq Sid
      /\ active \subseteq Sid
  BY DEF Inv, TypeOK
<1>5. CASE Fits(s)
  <2>1. /\ handlers' = [handlers EXCEPT ![s] = <<h>>]
        /\ routed' = routed \cup {s}
        /\ subscriptions' = [subscriptions EXCEPT ![k] = s]
        /\ owed' = owed \cup {<<m, h>> : m \in {x \in ToSet(queue') : x.sid = s /\ Wants(h, x.id)}}
    BY <1>5 DEF AddSubscription
  <2> HIDE DEF k, h
  <2>2. handlers'[s] = <<h>> /\ \A t \in Sid : t # s => handlers'[t] = handlers[t]
    BY <1>4, <2>1
  <2>3. ListsUnique'
    <3>1. IsInjective(<<h>>)
      BY DEF IsInjective
    <3>2. QED
      BY <2>2, <3>1 DEF Delivery, ListsUnique
  <2>4. ListedIsRouted'
    BY <1>4, <2>1, <2>2 DEF Delivery, ListedIsRouted
  <2>5. subscriptions'[k] = s /\ \A j \in Key : j # k => subscriptions'[j] = subscriptions[j]
    BY <1>4, <2>1 DEF k
  <2>6. EntryRouted'
    BY <1>3, <2>1, <2>5 DEF Delivery, EntryRouted
  <2>7. OneKeyEach'
    BY <1>3, <2>5 DEF Delivery, OneKeyEach
  <2>8. OwedComes'
    <3> SUFFICES ASSUME NEW o \in owed'
                 PROVE  /\ o[1].sid \in routed' /\ o[2] \in ToSet(handlers'[o[1].sid]) /\ Wants(o[2], o[1].id)
                        /\ \/ o[1] \in ToSet(queue')
                           \/ current = <<o[1]>> /\ o[2] \in ToSet(Tail(todo))
      BY DEF OwedComes, workVars
    <3>1. CASE o \in owed
      <4>1. /\ o[1].sid \in routed /\ o[2] \in ToSet(handlers[o[1].sid]) /\ Wants(o[2], o[1].id)
            /\ \/ o[1] \in ToSet(queue)
               \/ current = <<o[1]>> /\ o[2] \in ToSet(Tail(todo))
        BY <3>1 DEF Delivery, OwedComes
      <4>2. o[1].sid # s /\ o[1].sid \in Sid
        BY <1>3, <1>4, <4>1
      <4>3. QED
        BY <1>2, <2>1, <2>2, <4>1, <4>2
    <3>2. ASSUME NEW m \in ToSet(queue'), m.sid = s, Wants(h, m.id), o = <<m, h>>
          PROVE  o[1].sid \in routed' /\ o[2] \in ToSet(handlers'[o[1].sid]) /\ Wants(o[2], o[1].id) /\ o[1] \in ToSet(queue')
      <4>1. o[1] = m /\ o[2] = h
        BY <3>2
      <4>2. h \in ToSet(<<h>>)
        BY DEF ToSet
      <4>3. QED
        BY <2>1, <2>2, <3>2, <4>1, <4>2
    <3>3. QED
      BY <2>1, <3>1, <3>2
  <2>9. QED
    BY <2>3, <2>4, <2>6, <2>7, <2>8 DEF Delivery
<1>6. CASE ~Fits(s)
  <2>1. UNCHANGED <<handlers, routed, subscriptions, owed>>
    BY <1>6 DEF AddSubscription
  <2>2. ListsUnique' /\ OneKeyEach'
    BY <2>1 DEF Delivery, ListsUnique, OneKeyEach
  <2>3. ListedIsRouted' /\ EntryRouted'
    BY <1>3, <2>1 DEF Delivery, ListedIsRouted, EntryRouted
  <2>4. OwedComes'
    BY <1>2, <2>1 DEF Delivery, OwedComes, workVars
  <2>5. QED
    BY <2>2, <2>3, <2>4 DEF Delivery
<1>7. QED
  BY <1>5, <1>6

LEMMA SubscribeDelivers ==
  ASSUME Inv, Delivery, NEW u \in User,
         \/ SubscribeResumes(u)
         \/ \E s \in Sid : SubscribeAtOnce(u, s) \/ SubscribeSuspends(u, s)
  PROVE  Delivery'
<1>1. CASE SubscribeResumes(u)
  <2>1. /\ user[u].op = "subscribing" /\ AddSubscription(u, user[u].sid)
        /\ UNCHANGED active /\ UNCHANGED workVars
    BY <1>1 DEF SubscribeResumes, Doing
  <2>2. user[u].sid \in Sid /\ user[u].sid \notin swapped /\ user[u].key \in Key /\ user[u].handler \in Handler
    BY <2>1 DEF Inv, Locks
  <2>3. QED
    BY <2>1, <2>2, AddSubscriptionDelivers
<1>2. ASSUME NEW s \in Sid, SubscribeAtOnce(u, s) \/ SubscribeSuspends(u, s)
      PROVE  Delivery'
  <2>1. user[u].op = "subscribe" /\ s = sids + 1 /\ active' = active \cup {s} /\ UNCHANGED workVars
    BY <1>2 DEF SubscribeAtOnce, SubscribeSuspends, NewSubscription, Doing
  <2>2. user[u].key \in Key /\ user[u].handler \in Handler
    BY <2>1 DEF Inv, Locks
  <2>3. s \notin swapped
    BY <2>1 DEF Inv, OwnQueues, TypeOK, Sid
  <2>4. CASE SubscribeAtOnce(u, s)
    BY <2>1, <2>2, <2>3, <2>4, AddSubscriptionDelivers DEF SubscribeAtOnce
  <2>5. CASE SubscribeSuspends(u, s)
    <3>1. UNCHANGED <<subscriptions, handlers, swapped, routed, queueVars, workVars, owed>>
      BY <2>5 DEF SubscribeSuspends
    <3>2. handlers[s] = <<>> /\ \A j \in Key : subscriptions[j] # s
      BY <2>3 DEF Inv, OwnQueues, Entries, Sid
    <3>3. ListsUnique' /\ OneKeyEach'
      BY <3>1 DEF Delivery, ListsUnique, OneKeyEach
    <3>4. ListedIsRouted' /\ EntryRouted'
      BY <2>1, <3>1, <3>2 DEF Delivery, ListedIsRouted, EntryRouted
    <3>5. OwedComes'
      BY <3>1 DEF Delivery, OwedComes, queueVars, workVars
    <3>6. QED
      BY <3>3, <3>4, <3>5 DEF Delivery
  <2>6. QED
    BY <1>2, <2>4, <2>5
<1>3. QED
  BY <1>1, <1>2

LEMMA UnsubscribeHandlerDelivers ==
  ASSUME Inv, Delivery, NEW u \in User, UnsubscribeHandler(u)
  PROVE  Delivery'
<1> DEFINE k == user[u].key
           h == user[u].handler
           s == subscriptions[k]
<1>1. user[u].op = "unsubscribe" /\ UNCHANGED <<connVars, queueVars, workVars>>
  BY DEF UnsubscribeHandler, Doing
<1>2. k \in Key /\ h \in Handler
  BY <1>1 DEF Inv, Locks, TypeOK
<1>3. CASE s = 0 \/ ~Subscribed(s, h)
  <2>1. UNCHANGED <<subVars, owed>>
    BY <1>3 DEF UnsubscribeHandler
  <2>2. QED
    BY <1>1, <2>1 DEF Delivery, ListsUnique, ListedIsRouted, EntryRouted, OneKeyEach, OwedComes,
                      subVars, queueVars, workVars
<1>4. CASE s # 0 /\ Subscribed(s, h)
  <2>1. /\ handlers' = [handlers EXCEPT ![s] = RemoveFirst(@, h)]
        /\ owed' = {o \in owed : o[1].sid # s \/ o[2] # h}
        /\ active' \subseteq active /\ UNCHANGED <<swapped, sids>>
        /\ \/ handlers'[s] # <<>> /\ UNCHANGED <<subscriptions, routed>>
           \/ /\ handlers'[s] = <<>>
              /\ subscriptions' = [subscriptions EXCEPT ![k] = 0]
              /\ routed' = routed \ {s}
    BY <1>4 DEF UnsubscribeHandler, RemoveSubscription, Forget
  <2>2. s \in Sid /\ h \in ToSet(handlers[s]) /\ handlers \in [Sid -> Seq(Handler)]
    BY <1>4 DEF Subscribed, Inv, TypeOK
  <2>3. /\ ToSet(RemoveFirst(handlers[s], h)) = ToSet(handlers[s]) \ {h}
        /\ IsInjective(RemoveFirst(handlers[s], h))
    BY <2>2, RemoveFirstHolds DEF Delivery, ListsUnique
  <2>4. s = subscriptions[k] /\ s # 0 /\ subscriptions \in [Key -> 0 .. MaxSid]
    BY <1>4 DEF Inv, TypeOK
  <2> HIDE DEF k, h, s
  <2>5. /\ handlers'[s] = RemoveFirst(handlers[s], h)
        /\ \A t \in Sid : t # s => handlers'[t] = handlers[t]
    BY <2>1, <2>2
  <2>6. ListsUnique'
    BY <2>3, <2>5 DEF Delivery, ListsUnique
  <2>7. active \subseteq Sid /\ routed \subseteq Sid
    BY DEF Inv, TypeOK
  <2>8. \A t \in Sid : t \in routed' <=> t \in routed /\ (t # s \/ handlers'[s] # <<>>)
    BY <2>1
  <2>9. ListedIsRouted'
    <3> SUFFICES ASSUME NEW t \in active, handlers'[t] # <<>> PROVE t \in routed'
      BY <2>1 DEF ListedIsRouted
    <3>1. CASE t # s
      BY <2>5, <2>7, <2>8, <3>1 DEF Delivery, ListedIsRouted
    <3>2. CASE t = s
      <4>1. s \in routed
        BY <1>2, <2>4, <3>2 DEF Delivery, EntryRouted
      <4>2. QED
        BY <2>7, <2>8, <3>2, <4>1
    <3>3. QED
      BY <3>1, <3>2
  <2>10. \A j \in Key : \/ subscriptions'[j] = 0
                        \/ subscriptions'[j] = subscriptions[j] /\ (subscriptions[j] # s \/ handlers'[s] # <<>>)
    <3> SUFFICES ASSUME NEW j \in Key
                 PROVE  \/ subscriptions'[j] = 0
                        \/ subscriptions'[j] = subscriptions[j] /\ (subscriptions[j] # s \/ handlers'[s] # <<>>)
      OBVIOUS
    <3>1. subscriptions[j] = s => j = k
      BY <1>2, <2>4 DEF Delivery, OneKeyEach
    <3>2. QED
      BY <2>1, <2>4, <3>1
  <2>11. OneKeyEach'
    BY <2>10 DEF Delivery, OneKeyEach
  <2>12. EntryRouted'
    <3> SUFFICES ASSUME NEW j \in Key, subscriptions'[j] \in active PROVE subscriptions'[j] \in routed'
      BY <2>1 DEF EntryRouted
    <3>1. subscriptions'[j] # 0
      BY <2>7 DEF Sid
    <3>2. subscriptions'[j] = subscriptions[j] /\ (subscriptions[j] # s \/ handlers'[s] # <<>>)
      BY <2>10, <3>1
    <3>3. subscriptions[j] \in routed
      BY <3>2 DEF Delivery, EntryRouted
    <3>4. QED
      BY <2>7, <2>8, <3>2, <3>3
  <2>13. OwedComes'
    <3> SUFFICES ASSUME NEW o \in owed'
                 PROVE  /\ o[1].sid \in routed' /\ o[2] \in ToSet(handlers'[o[1].sid]) /\ Wants(o[2], o[1].id)
                        /\ \/ o[1] \in ToSet(queue)
                           \/ current = <<o[1]>> /\ o[2] \in ToSet(Tail(todo))
      BY <1>1 DEF OwedComes, queueVars, workVars
    <3>1. /\ o \in owed /\ (o[1].sid # s \/ o[2] # h)
          /\ o[1].sid \in routed /\ o[2] \in ToSet(handlers[o[1].sid]) /\ Wants(o[2], o[1].id)
          /\ \/ o[1] \in ToSet(queue)
             \/ current = <<o[1]>> /\ o[2] \in ToSet(Tail(todo))
      BY <2>1 DEF Delivery, OwedComes
    <3>2. o[1].sid \in Sid
      BY <2>7, <3>1
    <3>3. o[2] \in ToSet(handlers'[o[1].sid])
      BY <2>3, <2>5, <3>1, <3>2
    <3>4. o[1].sid = s => handlers'[s] # <<>>
      BY <3>3 DEF ToSet
    <3>5. QED
      BY <2>8, <3>1, <3>2, <3>3, <3>4
  <2>14. QED
    BY <2>6, <2>9, <2>11, <2>12, <2>13 DEF Delivery
<1>5. QED
  BY <1>3, <1>4

\* disconnect() forgets the keys, and a subscription is drained or gone.
LEMMA LeaveDelivers ==
  ASSUME Inv, Delivery, Disconnect \/ (\E s \in Sid : SubscriptionDrained(s))
  PROVE  Delivery'
<1>1. /\ active' \subseteq active
      /\ subscriptions' = subscriptions \/ \A k \in Key : subscriptions'[k] = 0
      /\ UNCHANGED <<handlers, routed, queueVars, workVars, owed>>
  BY DEF Disconnect, SubscriptionDrained
<1>2. 0 \notin active
  BY DEF Inv, TypeOK, Sid
<1>3. ListsUnique' /\ ListedIsRouted'
  BY <1>1 DEF Delivery, ListsUnique, ListedIsRouted
<1>4. EntryRouted' /\ OneKeyEach'
  BY <1>1, <1>2 DEF Delivery, EntryRouted, OneKeyEach
<1>5. OwedComes'
  BY <1>1 DEF Delivery, OwedComes, queueVars, workVars
<1>6. QED
  BY <1>3, <1>4, <1>5 DEF Delivery

\* With nothing owed when the drain is over, nothing is left to the next connection.
LEMMA StopDelivers ==
  ASSUME Inv, Delivery, (Drained /\ owed = {}) \/ DrainTimesOut
  PROVE  Delivery' /\ owed' = {}
<1>1. owed' = {}
  BY DEF Drained, DrainTimesOut
<1>2. active' = {} /\ UNCHANGED <<handlers, subscriptions>>
  BY DEF Drained, DrainTimesOut, Stop
<1>3. ListsUnique' /\ ListedIsRouted' /\ EntryRouted' /\ OneKeyEach' /\ OwedComes'
  BY <1>1, <1>2 DEF Delivery, ListsUnique, ListedIsRouted, EntryRouted, OneKeyEach, OwedComes
<1>4. QED
  BY <1>1, <1>3 DEF Delivery

\* The other steps only change what a user task or the connection is at.
LEMMA RestDelivers ==
  ASSUME Delivery,
         \/ Connect \/ Quiet \/ UNCHANGED vars \/ (\E s \in Sid : Joined(s))
         \/ (\E u \in User : UserCalls(u) \/ SubscribeFails(u) \/ Flushed(u) \/ Unsubscribed(u))
  PROVE  Delivery' /\ UNCHANGED owed
<1>1. UNCHANGED <<subVars, queueVars, workVars, owed>>
  BY DEF Connect, Quiet, vars, Joined, UserCalls, Subscribe, Unsubscribe, SubscribeFails, Flushed,
         Unsubscribed, subVars, queueVars, workVars
<1>2. ListsUnique' /\ ListedIsRouted' /\ EntryRouted' /\ OneKeyEach'
  BY <1>1 DEF Delivery, ListsUnique, ListedIsRouted, EntryRouted, OneKeyEach, subVars
<1>3. OwedComes'
  BY <1>1 DEF Delivery, OwedComes, subVars, queueVars, workVars
<1>4. QED
  BY <1>1, <1>2, <1>3 DEF Delivery

(***************************************************************************)
(* A subscription that subscribe() joins a handler to is alive.  A client  *)
(* .subscribe() that is suspended over disconnect() and the next connect() *)
(* would put its entry back, of a subscription of the old connection: the  *)
(* theorem is about clients that do not suspend, or connect only once.     *)
(***************************************************************************)
EntriesLive ==
  \A k \in Key : conn = "up" /\ subscriptions[k] # 0 =>
    subscriptions[k] \in active /\ handlers[subscriptions[k]] # <<>>

TasksKnow ==
  \A u \in User :
    /\ user[u].op = "subscribing" => Suspends /\ (conn = "up" => user[u].sid \in active)
    /\ connects = 0 => user[u].op = "idle"

ClosedForgets ==
  /\ connects = 0 \/ (conn # "up" /\ ~Suspends) => \A k \in Key : subscriptions[k] = 0
  /\ connects = 0 => conn = "down"

Alive == EntriesLive /\ TasksKnow /\ ClosedForgets

\* A user task whose step changes no more than what it is doing.
LEMMA UserAlive ==
  ASSUME Inv, Alive, NEW u \in User,
         UserCalls(u) \/ SubscribeFails(u) \/ Flushed(u) \/ Unsubscribed(u)
  PROVE  Alive'
<1>1. UNCHANGED <<connVars, subVars>> /\ user \in [User -> UserState]
  BY DEF UserCalls, Subscribe, Unsubscribe, SubscribeFails, Flushed, Unsubscribed, Inv, TypeOK, UserState
<1>2. \E x : x.op \in {"idle", "subscribe", "unsubscribe"} /\ user' = [user EXCEPT ![u] = x]
              /\ (x.op # "idle" => conn # "down")
  <2>1. CASE SubscribeFails(u) \/ Flushed(u) \/ Unsubscribed(u)
    <3>1. user' = [user EXCEPT ![u] = Idle] /\ Idle.op = "idle"
      BY <2>1 DEF SubscribeFails, Flushed, Unsubscribed, Raise, Return, Idle
    <3>2. QED
      BY <3>1
  <2>2. ASSUME NEW k \in Key, NEW h \in Handler, Subscribe(u, k, h) \/ Unsubscribe(u, k, h)
        PROVE  \E x : x.op \in {"idle", "subscribe", "unsubscribe"} /\ user' = [user EXCEPT ![u] = x]
                      /\ (x.op # "idle" => conn # "down")
    <3>1. \E o \in {"subscribe", "unsubscribe"} :
            user' = [user EXCEPT ![u] = [op |-> o, key |-> k, handler |-> h, sid |-> 0]]
      BY <2>2 DEF Subscribe, Unsubscribe
    <3>2. conn # "down"
      BY <2>2 DEF Subscribe, Unsubscribe
    <3>3. QED
      BY <3>1, <3>2
  <2>3. QED
    BY <2>1, <2>2 DEF UserCalls
<1>3. PICK x : /\ x.op \in {"idle", "subscribe", "unsubscribe"} /\ user' = [user EXCEPT ![u] = x]
               /\ x.op # "idle" => conn # "down"
  BY <1>2
<1>4. user'[u] = x /\ \A v \in User : v # u => user'[v] = user[v]
  BY <1>1, <1>3
<1>5. EntriesLive' /\ ClosedForgets'
  BY <1>1 DEF Alive, EntriesLive, ClosedForgets, connVars, subVars
<1>6. TasksKnow'
  <2> SUFFICES ASSUME NEW v \in User
               PROVE  /\ user'[v].op = "subscribing" => Suspends /\ (conn = "up" => user'[v].sid \in active)
                      /\ connects = 0 => user'[v].op = "idle"
    BY <1>1 DEF TasksKnow, connVars, subVars
  <2>1. CASE v = u
    BY <1>3, <1>4, <2>1 DEF Alive, ClosedForgets
  <2>2. CASE v # u
    BY <1>4, <2>2 DEF Alive, TasksKnow
  <2>3. QED
    BY <2>1, <2>2
<1>7. QED
  BY <1>5, <1>6 DEF Alive

\* A user task that comes back from client.subscribe() or works without waiting for it.
LEMMA SubscribeAlive ==
  ASSUME Inv, Delivery, Alive, NEW u \in User, NEW s \in Sid, s \notin swapped,
         AddSubscription(u, s), user[u].key \in Key,
         \A v \in User : v # u => user[v].op \notin {"subscribing", "flush", "unsubscribing"},
         active \subseteq active', conn = "up" => s \in active', Suspends \/ conn = "up", connects # 0,
         UNCHANGED connVars
  PROVE  Alive'
<1> DEFINE k == user[u].key
<1>1. /\ user \in [User -> UserState] /\ handlers \in [Sid -> Seq(Handler)]
      /\ subscriptions \in [Key -> 0 .. MaxSid]
  BY DEF Inv, TypeOK, UserState
<1>2. \A j \in Key : subscriptions[j] # 0 => subscriptions[j] # s /\ subscriptions[j] \in Sid
  BY DEF Inv, Entries, TypeOK
<1>3. CASE Fits(s)
  <2>1. /\ handlers' = [handlers EXCEPT ![s] = <<user[u].handler>>]
        /\ subscriptions' = [subscriptions EXCEPT ![k] = s]
        /\ user' = [user EXCEPT ![u] = [@ EXCEPT !.op = "flush", !.sid = s]]
    BY <1>3 DEF AddSubscription
  <2>2. /\ handlers'[s] # <<>> /\ \A t \in Sid : t # s => handlers'[t] = handlers[t]
    BY <1>1, <2>1
  <2>3. subscriptions'[k] = s /\ \A j \in Key : j # k => subscriptions'[j] = subscriptions[j]
    BY <1>1, <2>1
  <2>4. user'[u].op = "flush" /\ \A v \in User : v # u => user'[v] = user[v]
    BY <1>1, <2>1 DEF UserState
  <2> HIDE DEF k
  <2>5. EntriesLive'
    BY <1>2, <2>2, <2>3 DEF Alive, EntriesLive, connVars
  <2>6. TasksKnow'
    BY <2>4 DEF Alive, TasksKnow, connVars
  <2>7. ClosedForgets'
    BY DEF ClosedForgets, connVars
  <2>8. QED
    BY <2>5, <2>6, <2>7 DEF Alive
<1>4. CASE ~Fits(s)
  <2>1. UNCHANGED <<handlers, subscriptions>> /\ user' = [user EXCEPT ![u] = Idle]
    BY <1>4 DEF AddSubscription, Raise, Return
  <2>2. user'[u].op = "idle" /\ \A v \in User : v # u => user'[v] = user[v]
    BY <1>1, <2>1 DEF Idle
  <2>3. EntriesLive' /\ ClosedForgets'
    BY <2>1 DEF Alive, EntriesLive, ClosedForgets, connVars
  <2>4. TasksKnow'
    BY <2>2 DEF Alive, TasksKnow, connVars
  <2>5. QED
    BY <2>3, <2>4 DEF Alive
<1>5. QED
  BY <1>3, <1>4

LEMMA UserResumesAlive ==
  ASSUME Inv, Delivery, Alive, NEW u \in User, UserResumes(u)
  PROVE  Alive'
<1>0. /\ user \in [User -> UserState] /\ handlers \in [Sid -> Seq(Handler)] /\ active \subseteq Sid
      /\ subscriptions \in [Key -> 0 .. MaxSid]
  BY DEF Inv, TypeOK, UserState
<1>1. CASE SubscribeFails(u) \/ Flushed(u) \/ Unsubscribed(u)
  BY <1>1, UserAlive
<1>2. CASE SubscribeToExisting(u)
  <2> DEFINE s == subscriptions[user[u].key]
  <2>1. /\ user' = [user EXCEPT ![u] = Idle]
        /\ handlers' = (IF user[u].handler \in ToSet(handlers[s]) THEN handlers
                        ELSE [handlers EXCEPT ![s] = Append(@, user[u].handler)])
        /\ UNCHANGED <<connVars, subscriptions, active>>
    BY <1>2 DEF SubscribeToExisting, Return
  <2>2. \A t \in Sid : handlers[t] # <<>> => handlers'[t] # <<>>
    <3> SUFFICES ASSUME NEW t \in Sid, handlers[t] # <<>>, handlers'[t] = <<>> PROVE FALSE
      OBVIOUS
    <3>1. handlers'[t] = Append(handlers[t], user[u].handler)
      BY <1>0, <2>1
    <3>2. Len(Append(handlers[t], user[u].handler)) = Len(handlers[t]) + 1 /\ Len(handlers[t]) \in Nat
      BY <1>0
    <3>3. QED
      BY <3>1, <3>2
  <2>3. user'[u].op = "idle" /\ \A v \in User : v # u => user'[v] = user[v]
    BY <1>0, <2>1 DEF Idle
  <2>4. EntriesLive'
    BY <1>0, <2>1, <2>2 DEF Alive, EntriesLive, connVars
  <2>5. TasksKnow'
    BY <2>1, <2>3 DEF Alive, TasksKnow, connVars
  <2>6. ClosedForgets'
    BY <2>1 DEF Alive, ClosedForgets, connVars
  <2>7. QED
    BY <2>4, <2>5, <2>6 DEF Alive
<1>3. CASE SubscribeResumes(u)
  <2> DEFINE s == user[u].sid
  <2>1. user[u].op = "subscribing" /\ AddSubscription(u, s) /\ UNCHANGED connVars /\ UNCHANGED active
    BY <1>3 DEF SubscribeResumes, Doing
  <2>2. s \in Sid /\ s \notin swapped /\ lock = u /\ user[u].key \in Key
    BY <2>1 DEF Inv, Locks
  <2>3. \A v \in User : v # u => user[v].op \notin {"subscribing", "flush", "unsubscribing"}
    BY <2>2 DEF Inv, Locks
  <2>4. Suspends /\ (conn = "up" => s \in active) /\ connects # 0
    BY <2>1 DEF Alive, TasksKnow
  <2> HIDE DEF s
  <2>5. QED
    BY <2>1, <2>2, <2>3, <2>4, SubscribeAlive
<1>4. ASSUME NEW s \in Sid, SubscribeAtOnce(u, s) \/ SubscribeSuspends(u, s)
      PROVE  Alive'
  <2>1. /\ user[u].op = "subscribe" /\ lock = None /\ conn = "up" /\ s = sids + 1
        /\ active' = active \cup {s} /\ UNCHANGED connVars
    BY <1>4 DEF SubscribeAtOnce, SubscribeSuspends, NewSubscription, Doing
  <2>2. s \notin swapped /\ user[u].key \in Key
    BY <2>1 DEF Inv, OwnQueues, Locks, TypeOK, Sid
  <2>3. \A v \in User : user[v].op \notin {"subscribing", "flush", "unsubscribing"}
    BY <2>1, EventConstants DEF Inv, Locks
  <2>4. connects # 0
    BY <2>1 DEF Alive, ClosedForgets
  <2>5. CASE SubscribeAtOnce(u, s)
    BY <2>1, <2>2, <2>3, <2>4, <2>5, SubscribeAlive DEF SubscribeAtOnce
  <2>6. CASE SubscribeSuspends(u, s)
    <3>1. /\ Suspends /\ user' = [user EXCEPT ![u] = [@ EXCEPT !.op = "subscribing", !.sid = s]]
          /\ UNCHANGED <<subscriptions, handlers>>
      BY <2>6 DEF SubscribeSuspends
    <3>2. /\ user'[u].op = "subscribing" /\ user'[u].sid = s
          /\ \A v \in User : v # u => user'[v] = user[v]
      BY <1>0, <3>1 DEF UserState
    <3>3. TasksKnow'
      BY <2>1, <2>3, <2>4, <3>1, <3>2 DEF Alive, TasksKnow, connVars
    <3>4. EntriesLive' /\ ClosedForgets'
      BY <2>1, <3>1 DEF Alive, EntriesLive, ClosedForgets, connVars
    <3>5. QED
      BY <3>3, <3>4 DEF Alive
  <2>7. QED
    BY <1>4, <2>5, <2>6
<1>5. CASE UnsubscribeHandler(u)
  <2> DEFINE k == user[u].key
             h == user[u].handler
             s == subscriptions[k]
  <2>1. user[u].op = "unsubscribe" /\ lock = None /\ UNCHANGED connVars
    BY <1>5 DEF UnsubscribeHandler, Doing
  <2>2. k \in Key /\ connects # 0
    BY <2>1 DEF Inv, Locks, Alive, TasksKnow
  <2>3. \A v \in User : user[v].op \notin {"subscribing", "flush", "unsubscribing"}
    BY <2>1, EventConstants DEF Inv, Locks
  <2>4. CASE s = 0 \/ ~Subscribed(s, h)
    <3>1. UNCHANGED subVars /\ user' = [user EXCEPT ![u] = Idle]
      BY <2>4, <1>5 DEF UnsubscribeHandler, Return
    <3>2. user'[u].op = "idle" /\ \A v \in User : v # u => user'[v] = user[v]
      BY <1>0, <3>1 DEF Idle
    <3>3. EntriesLive' /\ ClosedForgets'
      BY <2>1, <3>1 DEF Alive, EntriesLive, ClosedForgets, connVars, subVars
    <3>4. TasksKnow'
      BY <2>1, <3>1, <3>2 DEF Alive, TasksKnow, connVars, subVars
    <3>5. QED
      BY <3>3, <3>4 DEF Alive
  <2>5. CASE s # 0 /\ Subscribed(s, h)
    <3>1. /\ handlers' = [handlers EXCEPT ![s] = RemoveFirst(@, h)]
          /\ \/ /\ handlers'[s] # <<>> /\ UNCHANGED <<subscriptions, active>>
                /\ user' = [user EXCEPT ![u] = Idle]
             \/ /\ subscriptions' = [subscriptions EXCEPT ![k] = 0]
                /\ active \ {s} \subseteq active'
                /\ user' = [user EXCEPT ![u] = [@ EXCEPT !.op = "unsubscribing", !.sid = s]]
      BY <2>5, <1>5 DEF UnsubscribeHandler, RemoveSubscription, Return
    <3>2. s = subscriptions[k] /\ s # 0
      BY <2>5
    <3> HIDE DEF k, h, s
    <3>3. \A t \in Sid : t # s => handlers'[t] = handlers[t]
      BY <1>0, <3>1
    <3>4. \A j \in Key : subscriptions[j] = s => j = k
      BY <2>2, <3>2 DEF Delivery, OneKeyEach
    <3>5. CASE /\ handlers'[s] # <<>> /\ UNCHANGED <<subscriptions, active>>
               /\ user' = [user EXCEPT ![u] = Idle]
      <4>1. user'[u].op = "idle" /\ \A v \in User : v # u => user'[v] = user[v]
        BY <1>0, <3>5 DEF Idle
      <4>2. EntriesLive'
        BY <1>0, <2>1, <3>3, <3>5 DEF Alive, EntriesLive, connVars, Sid
      <4>3. TasksKnow' /\ ClosedForgets'
        BY <2>1, <3>5, <4>1 DEF Alive, TasksKnow, ClosedForgets, connVars
      <4>4. QED
        BY <4>2, <4>3 DEF Alive
    <3>6. CASE /\ subscriptions' = [subscriptions EXCEPT ![k] = 0]
               /\ active \ {s} \subseteq active'
               /\ user' = [user EXCEPT ![u] = [@ EXCEPT !.op = "unsubscribing", !.sid = s]]
      <4>1. /\ user'[u].op = "unsubscribing" /\ user'[u].sid = s
            /\ \A v \in User : v # u => user'[v] = user[v]
        BY <1>0, <3>6 DEF UserState
      <4>2. \A j \in Key : subscriptions'[j] = IF j = k THEN 0 ELSE subscriptions[j]
        BY <1>0, <3>6
      <4>3. \A j \in Key : subscriptions'[j] # s
        BY <3>2, <3>4, <4>2
      <4>4. EntriesLive'
        BY <1>0, <2>1, <3>3, <3>6, <4>2, <4>3 DEF Alive, EntriesLive, connVars, Sid
      <4>5. TasksKnow'
        BY <2>1, <2>2, <2>3, <3>2, <4>1, <4>3 DEF Alive, TasksKnow, connVars
      <4>6. ClosedForgets'
        BY <2>1, <4>2 DEF Alive, ClosedForgets, connVars
      <4>7. QED
        BY <4>4, <4>5, <4>6 DEF Alive
    <3>7. QED
      BY <3>1, <3>5, <3>6
  <2>6. QED
    BY <2>4, <2>5
<1>6. QED
  BY <1>1, <1>2, <1>3, <1>4, <1>5 DEF UserResumes

LEMMA AliveKept ==
  ASSUME Suspends => MaxConnect <= 1, Inv, Delivery, Alive, [Next]_vars
  PROVE  Alive'
<1>1. ASSUME UNCHANGED <<connVars, subscriptions, handlers, active, user>> PROVE Alive'
  BY <1>1 DEF Alive, EntriesLive, TasksKnow, ClosedForgets, connVars
<1>2. CASE (\E s \in Sid : Arrive(s)) \/ Worker \/ Quiet \/ UNCHANGED vars
  BY <1>1, <1>2 DEF Arrive, Worker, DropMessage, TakeMessage, HandlerEnds, Quiet, vars,
                    connVars, subVars, userVars
<1>3. ASSUME NEW u \in User, UserCalls(u) \/ UserResumes(u) PROVE Alive'
  BY <1>3, UserAlive, UserResumesAlive
<1>4. ASSUME NEW s \in Sid, SubscriptionDrained(s) \/ Joined(s) PROVE Alive'
  <2>1. conn = "draining" /\ UNCHANGED <<conn, connects, subscriptions, handlers, user>>
    BY <1>4 DEF SubscriptionDrained, Joined, connVars, subVars, userVars
  <2>2. QED
    BY <2>1 DEF Alive, EntriesLive, TasksKnow, ClosedForgets, connVars
<1>5. CASE Connect
  <2>1. /\ conn = "down" /\ connects < MaxConnect /\ connects' = connects + 1 /\ connects \in Nat
        /\ MaxConnect \in Nat /\ UNCHANGED <<subscriptions, handlers, active, user>>
    BY <1>5, EventConstants DEF Connect, subVars, userVars, Inv, TypeOK
  <2>2. Suspends => connects = 0
    BY <2>1
  <2>3. connects' # 0
    BY <2>1
  <2>4. \A k \in Key : subscriptions[k] = 0
    BY <2>1, <2>2 DEF Alive, ClosedForgets
  <2>5. \A u \in User : user[u].op # "subscribing"
    BY <2>2 DEF Alive, TasksKnow
  <2>6. EntriesLive' /\ ClosedForgets'
    BY <2>1, <2>3, <2>4 DEF EntriesLive, ClosedForgets
  <2>7. TasksKnow'
    BY <2>1, <2>3, <2>5 DEF Alive, TasksKnow
  <2>8. QED
    BY <2>6, <2>7 DEF Alive
<1>6. CASE Disconnect
  <2>1. /\ conn' = "draining" /\ conn = "up" /\ \A k \in Key : subscriptions'[k] = 0
        /\ UNCHANGED <<connects, handlers, active, user>>
    BY <1>6 DEF Disconnect, userVars
  <2>2. connects # 0
    BY <2>1 DEF Alive, ClosedForgets
  <2>3. TasksKnow'
    BY <2>1, <2>2 DEF Alive, TasksKnow
  <2>4. EntriesLive' /\ ClosedForgets'
    BY <2>1, <2>2 DEF EntriesLive, ClosedForgets
  <2>5. QED
    BY <2>3, <2>4 DEF Alive
<1>7. CASE Drained \/ DrainTimesOut
  <2>1. /\ conn' = "down" /\ conn = "draining"
        /\ UNCHANGED <<connects, subscriptions, handlers, user>>
    BY <1>7 DEF Drained, DrainTimesOut, Stop, userVars
  <2>2. QED
    BY <2>1 DEF Alive, EntriesLive, TasksKnow, ClosedForgets
<1>8. QED
  BY <1>2, <1>3, <1>4, <1>5, <1>6, <1>7 DEF Next

(***************************************************************************)
(* disconnect() waits for what is owed: the drains of the subscriptions it *)
(* found end with nothing owed, and it found all that have a handler.      *)
(***************************************************************************)
Drains ==
  /\ conn = "up" => routed \subseteq active
  /\ conn = "draining" =>
       /\ active \subseteq joining
       /\ \A o \in owed : o[1].sid \in joining
       /\ \A u \in User : user[u].op = "subscribing" /\ own[user[u].sid] # <<>> => user[u].sid \in joining
  /\ conn = "down" /\ (connects = 0 \/ ~Suspends) => owed = {} /\ routed = {}

\* join() of the shared queue returns when all is handled.
LEMMA NothingUnfinished ==
  ASSUME Inv, Delivery, unfinished = 0
  PROVE  queue = <<>> /\ current = <<>> /\ owed = {}
<1>1. Len(queue) = 0 /\ Len(current) = 0
  BY DEF Inv, Counts, TypeOK
<1>2. queue = <<>> /\ current = <<>>
  BY <1>1, EmptySeq DEF Inv, TypeOK
<1>3. ToSet(queue) = {} /\ \A m : current # <<m>>
  BY <1>2 DEF ToSet
<1>4. QED
  BY <1>2, <1>3 DEF Delivery, OwedComes

\* What client.subscribe() brought is owed only for a subscription that drain() found.
LEMMA AddSubscriptionDrains ==
  ASSUME Inv, Delivery, Alive, Drains, NEW u \in User, NEW s \in Sid, s \notin swapped,
         AddSubscription(u, s), active' = active \/ active' = active \cup {s},
         conn = "up" => s \in active',
         conn = "draining" => active' = active /\ user[u].op = "subscribing" /\ user[u].sid = s,
         conn = "down" => connects # 0 /\ Suspends, UNCHANGED connVars
  PROVE  Drains'
<1>1. /\ user \in [User -> UserState] /\ own \in [Sid -> Seq(Msg)]
      /\ own' = [own EXCEPT ![s] = <<>>] /\ routed' \subseteq routed \cup {s}
  BY DEF AddSubscription, Inv, TypeOK, UserState
<1>2. own'[s] = <<>> /\ \A t \in Sid : t # s => own'[t] = own[t]
  BY <1>1
<1>3. /\ user'[u].op \in {"flush", "idle"} /\ \A v \in User : v # u => user'[v] = user[v]
  <2>1. \/ user' = [user EXCEPT ![u] = [@ EXCEPT !.op = "flush", !.sid = s]]
        \/ user' = [user EXCEPT ![u] = Idle]
    BY DEF AddSubscription, Raise, Return
  <2>2. [user[u] EXCEPT !.op = "flush", !.sid = s].op = "flush" /\ Idle.op = "idle"
    BY <1>1 DEF UserState, Idle
  <2>3. QED
    BY <1>1, <2>1, <2>2
<1>4. ASSUME NEW o \in owed', conn = "draining" PROVE o[1].sid \in joining
  <2>1. CASE o \in owed
    BY <1>4, <2>1 DEF Drains
  <2>2. CASE o \notin owed
    <3>1. Fits(s) /\ o[1] \in ToSet(queue') /\ o[1].sid = s /\ queue' = queue \o own[s]
      BY <2>2 DEF AddSubscription
    <3>2. ToSet(queue') = ToSet(queue) \cup ToSet(own[s])
      BY <1>1, <3>1, ConcatHolds DEF Inv, TypeOK
    <3>3. o[1] \notin ToSet(queue)
      BY <3>1 DEF Inv, SharedQueue, ToSet
    <3>4. own[s] # <<>>
      BY <3>1, <3>2, <3>3 DEF ToSet
    <3>5. QED
      BY <1>4, <3>1, <3>4 DEF Drains
  <2>3. QED
    BY <2>1, <2>2
<1>5. ASSUME NEW v \in User, conn = "draining", user'[v].op = "subscribing", own'[user'[v].sid] # <<>>
      PROVE  user'[v].sid \in joining
  <2>1. v # u /\ user'[v] = user[v]
    BY <1>3, <1>5
  <2>2. user[v].sid \in Sid
    BY <1>5, <2>1 DEF Inv, Locks
  <2>3. own[user[v].sid] # <<>>
    BY <1>2, <1>5, <2>1, <2>2
  <2>4. QED
    BY <1>5, <2>1, <2>3 DEF Drains
<1>6. conn = "up" => routed' \subseteq active'
  BY <1>1 DEF Drains
<1>7. QED
  BY <1>4, <1>5, <1>6 DEF Drains, connVars

\* A user task comes back, or works without waiting.
LEMMA UserDrains ==
  ASSUME Inv, Delivery, Delivery', Alive, Drains, NEW u \in User, UserCalls(u) \/ UserResumes(u)
  PROVE  Drains'
<1>0. user \in [User -> UserState]
  BY DEF Inv, TypeOK, UserState
<1>1. ASSUME NEW x, x.op # "subscribing", user' = [user EXCEPT ![u] = x],
             UNCHANGED <<connVars, own>>, owed' \subseteq owed, routed' \subseteq routed, active' \subseteq active,
             conn = "up" => routed' \subseteq active'
      PROVE  Drains'
  <2>1. \A v \in User : user'[v].op = "subscribing" => user'[v] = user[v]
    BY <1>0, <1>1
  <2>2. \A v \in User : user'[v].op = "subscribing" => user[v].op = "subscribing" /\ user'[v].sid = user[v].sid
    BY <2>1
  <2>3. QED
    BY <1>1, <2>2 DEF Drains, connVars
<1>2. Idle.op = "idle"
  BY DEF Idle
<1>3. CASE UserCalls(u) \/ SubscribeFails(u) \/ Flushed(u) \/ Unsubscribed(u) \/ SubscribeToExisting(u)
  <2>1. UNCHANGED <<connVars, own, owed, routed, active>>
    BY <1>3 DEF UserCalls, Subscribe, Unsubscribe, SubscribeFails, Flushed, Unsubscribed, SubscribeToExisting,
                subVars, queueVars
  <2>2. \E x : x.op # "subscribing" /\ user' = [user EXCEPT ![u] = x]
    <3>1. CASE UserCalls(u)
      BY <3>1 DEF UserCalls, Subscribe, Unsubscribe
    <3>2. CASE user' = [user EXCEPT ![u] = Idle]
      BY <1>2, <3>2
    <3>3. QED
      BY <1>3, <3>1, <3>2 DEF SubscribeFails, Flushed, Unsubscribed, SubscribeToExisting, Raise, Return
  <2>3. QED
    BY <1>1, <2>1, <2>2 DEF Drains
<1>4. CASE UnsubscribeHandler(u)
  <2> DEFINE k == user[u].key
             h == user[u].handler
             s == subscriptions[k]
  <2>1. UNCHANGED <<connVars, own>>
    BY <1>4 DEF UnsubscribeHandler, queueVars
  <2>2. CASE s = 0 \/ ~Subscribed(s, h)
    <3>1. user' = [user EXCEPT ![u] = Idle] /\ UNCHANGED <<routed, active, owed>>
      BY <1>4, <2>2 DEF UnsubscribeHandler, Return, subVars
    <3>2. QED
      BY <1>1, <1>2, <2>1, <3>1 DEF Drains
  <2>3. CASE s # 0 /\ Subscribed(s, h)
    <3>1. /\ owed' \subseteq owed
          /\ \/ user' = [user EXCEPT ![u] = Idle] /\ UNCHANGED <<routed, active>>
             \/ /\ user' = [user EXCEPT ![u] = [@ EXCEPT !.op = "unsubscribing", !.sid = s]]
                /\ routed' = routed \ {s} /\ active' \in {active, active \ {s}}
      BY <1>4, <2>3 DEF UnsubscribeHandler, RemoveSubscription, Return, Forget
    <3>2. [user[u] EXCEPT !.op = "unsubscribing", !.sid = s].op = "unsubscribing"
      BY <1>0 DEF UserState
    <3>3. QED
      BY <1>1, <1>2, <2>1, <3>1, <3>2 DEF Drains
  <2>4. QED
    BY <2>2, <2>3
<1>5. CASE SubscribeResumes(u)
  <2> DEFINE s == user[u].sid
  <2>1. /\ user[u].op = "subscribing" /\ AddSubscription(u, s) /\ UNCHANGED <<connVars, active>>
        /\ s \in Sid /\ s \notin swapped
    BY <1>5 DEF SubscribeResumes, Doing, Inv, Locks
  <2>2. (conn = "up" => s \in active) /\ (conn = "down" => connects # 0 /\ Suspends)
    BY <2>1 DEF Alive, TasksKnow
  <2> HIDE DEF s
  <2>3. user[u].sid = s
    BY DEF s
  <2>4. QED
    BY <2>1, <2>2, <2>3, AddSubscriptionDrains
<1>6. ASSUME NEW s \in Sid, SubscribeAtOnce(u, s) \/ SubscribeSuspends(u, s) PROVE Drains'
  <2>1. /\ conn = "up" /\ s = sids + 1 /\ active' = active \cup {s} /\ UNCHANGED connVars
    BY <1>6 DEF SubscribeAtOnce, SubscribeSuspends, NewSubscription
  <2>2. s \notin swapped
    BY <2>1 DEF Inv, OwnQueues, TypeOK, Sid
  <2>3. CASE SubscribeAtOnce(u, s)
    BY <2>1, <2>2, <2>3, AddSubscriptionDrains DEF SubscribeAtOnce
  <2>4. CASE SubscribeSuspends(u, s)
    BY <2>1, <2>4 DEF SubscribeSuspends, Drains, connVars
  <2>5. QED
    BY <1>6, <2>3, <2>4
<1>7. QED
  BY <1>3, <1>4, <1>5, <1>6 DEF UserResumes

LEMMA DrainsKept ==
  ASSUME Suspends => MaxConnect <= 1, Inv, Delivery, Delivery', Alive, Drains, [Next]_vars
  PROVE  Drains'
<1>1. ASSUME NEW s \in Sid, Arrive(s) PROVE Drains'
  <2>1. s \in active /\ conn # "down" /\ UNCHANGED <<conn, connects, joining, routed, active, user, swapped>>
    BY <1>1 DEF Arrive, connVars, subVars, userVars
  <2>2. own \in [Sid -> Seq(Msg)] /\ \A t \in Sid : t # s => own'[t] = own[t]
    BY <1>1 DEF Arrive, Inv, TypeOK
  <2>3. \A o \in owed' : o \in owed \/ o[1].sid = s
    BY <1>1 DEF Arrive
  <2>4. \A v \in User : user[v].op = "subscribing" => user[v].sid \in Sid
    BY DEF Inv, Locks
  <2>5. QED
    BY <2>1, <2>2, <2>3, <2>4 DEF Drains
<1>2. CASE Worker
  <2>1. conn # "down" /\ UNCHANGED <<conn, connects, joining, routed, active, user, own>>
    BY <1>2 DEF Worker, DropMessage, TakeMessage, HandlerEnds, connVars, subVars, userVars
  <2>2. owed' \subseteq owed
    BY <1>2 DEF Worker, DropMessage, TakeMessage, HandlerEnds, CallNext
  <2>3. QED
    BY <2>1, <2>2 DEF Drains
<1>3. ASSUME NEW u \in User, UserCalls(u) \/ UserResumes(u) PROVE Drains'
  BY <1>3, UserDrains
<1>4. ASSUME NEW s \in Sid, SubscriptionDrained(s) PROVE Drains'
  BY <1>4 DEF SubscriptionDrained, Drains, connVars, queueVars, userVars
<1>5. ASSUME NEW s \in Sid, Joined(s) PROVE Drains'
  <2>1. /\ conn = "draining" /\ s \in joining \ active /\ joining' = joining \ {s}
        /\ UNCHANGED <<conn, connects, routed, active, own, user, owed>>
    BY <1>5 DEF Joined, subVars, queueVars, userVars
  <2>2. \A o \in owed : o[1].sid # s
    <3>1. CASE s \in swapped
      BY <1>5, <3>1, NothingUnfinished DEF Joined
    <3>2. CASE s \notin swapped
      BY <3>2 DEF Delivery, OwedComes, Inv, OwnQueues
    <3>3. QED
      BY <3>1, <3>2
  <2>3. \A v \in User : user[v].op = "subscribing" /\ own[user[v].sid] # <<>> => user[v].sid # s
    BY <1>5 DEF Joined, Inv, Locks
  <2>4. QED
    BY <2>1, <2>2, <2>3 DEF Drains
<1>6. CASE Connect
  <2>1. /\ conn = "down" /\ conn' = "up" /\ connects < MaxConnect /\ connects \in Nat /\ MaxConnect \in Nat
        /\ routed' = routed
    BY <1>6, EventConstants DEF Connect, subVars, Inv, TypeOK
  <2>2. connects = 0 \/ ~Suspends
    BY <2>1
  <2>3. QED
    BY <2>1, <2>2 DEF Drains
<1>7. CASE Disconnect
  <2>1. conn = "up" /\ conn' = "draining" /\ joining' = active /\ UNCHANGED <<active, owed, user, own>>
    BY <1>7 DEF Disconnect, queueVars, userVars
  <2>2. \A o \in owed : o[1].sid \in active
    BY <2>1 DEF Drains, Delivery, OwedComes
  <2>3. \A v \in User : user[v].op = "subscribing" => user[v].sid \in active
    BY <2>1 DEF Alive, TasksKnow
  <2>4. QED
    BY <2>1, <2>2, <2>3 DEF Drains
<1>8. CASE Drained \/ DrainTimesOut
  <2>1. conn' = "down" /\ routed' = {}
    BY <1>8 DEF Drained, DrainTimesOut, Stop
  <2>2. owed' = {}
    BY <1>8 DEF Drained, DrainTimesOut, Drains
  <2>3. QED
    BY <2>1, <2>2 DEF Drains
<1>9. CASE Quiet \/ UNCHANGED vars
  BY <1>9 DEF Quiet, vars, Drains
<1>10. QED
  BY <1>1, <1>2, <1>3, <1>4, <1>5, <1>6, <1>7, <1>8, <1>9 DEF Next

\* The three together are inductive, when client.subscribe() never suspends or
\* connect() is called once.
LEMMA CallsInductive ==
  ASSUME Suspends => MaxConnect <= 1
  PROVE  Spec => []Delivery /\ []Alive /\ []Drains
<1>1. Init => Delivery /\ Alive /\ Drains
  <2> SUFFICES ASSUME Init PROVE Delivery /\ Alive /\ Drains
    OBVIOUS
  <2>1. \A s \in Sid : IsInjective(handlers[s])
    BY DEF Init, IsInjective
  <2>2. active = {} /\ owed = {} /\ \A k \in Key : subscriptions[k] = 0
    BY DEF Init
  <2>3. Delivery
    BY <2>1, <2>2 DEF Delivery, ListsUnique, ListedIsRouted, EntryRouted, OneKeyEach, OwedComes
  <2>4. Alive /\ Drains
    BY DEF Init, Idle, Alive, EntriesLive, TasksKnow, ClosedForgets, Drains
  <2>5. QED
    BY <2>3, <2>4
<1>2. Inv /\ Delivery /\ Alive /\ Drains /\ [Next]_vars => Delivery'
  <2> SUFFICES ASSUME Inv, Delivery, Drains, [Next]_vars PROVE Delivery'
    OBVIOUS
  <2>1. CASE \E s \in Sid : Arrive(s) \/ SubscriptionDrained(s)
    BY <2>1, ArriveDelivers, LeaveDelivers
  <2>2. CASE Worker
    BY <2>2, WorkerDelivers
  <2>3. CASE \E u \in User : UserCalls(u) \/ UserResumes(u)
    BY <2>3, SubscribeToExistingDelivers, SubscribeDelivers, UnsubscribeHandlerDelivers,
       RestDelivers DEF UserResumes
  <2>4. CASE Drained \/ DrainTimesOut
    <3>1. Drained => owed = {}
      BY DEF Drained, Drains
    <3>2. QED
      BY <2>4, <3>1, StopDelivers
  <2>5. CASE Disconnect \/ Connect \/ Quiet \/ UNCHANGED vars \/ \E s \in Sid : Joined(s)
    BY <2>5, LeaveDelivers, RestDelivers
  <2>6. QED
    BY <2>1, <2>2, <2>3, <2>4, <2>5 DEF Next
<1>3. Inv /\ Delivery /\ Alive /\ [Next]_vars => Alive'
  BY AliveKept
<1>4. Inv /\ Delivery /\ Delivery' /\ Alive /\ Drains /\ [Next]_vars => Drains'
  BY DrainsKept
<1>5. QED
  BY <1>1, <1>2, <1>3, <1>4, Inductive, PTL DEF Spec

\* A handler that was subscribed when a message arrived, and still is, gets it,
\* whatever is subscribed and unsubscribed meanwhile: the call it is owed waits in
\* the shared queue or in the snapshot of the handlers the worker works off.
THEOREM NoCallLost ==
  ASSUME Suspends => MaxConnect <= 1
  PROVE  Spec => []NothingLost
<1>1. Inv /\ Delivery => NothingLost
  BY DEF Delivery, OwedComes, NothingLost, WorkerIdle
<1>2. QED
  BY <1>1, Inductive, CallsInductive, PTL

\* A subscription that subscribe() would join another handler to is alive, the
\* worker knows it and the server sends it messages: for clients whose subscribe()
\* never suspends, and for those that are never connected again.
THEOREM EntriesAlive ==
  ASSUME Suspends => MaxConnect <= 1
  PROVE  Spec => []EntryAlive
<1>1. Inv /\ Delivery /\ Alive => EntryAlive
  BY DEF Delivery, EntryRouted, Alive, EntriesLive, EntryAlive
<1>2. QED
  BY <1>1, Inductive, CallsInductive, PTL

(***************************************************************************)
(* What is cut short.  A message is handled for handlers the worker still  *)
(* knows, and when drain() has nothing to wait for it knows none: all were *)
(* unsubscribed before disconnect().                                       *)
(***************************************************************************)
CutShort ==
  /\ active \cup joining \subseteq swapped
  /\ current # <<>> /\ handlers[current[1].sid] # <<>> => current[1].sid \in routed
  /\ conn = "draining" /\ joining = {} => routed = {} \/ (queue = <<>> /\ current = <<>>)

LEMMA CutShortKept ==
  ASSUME ~Suspends, Inv, Delivery, Alive, Drains, CutShort, [Next]_vars
  PROVE  CutShort'
<1>0. /\ handlers \in [Sid -> Seq(Handler)] /\ queue \in Seq(Msg) /\ current \in Seq(Msg)
      /\ subscriptions \in [Key -> 0 .. MaxSid]
  BY DEF Inv, TypeOK
<1>1. ASSUME NEW s \in Sid, Arrive(s) PROVE CutShort'
  <2>1. conn = "draining" => joining # {}
    BY <1>1 DEF Arrive, Drains
  <2>2. QED
    BY <1>1, <2>1 DEF Arrive, CutShort, connVars, subVars, workVars
<1>2. CASE Worker
  <2>1. UNCHANGED <<connVars, subVars>>
    BY <1>2 DEF Worker, DropMessage, TakeMessage, HandlerEnds
  <2>2. CASE DropMessage
    BY <2>1, <2>2 DEF DropMessage, WorkerIdle, workVars, CutShort, connVars, subVars
  <2>3. CASE TakeMessage
    <3>1. queue # <<>> /\ Head(queue).sid \in routed /\ current' \in {<<>>, <<Head(queue)>>}
      BY <2>3 DEF TakeMessage, CallNext
    <3>2. current' # <<>> => current'[1] = Head(queue)
      BY <3>1
    <3>3. QED
      BY <2>1, <3>1, <3>2 DEF CutShort, connVars, subVars
  <2>4. CASE HandlerEnds
    <3>1. current # <<>> /\ current' \in {<<>>, <<current[1]>>} /\ queue' = queue
      BY <2>4 DEF HandlerEnds, WorkerIdle, CallNext
    <3>2. current' # <<>> => current'[1] = current[1]
      BY <3>1
    <3>3. QED
      BY <2>1, <3>1, <3>2 DEF CutShort, connVars, subVars
  <2>5. QED
    BY <1>2, <2>2, <2>3, <2>4 DEF Worker
<1>3. ASSUME NEW u \in User, UserCalls(u) \/ UserResumes(u) PROVE CutShort'
  <2>1. CASE UserCalls(u) \/ SubscribeFails(u) \/ Flushed(u) \/ Unsubscribed(u)
    BY <2>1 DEF UserCalls, Subscribe, Unsubscribe, SubscribeFails, Flushed, Unsubscribed,
                CutShort, connVars, subVars, queueVars, workVars
  <2>2. CASE SubscribeToExisting(u)
    <3> DEFINE s == subscriptions[user[u].key]
    <3>1. /\ user[u].key \in Key /\ s # 0
          /\ \A t \in Sid : t # s => handlers'[t] = handlers[t]
          /\ UNCHANGED <<connVars, swapped, routed, active, queue, current>>
      BY <1>0, <2>2 DEF SubscribeToExisting, Doing, Inv, Locks, queueVars, workVars
    <3>2. conn = "up"
      BY <3>1 DEF Alive, ClosedForgets
    <3>3. handlers[s] # <<>>
      BY <3>1, <3>2 DEF Alive, EntriesLive
    <3> HIDE DEF s
    <3>4. current # <<>> => current[1] \in Msg
      BY <1>0, EmptySeq
    <3>5. current # <<>> => current[1].sid \in Sid
      BY <3>4 DEF Msg
    <3>6. QED
      BY <3>1, <3>3, <3>5 DEF CutShort, connVars
  <2>3. CASE UnsubscribeHandler(u)
    <3> DEFINE s == subscriptions[user[u].key]
               h == user[u].handler
    <3>1. /\ active' \subseteq active /\ UNCHANGED <<connVars, swapped, queue, current>>
      BY <2>3 DEF UnsubscribeHandler, RemoveSubscription, subVars, queueVars, workVars
    <3>2. CASE s = 0 \/ ~Subscribed(s, h)
      BY <2>3, <3>1, <3>2 DEF UnsubscribeHandler, subVars, CutShort, connVars
    <3>3. CASE s # 0 /\ Subscribed(s, h)
      <4>1. /\ handlers' = [handlers EXCEPT ![s] = RemoveFirst(@, h)]
            /\ \/ routed' = routed
               \/ routed' = routed \ {s} /\ handlers'[s] = <<>>
        BY <2>3, <3>3 DEF UnsubscribeHandler
      <4>2. s \in Sid /\ handlers[s] # <<>>
        BY <3>3 DEF Subscribed, ToSet
      <4> HIDE DEF s, h
      <4>3. \A t \in Sid : handlers'[t] # <<>> => handlers[t] # <<>>
        BY <1>0, <4>1, <4>2
      <4>4. current # <<>> => current[1] \in Msg
        BY <1>0, EmptySeq
      <4>5. current # <<>> => current[1].sid \in Sid
        BY <4>4 DEF Msg
      <4>6. QED
        BY <3>1, <4>1, <4>3, <4>5 DEF CutShort, connVars
    <3>4. QED
      BY <3>2, <3>3
  <2>4. ASSUME NEW s \in Sid, SubscribeAtOnce(u, s) PROVE CutShort'
    <3>1. /\ conn = "up" /\ s = sids + 1 /\ active' = active \cup {s} /\ swapped' = swapped \cup {s}
          /\ UNCHANGED <<connVars, current>>
          /\ \/ handlers' = handlers /\ routed' = routed
             \/ handlers' = [handlers EXCEPT ![s] = <<user[u].handler>>] /\ routed' = routed \cup {s}
      BY <2>4 DEF SubscribeAtOnce, NewSubscription, AddSubscription, workVars
    <3>2. current # <<>> => current[1] \in Msg
      BY <1>0, EmptySeq
    <3>3. current # <<>> => current[1].sid \in Sid
      BY <3>2 DEF Msg
    <3>4. \A t \in Sid : t # s => handlers'[t] = handlers[t]
      BY <1>0, <3>1
    <3>5. QED
      BY <3>1, <3>3, <3>4 DEF CutShort, connVars
  <2>5. ~SubscribeResumes(u) /\ \A s : ~SubscribeSuspends(u, s)
    <3>1. user[u].op # "subscribing"
      BY DEF Alive, TasksKnow
    <3>2. QED
      BY <3>1 DEF SubscribeResumes, SubscribeSuspends, Doing
  <2>6. QED
    BY <1>3, <2>1, <2>2, <2>3, <2>4, <2>5 DEF UserResumes
<1>4. ASSUME NEW s \in Sid, SubscriptionDrained(s) PROVE CutShort'
  BY <1>4 DEF SubscriptionDrained, CutShort, connVars, queueVars, workVars
<1>5. ASSUME NEW s \in Sid, Joined(s) PROVE CutShort'
  <2>1. s \in swapped
    BY <1>5 DEF Joined, CutShort
  <2>2. queue = <<>> /\ current = <<>>
    BY <1>5, <2>1, NothingUnfinished DEF Joined
  <2>3. QED
    BY <1>5, <2>2 DEF Joined, CutShort, subVars, queueVars, workVars
<1>6. CASE Connect
  BY <1>6 DEF Connect, CutShort, subVars, queueVars, workVars
<1>7. CASE Disconnect
  BY <1>7 DEF Disconnect, Drains, CutShort, queueVars, workVars
<1>8. CASE Drained \/ DrainTimesOut
  BY <1>8 DEF Drained, DrainTimesOut, Stop, CutShort
<1>9. CASE Quiet \/ UNCHANGED vars
  BY <1>9 DEF Quiet, vars, CutShort
<1>10. QED
  BY <1>1, <1>2, <1>3, <1>4, <1>5, <1>6, <1>7, <1>8, <1>9 DEF Next

\* When client.subscribe() never suspends, a disconnect() that ends in time has made
\* every call that was owed, and what it cuts short is the handling of a message whose
\* handlers were all unsubscribed meanwhile.
THEOREM CloseHandlesAll ==
  ASSUME ~Suspends
  PROVE  Spec => NothingOwedWhenClosed
<1>1. Init => CutShort
  BY DEF Init, CutShort
<1>2. Spec => []CutShort
  <2>1. Inv /\ Delivery /\ Alive /\ Drains /\ CutShort /\ [Next]_vars => CutShort'
    BY CutShortKept
  <2>2. QED
    BY <1>1, <2>1, Inductive, CallsInductive, PTL DEF Spec
<1> DEFINE Clean == conn = "draining" /\ conn' = "down" /\ ~timedOut' =>
                      owed = {} /\ (WorkerIdle \/ handlers[current[1].sid] = <<>>)
<1>3. Inv /\ Drains /\ CutShort /\ [Next]_vars => [Clean]_vars
  <2> SUFFICES ASSUME Drains, CutShort, Next, conn = "draining", conn' = "down", ~timedOut'
               PROVE  owed = {} /\ (WorkerIdle \/ handlers[current[1].sid] = <<>>)
    BY DEF vars
  <2>1. Drained
    BY DEF Next, Arrive, SubscriptionDrained, Joined, Worker, DropMessage, TakeMessage, HandlerEnds, UserCalls,
           Subscribe, Unsubscribe, UserResumes, SubscribeToExisting, SubscribeFails, SubscribeAtOnce,
           SubscribeSuspends, SubscribeResumes, Flushed, UnsubscribeHandler, Unsubscribed, Connect, Disconnect,
           DrainTimesOut, Quiet, connVars, vars
  <2>2. joining = {}
    BY <2>1 DEF Drained
  <2>3. QED
    BY <2>2 DEF Drains, CutShort, WorkerIdle
<1>4. QED
  BY <1>2, <1>3, Inductive, CallsInductive, PTL DEF Spec, NothingOwedWhenClosed

\* No handler is listed twice, whatever becomes of the messages.
LEMMA ListsInductive == Spec => []ListsUnique
<1>1. Init => ListsUnique
  BY DEF Init, ListsUnique, IsInjective
<1>2. Inv /\ ListsUnique /\ [Next]_vars => ListsUnique'
  <2> SUFFICES ASSUME Inv, ListsUnique, [Next]_vars PROVE ListsUnique'
    OBVIOUS
  <2>0. handlers \in [Sid -> Seq(Handler)]
    BY DEF Inv, TypeOK
  <2>1. CASE handlers' = handlers
    BY <2>1 DEF ListsUnique
  <2>2. ASSUME NEW s \in Sid, NEW l \in Seq(Handler), IsInjective(l), handlers' = [handlers EXCEPT ![s] = l]
        PROVE  ListsUnique'
    BY <2>0, <2>2 DEF ListsUnique
  <2>3. ASSUME NEW u \in User, SubscribeToExisting(u) PROVE ListsUnique'
    <3> DEFINE s == subscriptions[user[u].key]
               h == user[u].handler
    <3>1. /\ user[u].key \in Key /\ h \in Handler
          /\ handlers' = (IF h \in ToSet(handlers[s]) THEN handlers
                          ELSE [handlers EXCEPT ![s] = Append(handlers[s], h)])
          /\ s # 0 /\ s \in 0 .. MaxSid
      BY <2>3 DEF SubscribeToExisting, Doing, Inv, Locks, TypeOK
    <3>2. s \in Sid
      BY <3>1, EventConstants DEF Sid
    <3> HIDE DEF s, h
    <3>3. h \notin ToSet(handlers[s]) => IsInjective(Append(handlers[s], h))
      BY <2>0, <3>1, <3>2, AppendHolds DEF ListsUnique
    <3>4. Append(handlers[s], h) \in Seq(Handler)
      BY <2>0, <3>1, <3>2
    <3>5. QED
      BY <2>1, <2>2, <3>1, <3>2, <3>3, <3>4
  <2>4. ASSUME NEW u \in User, NEW s \in Sid, AddSubscription(u, s), user[u].handler \in Handler
        PROVE  ListsUnique'
    <3>1. handlers' = handlers \/ handlers' = [handlers EXCEPT ![s] = <<user[u].handler>>]
      BY <2>4 DEF AddSubscription
    <3>2. <<user[u].handler>> \in Seq(Handler) /\ IsInjective(<<user[u].handler>>)
      BY <2>4 DEF IsInjective
    <3>3. QED
      BY <2>1, <2>2, <3>1, <3>2
  <2>5. ASSUME NEW u \in User, UnsubscribeHandler(u) PROVE ListsUnique'
    <3> DEFINE s == subscriptions[user[u].key]
               h == user[u].handler
    <3>1. \/ handlers' = handlers
          \/ Subscribed(s, h) /\ handlers' = [handlers EXCEPT ![s] = RemoveFirst(handlers[s], h)]
      BY <2>5 DEF UnsubscribeHandler, subVars
    <3> HIDE DEF s, h
    <3>2. Subscribed(s, h) => /\ s \in Sid /\ IsInjective(RemoveFirst(handlers[s], h))
                              /\ RemoveFirst(handlers[s], h) \in Seq(Handler)
      BY <2>0, RemoveFirstHolds, RemoveFirstIs DEF ListsUnique, Subscribed
    <3>3. QED
      BY <2>1, <2>2, <3>1, <3>2
  <2>6. ASSUME NEW u \in User, UserCalls(u) \/ UserResumes(u) PROVE ListsUnique'
    <3>1. CASE UserCalls(u) \/ SubscribeFails(u) \/ Flushed(u) \/ Unsubscribed(u) \/ \E s \in Sid : SubscribeSuspends(u, s)
      BY <2>1, <3>1 DEF UserCalls, Subscribe, Unsubscribe, SubscribeFails, Flushed, Unsubscribed, SubscribeSuspends,
                        subVars
    <3>2. CASE SubscribeResumes(u)
      <4>1. user[u].sid \in Sid /\ user[u].handler \in Handler /\ AddSubscription(u, user[u].sid)
        BY <3>2 DEF SubscribeResumes, Doing, Inv, Locks
      <4>2. QED
        BY <2>4, <4>1
    <3>3. CASE \E s \in Sid : SubscribeAtOnce(u, s)
      <4>1. user[u].handler \in Handler
        BY <3>3 DEF SubscribeAtOnce, NewSubscription, Doing, Inv, Locks
      <4>2. QED
        BY <2>4, <3>3, <4>1 DEF SubscribeAtOnce
    <3>4. QED
      BY <2>3, <2>5, <2>6, <3>1, <3>2, <3>3 DEF UserResumes
  <2>7. CASE ~(\E u \in User : UserCalls(u) \/ UserResumes(u))
    <3>1. handlers' = handlers
      BY <2>7 DEF Next, Arrive, SubscriptionDrained, Joined, Worker, DropMessage, TakeMessage, HandlerEnds,
                  Connect, Disconnect, Drained, DrainTimesOut, Stop, Quiet, vars, subVars
    <3>2. QED
      BY <2>1, <3>1
  <2>8. QED
    BY <2>6, <2>7
<1>3. QED
  BY <1>1, <1>2, Inductive, PTL DEF Spec

(***************************************************************************)
(* No handler is called twice.  The ids in the queues are of different     *)
(* messages, none of which has been handed to a handler; the rest of the   *)
(* snapshot holds every handler once, and none that had the message.       *)
(***************************************************************************)
Ids(q) == {m.id : m \in ToSet(q)}

Distinct(q) == \A i, j \in DOMAIN q : q[i].id = q[j].id => i = j

\* The messages handlers had or have.
Taken == {c[1] : c \in ToSet(calls)} \cup Ids(current)

QueuesDistinct == Distinct(queue) /\ \A s \in Sid : Distinct(own[s])

QueuesApart ==
  /\ \A i \in Taken : i <= arrived
  /\ \A i \in Ids(queue) : i <= arrived /\ i \notin Taken
  /\ \A s \in Sid : \A i \in Ids(own[s]) :
       /\ i <= arrived /\ i \notin Taken /\ i \notin Ids(queue)
       /\ \A t \in Sid : t # s => i \notin Ids(own[t])

CallsOnce ==
  /\ IsInjective(calls)
  /\ current # <<>> =>
       /\ IsInjective(Tail(todo))
       /\ \A h \in ToSet(Tail(todo)) : <<current[1].id, h>> \notin ToSet(calls)

Once == QueuesDistinct /\ QueuesApart /\ CallsOnce

LEMMA IdsType ==
  ASSUME NEW q \in Seq(Msg)
  PROVE  Ids(q) \subseteq Nat /\ \A i \in DOMAIN q : q[i].id \in Ids(q)
<1>1. \A i \in DOMAIN q : q[i] \in Msg /\ q[i] \in ToSet(q)
  BY DEF ToSet
<1>2. \A m \in ToSet(q) : m \in Msg
  BY <1>1 DEF ToSet
<1>3. Id \subseteq Nat /\ \A m \in Msg : m.id \in Id
  BY EventConstants DEF Id, Msg
<1>4. QED
  BY <1>1, <1>2, <1>3 DEF Ids

\* Calling the next handler of a list that has none that had the message.
LEMMA CallNextOnce ==
  ASSUME TypeOK, NEW m \in Msg, NEW hs \in Seq(Handler), CallNext(m, hs),
         IsInjective(hs), IsInjective(calls),
         \A h \in ToSet(hs) : <<m.id, h>> \notin ToSet(calls)
  PROVE  /\ CallsOnce'
         /\ \A c \in ToSet(calls') : c \in ToSet(calls) \/ c[1] = m.id
         /\ current' = <<>> \/ current' = <<m>>
<1>1. CASE current' = <<>> /\ UNCHANGED calls
  BY <1>1 DEF CallsOnce
<1>2. ASSUME NEW i \in DOMAIN hs, current' = <<m>>, todo' = SubSeq(hs, i, Len(hs)),
             calls' = Append(calls, <<m.id, hs[i]>>)
      PROVE  /\ CallsOnce'
             /\ \A c \in ToSet(calls') : c \in ToSet(calls) \/ c[1] = m.id
             /\ current' = <<m>>
  <2> DEFINE e == <<m.id, hs[i]>>
             r == Tail(todo')
  <2>1. e \in Id \X Handler /\ e \notin ToSet(calls) /\ e[1] = m.id
    BY DEF Msg, ToSet
  <2>2. hs[i] \in Handler /\ calls \in Seq(Id \X Handler)
    BY DEF TypeOK
  <2> HIDE DEF e
  <2>3. ToSet(calls') = ToSet(calls) \cup {e} /\ IsInjective(calls')
    BY <1>2, <2>1, <2>2, AppendHolds DEF e
  <2>4. DOMAIN r = 1 .. Len(hs) - i /\ \A l \in 1 .. Len(hs) - i : r[l] = hs[i + l]
    BY <1>2, SnapshotRest
  <2>5. Len(hs) \in Nat /\ i \in 1 .. Len(hs) /\ DOMAIN hs = 1 .. Len(hs)
    OBVIOUS
  <2> HIDE DEF r
  <2>6. \A l \in DOMAIN r : i + l \in DOMAIN hs /\ i + l # i /\ r[l] = hs[i + l]
    BY <2>4, <2>5
  <2>7. IsInjective(r)
    <3> SUFFICES ASSUME NEW a \in DOMAIN r, NEW b \in DOMAIN r, r[a] = r[b] PROVE a = b
      BY DEF IsInjective
    <3>1. i + a = i + b
      BY <2>6 DEF IsInjective
    <3>2. a \in Int /\ b \in Int
      BY <2>4
    <3>3. QED
      BY <2>5, <3>1, <3>2
  <2>8. \A h \in ToSet(r) : h \in ToSet(hs) /\ h # hs[i]
    BY <2>6 DEF ToSet, IsInjective
  <2>9. \A h \in ToSet(r) : <<m.id, h>> \notin ToSet(calls')
    BY <2>3, <2>8 DEF e
  <2>10. current'[1] = m
    BY <1>2
  <2>11. QED
    BY <1>2, <2>1, <2>3, <2>7, <2>9, <2>10 DEF CallsOnce, r
<1>3. QED
  BY <1>1, <1>2, CallNextCases

LEMMA ArriveOnce ==
  ASSUME Inv, Once, NEW s \in Sid, Arrive(s)
  PROVE  Once'
<1> DEFINE m == [id |-> arrived + 1, sid |-> s]
<1>1. /\ arrived \in Nat /\ arrived' = arrived + 1 /\ arrived + 1 \in Id /\ UNCHANGED workVars
  BY EventConstants DEF Arrive, Inv, TypeOK, Id
<1>2. m \in Msg /\ m.id = arrived + 1
  BY <1>1 DEF Msg
<1> HIDE DEF m
<1>3. queue \in Seq(Msg) /\ own \in [Sid -> Seq(Msg)]
  BY DEF Inv, TypeOK
<1>4. CallsOnce' /\ Taken' = Taken
  BY <1>1 DEF Once, CallsOnce, Taken, workVars
<1>5. /\ Taken \subseteq Nat /\ Ids(queue) \subseteq Nat
      /\ \A t \in Sid : Ids(own[t]) \subseteq Nat
  <2>1. \A c \in ToSet(calls) : c[1] \in Nat
    BY DEF Inv, TypeOK, ToSet, Id
  <2>2. \A q \in Seq(Msg) : Ids(q) \subseteq Nat
    BY IdsType
  <2>3. QED
    BY <1>3, <2>1, <2>2 DEF Taken, Inv, TypeOK
<1>6. ASSUME NEW q \in Seq(Msg), Distinct(q), \A i \in Ids(q) : i <= arrived
      PROVE  Distinct(Append(q, m)) /\ Ids(Append(q, m)) = Ids(q) \cup {arrived + 1}
  <2>1. /\ DOMAIN q = 1 .. Len(q) /\ DOMAIN Append(q, m) = 1 .. Len(q) + 1 /\ Len(q) \in Nat
        /\ Append(q, m)[Len(q) + 1] = m
        /\ \A i \in 1 .. Len(q) : Append(q, m)[i] = q[i]
    BY <1>2, AppendProperties
  <2>2. \A i \in 1 .. Len(q) : q[i].id # m.id
    <3> SUFFICES ASSUME NEW i \in 1 .. Len(q) PROVE q[i].id # m.id
      OBVIOUS
    <3>1. q[i].id \in Ids(q) /\ q[i].id \in Nat
      BY IdsType
    <3>2. q[i].id <= arrived
      BY <1>6, <3>1
    <3>3. QED
      BY <1>1, <1>2, <3>1, <3>2
  <2>3. Distinct(Append(q, m))
    BY <1>6, <2>1, <2>2 DEF Distinct
  <2>4. ToSet(Append(q, m)) = ToSet(q) \cup {m}
    BY <1>2, AppendHolds
  <2>5. Ids(Append(q, m)) = Ids(q) \cup {arrived + 1}
    BY <1>2, <2>4 DEF Ids
  <2>6. QED
    BY <2>3, <2>5
<1>7. /\ arrived + 1 \notin Taken /\ arrived + 1 \notin Ids(queue)
      /\ \A t \in Sid : arrived + 1 \notin Ids(own[t])
  BY <1>1, <1>5 DEF Once, QueuesApart
<1>8. /\ \A i \in Taken \cup Ids(queue) : i <= arrived + 1
      /\ \A t \in Sid : \A i \in Ids(own[t]) : i <= arrived + 1
      /\ arrived + 1 <= arrived + 1
  BY <1>1, <1>5 DEF Once, QueuesApart
<1>9. CASE queue' = Append(queue, m) /\ UNCHANGED own
  <2>1. Distinct(queue') /\ Ids(queue') = Ids(queue) \cup {arrived + 1}
    BY <1>3, <1>6, <1>9 DEF Once, QueuesDistinct, QueuesApart
  <2>2. QueuesDistinct'
    BY <1>9, <2>1 DEF Once, QueuesDistinct
  <2>3. QueuesApart'
    BY <1>1, <1>4, <1>9, <1>7, <1>8, <2>1 DEF Once, QueuesApart
  <2>4. QED
    BY <1>4, <2>2, <2>3 DEF Once
<1>10. CASE own' = [own EXCEPT ![s] = Append(@, m)] /\ UNCHANGED queue
  <2>1. own'[s] = Append(own[s], m) /\ \A t \in Sid : t # s => own'[t] = own[t]
    BY <1>3, <1>10
  <2>2. Distinct(own'[s]) /\ Ids(own'[s]) = Ids(own[s]) \cup {arrived + 1}
    BY <1>3, <1>6, <2>1 DEF Once, QueuesDistinct, QueuesApart
  <2>3. QueuesDistinct'
    BY <1>10, <2>1, <2>2 DEF Once, QueuesDistinct
  <2>4. \A t \in Sid : \A i \in Ids(own'[t]) : i \in Ids(own[t]) \/ (t = s /\ i = arrived + 1)
    BY <2>1, <2>2
  <2>5. QueuesApart'
    <3>1. /\ \A i \in Taken' : i <= arrived'
          /\ \A i \in Ids(queue') : i <= arrived' /\ i \notin Taken'
      BY <1>1, <1>4, <1>10, <1>8 DEF Once, QueuesApart
    <3>2. \A t \in Sid : \A i \in Ids(own'[t]) :
            i <= arrived' /\ i \notin Taken' /\ i \notin Ids(queue')
      BY <1>1, <1>4, <1>10, <1>7, <1>8, <2>4 DEF Once, QueuesApart
    <3>3. \A t \in Sid : \A i \in Ids(own'[t]) : \A v \in Sid : v # t => i \notin Ids(own'[v])
      BY <1>7, <2>4 DEF Once, QueuesApart
    <3>4. QED
      BY <3>1, <3>2, <3>3 DEF QueuesApart
  <2>6. QED
    BY <1>4, <2>3, <2>5 DEF Once
<1>11. CASE UNCHANGED <<queue, own>>
  <2>1. QueuesDistinct'
    BY <1>11 DEF Once, QueuesDistinct
  <2>2. \A i \in Nat : i <= arrived => i <= arrived + 1
    BY <1>1
  <2>3. QueuesApart'
    BY <1>1, <1>4, <1>5, <1>11, <2>2 DEF Once, QueuesApart
  <2>4. QED
    BY <1>4, <2>1, <2>3 DEF Once
<1>12. QED
  BY <1>9, <1>10, <1>11 DEF Arrive, m

\* What the worker takes from the shared queue is gone from there.
LEMMA TakenFromQueue ==
  ASSUME Inv, Once, queue # <<>>
  PROVE  /\ Distinct(Tail(queue)) /\ Head(queue) \in Msg
         /\ Ids(queue) = {Head(queue).id} \cup Ids(Tail(queue)) /\ Head(queue).id \notin Ids(Tail(queue))
<1>1. /\ Tail(queue) \in Seq(Msg) /\ Len(queue) \in Nat \ {0} /\ Head(queue) = queue[1]
      /\ DOMAIN queue = 1 .. Len(queue) /\ DOMAIN Tail(queue) = 1 .. Len(queue) - 1
      /\ \A i \in 1 .. Len(queue) - 1 : Tail(queue)[i] = queue[i + 1]
      /\ Head(queue) \in Msg
  BY HeadTailProperties, EmptySeq DEF Inv, TypeOK
<1>2. Distinct(queue)
  BY DEF Once, QueuesDistinct
<1> DEFINE r == Tail(queue)
<1> HIDE DEF r
<1>3. \A i \in DOMAIN r : i + 1 \in DOMAIN queue /\ i + 1 # 1 /\ i \in Int /\ r[i] = queue[i + 1]
  BY <1>1 DEF r
<1>4. Distinct(r)
  <2> SUFFICES ASSUME NEW i \in DOMAIN r, NEW j \in DOMAIN r, r[i].id = r[j].id PROVE i = j
    BY DEF Distinct
  <2>1. i + 1 = j + 1 /\ i \in Int /\ j \in Int
    BY <1>2, <1>3 DEF Distinct
  <2>2. QED
    BY <2>1
<1>5. 1 \in DOMAIN queue
  BY <1>1
<1>6. Head(queue).id \notin Ids(r)
  <2>1. \A i \in DOMAIN r : r[i].id # queue[1].id
    BY <1>2, <1>3, <1>5 DEF Distinct
  <2>2. QED
    BY <1>1, <2>1 DEF Ids, ToSet
<1>7. ToSet(queue) = {Head(queue)} \cup ToSet(r)
  BY TailHolds DEF Inv, TypeOK, r
<1>8. Ids(queue) = {Head(queue).id} \cup Ids(r)
  BY <1>7 DEF Ids
<1>9. QED
  BY <1>1, <1>4, <1>6, <1>8 DEF r

LEMMA WorkerOnce ==
  ASSUME Inv, ListsUnique, Once, Worker
  PROVE  Once'
<1>1. UNCHANGED <<own, arrived>>
  BY DEF Worker, DropMessage, TakeMessage, HandlerEnds
<1>2. CASE DropMessage
  <2>1. queue # <<>> /\ queue' = Tail(queue) /\ UNCHANGED workVars
    BY <1>2 DEF DropMessage
  <2>2. Distinct(queue') /\ Ids(queue') \subseteq Ids(queue)
    BY <2>1, TakenFromQueue
  <2>3. Taken' = Taken /\ CallsOnce'
    BY <2>1 DEF Once, CallsOnce, Taken, workVars
  <2>4. QueuesDistinct'
    BY <1>1, <2>2 DEF Once, QueuesDistinct
  <2>5. QueuesApart'
    BY <1>1, <2>2, <2>3 DEF Once, QueuesApart
  <2>6. QED
    BY <2>3, <2>4, <2>5 DEF Once
<1>3. CASE TakeMessage
  <2> DEFINE m == Head(queue)
  <2>1. /\ queue # <<>> /\ m.sid \in routed /\ queue' = Tail(queue) /\ current = <<>>
        /\ CallNext(m, handlers[m.sid])
    BY <1>3 DEF TakeMessage, WorkerIdle
  <2>2. /\ Distinct(queue') /\ Ids(queue) = {m.id} \cup Ids(queue') /\ m.id \notin Ids(queue')
        /\ m \in Msg
    BY <2>1, TakenFromQueue
  <2>3. handlers[m.sid] \in Seq(Handler) /\ IsInjective(handlers[m.sid])
    BY <2>1 DEF Inv, TypeOK, ListsUnique
  <2> HIDE DEF m
  <2>4. m.id \notin Taken /\ m.id <= arrived /\ \A s \in Sid : m.id \notin Ids(own[s])
    BY <2>2 DEF Once, QueuesApart
  <2>5. \A h : <<m.id, h>> \notin ToSet(calls)
    BY <2>4 DEF Taken
  <2>6. /\ CallsOnce'
        /\ \A c \in ToSet(calls') : c \in ToSet(calls) \/ c[1] = m.id
        /\ current' = <<>> \/ current' = <<m>>
    BY <2>1, <2>2, <2>3, <2>5, CallNextOnce DEF Once, CallsOnce, Inv
  <2>7. Taken' \subseteq Taken \cup {m.id}
    <3>1. Ids(current') \subseteq {m.id}
      BY <2>6 DEF Ids, ToSet
    <3>2. QED
      BY <2>6, <3>1 DEF Taken
  <2>8. QueuesDistinct'
    BY <1>1, <2>2 DEF Once, QueuesDistinct
  <2>9. QueuesApart'
    BY <1>1, <2>2, <2>4, <2>7 DEF Once, QueuesApart
  <2>10. QED
    BY <2>6, <2>8, <2>9 DEF Once
<1>4. CASE HandlerEnds
  <2> DEFINE m == current[1]
  <2>1. current # <<>> /\ CallNext(m, Tail(todo)) /\ queue' = queue
    BY <1>4 DEF HandlerEnds, WorkerIdle
  <2>2. m \in Msg /\ Tail(todo) \in Seq(Handler) /\ m.id \in Ids(current)
    <3>1. 1 \in 1 .. Len(current) /\ current \in Seq(Msg)
      BY <2>1, EmptySeq DEF Inv, TypeOK
    <3>2. current[1] \in Msg /\ 1 \in DOMAIN current
      BY <3>1, ElementOfSeq
    <3>3. Tail(todo) \in Seq(Handler)
      BY <2>1, HeadTailProperties DEF Inv, WorkerShape, TypeOK
    <3>4. QED
      BY <3>1, <3>2, <3>3, IdsType
  <2>3. /\ IsInjective(Tail(todo)) /\ IsInjective(calls)
        /\ \A h \in ToSet(Tail(todo)) : <<m.id, h>> \notin ToSet(calls)
    BY <2>1 DEF Once, CallsOnce
  <2>4. /\ CallsOnce'
        /\ \A c \in ToSet(calls') : c \in ToSet(calls) \/ c[1] = m.id
        /\ current' = <<>> \/ current' = <<m>>
    BY <2>1, <2>2, <2>3, CallNextOnce DEF Inv
  <2>5. Taken' \subseteq Taken
    <3>1. m.id \in Taken
      BY <2>2 DEF Taken
    <3>2. Ids(current') \subseteq {m.id}
      BY <2>4 DEF Ids, ToSet
    <3>3. QED
      BY <2>4, <3>1, <3>2 DEF Taken
  <2>6. QueuesDistinct' /\ QueuesApart'
    BY <1>1, <2>1, <2>5 DEF Once, QueuesDistinct, QueuesApart
  <2>7. QED
    BY <2>4, <2>6 DEF Once
<1>5. QED
  BY <1>2, <1>3, <1>4 DEF Worker

\* EventQueue.add() moves messages, it copies none.
LEMMA AddSubscriptionOnce ==
  ASSUME Inv, Once, NEW u \in User, NEW s \in Sid, AddSubscription(u, s),
         UNCHANGED <<arrived, workVars>>
  PROVE  Once'
<1> DEFINE r == Moved(s)
<1>1. queue' = queue \o r /\ own' = [own EXCEPT ![s] = <<>>]
  BY DEF AddSubscription, Moved
<1>2. /\ r \in Seq(Msg) /\ queue \in Seq(Msg) /\ own \in [Sid -> Seq(Msg)]
      /\ \A i \in DOMAIN r : i \in DOMAIN own[s] /\ r[i] = own[s][i]
  BY MovedType DEF Inv, OwnQueues, TypeOK
<1> HIDE DEF r
<1>3. own'[s] = <<>> /\ \A t \in Sid : t # s => own'[t] = own[t]
  BY <1>1, <1>2
<1>4. Ids(own'[s]) = {} /\ Distinct(own'[s])
  BY <1>3 DEF Ids, ToSet, Distinct
<1>5. Distinct(r) /\ Ids(r) \subseteq Ids(own[s])
  <2>1. Distinct(r)
    BY <1>2 DEF Once, QueuesDistinct, Distinct
  <2>2. ToSet(r) \subseteq ToSet(own[s])
    BY <1>2 DEF ToSet
  <2>3. QED
    BY <2>1, <2>2 DEF Ids
<1>6. Ids(queue') = Ids(queue) \cup Ids(r)
  <2>1. ToSet(queue') = ToSet(queue) \cup ToSet(r)
    BY <1>1, <1>2, ConcatHolds
  <2>2. QED
    BY <2>1 DEF Ids
<1>7. \A i \in Ids(r) : i \notin Ids(queue)
  BY <1>5 DEF Once, QueuesApart
<1>8. Distinct(queue')
  <2> DEFINE c == queue \o r
             n == Len(queue)
  <2>1. /\ n \in Nat /\ Len(r) \in Nat
        /\ DOMAIN queue = 1 .. n /\ DOMAIN r = 1 .. Len(r) /\ DOMAIN c = 1 .. n + Len(r)
        /\ \A i \in 1 .. n : c[i] = queue[i]
        /\ \A i \in DOMAIN c : i \in 1 .. n \/ (i - n \in 1 .. Len(r) /\ c[i] = r[i - n])
    BY <1>2, ConcatProperties
  <2> HIDE DEF c, n
  <2> SUFFICES ASSUME NEW i \in DOMAIN c, NEW j \in DOMAIN c, c[i].id = c[j].id PROVE i = j
    BY <1>1 DEF Distinct, c
  <2>2. CASE i \in 1 .. n /\ j \in 1 .. n
    BY <2>1, <2>2 DEF Once, QueuesDistinct, Distinct
  <2>3. CASE i \notin 1 .. n /\ j \notin 1 .. n
    <3>1. i - n = j - n
      BY <1>5, <2>1, <2>3 DEF Distinct
    <3>2. QED
      BY <2>1, <3>1
  <2>4. \A a, b \in DOMAIN c : a \in 1 .. n /\ b \notin 1 .. n => c[a].id # c[b].id
    <3> SUFFICES ASSUME NEW a \in 1 .. n, NEW b \in DOMAIN c, b \notin 1 .. n PROVE c[a].id # c[b].id
      OBVIOUS
    <3>1. c[a].id \in Ids(queue) /\ c[b].id \in Ids(r)
      BY <1>2, <2>1, IdsType
    <3>2. QED
      BY <1>7, <3>1
  <2>5. QED
    BY <2>2, <2>3, <2>4
<1>9. CallsOnce' /\ Taken' = Taken
  BY DEF Once, CallsOnce, Taken, workVars
<1>10. QueuesDistinct'
  BY <1>3, <1>4, <1>8 DEF Once, QueuesDistinct
<1>11. QueuesApart'
  <2>1. \A i \in Ids(queue') : i <= arrived /\ i \notin Taken
    BY <1>5, <1>6 DEF Once, QueuesApart
  <2>2. \A t \in Sid : Ids(own'[t]) \subseteq Ids(own[t]) /\ (t = s => Ids(own'[t]) = {})
    BY <1>3, <1>4
  <2>3. ASSUME NEW t \in Sid, NEW i \in Ids(own'[t])
        PROVE  /\ i <= arrived /\ i \notin Taken /\ i \notin Ids(queue')
               /\ \A v \in Sid : v # t => i \notin Ids(own'[v])
    <3>1. t # s /\ i \in Ids(own[t])
      BY <2>2
    <3>2. i \notin Ids(own[s]) /\ i \notin Ids(queue)
      BY <3>1 DEF Once, QueuesApart
    <3>3. i \notin Ids(queue')
      BY <1>5, <1>6, <3>2
    <3>4. QED
      BY <2>2, <3>1, <3>3 DEF Once, QueuesApart
  <2>4. QED
    BY <1>9, <2>1, <2>3 DEF Once, QueuesApart
<1>12. QED
  BY <1>9, <1>10, <1>11 DEF Once

LEMMA OnceInductive == Spec => []Once
<1>1. Init => Once
  <2> SUFFICES ASSUME Init PROVE Once
    OBVIOUS
  <2>1. queue = <<>> /\ calls = <<>> /\ current = <<>> /\ \A s \in Sid : own[s] = <<>>
    BY DEF Init
  <2>2. Ids(<<>>) = {} /\ Distinct(<<>>) /\ IsInjective(<<>>) /\ ToSet(<<>>) = {}
    BY DEF Ids, Distinct, IsInjective, ToSet
  <2>3. Taken = {}
    BY <2>1, <2>2 DEF Taken
  <2>4. QED
    BY <2>1, <2>2, <2>3 DEF Once, QueuesDistinct, QueuesApart, CallsOnce
<1>2. Inv /\ ListsUnique /\ Once /\ [Next]_vars => Once'
  <2> SUFFICES ASSUME Inv, ListsUnique, Once, [Next]_vars PROVE Once'
    OBVIOUS
  <2>1. ASSUME UNCHANGED <<queueVars, workVars>> PROVE Once'
    BY <2>1 DEF Once, QueuesDistinct, QueuesApart, CallsOnce, Taken, queueVars, workVars
  <2>2. ASSUME NEW s \in Sid, Arrive(s) PROVE Once'
    BY <2>2, ArriveOnce
  <2>3. ASSUME NEW s \in Sid, SubscriptionDrained(s) \/ Joined(s) PROVE Once'
    BY <2>1, <2>3 DEF SubscriptionDrained, Joined
  <2>4. CASE Worker
    BY <2>4, WorkerOnce
  <2>5. ASSUME NEW u \in User, UserCalls(u) PROVE Once'
    BY <2>1, <2>5 DEF UserCalls, Subscribe, Unsubscribe
  <2>6. ASSUME NEW u \in User, UserResumes(u) PROVE Once'
    <3>1. CASE SubscribeResumes(u)
      <4>1. user[u].sid \in Sid
        BY <3>1 DEF SubscribeResumes, Doing, Inv, Locks
      <4>2. QED
        BY <3>1, <4>1, AddSubscriptionOnce DEF SubscribeResumes
    <3>2. CASE \E s \in Sid : SubscribeAtOnce(u, s)
      BY <3>2, AddSubscriptionOnce DEF SubscribeAtOnce
    <3>3. CASE \E s \in Sid : SubscribeSuspends(u, s)
      BY <2>1, <3>3 DEF SubscribeSuspends
    <3>4. CASE SubscribeToExisting(u) \/ SubscribeFails(u) \/ Flushed(u) \/ UnsubscribeHandler(u) \/ Unsubscribed(u)
      BY <2>1, <3>4 DEF SubscribeToExisting, SubscribeFails, Flushed, UnsubscribeHandler, Unsubscribed
    <3>5. QED
      BY <2>6, <3>1, <3>2, <3>3, <3>4 DEF UserResumes
  <2>7. CASE Connect \/ Disconnect \/ Quiet \/ UNCHANGED vars
    BY <2>1, <2>7 DEF Connect, Disconnect, Quiet, vars, queueVars, workVars
  <2>8. CASE Drained \/ DrainTimesOut
    <3>1. current' = <<>> /\ UNCHANGED <<own, queue, arrived, calls>>
      BY <2>8 DEF Drained, DrainTimesOut, Stop
    <3>2. Ids(current') = {}
      BY <3>1 DEF Ids, ToSet
    <3>3. Taken' \subseteq Taken
      BY <3>1, <3>2 DEF Taken
    <3>4. QueuesDistinct' /\ QueuesApart' /\ CallsOnce'
      BY <3>1, <3>3 DEF Once, QueuesDistinct, QueuesApart, CallsOnce
    <3>5. QED
      BY <3>4 DEF Once
  <2>9. QED
    BY <2>2, <2>3, <2>4, <2>5, <2>6, <2>7, <2>8 DEF Next
<1>3. QED
  BY <1>1, <1>2, Inductive, ListsInductive, PTL DEF Spec

\* No handler is called twice with one message, however often it is unsubscribed and
\* subscribed again while the message waits or is handled.
THEOREM NoCallTwice == Spec => []CalledAtMostOnce
<1>1. Once => CalledAtMostOnce
  BY DEF Once, CallsOnce, CalledAtMostOnce
<1>2. QED
  BY <1>1, OnceInductive, PTL

(***************************************************************************)
(* EventQueue implements OrderedEvents when client.subscribe() never       *)
(* suspends: no message waits in a subscription's own queue then, so the   *)
(* shared one is in the order of arrival.                                  *)
(***************************************************************************)
Waiting(q) == [i \in 1 .. Len(q) |-> q[i].id]

Straight ==
  /\ \A s \in Sid : own[s] = <<>>
  /\ active \subseteq swapped
  /\ \A i \in ToSet(handled) : i <= arrived

\* The ids that wait follow what happens to the queue.
LEMMA WaitingAppend ==
  ASSUME NEW q \in Seq(Msg), NEW m \in Msg
  PROVE  Waiting(Append(q, m)) = Append(Waiting(q), m.id)
<1>1. /\ Append(q, m) \in Seq(Msg) /\ Len(Append(q, m)) = Len(q) + 1 /\ Append(q, m)[Len(q) + 1] = m
      /\ \A i \in 1 .. Len(q) : Append(q, m)[i] = q[i]
      /\ Len(q) \in Nat
  BY AppendProperties
<1>2. \A i \in 1 .. Len(q) : q[i].id \in Id
  <2>1. \A i \in 1 .. Len(q) : q[i] \in Msg
    OBVIOUS
  <2>2. \A x \in Msg : x.id \in Id
    BY DEF Msg
  <2>3. QED
    BY <2>1, <2>2
<1>3. Waiting(q) \in Seq(Id) /\ Len(Waiting(q)) = Len(q) /\ m.id \in Id
  BY <1>1, <1>2 DEF Waiting, Msg
<1> DEFINE a == Waiting(q)
           b == Append(a, m.id)
           c == Waiting(Append(q, m))
<1>4. /\ b \in Seq(Id) /\ Len(b) = Len(q) + 1 /\ b[Len(q) + 1] = m.id
      /\ \A i \in 1 .. Len(q) : b[i] = a[i]
  BY <1>3, AppendProperties
<1>5. \A i \in 1 .. Len(q) : a[i] = q[i].id
  BY DEF Waiting
<1>6. c = [i \in 1 .. Len(q) + 1 |-> Append(q, m)[i].id]
  BY <1>1 DEF Waiting
<1>7. b = [i \in 1 .. Len(q) + 1 |-> b[i]]
  BY <1>4
<1> HIDE DEF a, b, c
<1>8. \A i \in 1 .. Len(q) + 1 : i \in 1 .. Len(q) \/ i = Len(q) + 1
  BY <1>1
<1>9. \A i \in 1 .. Len(q) + 1 : Append(q, m)[i].id = b[i]
  BY <1>1, <1>4, <1>5, <1>8
<1>10. c = b
  BY <1>6, <1>7, <1>9
<1>11. QED
  BY <1>10 DEF a, b, c

LEMMA WaitingTail ==
  ASSUME NEW q \in Seq(Msg), q # <<>>
  PROVE  /\ Waiting(q) \in Seq(Id) /\ Waiting(q) # <<>> /\ Head(Waiting(q)) = Head(q).id
         /\ Waiting(Tail(q)) = Tail(Waiting(q))
<1>1. /\ Tail(q) \in Seq(Msg) /\ Len(q) \in Nat \ {0} /\ Head(q) = q[1]
      /\ Len(Tail(q)) = Len(q) - 1
      /\ \A i \in 1 .. Len(q) - 1 : Tail(q)[i] = q[i + 1]
  BY HeadTailProperties, EmptySeq
<1>2. \A i \in 1 .. Len(q) : q[i].id \in Id
  <2>1. \A i \in 1 .. Len(q) : q[i] \in Msg
    OBVIOUS
  <2>2. \A x \in Msg : x.id \in Id
    BY DEF Msg
  <2>3. QED
    BY <2>1, <2>2
<1> DEFINE a == Waiting(q)
           b == Tail(a)
           c == Waiting(Tail(q))
<1>3. a \in Seq(Id) /\ Len(a) = Len(q) /\ \A i \in 1 .. Len(q) : a[i] = q[i].id
  BY <1>1, <1>2 DEF Waiting
<1>4. a # <<>> /\ Head(a) = Head(q).id
  <2> HIDE DEF a
  <2>1. a # <<>>
    BY <1>1, <1>3, EmptySeq
  <2>2. Head(a) = a[1] /\ 1 \in 1 .. Len(q)
    BY <1>1, <1>3, <2>1, HeadTailProperties
  <2>3. QED
    BY <1>1, <1>3, <2>1, <2>2
<1>5. c = [i \in 1 .. Len(q) - 1 |-> Tail(q)[i].id]
  BY <1>1 DEF Waiting
<1> HIDE DEF a, c
<1>6. /\ b \in Seq(Id) /\ Len(b) = Len(q) - 1
      /\ \A i \in 1 .. Len(q) - 1 : b[i] = a[i + 1]
  BY <1>3, <1>4, HeadTailProperties
<1> HIDE DEF b
<1>7. b = [i \in 1 .. Len(q) - 1 |-> b[i]]
  <2>1. b \in [1 .. Len(b) -> Id]
    BY <1>6
  <2>2. b \in [1 .. Len(q) - 1 -> Id]
    BY <1>6, <2>1
  <2>3. QED
    BY <2>2
<1>8. \A i \in 1 .. Len(q) - 1 : i + 1 \in 1 .. Len(q)
  BY <1>1
<1>9. \A i \in 1 .. Len(q) - 1 : Tail(q)[i].id = b[i]
  BY <1>1, <1>3, <1>6, <1>8
<1>10. c = b
  BY <1>5, <1>7, <1>9
<1>11. QED
  BY <1>3, <1>4, <1>10 DEF a, b, c

\* Nothing waits in a subscription's own queue, so EventQueue.add() moves nothing.
LEMMA AddMovesNothing ==
  ASSUME Inv, Straight, NEW u \in User, NEW s \in Sid, AddSubscription(u, s)
  PROVE  queue' = queue /\ \A t \in Sid : own'[t] = <<>>
<1>1. queue' = queue \o Moved(s) /\ own' = [own EXCEPT ![s] = <<>>]
  BY DEF AddSubscription, Moved
<1>2. Moved(s) \in Seq(Msg) /\ \A i \in DOMAIN Moved(s) : i \in DOMAIN own[s]
  BY MovedType DEF Inv, OwnQueues
<1>3. DOMAIN own[s] = {}
  BY DEF Straight
<1>4. Len(Moved(s)) = 0
  <2>1. Len(Moved(s)) \in Nat /\ DOMAIN Moved(s) = 1 .. Len(Moved(s))
    BY <1>2
  <2>2. 1 \notin DOMAIN Moved(s)
    BY <1>2, <1>3
  <2>3. QED
    BY <2>1, <2>2
<1>5. Moved(s) = <<>>
  BY <1>2, <1>4, EmptySeq
<1>6. queue \o <<>> = queue
  BY ConcatEmptySeq DEF Inv, TypeOK
<1>7. \A t \in Sid : own'[t] = <<>>
  BY <1>1 DEF Straight, Inv, TypeOK
<1>8. QED
  BY <1>1, <1>5, <1>6, <1>7

\* Every step of the queue is one of OrderedEvents, or does not change what it shows.
LEMMA StepsInOrder ==
  ASSUME ~Suspends, Inv, Inv', Once, Straight, Alive, [Next]_vars
  PROVE  [Ordered!Next]_Ordered!vars /\ Straight'
<1> DEFINE Same == queue' = queue /\ handled' = handled /\ WorkerIdle' = WorkerIdle
           Shown == [Ordered!Next]_Ordered!vars
<1>1. ASSUME Same PROVE Shown
  BY <1>1 DEF Ordered!vars
<1>2. Shown <=> Ordered!Next \/ UNCHANGED Ordered!vars
  OBVIOUS
<1>3. /\ queue \in Seq(Msg) /\ handled \in Seq(Id) /\ arrived \in Nat
      /\ \A i \in ToSet(handled) : i \in Nat
  <2>1. queue \in Seq(Msg) /\ handled \in Seq(Id) /\ arrived \in Nat
    BY DEF Inv, TypeOK
  <2>2. \A i \in DOMAIN handled : handled[i] \in Id
    BY <2>1
  <2>3. Id \subseteq Nat
    BY EventConstants DEF Id
  <2>4. QED
    BY <2>1, <2>2, <2>3 DEF ToSet
<1>4. ASSUME queue' = queue, handled' = handled, WorkerIdle' PROVE Shown
  <2>1. CASE WorkerIdle
    BY <1>1, <1>4, <2>1
  <2>2. CASE ~WorkerIdle
    <3>1. Ordered!Finish
      BY <1>4, <2>2 DEF Ordered!Finish
    <3>2. QED
      BY <1>2, <3>1 DEF Ordered!Next
  <2>3. QED
    BY <2>1, <2>2
<1>5. ASSUME UNCHANGED <<queueVars, workVars, swapped, active>> PROVE Shown /\ Straight'
  <2>1. Straight'
    BY <1>5 DEF Straight, queueVars, workVars
  <2>2. Same
    BY <1>5 DEF queueVars, workVars, WorkerIdle
  <2>3. QED
    BY <1>1, <2>1, <2>2
<1>6. ASSUME NEW s \in Sid, Arrive(s) PROVE Shown /\ Straight'
  <2> DEFINE m == [id |-> arrived + 1, sid |-> s]
  <2>1. /\ s \in swapped /\ arrived' = arrived + 1 /\ arrived + 1 \in Id
        /\ UNCHANGED <<subVars, workVars>>
    BY <1>6, EventConstants DEF Arrive, Straight, Inv, TypeOK, Id
  <2>2. m \in Msg /\ m.id = arrived + 1
    BY <2>1 DEF Msg
  <2>3. own' = own /\ (queue' = Append(queue, m) \/ queue' = queue)
    BY <1>6, <2>1 DEF Arrive
  <2> HIDE DEF m
  <2>4. Straight'
    <3>1. \A i \in ToSet(handled) : i <= arrived + 1
      BY <1>3 DEF Straight
    <3>2. QED
      BY <2>1, <2>3, <3>1 DEF Straight, subVars, workVars
  <2>5. CASE queue' = queue
    <3>1. Same
      BY <2>1, <2>5 DEF workVars, WorkerIdle
    <3>2. QED
      BY <1>1, <2>4, <3>1
  <2>6. CASE queue' = Append(queue, m)
    <3>1. Waiting(queue') = Append(Waiting(queue), arrived + 1)
      BY <1>3, <2>2, <2>6, WaitingAppend
    <3>2. \A j \in ToSet(Waiting(queue)) \cup ToSet(handled) : j < arrived + 1
      <4>1. ToSet(Waiting(queue)) \subseteq Ids(queue)
        BY <1>3, IdsType DEF ToSet, Waiting
      <4>2. \A j \in Ids(queue) \cup ToSet(handled) : j <= arrived /\ j \in Nat
        BY <1>3, IdsType DEF Once, QueuesApart, Straight
      <4>3. QED
        BY <1>3, <4>1, <4>2
    <3>3. handled' = handled /\ WorkerIdle' = WorkerIdle
      BY <2>1 DEF workVars, WorkerIdle
    <3>4. PICK i \in Id : i = arrived + 1
      BY <2>1
    <3>5. Ordered!Next
      <4>1. Ordered!Arrive(i)
        BY <3>1, <3>2, <3>3, <3>4 DEF Ordered!Arrive, Ordered!ToSet, ToSet, Waiting
      <4>2. QED
        BY <4>1 DEF Ordered!Next
    <3>6. QED
      BY <1>2, <2>4, <3>5
  <2>7. QED
    BY <2>3, <2>5, <2>6
<1>7. CASE DropMessage
  <2>1. /\ WorkerIdle /\ queue # <<>> /\ queue' = Tail(queue) /\ handled' = handled /\ WorkerIdle' = WorkerIdle
        /\ UNCHANGED <<own, active, swapped, arrived>>
    BY <1>7 DEF DropMessage, workVars, subVars, WorkerIdle
  <2>2. Straight'
    BY <2>1 DEF Straight
  <2>3. Waiting(queue) # <<>> /\ Waiting(queue') = Tail(Waiting(queue))
    BY <1>3, <2>1, WaitingTail
  <2>4. Ordered!Drop
    BY <2>1, <2>3 DEF Ordered!Drop, Waiting
  <2>5. QED
    BY <1>2, <2>2, <2>4 DEF Ordered!Next
<1>8. CASE TakeMessage
  <2>1. /\ WorkerIdle /\ queue # <<>> /\ queue' = Tail(queue) /\ handled' = Append(handled, Head(queue).id)
        /\ UNCHANGED <<own, active, swapped, arrived>>
    BY <1>8 DEF TakeMessage, subVars
  <2>2. Head(queue).id \in Ids(queue) /\ Head(queue).id \in Id
    <3>1. Head(queue) = queue[1] /\ 1 \in DOMAIN queue /\ Head(queue) \in Msg
      BY <1>3, <2>1, HeadTailProperties, EmptySeq
    <3>2. QED
      BY <1>3, <3>1, IdsType DEF Msg
  <2>3. Straight'
    <3>1. ToSet(handled') = ToSet(handled) \cup {Head(queue).id}
      BY <1>3, <2>1, <2>2, AppendHolds
    <3>2. Head(queue).id <= arrived
      BY <2>2 DEF Once, QueuesApart
    <3>3. QED
      BY <2>1, <3>1, <3>2 DEF Straight
  <2>4. /\ Waiting(queue) # <<>> /\ Waiting(queue') = Tail(Waiting(queue))
        /\ Head(Waiting(queue)) = Head(queue).id
    BY <1>3, <2>1, WaitingTail
  <2>5. Ordered!Handle
    BY <2>1, <2>4 DEF Ordered!Handle, Waiting, WorkerIdle
  <2>6. QED
    BY <1>2, <2>3, <2>5 DEF Ordered!Next
<1>9. CASE HandlerEnds
  <2>1. ~WorkerIdle /\ queue' = queue /\ handled' = handled /\ UNCHANGED <<own, active, swapped, arrived>>
    BY <1>9 DEF HandlerEnds, subVars
  <2>2. Straight'
    BY <2>1 DEF Straight
  <2>3. CASE WorkerIdle'
    BY <1>4, <2>1, <2>2, <2>3
  <2>4. CASE ~WorkerIdle'
    <3>1. WorkerIdle' = WorkerIdle
      BY <2>1, <2>4 DEF WorkerIdle
    <3>2. QED
      BY <1>1, <2>1, <2>2, <3>1
  <2>5. QED
    BY <2>3, <2>4
<1>10. ASSUME NEW u \in User, UserCalls(u) \/ UserResumes(u) PROVE Shown /\ Straight'
  <2>1. ~SubscribeResumes(u) /\ \A s : ~SubscribeSuspends(u, s)
    <3>1. user[u].op # "subscribing"
      BY DEF Alive, TasksKnow
    <3>2. QED
      BY <3>1 DEF SubscribeResumes, SubscribeSuspends, Doing
  <2>2. ASSUME NEW s \in Sid, SubscribeAtOnce(u, s) PROVE Shown /\ Straight'
    <3>1. /\ AddSubscription(u, s) /\ active' = active \cup {s}
          /\ UNCHANGED <<arrived, workVars>>
      BY <2>2 DEF SubscribeAtOnce, NewSubscription
    <3>2. queue' = queue /\ \A t \in Sid : own'[t] = <<>>
      BY <3>1, AddMovesNothing
    <3>3. swapped' = swapped \cup {s}
      BY <3>1 DEF AddSubscription
    <3>4. Straight'
      BY <3>1, <3>2, <3>3 DEF Straight, workVars
    <3>5. Same
      BY <3>1, <3>2 DEF workVars, WorkerIdle
    <3>6. QED
      BY <1>1, <3>4, <3>5
  <2>3. CASE UnsubscribeHandler(u)
    <3>1. active' \subseteq active /\ UNCHANGED <<queueVars, workVars, swapped>>
      BY <2>3 DEF UnsubscribeHandler, RemoveSubscription, subVars
    <3>2. Straight'
      BY <3>1 DEF Straight, queueVars, workVars
    <3>3. Same
      BY <3>1 DEF queueVars, workVars, WorkerIdle
    <3>4. QED
      BY <1>1, <3>2, <3>3
  <2>4. CASE UserCalls(u) \/ SubscribeToExisting(u) \/ SubscribeFails(u) \/ Flushed(u) \/ Unsubscribed(u)
    BY <1>5, <2>4 DEF UserCalls, Subscribe, Unsubscribe, SubscribeToExisting, SubscribeFails, Flushed,
                      Unsubscribed, subVars
  <2>5. QED
    BY <1>10, <2>1, <2>2, <2>3, <2>4 DEF UserResumes
<1>11. ASSUME NEW s \in Sid, SubscriptionDrained(s) \/ Joined(s) PROVE Shown /\ Straight'
  <2>1. active' \subseteq active /\ UNCHANGED <<queueVars, workVars, swapped>>
    BY <1>11 DEF SubscriptionDrained, Joined, subVars
  <2>2. Straight'
    BY <2>1 DEF Straight, queueVars, workVars
  <2>3. Same
    BY <2>1 DEF queueVars, workVars, WorkerIdle
  <2>4. QED
    BY <1>1, <2>2, <2>3
<1>12. CASE Connect \/ Disconnect \/ Quiet \/ UNCHANGED vars
  BY <1>5, <1>12 DEF Connect, Disconnect, Quiet, vars, queueVars, workVars, subVars
<1>13. CASE Drained \/ DrainTimesOut
  <2>1. /\ current' = <<>> /\ active' = {} /\ UNCHANGED <<own, queue, handled, arrived>>
    BY <1>13 DEF Drained, DrainTimesOut, Stop
  <2>2. WorkerIdle'
    BY <2>1 DEF WorkerIdle
  <2>3. Straight'
    BY <2>1 DEF Straight
  <2>4. QED
    BY <1>4, <2>1, <2>2, <2>3
<1>14. QED
  BY <1>6, <1>7, <1>8, <1>9, <1>10, <1>11, <1>12, <1>13 DEF Next, Worker

\* EventQueue keeps its promise when client.subscribe() never suspends: events of all
\* subscriptions are handled one by one in the order they arrived, none twice.
THEOREM HandlesInOrder ==
  ASSUME ~Suspends
  PROVE  Spec => HandledInOrder
<1>1. Init => Ordered!Init /\ Straight
  <2> SUFFICES ASSUME Init PROVE Ordered!Init /\ Straight
    OBVIOUS
  <2>1. queue = <<>> /\ handled = <<>> /\ current = <<>> /\ active = {}
    BY DEF Init
  <2>2. [i \in 1 .. Len(queue) |-> queue[i].id] = <<>>
    BY <2>1
  <2>3. ToSet(handled) = {} /\ \A s \in Sid : own[s] = <<>>
    BY <2>1 DEF Init, ToSet
  <2>4. QED
    BY <2>1, <2>2, <2>3 DEF Ordered!Init, Straight, WorkerIdle
<1>2. Spec => []Alive
  BY CallsInductive
<1>3. Spec => []Straight
  <2>1. Inv /\ Inv' /\ Once /\ Straight /\ Alive /\ [Next]_vars => Straight'
    BY StepsInOrder
  <2>2. QED
    BY <1>1, <1>2, <2>1, Inductive, OnceInductive, PTL DEF Spec
<1>4. Inv /\ Inv' /\ Once /\ Straight /\ Alive /\ [Next]_vars => [Ordered!Next]_Ordered!vars
  BY StepsInOrder
<1>5. QED
  BY <1>1, <1>2, <1>3, <1>4, Inductive, OnceInductive, PTL DEF Spec, HandledInOrder, Ordered!Spec
=============================================================================
