----------------------------- MODULE HttpProofs -----------------------------
(***************************************************************************)
(* Theorems about HttpRange and Router, for all values of their constants. *)
(***************************************************************************)
EXTENDS HttpRange, Router, FiniteSetTheorems, SequenceTheorems, NaturalsInduction,
        WellFoundedInduction, TLAPS

-----------------------------------------------------------------------------
(* What the operators of HttpRange do.                                     *)

LEMMA PositionsType ==
  ASSUME NEW first \in Int, NEW n \in Nat
  PROVE  /\ Positions(first, n) \in Seq(Int) /\ Len(Positions(first, n)) = n
         /\ \A i \in 1 .. n : Positions(first, n)[i] = first + i - 1
<1>1. Positions(first, n) \in [1 .. n -> Int]
  BY DEF Positions
<1>2. Positions(first, n) \in Seq(Int)
  BY <1>1, SeqDef
<1>3. QED
  BY <1>1, <1>2 DEF Positions

\* A range of no bytes, or of less than that, is empty.
LEMMA PositionsNone ==
  ASSUME NEW first \in Int, NEW n \in Int, n <= 0
  PROVE  Positions(first, n) = <<>>
<1>1. 1 .. n = {}
  OBVIOUS
<1>2. Positions(first, n) = [i \in {} |-> first + i - 1]
  BY <1>1 DEF Positions
<1>3. Positions(first, n) = Positions(first, 0)
  BY <1>1 DEF Positions
<1>4. Positions(first, 0) \in Seq(Int) /\ Len(Positions(first, 0)) = 0
  BY PositionsType
<1>5. QED
  BY <1>3, <1>4, EmptySeq

\* What write() sends next follows what was sent.
LEMMA PositionsFollow ==
  ASSUME NEW first \in Int, NEW n \in Nat, NEW k \in Nat
  PROVE  Positions(first, n) \o Positions(first + n, k) = Positions(first, n + k)
<1> DEFINE a == Positions(first, n)
           b == Positions(first + n, k)
           c == Positions(first, n + k)
           d == a \o b
<1>1. a \in Seq(Int) /\ Len(a) = n /\ \A i \in 1 .. n : a[i] = first + i - 1
  BY PositionsType
<1>2. b \in Seq(Int) /\ Len(b) = k /\ \A i \in 1 .. k : b[i] = (first + n) + i - 1
  BY PositionsType
<1>3. c = [i \in 1 .. n + k |-> first + i - 1]
  BY DEF Positions
<1> HIDE DEF a, b, c
<1>4. /\ d \in Seq(Int) /\ Len(d) = n + k
      /\ \A i \in 1 .. n + k : d[i] = IF i <= n THEN a[i] ELSE b[i - n]
  BY <1>1, <1>2, ConcatProperties
<1> HIDE DEF d
<1>5. ASSUME NEW i \in 1 .. n + k PROVE d[i] = first + i - 1
  <2>1. CASE i <= n
    BY <1>1, <1>4, <2>1
  <2>2. CASE ~(i <= n)
    <3>1. i - n \in 1 .. k
      BY <2>2
    <3>2. b[i - n] = (first + n) + (i - n) - 1
      BY <1>2, <3>1
    <3>3. QED
      BY <1>4, <2>2, <3>2
  <2>3. QED
    BY <2>1, <2>2
<1>6. d = [i \in 1 .. n + k |-> d[i]]
  <2>1. d \in [1 .. Len(d) -> Int]
    BY <1>4
  <2>2. d \in [1 .. n + k -> Int]
    BY <1>4, <2>1
  <2>3. QED
    BY <2>2
<1>7. d = c
  BY <1>3, <1>5, <1>6
<1>8. QED
  BY <1>7 DEF a, b, c, d

\* The first position is the one asked for, the last is within the content.
LEMMA ClampedType ==
  ASSUME NEW h \in Header, h # None, NEW n \in 0 .. MaxLen, Satisfiable(h, n)
  PROVE  /\ h.start \in 0 .. MaxLen /\ h.start < n
         /\ BytesRange(h) \in Int \X Int /\ BytesRange(h)[1] = h.start
         /\ Clamped(h, n) \in Int \X Int
         /\ Clamped(h, n)[1] = h.start /\ Clamped(h, n)[2] <= n - 1
         /\ Clamped(h, n)[2] = Smaller(BytesRange(h)[2], n - 1)
         /\ h.stop = Open \/ h.start <= h.stop => BytesRange(h)[2] >= h.start /\ Clamped(h, n)[2] >= h.start
<1>1. MaxLen \in Nat /\ DefaultChunk \in Nat \ {0} /\ Open \notin Int
  BY RangeConstants
<1>2. h.start \in 0 .. MaxLen /\ h.stop \in (-MaxLen .. MaxLen) \cup {Open}
  BY DEF Header
<1>3. n \in Int /\ h.start < n
  BY <1>1 DEF Satisfiable
<1> DEFINE stop == BytesRange(h)[2]
<1>4. stop = (IF h.stop = Open THEN h.start + DefaultChunk - 1 ELSE h.stop) /\ BytesRange(h) = <<h.start, stop>>
  BY DEF BytesRange
<1> HIDE DEF stop
<1>5. stop \in Int
  <2>1. CASE h.stop = Open
    BY <1>1, <1>2, <1>4, <2>1
  <2>2. CASE h.stop # Open
    BY <1>1, <1>2, <1>4, <2>2
  <2>3. QED
    BY <2>1, <2>2
<1>6. h.stop = Open \/ h.start <= h.stop => stop >= h.start
  <2>1. CASE h.stop = Open
    BY <1>1, <1>2, <1>4, <2>1
  <2>2. CASE h.stop # Open
    BY <1>1, <1>2, <1>4, <2>2
  <2>3. QED
    BY <2>1, <2>2
<1>7. BytesRange(h) \in Int \X Int /\ BytesRange(h)[1] = h.start /\ BytesRange(h)[2] = stop
  BY <1>2, <1>4, <1>5
<1>8. Smaller(stop, n - 1) \in Int /\ Smaller(stop, n - 1) <= n - 1
      /\ (stop >= h.start => Smaller(stop, n - 1) >= h.start)
  BY <1>2, <1>3, <1>5 DEF Smaller
<1>9. Clamped(h, n) = <<h.start, Smaller(stop, n - 1)>>
  BY <1>7 DEF Clamped
<1>10. QED
  BY <1>2, <1>3, <1>6, <1>7, <1>8, <1>9

(***************************************************************************)
(* The inductive invariant: before the response, what it announces, and    *)
(* how far the loop of _write_stream() is.                                 *)
(***************************************************************************)
NotBegun ==
  /\ status = 0 => range = <<0, -1>> /\ length = 0 /\ sent = <<>>
  /\ pc = "called" => status = 0
  /\ status = 0 => pc \in {"called", "failed"}
  /\ status = 416 => /\ pc = "done" /\ range = <<0, -1>> /\ length = 0 /\ sent = <<>>
                     /\ header # None /\ ~Satisfiable(header, total)

Announced ==
  status \in {200, 206} =>
    /\ length = range[2] - range[1] + 1 /\ range[1] \in 0 .. MaxLen
    /\ IF header = None THEN status = 200 /\ range = <<0, total - 1>>
       ELSE status = 206 /\ range = Clamped(header, total) /\ Satisfiable(header, total)

Progress ==
  /\ pc = "seek" => sent = <<>> /\ remaining = length
  /\ pc \in {"called", "seek", "read"} => chunk = 0
  /\ pc \in {"read", "write"} =>
       /\ offset - chunk = range[1] + Len(sent) /\ remaining = length - Len(sent)
       /\ chunk <= remaining

\* With a file nobody changes the loop ends when all is sent.
Complete ==
  /\ status # 0 /\ changes = 0 => size = total
  /\ pc \in {"eof", "done"} /\ status # 416 /\ changes = 0 /\ Ordered => Len(sent) = length

Inv == TypeOK /\ NotBegun /\ Announced /\ Progress /\ SentIsPrefix /\ Complete

LEMMA InitInv == RangeInit => Inv
<1> SUFFICES ASSUME RangeInit PROVE Inv
  OBVIOUS
<1>1. MaxLen \in Nat /\ MaxChange \in Nat
  BY RangeConstants
<1>2. /\ pc = "called" /\ header \in Header /\ size \in 0 .. MaxLen /\ total = 0
      /\ status = 0 /\ range = <<0, -1>> /\ length = 0
      /\ offset = 0 /\ remaining = 0 /\ chunk = 0 /\ sent = <<>> /\ changes = 0
  BY DEF RangeInit
<1>3. TypeOK
  <2>1. sent \in Seq(0 .. MaxLen - 1)
    BY <1>2, EmptySeq
  <2>2. range \in Int \X Int
    BY <1>2
  <2>3. QED
    BY <1>1, <1>2, <2>1, <2>2 DEF TypeOK
<1>4. NotBegun /\ Announced /\ Progress /\ Complete
  BY <1>2 DEF NotBegun, Announced, Progress, Complete
<1>5. SentIsPrefix
  <2>1. Len(sent) = 0
    BY <1>2, EmptySeq
  <2>2. Positions(range[1], 0) = <<>>
    BY <1>2, PositionsNone
  <2>3. QED
    BY <1>2, <2>1, <2>2 DEF SentIsPrefix
<1>6. QED
  BY <1>3, <1>4, <1>5 DEF Inv

\* Nothing has been sent: what is announced does not matter yet.
LEMMA NothingSent ==
  ASSUME NEW r, r \in Int \X Int
  PROVE  <<>> = Positions(r[1], Len(<<>>)) /\ Len(<<>>) = 0
<1>1. r[1] \in Int
  OBVIOUS
<1>2. Len(<<>>) = 0
  BY EmptySeq
<1>3. QED
  BY <1>1, <1>2, PositionsNone

LEMMA PrepareInv ==
  ASSUME Inv, Prepare
  PROVE  Inv'
<1>1. /\ pc = "called" /\ status = 0 /\ sent = <<>> /\ chunk = 0
      /\ total' = size /\ UNCHANGED <<header, size, offset, chunk, sent, changes>>
  BY DEF Prepare, Inv, NotBegun, Progress
<1>2. /\ size \in 0 .. MaxLen /\ header \in Header /\ MaxLen \in Nat
      /\ range \in Int \X Int /\ length \in Int /\ remaining \in Int
  BY RangeConstants DEF Inv, TypeOK
<1>3. CASE header # None /\ ~Satisfiable(header, size)
  <2>1. pc' = "done" /\ status' = 416 /\ UNCHANGED <<range, length, remaining>>
    BY <1>3 DEF Prepare
  <2>2. TypeOK'
    BY <1>1, <1>2, <2>1 DEF Inv, TypeOK
  <2>3. NotBegun' /\ Announced' /\ Progress' /\ Complete'
    BY <1>1, <1>3, <2>1 DEF Inv, NotBegun, Announced, Progress, Complete
  <2>4. SentIsPrefix'
    BY <1>1, <2>1 DEF Inv, SentIsPrefix
  <2>5. QED
    BY <2>2, <2>3, <2>4 DEF Inv
<1>4. CASE header = None \/ Satisfiable(header, size)
  <2> DEFINE bounds == IF header = None THEN <<0, size - 1>> ELSE Clamped(header, size)
  <2>1. /\ pc' = "seek" /\ range' = bounds /\ status' = (IF header = None THEN 200 ELSE 206)
        /\ length' = bounds[2] - bounds[1] + 1 /\ remaining' = bounds[2] - bounds[1] + 1
    BY <1>4 DEF Prepare
  <2>2. bounds \in Int \X Int /\ bounds[1] \in 0 .. MaxLen
    <3>1. CASE header = None
      BY <1>2, <3>1
    <3>2. CASE header # None
      <4>1. Satisfiable(header, size)
        BY <1>4, <3>2
      <4>2. Clamped(header, size) \in Int \X Int /\ Clamped(header, size)[1] \in 0 .. MaxLen
        BY <1>2, <3>2, <4>1, ClampedType
      <4>3. QED
        BY <3>2, <4>2
    <3>3. QED
      BY <3>1, <3>2
  <2>3. /\ header = None => bounds = <<0, size - 1>>
        /\ header # None => bounds = Clamped(header, size) /\ Satisfiable(header, size)
    BY <1>4
  <2> HIDE DEF bounds
  <2>4. bounds[1] \in Int /\ bounds[2] \in Int
    BY <2>2
  <2>5. length' \in Int /\ remaining' \in Int /\ length' = remaining' /\ range' \in Int \X Int
    BY <2>1, <2>2, <2>4
  <2>6. TypeOK'
    BY <1>1, <1>2, <2>1, <2>5 DEF Inv, TypeOK
  <2>7. status' \in {200, 206} /\ status' # 0 /\ status' # 416
    BY <2>1
  <2>8. NotBegun' /\ Progress' /\ Complete'
    BY <1>1, <2>1, <2>5, <2>7 DEF NotBegun, Progress, Complete
  <2>9. Announced'
    BY <1>1, <2>1, <2>2, <2>3 DEF Announced
  <2>10. SentIsPrefix'
    BY <1>1, <2>5, NothingSent DEF SentIsPrefix
  <2>11. QED
    BY <2>6, <2>8, <2>9, <2>10 DEF Inv
<1>5. QED
  BY <1>3, <1>4

LEMMA NoSizeInv ==
  ASSUME Inv, NoSize
  PROVE  Inv'
<1>1. pc = "called" /\ pc' = "failed"
      /\ UNCHANGED <<header, size, total, status, range, length, offset, remaining, chunk, sent, changes>>
  BY DEF NoSize
<1>2. TypeOK' /\ NotBegun' /\ Announced' /\ Progress'
  BY <1>1 DEF Inv, TypeOK, NotBegun, Announced, Progress
<1>3. SentIsPrefix' /\ Complete'
  BY <1>1 DEF Inv, SentIsPrefix, Complete, Ordered
<1>4. QED
  BY <1>2, <1>3 DEF Inv

\* What a response that is being sent announces.
LEMMA UnderWay ==
  ASSUME Inv, pc \in {"seek", "read", "write"}
  PROVE  /\ status \in {200, 206} /\ length = range[2] - range[1] + 1
         /\ range[1] \in 0 .. MaxLen /\ range[2] \in Int /\ range[2] <= total - 1
         /\ Ordered => length >= 0 /\ (length = 0 => header = None)
         /\ changes = 0 => size = total
<1>1. status \in {200, 206}
  <2>1. status \in {0, 200, 206, 416}
    BY DEF Inv, TypeOK
  <2>2. status # 0 /\ status # 416
    BY DEF Inv, NotBegun
  <2>3. QED
    BY <2>1, <2>2
<1>2. /\ length = range[2] - range[1] + 1 /\ range[1] \in 0 .. MaxLen
      /\ IF header = None THEN status = 200 /\ range = <<0, total - 1>>
         ELSE status = 206 /\ range = Clamped(header, total) /\ Satisfiable(header, total)
  BY <1>1 DEF Inv, Announced
<1>3. total \in 0 .. MaxLen /\ header \in Header /\ MaxLen \in Nat /\ range \in Int \X Int
  BY RangeConstants DEF Inv, TypeOK
<1>4. range[2] \in Int
  BY <1>3
<1>5. changes = 0 => size = total
  BY <1>1 DEF Inv, Complete
<1>6. CASE header = None
  <2>1. range[1] = 0 /\ range[2] = total - 1
    BY <1>2, <1>6
  <2>2. QED
    BY <1>1, <1>2, <1>3, <1>4, <1>5, <1>6, <2>1
<1>7. CASE header # None
  <2>1. range = Clamped(header, total) /\ Satisfiable(header, total)
    BY <1>2, <1>7
  <2>2. /\ range[1] = header.start /\ range[2] <= total - 1
        /\ header.stop = Open \/ header.start <= header.stop => range[2] >= header.start
    BY <1>3, <1>7, <2>1, ClampedType
  <2>3. Ordered => range[2] >= range[1]
    BY <1>7, <2>2 DEF Ordered
  <2>4. Ordered => length >= 1
    BY <1>2, <1>3, <1>4, <2>3
  <2>5. QED
    BY <1>1, <1>2, <1>4, <1>5, <2>2, <2>4
<1>8. QED
  BY <1>6, <1>7

LEMMA SeekInv ==
  ASSUME Inv, Seek
  PROVE  Inv'
<1>1. /\ pc = "seek" /\ offset' = range[1] /\ pc' = (IF remaining > 0 THEN "read" ELSE "eof")
      /\ UNCHANGED <<header, size, total, status, range, length, remaining, chunk, sent, changes>>
  BY DEF Seek
<1>2. /\ status \in {200, 206} /\ range[1] \in 0 .. MaxLen
      /\ Ordered => length >= 0 /\ (length = 0 => header = None)
      /\ changes = 0 => size = total
  BY <1>1, UnderWay
<1>3. sent = <<>> /\ remaining = length /\ chunk = 0 /\ length \in Int /\ MaxLen \in Nat
  BY <1>1, RangeConstants DEF Inv, Progress, TypeOK
<1>4. Len(sent) = 0
  BY <1>3, EmptySeq
<1>5. TypeOK'
  BY <1>1, <1>2 DEF Inv, TypeOK
<1>6. NotBegun' /\ Announced' /\ SentIsPrefix'
  BY <1>1, <1>2 DEF Inv, NotBegun, Announced, SentIsPrefix
<1>7. Progress'
  BY <1>1, <1>2, <1>3, <1>4 DEF Progress
<1>8. Complete'
  <2>1. pc' = "eof" /\ Ordered => Len(sent) = length
    BY <1>1, <1>2, <1>3, <1>4
  <2>2. pc' # "done"
    BY <1>1
  <2>3. QED
    BY <1>1, <1>2, <2>1, <2>2 DEF Complete, Ordered
<1>9. QED
  BY <1>5, <1>6, <1>7, <1>8 DEF Inv

LEMMA ReadInv ==
  ASSUME Inv, Read
  PROVE  Inv'
<1>1. /\ pc = "read"
      /\ UNCHANGED <<header, size, total, status, range, length, remaining, sent, changes>>
  BY DEF Read
<1>2. PICK n \in 0 .. Smaller(StreamChunk, remaining) :
        /\ n = 0 <=> offset >= size
        /\ n > 0 => offset + n <= size
        /\ chunk' = n /\ offset' = offset + n
        /\ pc' = IF n = 0 THEN "eof" ELSE "write"
  BY DEF Read
<1>3. /\ offset \in 0 .. MaxLen /\ size \in 0 .. MaxLen /\ remaining \in Int /\ length \in Int
      /\ MaxLen \in Nat /\ StreamChunk \in Nat /\ remaining > 0 /\ sent \in Seq(0 .. MaxLen - 1)
      /\ total \in 0 .. MaxLen
  BY <1>1, RangeConstants DEF Inv, TypeOK
<1>4. n \in Nat /\ n <= remaining
  BY <1>2, <1>3 DEF Smaller
<1>5. Len(sent) \in Nat
  BY <1>3, LenProperties
<1>6. /\ chunk = 0 /\ offset - chunk = range[1] + Len(sent) /\ remaining = length - Len(sent)
  BY <1>1 DEF Inv, Progress
<1>7. /\ status \in {200, 206} /\ length = range[2] - range[1] + 1 /\ range[1] \in 0 .. MaxLen
      /\ range[2] \in Int /\ range[2] <= total - 1 /\ (changes = 0 => size = total)
  BY <1>1, UnderWay
<1>8. offset + n \in 0 .. MaxLen /\ n \in 0 .. MaxLen
  BY <1>2, <1>3, <1>4
<1>9. TypeOK'
  BY <1>1, <1>2, <1>3, <1>8 DEF Inv, TypeOK
<1>10. NotBegun' /\ Announced' /\ SentIsPrefix'
  BY <1>1, <1>2, <1>7 DEF Inv, NotBegun, Announced, SentIsPrefix
<1>11. Progress'
  <2>1. offset' - chunk' = range[1] + Len(sent)
    BY <1>2, <1>3, <1>4, <1>6
  <2>2. pc' \in {"eof", "write"}
    BY <1>2
  <2>3. QED
    BY <1>1, <1>2, <1>4, <1>6, <2>1, <2>2 DEF Progress
<1>12. changes = 0 => n # 0
  BY <1>2, <1>3, <1>5, <1>6, <1>7
<1>13. Complete'
  BY <1>1, <1>2, <1>7, <1>12 DEF Complete, Ordered
<1>14. QED
  BY <1>9, <1>10, <1>11, <1>13 DEF Inv

LEMMA WriteInv ==
  ASSUME Inv, Write
  PROVE  Inv'
<1> DEFINE n == Len(sent)
           more == Positions(offset - chunk, chunk)
<1>1. /\ pc = "write" /\ sent' = sent \o more /\ remaining' = remaining - chunk /\ chunk' = 0
      /\ pc' = (IF remaining - chunk > 0 THEN "read" ELSE "eof")
      /\ UNCHANGED <<header, size, total, status, range, length, offset, changes>>
  BY DEF Write
<1>2. /\ offset \in 0 .. MaxLen /\ chunk \in 0 .. MaxLen /\ remaining \in Int /\ length \in Int
      /\ MaxLen \in Nat /\ sent \in Seq(0 .. MaxLen - 1)
  BY RangeConstants DEF Inv, TypeOK
<1>3. n \in Nat
  BY <1>2, LenProperties
<1>4. /\ offset - chunk = range[1] + n /\ remaining = length - n /\ chunk <= remaining
  BY <1>1 DEF Inv, Progress
<1>5. /\ status \in {200, 206} /\ range[1] \in 0 .. MaxLen /\ (changes = 0 => size = total)
  BY <1>1, UnderWay
<1>6. sent = Positions(range[1], n)
  BY DEF Inv, SentIsPrefix
<1>7. more = Positions(range[1] + n, chunk)
  BY <1>4
<1> HIDE DEF n, more
<1>8. range[1] \in Int /\ chunk \in Nat
  BY <1>2, <1>5
<1>9. sent' = Positions(range[1], n + chunk)
  BY <1>1, <1>3, <1>6, <1>7, <1>8, PositionsFollow
<1>10. n + chunk \in Nat
  BY <1>3, <1>8
<1>11. /\ sent' \in Seq(Int) /\ Len(sent') = n + chunk
       /\ \A i \in 1 .. n + chunk : sent'[i] = range[1] + i - 1
  BY <1>8, <1>9, <1>10, PositionsType
<1>12. \A i \in 1 .. n + chunk : sent'[i] \in 0 .. MaxLen - 1
  <2> TAKE i \in 1 .. n + chunk
  <2>1. range[1] + i - 1 <= offset - 1
    BY <1>2, <1>3, <1>4, <1>5, <1>8
  <2>2. range[1] + i - 1 \in 0 .. MaxLen - 1
    BY <1>2, <1>3, <1>5, <1>8, <2>1
  <2>3. QED
    BY <1>11, <2>2
<1>13. sent' \in Seq(0 .. MaxLen - 1)
  <2>1. sent' \in [1 .. n + chunk -> Int]
    BY <1>11
  <2>2. sent' \in [1 .. n + chunk -> 0 .. MaxLen - 1]
    BY <1>12, <2>1
  <2>3. QED
    BY <1>10, <2>2, SeqDef
<1>14. TypeOK'
  <2>1. remaining' \in Int /\ chunk' \in 0 .. MaxLen /\ (pc' = "read" => remaining' > 0)
        /\ pc' \in {"read", "eof"}
    BY <1>1, <1>2
  <2>2. QED
    BY <1>1, <1>13, <2>1 DEF Inv, TypeOK
<1>15. NotBegun' /\ Announced'
  BY <1>1, <1>5 DEF Inv, NotBegun, Announced
<1>16. remaining' = length - Len(sent') /\ Len(sent') <= length
       /\ offset' - chunk' = range[1] + Len(sent')
  <2>1. Len(sent') = n + chunk
    BY <1>11
  <2>2. remaining' = remaining - chunk /\ chunk' = 0 /\ offset' = offset
    BY <1>1
  <2>3. range[1] + (n + chunk) = offset
    BY <1>2, <1>3, <1>4, <1>8
  <2>4. remaining - chunk = length - (n + chunk) /\ n + chunk <= length
    BY <1>2, <1>3, <1>4, <1>8
  <2>5. offset - 0 = offset
    BY <1>2
  <2>6. QED
    BY <2>1, <2>2, <2>3, <2>4, <2>5
<1>17. Progress'
  <2>1. pc' \in {"read", "eof"} /\ chunk' = 0 /\ length' = length /\ range' = range
    BY <1>1
  <2>2. pc' = "read" => chunk' <= remaining'
    BY <1>1, <1>2
  <2>3. QED
    BY <1>16, <2>1, <2>2 DEF Progress
<1>18. SentIsPrefix'
  BY <1>1, <1>9, <1>11, <1>16 DEF SentIsPrefix
<1>19. Complete'
  <2>1. pc' # "read" => Len(sent') = length
    BY <1>1, <1>2, <1>3, <1>4, <1>8, <1>11
  <2>2. pc' # "done"
    BY <1>1
  <2>3. QED
    BY <1>1, <1>5, <2>1, <2>2 DEF Complete, Ordered
<1>20. QED
  BY <1>14, <1>15, <1>17, <1>18, <1>19 DEF Inv

LEMMA WriteEofInv ==
  ASSUME Inv, WriteEof
  PROVE  Inv'
<1>1. pc = "eof" /\ pc' = "done"
      /\ UNCHANGED <<header, size, total, status, range, length, offset, remaining, chunk, sent, changes>>
  BY DEF WriteEof
<1>2. TypeOK' /\ NotBegun' /\ Announced' /\ Progress'
  BY <1>1 DEF Inv, TypeOK, NotBegun, Announced, Progress
<1>3. SentIsPrefix' /\ Complete'
  BY <1>1 DEF Inv, SentIsPrefix, Complete, Ordered
<1>4. QED
  BY <1>2, <1>3 DEF Inv

LEMMA ConnectionFailsInv ==
  ASSUME Inv, ConnectionFails
  PROVE  Inv'
<1>1. pc \in {"seek", "read", "write", "eof"} /\ pc' = "failed"
      /\ UNCHANGED <<header, size, total, status, range, length, offset, remaining, chunk, sent, changes>>
  BY DEF ConnectionFails
<1>2. TypeOK' /\ NotBegun' /\ Announced' /\ Progress'
  BY <1>1 DEF Inv, TypeOK, NotBegun, Announced, Progress
<1>3. SentIsPrefix' /\ Complete'
  BY <1>1 DEF Inv, SentIsPrefix, Complete, Ordered
<1>4. QED
  BY <1>2, <1>3 DEF Inv

LEMMA FileChangesInv ==
  ASSUME Inv, FileChanges
  PROVE  Inv'
<1>1. /\ changes < MaxChange /\ size' \in 0 .. MaxLen /\ changes' = changes + 1
      /\ UNCHANGED <<pc, header, total, status, range, length, offset, remaining, chunk, sent>>
  BY DEF FileChanges
<1>2. changes \in 0 .. MaxChange /\ MaxChange \in Nat
  BY RangeConstants DEF Inv, TypeOK
<1>3. changes' \in 0 .. MaxChange /\ changes' # 0
  BY <1>1, <1>2
<1>4. TypeOK'
  BY <1>1, <1>3 DEF Inv, TypeOK
<1>5. NotBegun' /\ Announced' /\ Progress'
  BY <1>1 DEF Inv, NotBegun, Announced, Progress
<1>6. SentIsPrefix' /\ Complete'
  BY <1>1, <1>3 DEF Inv, SentIsPrefix, Complete
<1>7. QED
  BY <1>4, <1>5, <1>6 DEF Inv

LEMMA Inductive == Inv /\ [RangeNext]_rangeVars => Inv'
<1> SUFFICES ASSUME Inv, [RangeNext]_rangeVars PROVE Inv'
  OBVIOUS
<1>1. CASE StreamNext
  BY <1>1, PrepareInv, NoSizeInv, SeekInv, ReadInv, WriteInv, WriteEofInv, ConnectionFailsInv
     DEF StreamNext
<1>2. CASE FileChanges
  BY <1>2, FileChangesInv
<1>3. CASE UNCHANGED rangeVars
  <2>1. UNCHANGED <<pc, header, size, total, status, range>>
        /\ UNCHANGED <<length, offset, remaining, chunk, sent, changes>>
    BY <1>3 DEF rangeVars
  <2>2. TypeOK' /\ NotBegun' /\ Announced' /\ Progress'
    BY <2>1 DEF Inv, TypeOK, NotBegun, Announced, Progress
  <2>3. SentIsPrefix' /\ Complete'
    BY <2>1 DEF Inv, SentIsPrefix, Complete, Ordered
  <2>4. QED
    BY <2>2, <2>3 DEF Inv
<1>4. QED
  BY <1>1, <1>2, <1>3 DEF RangeNext

LEMMA InvHolds == RangeSpec => []Inv
<1>1. QED
  BY InitInv, Inductive, PTL DEF RangeSpec

-----------------------------------------------------------------------------
(* The theorems.                                                           *)

\* Every variable of stream_response() has its type, and its loop only reads
\* while something remains.
THEOREM TypeCorrect == RangeSpec => []TypeOK
<1>1. Inv => TypeOK
  BY DEF Inv
<1>2. QED
  BY InvHolds, <1>1, PTL

\* Whatever the reads return and whatever happens to the file meanwhile,
\* _write_stream() has written the bytes from the first position announced, in
\* order and without a gap, and never more than Content-Length.
THEOREM SendsInOrder == RangeSpec => []SentIsPrefix
<1>1. Inv => SentIsPrefix
  BY DEF Inv
<1>2. QED
  BY InvHolds, <1>1, PTL

\* What data[from:to + 1] is for positions that do not count from the end.
LEMMA SliceIs ==
  ASSUME NEW n \in Nat, NEW from \in Nat, NEW to \in Nat
  PROVE  PySlice(n, from, to + 1) = Positions(from, Smaller(to, n - 1) + 1 - from)
<1> DEFINE end  == to + 1
           stop == IF end < 0 THEN n + end ELSE Smaller(end, n)
<1>1. stop = Smaller(to, n - 1) + 1
  BY DEF Smaller
<1>2. PySlice(n, from, end) = Positions(from, stop - from)
  BY DEF PySlice
<1> HIDE DEF stop
<1>3. stop - from = Smaller(to, n - 1) + 1 - from
  <2>1. Smaller(to, n - 1) \in Int
    BY DEF Smaller
  <2>2. QED
    BY <1>1, <2>1
<1>4. QED
  BY <1>2, <1>3, Zenon

\* What slice_response() answers a range whose end is not before its start.
LEMMA SliceAnswers ==
  ASSUME NEW h \in Header, h # None, NEW n \in 0 .. MaxLen, Satisfiable(h, n),
         h.stop = Open \/ h.start <= h.stop
  PROVE  LET first == Clamped(h, n)[1]
             last  == Clamped(h, n)[2]
         IN  /\ last + 1 - first \in Nat /\ last - first + 1 = last + 1 - first
             /\ SliceResponse(h, n) = RangeResponse(206, Clamped(h, n), last - first + 1,
                                               Positions(first, last - first + 1))
             /\ PySlice(n, first, last + 1) = Positions(first, last - first + 1)
             /\ PySlice(n, BytesRange(h)[1], BytesRange(h)[2] + 1)
                  = Positions(first, last - first + 1)
<1> DEFINE first == Clamped(h, n)[1]
           last  == Clamped(h, n)[2]
           stop  == BytesRange(h)[2]
           count == last - first + 1
<1>1. /\ h.start \in Nat /\ first = h.start /\ BytesRange(h)[1] = h.start
      /\ last \in Int /\ stop \in Int /\ last <= n - 1 /\ last >= h.start /\ stop >= h.start
      /\ last = Smaller(stop, n - 1)
  BY ClampedType
<1>2. n \in Nat
  BY RangeConstants
<1>3. PySlice(n, BytesRange(h)[1], BytesRange(h)[2] + 1)
        = Positions(h.start, Smaller(stop, n - 1) + 1 - h.start)
  BY <1>1, <1>2, SliceIs
<1>4. PySlice(n, first, last + 1) = Positions(h.start, Smaller(last, n - 1) + 1 - h.start)
  BY <1>1, <1>2, SliceIs
<1> HIDE DEF first, last, stop
<1>5. Smaller(last, n - 1) = last
  BY <1>1, <1>2 DEF Smaller
<1>6. count \in Nat /\ count = last + 1 - h.start /\ last + 1 - first \in Nat /\ count = last + 1 - first
  BY <1>1, <1>2
<1>7. Smaller(stop, n - 1) + 1 - h.start = count /\ Smaller(last, n - 1) + 1 - h.start = count
  BY <1>1, <1>5, <1>6
<1> HIDE DEF count
<1>8. PySlice(n, BytesRange(h)[1], BytesRange(h)[2] + 1) = Positions(first, count)
  BY <1>1, <1>3, <1>7
<1>9. PySlice(n, first, last + 1) = Positions(first, count)
  BY <1>1, <1>4, <1>7
<1>10. Len(Positions(first, count)) = count
  <2>1. first \in Int /\ count \in Nat
    BY <1>1, <1>6
  <2>2. QED
    BY <2>1, PositionsType
<1>11. SliceResponse(h, n) = RangeResponse(206, Clamped(h, n), count, Positions(first, count))
  <2>1. SliceResponse(h, n)
          = RangeResponse(206, Clamped(h, n), Len(PySlice(n, first, last + 1)), PySlice(n, first, last + 1))
    BY DEF SliceResponse, first, last
  <2>2. QED
    BY <2>1, <1>9, <1>10
<1>12. QED
  BY <1>6, <1>8, <1>9, <1>11 DEF first, last, stop, count

\* The three kinds of response agree: for every Range whose end is not before its
\* start, stream_response() and chunk_response() have the status, Content-Range,
\* Content-Length and body that slice_response() has of the same content.
THEOREM ResponsesSame == RangeSpec => []ResponsesAgree
<1>1. ASSUME Inv, Ordered
      PROVE  StreamIsSlice /\ ChunkIsSlice
  <2>1. /\ header \in Header /\ total \in 0 .. MaxLen /\ MaxLen \in Nat
        /\ sent \in Seq(0 .. MaxLen - 1) /\ None \notin Int
        /\ status \in {0, 200, 206, 416}
    BY <1>1, RangeConstants DEF Inv, TypeOK
  <2>2. StreamIsSlice
    <3>1. SUFFICES ASSUME pc = "done", changes = 0
                   PROVE  LET sliced == SliceResponse(header, total)
                          IN  /\ status = sliced.status /\ range = sliced.range
                              /\ length = sliced.length /\ sent = sliced.body
      BY DEF StreamIsSlice
    <3>2. CASE status = 416
      <4>1. range = <<0, -1>> /\ length = 0 /\ sent = <<>> /\ header # None /\ ~Satisfiable(header, total)
        BY <1>1, <3>2 DEF Inv, NotBegun
      <4>2. SliceResponse(header, total) = Refused
        BY <4>1 DEF SliceResponse
      <4>3. QED
        BY <3>2, <4>1, <4>2 DEF Refused, RangeResponse
    <3>3. CASE status # 416
      <4>1. status \in {200, 206} /\ Len(sent) = length
        BY <1>1, <2>1, <3>1, <3>3 DEF Inv, NotBegun, Complete
      <4>2. sent = Positions(range[1], length)
        BY <1>1, <4>1 DEF Inv, SentIsPrefix
      <4>3. /\ length = range[2] - range[1] + 1
            /\ IF header = None THEN status = 200 /\ range = <<0, total - 1>>
               ELSE status = 206 /\ range = Clamped(header, total) /\ Satisfiable(header, total)
        BY <1>1, <4>1 DEF Inv, Announced
      <4>4. CASE header = None
        <5>1. SliceResponse(header, total) = RangeResponse(200, <<0, total - 1>>, total, Positions(0, total))
          BY <4>4 DEF SliceResponse
        <5>2. status = 200 /\ range = <<0, total - 1>> /\ range[1] = 0 /\ range[2] = total - 1
          BY <4>3, <4>4
        <5>3. length = total
          BY <2>1, <4>3, <5>2
        <5>4. QED
          BY <4>2, <5>1, <5>2, <5>3 DEF RangeResponse
      <4>5. CASE header # None
        <5>1. status = 206 /\ range = Clamped(header, total) /\ Satisfiable(header, total)
          BY <4>3, <4>5
        <5>2. header.stop = Open \/ header.start <= header.stop
          BY <1>1, <4>5 DEF Ordered
        <5>3. SliceResponse(header, total) = RangeResponse(206, range, length, Positions(range[1], length))
          BY <2>1, <4>3, <4>5, <5>1, <5>2, SliceAnswers
        <5>4. QED
          BY <4>2, <5>1, <5>3 DEF RangeResponse
      <4>6. QED
        BY <4>4, <4>5
    <3>4. QED
      BY <3>2, <3>3
  <2>3. ChunkIsSlice
    <3> DEFINE given == IF header = None THEN <<0, total - 1>> ELSE BytesRange(header)
               piece == PySlice(total, given[1], given[2] + 1)
    <3>1. SUFFICES ChunkResponse(header, total, piece) = SliceResponse(header, total)
      BY DEF ChunkIsSlice
    <3>2. CASE header = None
      <4>1. given[1] = 0 /\ given[2] + 1 = total
        BY <2>1, <3>2
      <4>2. piece = PySlice(total, 0, total)
        BY <4>1
      <4>3. PySlice(total, 0, total) = Positions(0, total)
        <5>1. ~(total < 0) /\ Smaller(total, total) = total /\ total - 0 = total
          BY <2>1 DEF Smaller
        <5>2. QED
          BY <5>1 DEF PySlice
      <4>4. Len(Positions(0, total)) = total
        BY <2>1, PositionsType
      <4> HIDE DEF piece
      <4>5. QED
        BY <3>2, <4>2, <4>3, <4>4 DEF ChunkResponse, SliceResponse
    <3>3. CASE header # None /\ ~Satisfiable(header, total)
      BY <3>3 DEF ChunkResponse, SliceResponse
    <3>4. CASE header # None /\ Satisfiable(header, total)
      <4> DEFINE count == Clamped(header, total)[2] - Clamped(header, total)[1] + 1
                 body  == Positions(Clamped(header, total)[1], count)
      <4>1. header.stop = Open \/ header.start <= header.stop
        BY <1>1, <3>4 DEF Ordered
      <4>2. /\ count \in Nat /\ SliceResponse(header, total) = RangeResponse(206, Clamped(header, total), count, body)
            /\ PySlice(total, BytesRange(header)[1], BytesRange(header)[2] + 1) = body
        BY <2>1, <3>4, <4>1, SliceAnswers
      <4>3. piece = body
        BY <3>4, <4>2
      <4>4. Clamped(header, total)[1] \in Int
        BY <2>1, <3>4, ClampedType
      <4>5. Len(body) = count
        BY <4>2, <4>4, PositionsType
      <4> HIDE DEF piece, body, count
      <4>6. ChunkResponse(header, total, piece) = RangeResponse(206, Clamped(header, total), Len(body), body)
        BY <3>4, <4>3 DEF ChunkResponse
      <4>7. QED
        BY <4>2, <4>5, <4>6
    <3>5. QED
      BY <3>2, <3>3, <3>4
  <2>4. QED
    BY <2>2, <2>3
<1>2. Inv => ResponsesAgree
  BY <1>1 DEF ResponsesAgree
<1>3. QED
  BY InvHolds, <1>2, PTL

\* A 206 announces a slice of the content and its length, for every Range whose
\* end is not before its start.  (For the others it does not: section 4 of the
\* README.)
THEOREM PartialsAreSlices == RangeSpec => [](Ordered => PartialIsSlice)
<1>1. ASSUME Inv, Ordered, status = 206
      PROVE  /\ 0 <= range[1] /\ range[1] <= range[2] /\ range[2] < total
             /\ length = range[2] - range[1] + 1
  <2>1. header \in Header /\ total \in 0 .. MaxLen /\ MaxLen \in Nat
    BY <1>1, RangeConstants DEF Inv, TypeOK
  <2>2. /\ header # None /\ range = Clamped(header, total) /\ Satisfiable(header, total)
        /\ length = range[2] - range[1] + 1
    BY <1>1 DEF Inv, Announced
  <2>3. header.stop = Open \/ header.start <= header.stop
    BY <1>1, <2>2 DEF Ordered
  <2>4. /\ header.start \in 0 .. MaxLen /\ range[1] = header.start
        /\ range[2] <= total - 1 /\ range[2] >= header.start /\ range \in Int \X Int
    BY <2>1, <2>2, <2>3, ClampedType
  <2>5. range[2] \in Int
    BY <2>4
  <2>6. QED
    BY <2>1, <2>2, <2>4, <2>5
<1>2. Inv => (Ordered => PartialIsSlice)
  BY <1>1 DEF PartialIsSlice
<1>3. QED
  BY InvHolds, <1>2, PTL

\* A set of natural numbers has a least one.
LEMMA LeastNat ==
  ASSUME NEW I \in SUBSET Nat, I # {}
  PROVE  Min(I) \in I /\ \A y \in I : Min(I) <= y
<1>1. PICK x \in I : \A y \in I : <<y, x>> \notin OpToRel(<, Nat)
  BY NatLessThanWellFounded, WFMin
<1>2. OpToRel(<, Nat) = {p \in Nat \X Nat : p[1] < p[2]}
  BY DEF OpToRel
<1>3. \A y \in I : ~(y < x)
  BY <1>1, <1>2
<1>4. \A y \in I : x =< y
  BY <1>3
<1>5. QED
  BY <1>4 DEF Min

-----------------------------------------------------------------------------
(* What becomes of arguments.                                              *)

\* An argument that is validated before its type is called with it.
Validated(a) == a.source \in Itemized \cup {"body", "inject"} \/ a.meta \/ a.type = "str"

\* The first place that has a value, if one has.
LEMMA FirstIs ==
  ASSUME NEW a, NEW q
  PROVE  \/ FirstValue(a, q) = "absent" /\ \A p \in ToSet(SourcesFor(a)) : q[p] = "absent"
         \/ \E p \in ToSet(SourcesFor(a)) : q[p] # "absent" /\ FirstValue(a, q) = q[p]
<1>1. PICK s : s = SourcesFor(a)
  OBVIOUS
<1>2. Len(s) \in {1, 2} /\ DOMAIN s = 1 .. Len(s)
  <2>1. CASE a.source = "any"
    <3>1. s = <<<<"path", a.key>>, <<"query", a.key>>>>
      BY <1>1, <2>1 DEF SourcesFor
    <3>2. QED
      BY <3>1
  <2>2. CASE a.source = "body"
    <3>1. s = <<Body>>
      BY <1>1, <2>2 DEF SourcesFor
    <3>2. QED
      BY <3>1
  <2>3. CASE a.source \notin {"any", "body"}
    <3>1. s = <<<<a.source, a.key>>>>
      BY <1>1, <2>3 DEF SourcesFor
    <3>2. QED
      BY <3>1
  <2>4. QED
    BY <2>1, <2>2, <2>3
<1>3. PICK I : I = {i \in 1 .. Len(s) : q[s[i]] # "absent"}
  OBVIOUS
<1>4. SelectInSeq(s, LAMBDA p : q[p] # "absent") = IF I # {} THEN Min(I) ELSE 0
  BY <1>3 DEF SelectInSeq
<1>5. FirstValue(a, q) = IF I # {} /\ Min(I) # 0 THEN q[s[Min(I)]] ELSE "absent"
  BY <1>1, <1>4 DEF FirstValue
<1>6. ToSet(s) = {s[i] : i \in 1 .. Len(s)}
  BY <1>2 DEF ToSet
<1>7. CASE I = {}
  BY <1>1, <1>3, <1>5, <1>6, <1>7
<1>8. CASE I # {}
  <2>1. Min(I) \in I
    BY <1>2, <1>3, <1>8, LeastNat
  <2>2. Min(I) \in 1 .. Len(s) /\ q[s[Min(I)]] # "absent" /\ Min(I) # 0
    BY <1>2, <1>3, <2>1
  <2>3. QED
    BY <1>1, <1>5, <1>6, <1>8, <2>2
<1>9. QED
  BY <1>7, <1>8

\* All places an argument may depend on are places of the request.
Covers(q, a) == \A p \in Places(a) : q[p] \in Raw

\* The value of an argument is one of those a request may hold.
LEMMA FirstType ==
  ASSUME NEW a \in Arguments, NEW q, Covers(q, a), a.source \notin Itemized \cup {"bare", "body"}
  PROVE  FirstValue(a, q) \in Raw
<1>1. \A p \in ToSet(SourcesFor(a)) : p \in Places(a)
  <2>1. CASE a.source = "body_key"
    <3>1. SourcesFor(a) = <<<<"body_key", a.key>>>> /\ <<"body_key", a.key>> \in Places(a)
      BY <2>1 DEF SourcesFor, Places, Itemized
    <3>2. QED
      BY <3>1 DEF ToSet
  <2>2. CASE a.source # "body_key"
    BY <2>2 DEF Places
  <2>3. QED
    BY <2>1, <2>2
<1>2. QED
  BY <1>1, FirstIs DEF Covers, Raw

\* One argument: what is missing or wrong is told, and no other exception is raised for it if it
\* is validated.
LEMMA ResolveIs ==
  ASSUME NEW a \in Arguments, NEW q, Covers(q, a), a.source \notin {"bare", "inject"}
  PROVE  /\ Resolve(a, q).kind \in {"value", "problem", "error"}
         /\ Resolve(a, q).kind = "value" <=> ~Wrong(a, q)
         /\ Validated(a) => Resolve(a, q).kind # "error"
<1>1. a.optional \in BOOLEAN /\ a.default \in BOOLEAN /\ a.meta \in BOOLEAN /\ a.source \in Sources
  BY DEF Arguments
<1>2. CASE a.source \in Itemized
  <2>1. PICK there : there = {f \in Fields(a.type) : q[<<PartOf(a.source), f>>] # "absent"}
    OBVIOUS
  <2>2. PICK good : good = {f \in there : q[<<PartOf(a.source), f>>] = "good"}
    OBVIOUS
  <2>3. Resolve(a, q) = CASE there = {} -> Missing(a)
                          [] there # {} /\ good = there /\ Struct[a.type].required \subseteq there -> Value("good")
                          [] OTHER -> ArgumentError
    BY <1>2, <2>1, <2>2 DEF Resolve, GetMapping, Itemized
  <2>4. Wrong(a, q) <=> IF there = {} THEN ~a.optional
                        ELSE \/ ~(Struct[a.type].required \subseteq there)
                             \/ \E f \in there : q[<<PartOf(a.source), f>>] # "good"
    BY <1>2, <2>1 DEF Wrong, Itemized
  <2>5. good = there <=> \A f \in there : q[<<PartOf(a.source), f>>] = "good"
    BY <2>2
  <2>6. Missing(a).kind = IF a.optional THEN "value" ELSE "problem"
    BY <1>1 DEF Missing, Value, ArgumentError
  <2>7. Value("good").kind = "value" /\ ArgumentError.kind = "problem"
    BY DEF Value, ArgumentError
  <2>8. CASE there = {}
    BY <1>1, <2>3, <2>4, <2>6, <2>8
  <2>9. CASE there # {} /\ good = there /\ Struct[a.type].required \subseteq there
    <3>1. Resolve(a, q) = Value("good")
      BY <2>3, <2>9
    <3>2. QED
      BY <2>4, <2>5, <2>7, <2>9, <3>1
  <2>10. CASE there # {} /\ ~(good = there /\ Struct[a.type].required \subseteq there)
    <3>1. Resolve(a, q) = ArgumentError
      BY <2>3, <2>10
    <3>2. QED
      BY <2>4, <2>5, <2>7, <2>10, <3>1
  <2>11. QED
    BY <2>8, <2>9, <2>10
<1>3. CASE a.source = "body"
  <2>1. q[Body] \in Raw
    BY <1>3 DEF Covers, Places, SourcesFor, Itemized, ToSet
  <2>2. Resolve(a, q) = GetBody(a, q[Body])
    BY <1>3 DEF Resolve, Itemized
  <2>3. Wrong(a, q) <=> a.type # "bytes" /\ (q[Body] = "bad" \/ (q[Body] # "good" /\ ~a.optional))
    BY <1>3 DEF Wrong, Itemized
  <2>4. Value(q[Body]).kind = "value" /\ ArgumentError.kind = "problem"
        /\ Missing(a).kind = IF a.optional THEN "value" ELSE "problem"
    BY <1>1 DEF Missing, Value, ArgumentError
  <2>5. CASE a.type = "bytes" \/ q[Body] = "good"
    <3>1. Resolve(a, q) = Value(q[Body])
      BY <2>2, <2>5 DEF GetBody
    <3>2. QED
      BY <2>3, <2>4, <2>5, <3>1
  <2>6. CASE a.type # "bytes" /\ q[Body] = "bad"
    <3>1. Resolve(a, q) = ArgumentError
      BY <2>2, <2>6 DEF GetBody
    <3>2. QED
      BY <2>3, <2>4, <2>6, <3>1
  <2>7. CASE a.type # "bytes" /\ q[Body] \in {"absent", "empty"}
    <3>1. Resolve(a, q) = Missing(a)
      BY <2>2, <2>7 DEF GetBody
    <3>2. QED
      BY <1>1, <2>3, <2>4, <2>7, <3>1
  <2>8. QED
    BY <2>1, <2>5, <2>6, <2>7 DEF Raw
<1>4. CASE a.source \notin Itemized \cup {"body"}
  <2>1. PICK v : v = FirstValue(a, q)
    OBVIOUS
  <2>2. v \in Raw
    BY <1>4, <2>1, FirstType
  <2>3. Wrong(a, q) <=> \/ a.source = "body_key" /\ q[Body] = "bad"
                        \/ v = "bad" /\ (a.meta \/ a.type # "str")
                        \/ (v = "absent" \/ (v = "empty" /\ a.type # "str")) /\ ~a.optional /\ ~a.default
    BY <1>4, <2>1 DEF Wrong
  <2>4. Resolve(a, q) = IF a.source = "body_key" /\ q[Body] = "bad" THEN ArgumentError ELSE FormatValue(a, v)
    BY <1>4, <2>1 DEF Resolve, GetBodyKey
  <2>5. ArgumentError.kind = "problem" /\ OtherError.kind = "error" /\ \A w : Value(w).kind = "value"
    BY DEF Value, ArgumentError, OtherError
  <2>6. PICK missing \in BOOLEAN : missing = (v = "absent" \/ (v = "empty" /\ a.type # "str"))
    OBVIOUS
  <2>7. PICK value : value = IF ~missing THEN v ELSE IF a.default THEN "default" ELSE "none"
    OBVIOUS
  <2>8. FormatValue(a, v) = CASE value = "none" /\ a.optional -> Value("none")
                              [] value = "none" /\ ~a.optional -> ArgumentError
                              [] value = "bad" /\ a.meta -> ArgumentError
                              [] value = "bad" /\ ~a.meta /\ a.type # "str" -> OtherError
                              [] OTHER -> Value(value)
    BY <2>6, <2>7 DEF FormatValue
  <2>9. /\ value = "none" <=> missing /\ ~a.default
        /\ value = "bad" <=> v = "bad"
    BY <1>1, <2>2, <2>6, <2>7 DEF Raw
  <2>10. /\ FormatValue(a, v).kind = "problem"
              <=> (missing /\ ~a.default /\ ~a.optional) \/ (v = "bad" /\ a.meta)
         /\ FormatValue(a, v).kind = "error" <=> v = "bad" /\ ~a.meta /\ a.type # "str"
         /\ FormatValue(a, v).kind \in {"value", "problem", "error"}
    BY <1>1, <2>5, <2>8, <2>9
  <2>11. Validated(a) => a.meta \/ a.type = "str" \/ a.source = "inject"
    BY <1>4 DEF Validated
  <2>12. QED
    BY <1>1, <2>3, <2>4, <2>5, <2>6, <2>10, <2>11
<1>5. QED
  BY <1>2, <1>3, <1>4

\* The wrong arguments of a request, and those a factory cannot make.
WrongIn(args, q) == {i \in DOMAIN args : args[i].source # "inject" /\ Wrong(args[i], q)}
BrokenIn(args, q) == {i \in DOMAIN args : args[i].source = "inject" /\ FirstValue(args[i], q) # "good"}

\* All of them: no argument is wrong, or all that are wrong are told, unless a factory raises.
LEMMA GatherIs ==
  ASSUME NEW args \in Seq(Arguments), NEW q,
         \A i \in DOMAIN args : Covers(q, args[i]) /\ args[i].source # "bare"
  PROVE  /\ GatherArgs(args, q).kind \in {"args", "validation", "http", "error"}
         /\ GatherArgs(args, q).kind = "args" <=> WrongIn(args, q) = {} /\ BrokenIn(args, q) = {}
         /\ (\A i \in DOMAIN args : Validated(args[i])) /\ BrokenIn(args, q) = {} /\ WrongIn(args, q) # {}
              => GatherArgs(args, q) = [kind |-> "validation", problems |-> WrongIn(args, q)]
<1>1. PICK came : came = [i \in DOMAIN args |-> Resolve(args[i], q).kind]
  OBVIOUS
<1>2. \A i \in DOMAIN args : args[i] \in Arguments
  OBVIOUS
<1>3. \A i \in DOMAIN args :
        args[i].source # "inject" => /\ came[i] \in {"value", "problem", "error"}
                                     /\ came[i] = "value" <=> i \notin WrongIn(args, q)
                                     /\ Validated(args[i]) => came[i] # "error"
  <2>1. SUFFICES ASSUME NEW i \in DOMAIN args, args[i].source # "inject"
                 PROVE  /\ came[i] \in {"value", "problem", "error"}
                        /\ came[i] = "value" <=> i \notin WrongIn(args, q)
                        /\ Validated(args[i]) => came[i] # "error"
    OBVIOUS
  <2>2. i \in WrongIn(args, q) <=> Wrong(args[i], q)
    BY <2>1 DEF WrongIn
  <2>3. came[i] = Resolve(args[i], q).kind
    BY <1>1
  <2>4. QED
    BY <1>2, <2>1, <2>2, <2>3, ResolveIs
<1>4. \A i \in DOMAIN args :
        args[i].source = "inject" => /\ came[i] \in {"value", "http", "error"}
                                     /\ came[i] = "value" <=> i \notin BrokenIn(args, q)
  <2>1. SUFFICES ASSUME NEW i \in DOMAIN args, args[i].source = "inject"
                 PROVE  /\ came[i] \in {"value", "http", "error"}
                        /\ came[i] = "value" <=> i \notin BrokenIn(args, q)
    OBVIOUS
  <2>2. i \in BrokenIn(args, q) <=> FirstValue(args[i], q) # "good"
    BY <2>1 DEF BrokenIn
  <2>3. came[i] = Inject(FirstValue(args[i], q)).kind
    BY <1>1, <2>1 DEF Resolve, Itemized
  <2>4. Value("good").kind = "value" /\ HTTPException.kind = "http" /\ OtherError.kind = "error"
    BY DEF Value, HTTPException, OtherError
  <2>5. QED
    BY <2>2, <2>3, <2>4 DEF Inject
<1>5. /\ WrongIn(args, q) \subseteq {i \in DOMAIN args : args[i].source # "inject"}
      /\ BrokenIn(args, q) \subseteq {i \in DOMAIN args : args[i].source = "inject"}
  BY DEF WrongIn, BrokenIn
<1>6. PICK raised : raised = SelectInSeq(came, LAMBDA kind : kind \in {"http", "error"})
  OBVIOUS
<1>7. PICK problems : problems = {i \in DOMAIN args : came[i] = "problem"}
  OBVIOUS
<1>8. GatherArgs(args, q) = CASE raised # 0 -> [kind |-> came[raised], problems |-> {}]
                              [] raised = 0 /\ problems # {} -> [kind |-> "validation", problems |-> problems]
                              [] OTHER -> [kind |-> "args", problems |-> {}]
  BY <1>1, <1>6, <1>7 DEF GatherArgs
<1>9. DOMAIN came = DOMAIN args /\ DOMAIN args = 1 .. Len(came) /\ Len(came) \in Nat
  <2>1. DOMAIN args = 1 .. Len(args) /\ Len(args) \in Nat
    OBVIOUS
  <2>2. Len(came) = Len(args)
    BY <1>1, <2>1
  <2>3. QED
    BY <1>1, <2>1, <2>2
<1>10. IF \E i \in DOMAIN args : came[i] \in {"http", "error"}
         THEN raised \in DOMAIN args /\ came[raised] \in {"http", "error"} /\ raised # 0
         ELSE raised = 0
  <2>1. PICK I : I = {i \in 1 .. Len(came) : came[i] \in {"http", "error"}}
    OBVIOUS
  <2>2. raised = IF I # {} THEN Min(I) ELSE 0
    BY <1>6, <2>1 DEF SelectInSeq
  <2>3. I # {} => Min(I) \in I
    <3>1. I \in SUBSET Nat
      BY <1>9, <2>1
    <3>2. QED
      BY <3>1, LeastNat
  <2>4. QED
    BY <1>9, <2>1, <2>2, <2>3
<1>11. CASE \E i \in DOMAIN args : came[i] \in {"http", "error"}
  <2>1. GatherArgs(args, q).kind \in {"http", "error"}
    BY <1>8, <1>10, <1>11
  <2>2. ~(WrongIn(args, q) = {} /\ BrokenIn(args, q) = {})
    BY <1>3, <1>4, <1>11
  <2>3. ~((\A i \in DOMAIN args : Validated(args[i])) /\ BrokenIn(args, q) = {})
    BY <1>3, <1>4, <1>11
  <2>4. QED
    BY <2>1, <2>2, <2>3
<1>12. CASE ~ \E i \in DOMAIN args : came[i] \in {"http", "error"}
  <2>1. BrokenIn(args, q) = {}
    BY <1>4, <1>5, <1>12
  <2>2. problems = WrongIn(args, q)
    BY <1>3, <1>4, <1>5, <1>7, <1>12
  <2>3. GatherArgs(args, q) = IF problems # {} THEN [kind |-> "validation", problems |-> problems]
                              ELSE [kind |-> "args", problems |-> {}]
    BY <1>8, <1>10, <1>12
  <2>4. QED
    BY <2>1, <2>2, <2>3
<1>13. QED
  BY <1>11, <1>12

-----------------------------------------------------------------------------
(* Routes in order.                                                        *)

\* A sequence, of whatever it holds.
IsSeq(s) == s \in Seq(ToSet(s))

\* A sequence has a length, and a function from 1 to n is one of that length.
LEMMA SeqIs ==
  ASSUME NEW s
  PROVE  /\ IsSeq(s) => Len(s) \in Nat /\ DOMAIN s = 1 .. Len(s)
         /\ \A n \in Nat : DOMAIN s = 1 .. n /\ s = [i \in 1 .. n |-> s[i]] => IsSeq(s) /\ Len(s) = n
<1>1. IsSeq(s) => Len(s) \in Nat /\ DOMAIN s = 1 .. Len(s)
  BY DEF IsSeq
<1>2. ASSUME NEW n \in Nat, DOMAIN s = 1 .. n, s = [i \in 1 .. n |-> s[i]]
      PROVE  IsSeq(s) /\ Len(s) = n
  <2>1. \A i \in 1 .. n : s[i] \in ToSet(s)
    BY <1>2 DEF ToSet
  <2>2. s \in [1 .. n -> ToSet(s)]
    BY <1>2, <2>1
  <2>3. s \in Seq(ToSet(s))
    BY <2>2, SeqDef
  <2>4. QED
    BY <1>2, <2>2, <2>3 DEF IsSeq
<1>3. QED
  BY <1>1, <1>2

\* One sequence after another holds what either holds, the second behind the first.
LEMMA ConcatIs ==
  ASSUME NEW s, NEW t, IsSeq(s), IsSeq(t)
  PROVE  /\ IsSeq(s \o t) /\ Len(s \o t) = Len(s) + Len(t)
         /\ \A i \in 1 .. Len(s) : (s \o t)[i] = s[i]
         /\ \A i \in 1 .. Len(t) : (s \o t)[Len(s) + i] = t[i]
         /\ ToSet(s \o t) = ToSet(s) \cup ToSet(t)
<1>1. PICK S : S = ToSet(s) \cup ToSet(t)
  OBVIOUS
<1>2. s \in Seq(S) /\ t \in Seq(S)
  BY <1>1 DEF IsSeq
<1>3. PICK st : st = s \o t
  OBVIOUS
<1>4. /\ st \in Seq(S) /\ Len(st) = Len(s) + Len(t)
      /\ \A i \in 1 .. Len(s) + Len(t) : st[i] = IF i <= Len(s) THEN s[i] ELSE t[i - Len(s)]
  BY <1>2, <1>3, ConcatProperties
<1>5. Len(s) \in Nat /\ Len(t) \in Nat /\ DOMAIN s = 1 .. Len(s) /\ DOMAIN t = 1 .. Len(t)
  BY SeqIs
<1>6. \A i \in 1 .. Len(s) : i \in 1 .. Len(s) + Len(t) /\ st[i] = s[i]
  BY <1>4, <1>5
<1>7. \A i \in 1 .. Len(t) : Len(s) + i \in 1 .. Len(s) + Len(t) /\ st[Len(s) + i] = t[i]
  BY <1>4, <1>5
<1>8. DOMAIN st = 1 .. Len(s) + Len(t)
  BY <1>4, <1>5
<1>9. \A i \in DOMAIN st : \/ i \in DOMAIN s /\ st[i] = s[i]
                           \/ i - Len(s) \in DOMAIN t /\ st[i] = t[i - Len(s)]
  <2>1. SUFFICES ASSUME NEW i \in 1 .. Len(s) + Len(t)
                 PROVE  \/ i \in 1 .. Len(s) /\ st[i] = s[i]
                        \/ i - Len(s) \in 1 .. Len(t) /\ st[i] = t[i - Len(s)]
    BY <1>5, <1>8
  <2>2. CASE i <= Len(s)
    BY <1>4, <1>5, <2>2
  <2>3. CASE ~(i <= Len(s))
    BY <1>4, <1>5, <2>3
  <2>4. QED
    BY <2>2, <2>3
<1>10. ToSet(st) = S
  <2>1. \A i \in DOMAIN st : st[i] \in S
    BY <1>1, <1>9 DEF ToSet
  <2>2. \A i \in DOMAIN s : i \in DOMAIN st /\ st[i] = s[i]
    BY <1>5, <1>6, <1>8
  <2>3. \A i \in DOMAIN t : Len(s) + i \in DOMAIN st /\ st[Len(s) + i] = t[i]
    BY <1>5, <1>7, <1>8
  <2>4. \A e \in S : \E i \in DOMAIN st : st[i] = e
    BY <1>1, <2>2, <2>3 DEF ToSet
  <2>5. QED
    BY <2>1, <2>4 DEF ToSet
<1>11. QED
  BY <1>3, <1>4, <1>6, <1>7, <1>10, <1>1 DEF IsSeq

\* The routes are those that may be decorated, then plain functions without arguments.
LEMMA RoutesAre ==
  /\ Len(Decoration) \in Nat /\ DOMAIN Decoration = 1 .. Len(Decoration) /\ Len(Prefix) \in Nat
  /\ \A d \in DOMAIN Decoration : Routes[d] = Decoration[d] /\ Routes[d] \in ToSet(Decoration)
  /\ \A k \in 1 .. 2 * Len(Prefix) :
       LET r == Routes[Len(Decoration) + k] IN r.api = 0 /\ r.class = Free /\ r.args = <<>>
<1>1. PICK docs : docs = [i \in 1..(2 * Len(Prefix)) |->
                           DocsRoute((i + 1) \div 2, IF i % 2 = 1 THEN "openapi.json" ELSE "docs")]
  OBVIOUS
<1>2. Routes = Decoration \o docs
  BY <1>1 DEF Routes
<1>3. Len(Prefix) \in Nat /\ 2 * Len(Prefix) \in Nat
  BY RouterConstants
<1>4. DOMAIN docs = 1 .. 2 * Len(Prefix) /\ docs = [i \in 1 .. 2 * Len(Prefix) |-> docs[i]]
  BY <1>1
<1>5. IsSeq(docs) /\ Len(docs) = 2 * Len(Prefix)
  BY <1>3, <1>4, SeqIs
<1>6. IsSeq(Decoration)
  BY RouterConstants DEF IsSeq
<1>7. Len(Decoration) \in Nat /\ DOMAIN Decoration = 1 .. Len(Decoration)
  BY <1>6, SeqIs
<1>8. \A d \in DOMAIN Decoration : Routes[d] = Decoration[d] /\ Routes[d] \in ToSet(Decoration)
  BY <1>2, <1>5, <1>6, <1>7, ConcatIs DEF ToSet
<1>9. \A k \in 1 .. 2 * Len(Prefix) : docs[k].api = 0 /\ docs[k].class = Free /\ docs[k].args = <<>>
  BY <1>1 DEF DocsRoute
<1>10. \A k \in 1 .. 2 * Len(Prefix) : Routes[Len(Decoration) + k] = docs[k]
  BY <1>2, <1>5, <1>6, ConcatIs
<1>11. QED
  BY <1>3, <1>7, <1>8, <1>9, <1>10

\* The members of a finite set under a strict order have ranks, each its own: below[x] are those
\* before x.
LEMMA Ranks ==
  ASSUME NEW S, IsFiniteSet(S), NEW below \in [S -> SUBSET S],
         \A x \in S : x \notin below[x],
         \A x, y \in S : y \in below[x] => below[y] \subseteq below[x],
         \A x, y \in S : x = y \/ x \in below[y] \/ y \in below[x]
  PROVE  /\ \A x \in S : Cardinality(below[x]) + 1 \in 1 .. Cardinality(S)
         /\ \A x, y \in S : Cardinality(below[x]) = Cardinality(below[y]) => x = y
         /\ \A n \in 1 .. Cardinality(S) : \E x \in S : Cardinality(below[x]) = n - 1
<1>1. PICK upto : upto = [x \in S |-> below[x] \cup {x}]
  OBVIOUS
<1>2. \A x \in S : /\ IsFiniteSet(upto[x]) /\ Cardinality(below[x]) \in Nat
                  /\ Cardinality(upto[x]) = Cardinality(below[x]) + 1
  <2>1. SUFFICES ASSUME NEW x \in S
                 PROVE  /\ IsFiniteSet(upto[x]) /\ Cardinality(below[x]) \in Nat
                        /\ Cardinality(upto[x]) = Cardinality(below[x]) + 1
    OBVIOUS
  <2>2. IsFiniteSet(below[x])
    BY FS_Subset
  <2>3. upto[x] = below[x] \cup {x} /\ x \notin below[x]
    BY <1>1
  <2>4. QED
    BY <2>2, <2>3, FS_CardinalityType, FS_AddElement
<1>3. ASSUME NEW x \in S, NEW y \in S, y \in below[x]
      PROVE  Cardinality(below[y]) < Cardinality(below[x])
  <2>1. upto[y] \in SUBSET below[x] /\ IsFiniteSet(below[x])
    BY <1>1, <1>3, FS_Subset
  <2>2. Cardinality(upto[y]) <= Cardinality(below[x])
    BY <2>1, FS_Subset
  <2>3. QED
    BY <1>2, <2>2
<1>4. \A x, y \in S : Cardinality(below[x]) = Cardinality(below[y]) => x = y
  BY <1>2, <1>3
<1>5. Cardinality(S) \in Nat
  BY FS_CardinalityType
<1>6. ASSUME NEW x \in S PROVE Cardinality(below[x]) + 1 \in 1 .. Cardinality(S)
  <2>1. upto[x] \in SUBSET S
    BY <1>1
  <2>2. Cardinality(upto[x]) <= Cardinality(S)
    BY <2>1, FS_Subset
  <2>3. QED
    BY <1>2, <1>5, <2>2
<1>7. PICK place : place = [x \in S |-> Cardinality(below[x]) + 1]
  OBVIOUS
<1>8. place \in Injection(S, 1 .. Cardinality(S))
  <2>1. place \in [S -> 1 .. Cardinality(S)]
    BY <1>6, <1>7
  <2>2. ASSUME NEW x \in S, NEW y \in S, place[x] = place[y]
        PROVE  x = y
    <3>1. Cardinality(below[x]) + 1 = Cardinality(below[y]) + 1
      BY <1>7, <2>2
    <3>2. Cardinality(below[x]) = Cardinality(below[y])
      BY <1>2, <3>1
    <3>3. QED
      BY <1>4, <3>2
  <2>3. QED
    BY <2>1, <2>2 DEF Injection, IsInjective
<1>9. IsFiniteSet(1 .. Cardinality(S)) /\ Cardinality(1 .. Cardinality(S)) = Cardinality(S)
  BY <1>5, FS_Interval
<1>10. place \in Surjection(S, 1 .. Cardinality(S))
  BY <1>8, <1>9, FS_Injection
<1>11. ASSUME NEW n \in 1 .. Cardinality(S)
       PROVE  \E x \in S : Cardinality(below[x]) = n - 1
  <2>1. PICK x \in S : place[x] = n
    BY <1>10 DEF Surjection
  <2>2. Cardinality(below[x]) + 1 = n
    BY <1>7, <2>1
  <2>3. QED
    BY <1>2, <1>5, <2>2
<1>12. QED
  BY <1>4, <1>6, <1>11

\* The members of a finite set in order are all of them.
LEMMA InOrderIs ==
  ASSUME NEW S, IsFiniteSet(S), NEW below \in [S -> SUBSET S],
         \A x \in S : x \notin below[x],
         \A x, y \in S : y \in below[x] => below[y] \subseteq below[x],
         \A x, y \in S : x = y \/ x \in below[y] \/ y \in below[x]
  PROVE  IsSeq(InOrder(S, below)) /\ ToSet(InOrder(S, below)) = S
<1>1. PICK s : s = InOrder(S, below)
  OBVIOUS
<1>2. PICK count \in Nat : count = Cardinality(S)
  BY FS_CardinalityType
<1>3. s = [n \in 1 .. count |-> CHOOSE x \in S : Cardinality(below[x]) = n - 1]
  BY <1>1, <1>2 DEF InOrder
<1>4. /\ \A x \in S : Cardinality(below[x]) + 1 \in 1 .. count
      /\ \A x, y \in S : Cardinality(below[x]) = Cardinality(below[y]) => x = y
      /\ \A n \in 1 .. count : \E x \in S : Cardinality(below[x]) = n - 1
  BY <1>2, Ranks
<1>5. \A n \in 1 .. count : s[n] \in S /\ Cardinality(below[s[n]]) = n - 1
  BY <1>3, <1>4
<1>6. DOMAIN s = 1 .. count /\ s = [n \in 1 .. count |-> s[n]]
  BY <1>3
<1>7. IsSeq(s)
  BY <1>6, SeqIs
<1>8. ASSUME NEW x \in S PROVE \E n \in 1 .. count : s[n] = x
  <2>1. PICK n \in 1 .. count : n = Cardinality(below[x]) + 1
    BY <1>4
  <2>2. IsFiniteSet(below[x])
    BY FS_Subset
  <2>3. Cardinality(below[x]) = n - 1
    BY <2>1, <2>2, FS_CardinalityType
  <2>4. QED
    BY <1>4, <1>5, <2>3
<1>9. ToSet(s) = S
  BY <1>5, <1>6, <1>8 DEF ToSet
<1>10. QED
  BY <1>1, <1>7, <1>9

\* One more at the end of a sequence.
LEMMA AppendIs ==
  ASSUME NEW s, IsSeq(s), NEW e
  PROVE  IsSeq(Append(s, e)) /\ ToSet(Append(s, e)) = ToSet(s) \cup {e}
<1>1. PICK t : t = <<e>>
  OBVIOUS
<1>2. IsSeq(t) /\ ToSet(t) = {e}
  <2>1. DOMAIN t = 1 .. 1 /\ t[1] = e /\ t = [i \in 1 .. 1 |-> t[i]]
    BY <1>1
  <2>2. QED
    BY <2>1, SeqIs DEF ToSet
<1>3. PICK S : S = ToSet(s) \cup {e}
  OBVIOUS
<1>4. s \in Seq(S)
  BY <1>3 DEF IsSeq
<1>5. Append(s, e) = s \o t
  BY <1>1, <1>3, <1>4
<1>6. QED
  BY <1>2, <1>5, ConcatIs

-----------------------------------------------------------------------------
(* The invariant: what is pending are the routes that were decorated, each  *)
(* a function or a method bound to nobody or an instance of its class; what *)
(* build() registers and documents is of one such list.                     *)

\* A function, or a method of an instance of its class or of nobody yet.
Bound(e) == /\ DOMAIN e = {"route", "self", "tag", "responses"}
            /\ IF Routes[e.route].class = Free THEN e.self = Free
               ELSE e.self = Unbound \/ (e.self \in Object /\ ClassOf[e.self] = Routes[e.route].class)

\* What is pending: the routes that were decorated.
Collected(batch) ==
  /\ IsSeq(batch)
  /\ {e.route : e \in ToSet(batch)} = decorated
  /\ \A e \in ToSet(batch) : Bound(e)

\* What build() made of the routes that were pending.
BuiltOf(batch) ==
  /\ IsSeq(batch) /\ \A e \in ToSet(batch) : Bound(e) /\ e.route \in DOMAIN Decoration
  /\ Stops(batch) = 0 /\ Stops(Docs) = 0
  /\ items = Items(batch) \o Items(Docs)
  /\ documents = [r \in Api |-> Document(batch, r)]
  /\ ~Late => pending = <<>> /\ {e.route : e \in ToSet(batch)} = decorated

\* The request served last was answered by the handler around its route.
Answered(i, request, did) ==
  LET gathered == GatherArgs(Routes[items[i].route].args, request)
      ran == gathered.kind = "args"
  IN /\ did \in IF ran THEN {"result", "opaque", "response", "http", "raised"} ELSE {"nothing"}
     /\ answer = [served |-> TRUE, item |-> items[i], request |-> request, ran |-> ran, did |-> did,
                  response |-> IF ran THEN HandlerEnded(items[i], did)
                               ELSE ArgumentsFailed(items[i], gathered)]

Setup == /\ decorated \subseteq DOMAIN Decoration /\ built \in BOOLEAN /\ failed \in BOOLEAN
         /\ failed => built
         /\ hooks \in [Api -> [error : Hook, result : Hook]]

RouterInv ==
  /\ Setup
  /\ ~built => Collected(pending)
  /\ built /\ ~failed => \E batch : BuiltOf(batch)
  /\ answer # NoAnswer =>
       /\ built /\ ~failed
       /\ \E i \in DOMAIN items : \E request \in Requests(Routes[items[i].route]) : \E did : Answered(i, request, did)

\* Each of the calls before build() keeps what is pending the routes that were decorated.
LEMMA DecorateCollects ==
  ASSUME Setup, Collected(pending), NEW d \in DOMAIN Decoration, Decorate(d)
  PROVE  Collected(pending)'
<1>1. pending' = Append(pending, Entry(d)) /\ decorated' = decorated \cup {d}
  BY DEF Decorate
<1>2. IsSeq(pending') /\ ToSet(pending') = ToSet(pending) \cup {Entry(d)}
  BY <1>1, AppendIs DEF Collected
<1>3. Entry(d).route = d /\ Bound(Entry(d))
  BY DEF Entry, Bound
<1>4. QED
  BY <1>1, <1>2, <1>3 DEF Collected, Bound

\* include() of an instance takes no route away, and binds methods to it alone.
LEMMA IncludeCollects ==
  ASSUME Setup, Collected(pending), NEW x \in Object, Include(x)
  PROVE  Collected(pending)'
<1>1. PICK bound, others : bound = Matching(x) /\ others = DOMAIN pending \ Matching(x)
  OBVIOUS
<1>2. PICK rest, found : /\ rest = InOrder(others, ByDecoration(others))
                         /\ found = InOrder(bound, ByName(bound))
  OBVIOUS
<1>3. pending' = Rebound(rest, found, x) /\ decorated' = decorated
  BY <1>1, <1>2 DEF Include
<1>4. Len(pending) \in Nat /\ DOMAIN pending = 1 .. Len(pending) /\ IsFiniteSet(DOMAIN pending)
  BY SeqIs, FS_Interval DEF Collected
<1>5. bound \subseteq DOMAIN pending /\ others \subseteq DOMAIN pending /\ bound \cup others = DOMAIN pending
  BY <1>1 DEF Matching
<1>6. IsFiniteSet(bound) /\ IsFiniteSet(others)
  BY <1>4, <1>5, FS_Subset
<1>7. IsSeq(rest) /\ ToSet(rest) = others
  <2>1. PICK below : below = ByDecoration(others)
    OBVIOUS
  <2>2. below \in [others -> SUBSET others]
    BY <2>1 DEF ByDecoration
  <2>3. \A i, j \in others : j \in below[i] <=> j < i
    BY <2>1 DEF ByDecoration
  <2>4. others \subseteq Nat
    BY <1>4, <1>5
  <2>5. \A i \in others : i \notin below[i]
    <3>1. SUFFICES ASSUME NEW i \in others PROVE i \notin below[i]
      OBVIOUS
    <3>2. ~(i < i)
      BY <2>4
    <3>3. QED
      BY <2>3, <3>2
  <2>6. ASSUME NEW i \in others, NEW j \in others, j \in below[i]
        PROVE  below[j] \subseteq below[i]
    <3>1. SUFFICES ASSUME NEW k \in below[j] PROVE k \in below[i]
      OBVIOUS
    <3>2. k \in others /\ k \in Nat /\ i \in Nat /\ j \in Nat
      BY <2>2, <2>4
    <3>3. QED
      BY <2>3, <2>6, <3>1, <3>2
  <2>7. ASSUME NEW i \in others, NEW j \in others
        PROVE  i = j \/ i \in below[j] \/ j \in below[i]
    <3>1. i \in Nat /\ j \in Nat
      BY <2>4
    <3>2. i = j \/ i < j \/ j < i
      BY <3>1
    <3>3. QED
      BY <2>3, <3>2
  <2>8. QED
    BY <1>2, <1>6, <2>1, <2>2, <2>5, <2>6, <2>7, InOrderIs
<1>8. IsSeq(found) /\ ToSet(found) = bound
  <2>1. ByName(bound) \in [bound -> SUBSET bound]
    BY DEF ByName
  <2>2. \A i, j \in bound : j \in ByName(bound)[i]
                           <=> At(j).handler < At(i).handler \/ (At(j).handler = At(i).handler /\ j < i)
    BY DEF ByName
  <2>3. bound \subseteq Nat
    BY <1>4, <1>5
  <2>4. \A i \in bound : At(i).handler \in Nat
    <3>1. SUFFICES ASSUME NEW i \in bound PROVE At(i).handler \in Nat
      OBVIOUS
    <3>2. pending[i] \in ToSet(pending)
      BY <1>5 DEF ToSet
    <3>3. pending[i].route \in DOMAIN Decoration
      BY <3>2 DEF Collected, Setup
    <3>4. Routes[pending[i].route] \in ToSet(Decoration)
      BY <3>3, RoutesAre
    <3>5. QED
      BY <3>4, RouterConstants DEF At
  <2>5. PICK below : below = ByName(bound)
    OBVIOUS
  <2>6. PICK name : name = [i \in bound |-> At(i).handler]
    OBVIOUS
  <2>7. \A i, j \in bound : j \in below[i] <=> name[j] < name[i] \/ (name[j] = name[i] /\ j < i)
    BY <2>2, <2>5, <2>6
  <2>8. name \in [bound -> Nat]
    BY <2>4, <2>6
  <2>9. below \in [bound -> SUBSET bound]
    BY <2>1, <2>5
  <2>10. \A i \in bound : i \notin below[i]
    <3>1. SUFFICES ASSUME NEW i \in bound PROVE i \notin below[i]
      OBVIOUS
    <3>2. i \in Nat /\ name[i] \in Nat
      BY <2>3, <2>8
    <3>3. ~(name[i] < name[i]) /\ ~(i < i)
      BY <3>2
    <3>4. QED
      BY <2>7, <3>3
  <2>11. ASSUME NEW i \in bound, NEW j \in bound, j \in below[i]
         PROVE  below[j] \subseteq below[i]
    <3>1. SUFFICES ASSUME NEW k \in below[j] PROVE k \in below[i]
      OBVIOUS
    <3>2. k \in bound
      BY <2>9
    <3>3. k \in Nat /\ i \in Nat /\ j \in Nat /\ name[i] \in Nat /\ name[j] \in Nat /\ name[k] \in Nat
      BY <2>3, <2>8, <3>2
    <3>4. QED
      BY <2>7, <2>11, <3>1, <3>2, <3>3
  <2>12. ASSUME NEW i \in bound, NEW j \in bound
         PROVE  i = j \/ i \in below[j] \/ j \in below[i]
    <3>1. i \in Nat /\ j \in Nat /\ name[i] \in Nat /\ name[j] \in Nat
      BY <2>3, <2>8
    <3>2. i = j \/ i < j \/ j < i
      BY <3>1
    <3>3. name[i] < name[j] \/ name[j] < name[i] \/ name[i] = name[j]
      BY <3>1
    <3>4. QED
      BY <2>7, <3>2, <3>3
  <2>13. QED
    BY <1>2, <1>6, <2>5, <2>9, <2>10, <2>11, <2>12, InOrderIs
<1>9. PICK kept, moved : /\ kept = [i \in DOMAIN rest |-> pending[rest[i]]]
                         /\ moved = [i \in DOMAIN found |-> Bind(pending[found[i]], x)]
  OBVIOUS
<1>10. IsSeq(kept) /\ ToSet(kept) = {pending[i] : i \in others}
  <2>1. DOMAIN rest = 1 .. Len(rest) /\ Len(rest) \in Nat
    BY <1>7, SeqIs
  <2>2. DOMAIN kept = 1 .. Len(rest) /\ kept = [i \in 1 .. Len(rest) |-> kept[i]]
    BY <1>9, <2>1
  <2>3. ToSet(kept) = {pending[rest[i]] : i \in DOMAIN rest}
    BY <1>9 DEF ToSet
  <2>4. others = {rest[i] : i \in DOMAIN rest}
    BY <1>7 DEF ToSet
  <2>5. QED
    BY <2>1, <2>2, <2>3, <2>4, SeqIs
<1>11. IsSeq(moved) /\ ToSet(moved) = {Bind(pending[i], x) : i \in bound}
  <2>1. DOMAIN found = 1 .. Len(found) /\ Len(found) \in Nat
    BY <1>8, SeqIs
  <2>2. DOMAIN moved = 1 .. Len(found) /\ moved = [i \in 1 .. Len(found) |-> moved[i]]
    BY <1>9, <2>1
  <2>3. ToSet(moved) = {Bind(pending[found[i]], x) : i \in DOMAIN found}
    BY <1>9 DEF ToSet
  <2>4. bound = {found[i] : i \in DOMAIN found}
    BY <1>8 DEF ToSet
  <2>5. QED
    BY <2>1, <2>2, <2>3, <2>4, SeqIs
<1>12. pending' = kept \o moved
  BY <1>3, <1>9 DEF Rebound
<1>13. IsSeq(pending') /\ ToSet(pending') = {pending[i] : i \in others} \cup {Bind(pending[i], x) : i \in bound}
  BY <1>10, <1>11, <1>12, ConcatIs
<1>14. \A i \in DOMAIN pending : pending[i] \in ToSet(pending) /\ Bound(pending[i])
  BY DEF Collected, ToSet
<1>15. ASSUME NEW i \in bound
       PROVE  Bind(pending[i], x).route = pending[i].route /\ Bound(Bind(pending[i], x))
  <2>1. DOMAIN pending[i] = {"route", "self", "tag", "responses"} /\ pending[i].self = Unbound
        /\ Routes[pending[i].route].class = ClassOf[x]
    BY <1>1, <1>5, <1>14 DEF Matching, At, Bound
  <2>2. Routes[pending[i].route].class # Free
    BY <1>5, <1>14, <2>1 DEF Bound, Free, Unbound
  <2>3. DOMAIN Bind(pending[i], x) = {"route", "self", "tag", "responses"}
        /\ Bind(pending[i], x).route = pending[i].route /\ Bind(pending[i], x).self = x
    BY <2>1 DEF Bind
  <2>4. QED
    BY <2>1, <2>2, <2>3 DEF Bound
<1>16. \A e \in ToSet(pending') : Bound(e)
  BY <1>5, <1>13, <1>14, <1>15
<1>17. {e.route : e \in ToSet(pending')} = {e.route : e \in ToSet(pending)}
  <2>1. ToSet(pending) = {pending[i] : i \in DOMAIN pending}
    BY DEF ToSet
  <2>2. {e.route : e \in ToSet(pending)} = {pending[i].route : i \in DOMAIN pending}
    BY <2>1
  <2>3. {e.route : e \in ToSet(pending')} = {pending[i].route : i \in DOMAIN pending}
    BY <1>5, <1>13, <1>15
  <2>4. QED
    BY <2>2, <2>3
<1>18. QED
  BY <1>3, <1>13, <1>16, <1>17 DEF Collected, Bound

\* include() of a module leaves routes and instances alone.
LEMMA ModuleCollects ==
  ASSUME Setup, Collected(pending), NEW m \in DOMAIN Module, IncludeModule(m)
  PROVE  Collected(pending)'
<1>1. /\ decorated' = decorated
      /\ pending' = [i \in DOMAIN pending |->
           IF At(i).api = 0 \/ At(i).module # m THEN pending[i]
           ELSE [pending[i] EXCEPT !.tag = IF @ = "none" THEN Module[m].tag ELSE @,
                                   !.responses = Over(@, Module[m].responses)]]
  BY DEF IncludeModule
<1>2. Len(pending) \in Nat /\ DOMAIN pending = 1 .. Len(pending)
  BY SeqIs DEF Collected
<1>3. \A i \in DOMAIN pending : Bound(pending[i])
  BY DEF Collected, ToSet
<1>4. ASSUME NEW i \in DOMAIN pending
      PROVE  /\ DOMAIN pending'[i] = {"route", "self", "tag", "responses"}
             /\ pending'[i].route = pending[i].route /\ pending'[i].self = pending[i].self
  <2>1. DOMAIN pending[i] = {"route", "self", "tag", "responses"}
    BY <1>3 DEF Bound
  <2>2. QED
    BY <1>1, <2>1
<1>5. \A i \in DOMAIN pending : Bound(pending'[i])
  BY <1>3, <1>4 DEF Bound
<1>6. DOMAIN pending' = DOMAIN pending
  BY <1>1
<1>7. IsSeq(pending')
  <2>1. pending' = [i \in 1 .. Len(pending) |-> pending'[i]]
    BY <1>1, <1>2
  <2>2. QED
    BY <1>2, <1>6, <2>1, SeqIs
<1>8. {e.route : e \in ToSet(pending')} = {e.route : e \in ToSet(pending)}
  <2>1. {e.route : e \in ToSet(pending)} = {pending[i].route : i \in DOMAIN pending}
    BY DEF ToSet
  <2>2. {e.route : e \in ToSet(pending')} = {pending'[i].route : i \in DOMAIN pending'}
    BY DEF ToSet
  <2>3. {pending'[i].route : i \in DOMAIN pending'} = {pending'[i].route : i \in DOMAIN pending}
    BY <1>6
  <2>4. \A i \in DOMAIN pending : pending'[i].route = pending[i].route
    BY <1>4
  <2>5. {pending'[i].route : i \in DOMAIN pending} = {pending[i].route : i \in DOMAIN pending}
    BY <2>4
  <2>6. QED
    BY <2>1, <2>2, <2>3, <2>5
<1>9. \A e \in ToSet(pending') : Bound(e)
  BY <1>5, <1>6 DEF ToSet
<1>10. QED
  BY <1>1, <1>7, <1>8, <1>9 DEF Collected, Bound

\* Once build() is done nothing is pending that include() could bind.
LEMMA NothingPending ==
  ASSUME pending = <<>>
  PROVE  /\ \A x \in Object : Include(x) => pending' = <<>>
         /\ \A m \in DOMAIN Module : IncludeModule(m) => pending' = <<>>
<1>1. DOMAIN pending = {}
  OBVIOUS
<1>2. \A S : IsSeq(S) /\ ToSet(S) = {} => S = <<>>
  <2>1. SUFFICES ASSUME NEW S, IsSeq(S), ToSet(S) = {} PROVE S = <<>>
    OBVIOUS
  <2>2. S \in Seq({}) /\ DOMAIN S = {} /\ Len(S) \in Nat /\ DOMAIN S = 1 .. Len(S)
    BY <2>1, SeqIs DEF IsSeq, ToSet
  <2>3. Len(S) = 0
    BY <2>2
  <2>4. QED
    BY <2>2, <2>3, EmptySeq
<1>3. \A n, f : n = <<>> /\ f = [i \in DOMAIN n |-> f[i]] => f = <<>>
  <2>1. SUFFICES ASSUME NEW f, f = [i \in {} |-> f[i]] PROVE f = <<>>
    OBVIOUS
  <2>2. DOMAIN f = 1 .. 0 /\ f = [i \in 1 .. 0 |-> f[i]]
    BY <2>1
  <2>3. 0 \in Nat /\ 1 .. 0 = {}
    OBVIOUS
  <2>4. IsSeq(f)
    BY <2>2, <2>3, SeqIs
  <2>5. ToSet(f) = {}
    BY <2>2, <2>3 DEF ToSet
  <2>6. QED
    BY <1>2, <2>4, <2>5
<1>4. ASSUME NEW x \in Object, Include(x)
      PROVE  pending' = <<>>
  <2>1. PICK none : none = InOrder({}, ByName({}))
    OBVIOUS
  <2>2. ByName({}) = ByDecoration({}) /\ ByName({}) \in [{} -> SUBSET {}]
    BY DEF ByName, ByDecoration
  <2>3. none = <<>>
    BY <1>2, <2>1, <2>2, InOrderIs, FS_EmptySet
  <2>4. Matching(x) = {} /\ DOMAIN pending \ Matching(x) = {}
    BY <1>1 DEF Matching
  <2>5. pending' = Rebound(none, none, x)
    BY <1>4, <2>1, <2>2, <2>4 DEF Include
  <2>6. PICK kept, moved : /\ kept = [i \in DOMAIN none |-> pending[none[i]]]
                           /\ moved = [i \in DOMAIN none |-> Bind(pending[none[i]], x)]
    OBVIOUS
  <2>7. kept = <<>> /\ moved = <<>>
    BY <1>3, <2>3, <2>6
  <2>8. pending' = kept \o moved
    BY <2>5, <2>6 DEF Rebound
  <2>9. QED
    BY <2>7, <2>8
<1>5. ASSUME NEW m \in DOMAIN Module, IncludeModule(m)
      PROVE  pending' = <<>>
  BY <1>1, <1>3, <1>5 DEF IncludeModule
<1>6. QED
  BY <1>4, <1>5

-----------------------------------------------------------------------------
(* The invariant holds: nothing that was built changes.                    *)

\* What is registered depends on hooks and auth alone.
LEMMA SameBatch ==
  ASSUME UNCHANGED <<hooks, auth>>, NEW batch
  PROVE  /\ Stops(batch)' = Stops(batch)
         /\ Items(batch)' = Items(batch)
         /\ \A r \in Api : Document(batch, r)' = Document(batch, r)
<1>1. \A i : Undocumented(batch, i)' = Undocumented(batch, i)
  BY DEF Undocumented
<1>2. Stops(batch)' = Stops(batch)
  BY <1>1 DEF Stops, SelectInSeq, Unregistered, Undocumented
<1>3. \A e : Item(e)' = Item(e)
  BY DEF Item
<1>4. Items(batch)' = Items(batch)
  BY <1>2, <1>3 DEF Items, Unregistered
<1>5. \A r \in Api : Document(batch, r)' = Document(batch, r)
  BY DEF Document
<1>6. QED
  BY <1>2, <1>4, <1>5

\* What was built stays what it is while its items, hooks, security and documents do.
LEMMA SameBuild ==
  ASSUME UNCHANGED <<items, hooks, auth, documents>>, NEW batch, BuiltOf(batch),
         ~Late => pending' = <<>> /\ decorated' = decorated
  PROVE  BuiltOf(batch)'
<1>1. /\ Stops(batch)' = Stops(batch) /\ Stops(Docs)' = Stops(Docs)
      /\ Items(batch)' = Items(batch) /\ Items(Docs)' = Items(Docs)
      /\ \A r \in Api : Document(batch, r)' = Document(batch, r)
  BY SameBatch
<1>2. [r \in Api |-> Document(batch, r)]' = [r \in Api |-> Document(batch, r)]
  BY <1>1
<1>3. QED
  BY <1>1, <1>2 DEF BuiltOf, Bound

\* A Router begins with nothing.
LEMMA InitRouter == Init => RouterInv
<1>1. SUFFICES ASSUME Init PROVE RouterInv
  OBVIOUS
<1>2. NoHooks \in [error : Hook, result : Hook]
  BY DEF NoHooks, Hook
<1>3. Setup
  BY <1>1, <1>2 DEF Init, Setup
<1>4. IsSeq(pending) /\ ToSet(pending) = {}
  BY <1>1 DEF Init, IsSeq, ToSet
<1>5. Collected(pending)
  BY <1>1, <1>4 DEF Init, Collected
<1>6. QED
  BY <1>1, <1>3, <1>5 DEF Init, RouterInv

\* A step that leaves what is built alone.
LEMMA BuiltStays ==
  ASSUME RouterInv, UNCHANGED <<items, documents, built, failed>>,
         built => UNCHANGED <<hooks, auth>>,
         built /\ ~Late => decorated' = decorated /\ (pending = <<>> => pending' = <<>>)
  PROVE  (built /\ ~failed => \E batch : BuiltOf(batch))'
<1>1. SUFFICES ASSUME built, ~failed PROVE \E batch : BuiltOf(batch)'
  OBVIOUS
<1>2. PICK batch : BuiltOf(batch)
  BY <1>1 DEF RouterInv
<1>3. BuiltOf(batch)'
  BY <1>1, <1>2, SameBuild DEF BuiltOf
<1>4. QED
  BY <1>3

\* A step that answers nothing.
LEMMA AnswerStays ==
  ASSUME RouterInv, UNCHANGED <<items, built, failed, answer>>
  PROVE  (answer # NoAnswer =>
            /\ built /\ ~failed
            /\ \E i \in DOMAIN items : \E request \in Requests(Routes[items[i].route]) : \E did : Answered(i, request, did))'
<1>1. SUFFICES ASSUME answer # NoAnswer
      PROVE  /\ built /\ ~failed
             /\ \E i \in DOMAIN items : \E request \in Requests(Routes[items[i].route]) : \E did : Answered(i, request, did)'
  BY DEF NoAnswer
<1>2. PICK i \in DOMAIN items : \E request \in Requests(Routes[items[i].route]) : \E did : Answered(i, request, did)
  BY <1>1 DEF RouterInv
<1>3. PICK request \in Requests(Routes[items[i].route]) : \E did : Answered(i, request, did)
  BY <1>2
<1>4. PICK did : Answered(i, request, did)
  BY <1>3
<1>5. Answered(i, request, did)'
  BY <1>4 DEF Answered
<1>6. QED
  BY <1>1, <1>5 DEF RouterInv

\* build() registers what was collected or raises.
LEMMA BuildKeeps ==
  ASSUME RouterInv, Build
  PROVE  RouterInv'
<1>1. /\ ~built /\ built' = TRUE /\ failed' \in BOOLEAN
      /\ UNCHANGED <<decorated, hooks, auth, answer>>
  BY DEF Build
<1>2. Setup'
  BY <1>1 DEF RouterInv, Setup
<1>3. answer = NoAnswer
  BY <1>1 DEF RouterInv
<1>4. ASSUME ~failed' PROVE \E batch : BuiltOf(batch)'
  <2>1. PICK batch : batch = pending
    OBVIOUS
  <2>2. /\ Stops(batch) = 0 /\ Stops(Docs) = 0 /\ pending' = <<>>
        /\ items' = Items(batch) \o Items(Docs)
        /\ documents' = [r \in Api |-> Document(batch, r)]
    BY <1>4, <2>1 DEF Build
  <2>3. Collected(batch) /\ decorated \subseteq DOMAIN Decoration
    BY <1>1, <2>1 DEF RouterInv, Setup
  <2>4. \A e \in ToSet(batch) : Bound(e) /\ e.route \in DOMAIN Decoration
    BY <2>3 DEF Collected
  <2>5. /\ Stops(batch)' = Stops(batch) /\ Stops(Docs)' = Stops(Docs)
        /\ Items(batch)' = Items(batch) /\ Items(Docs)' = Items(Docs)
        /\ \A r \in Api : Document(batch, r)' = Document(batch, r)
    BY <1>1, SameBatch
  <2>6. [r \in Api |-> Document(batch, r)]' = [r \in Api |-> Document(batch, r)]
    BY <2>5
  <2>7. BuiltOf(batch)'
    BY <1>1, <2>2, <2>3, <2>4, <2>5, <2>6 DEF BuiltOf, Collected, Bound
  <2>8. QED
    BY <2>7
<1>5. QED
  BY <1>1, <1>2, <1>3, <1>4 DEF RouterInv, NoAnswer

\* Setup is of decorated and hooks.
LEMMA SetupStays ==
  ASSUME Setup, UNCHANGED <<built, failed>>, decorated' \subseteq DOMAIN Decoration,
         hooks' \in [Api -> [error : Hook, result : Hook]]
  PROVE  Setup'
BY DEF Setup

\* Every step keeps the invariant.
LEMMA NextRouter ==
  ASSUME RouterInv, [Next]_vars
  PROVE  RouterInv'
<1>1. Setup
  BY DEF RouterInv
<1>2. ASSUME NEW d \in DOMAIN Decoration, Decorate(d)
      PROVE  RouterInv'
  <2>1. UNCHANGED <<items, hooks, auth, documents, built, failed, answer>> /\ (~built \/ Late)
        /\ decorated' = decorated \cup {d}
    BY <1>2 DEF Decorate
  <2>2. Setup'
    BY <1>1, <2>1, SetupStays DEF Setup
  <2>3. (~built => Collected(pending))'
    BY <1>1, <1>2, <2>1, DecorateCollects DEF RouterInv
  <2>4. QED
    BY <2>1, <2>2, <2>3, BuiltStays, AnswerStays DEF RouterInv
<1>3. ASSUME NEW x \in Object, Include(x)
      PROVE  RouterInv'
  <2>1. UNCHANGED <<decorated, items, hooks, auth, documents, built, failed, answer>>
    BY <1>3 DEF Include
  <2>2. Setup'
    BY <1>1, <2>1, SetupStays DEF Setup
  <2>3. (~built => Collected(pending))'
    BY <1>1, <1>3, <2>1, IncludeCollects DEF RouterInv
  <2>4. pending = <<>> => pending' = <<>>
    BY <1>3, NothingPending
  <2>5. QED
    BY <2>1, <2>2, <2>3, <2>4, BuiltStays, AnswerStays DEF RouterInv
<1>4. ASSUME NEW m \in DOMAIN Module, IncludeModule(m)
      PROVE  RouterInv'
  <2>1. UNCHANGED <<decorated, items, hooks, auth, documents, built, failed, answer>>
    BY <1>4 DEF IncludeModule
  <2>2. Setup'
    BY <1>1, <2>1, SetupStays DEF Setup
  <2>3. (~built => Collected(pending))'
    BY <1>1, <1>4, <2>1, ModuleCollects DEF RouterInv
  <2>4. pending = <<>> => pending' = <<>>
    BY <1>4, NothingPending
  <2>5. QED
    BY <2>1, <2>2, <2>3, <2>4, BuiltStays, AnswerStays DEF RouterInv
<1>5. ASSUME NEW r \in Api, SetHooks(r)
      PROVE  RouterInv'
  <2>1. UNCHANGED <<pending, decorated, items, auth, documents, built, failed, answer>> /\ ~built
    BY <1>5 DEF SetHooks
  <2>2. PICK error \in Hook, result \in Hook : hooks' = [hooks EXCEPT ![r] = [error |-> error, result |-> result]]
    BY <1>5 DEF SetHooks
  <2>3. hooks' \in [Api -> [error : Hook, result : Hook]]
    BY <1>1, <2>2 DEF Setup
  <2>4. Setup'
    BY <1>1, <2>1, <2>3, SetupStays DEF Setup
  <2>5. (~built => Collected(pending))'
    BY <2>1 DEF RouterInv, Collected, Bound
  <2>6. QED
    BY <2>1, <2>4, <2>5, BuiltStays, AnswerStays DEF RouterInv
<1>6. ASSUME NEW r \in Api, AddAuth(r)
      PROVE  RouterInv'
  <2>1. UNCHANGED <<pending, decorated, items, hooks, documents, built, failed, answer>> /\ ~built
    BY <1>6 DEF AddAuth
  <2>2. Setup'
    BY <1>1, <2>1, SetupStays DEF Setup
  <2>3. (~built => Collected(pending))'
    BY <2>1 DEF RouterInv, Collected, Bound
  <2>4. QED
    BY <2>1, <2>2, <2>3, BuiltStays, AnswerStays DEF RouterInv
<1>7. CASE Build
  BY <1>7, BuildKeeps
<1>8. CASE Served
  <2>1. UNCHANGED <<pending, decorated, items, hooks, auth, documents, built, failed>> /\ answer' = NoAnswer
    BY <1>8 DEF Served
  <2>2. Setup'
    BY <1>1, <2>1, SetupStays DEF Setup
  <2>3. (~built => Collected(pending))'
    BY <2>1 DEF RouterInv, Collected, Bound
  <2>4. QED
    BY <2>1, <2>2, <2>3, BuiltStays DEF RouterInv, NoAnswer
<1>9. ASSUME NEW i \in DOMAIN items, Serve(i)
      PROVE  RouterInv'
  <2>1. UNCHANGED <<pending, decorated, items, hooks, auth, documents, built, failed>> /\ built /\ ~failed
    BY <1>9 DEF Serve
  <2>2. Setup'
    BY <1>1, <2>1, SetupStays DEF Setup
  <2>3. (~built => Collected(pending))'
    BY <2>1 DEF RouterInv, Collected, Bound
  <2>4. \E request \in Requests(Routes[items[i].route]) : \E did : Answered(i, request, did)'
    BY <1>9, <2>1 DEF Serve, Answered
  <2>5. QED
    BY <2>1, <2>2, <2>3, <2>4, BuiltStays DEF RouterInv
<1>10. CASE UNCHANGED vars
  <2>1. UNCHANGED <<pending, decorated, items, hooks, auth, documents, built, failed, answer>>
    BY <1>10 DEF vars
  <2>2. Setup'
    BY <1>1, <2>1, SetupStays DEF Setup
  <2>3. (~built => Collected(pending))'
    BY <2>1 DEF RouterInv, Collected, Bound
  <2>4. QED
    BY <2>1, <2>2, <2>3, BuiltStays, AnswerStays DEF RouterInv
<1>11. QED
  BY <1>2, <1>3, <1>4, <1>5, <1>6, <1>7, <1>8, <1>9, <1>10 DEF Next

\* The invariant holds in every state.
LEMMA RouterStays == Spec => []RouterInv
<1>1. Init => RouterInv
  BY InitRouter
<1>2. RouterInv /\ [Next]_vars => RouterInv'
  BY NextRouter
<1>3. QED
  BY <1>1, <1>2, PTL DEF Spec

\* A batch is registered to its end if nothing stops it.
LEMMA StopsIs ==
  ASSUME NEW batch, IsSeq(batch)
  PROVE  IF \A i \in 1 .. Len(batch) : ~Unregistered(batch, i) /\ ~Undocumented(batch, i)
           THEN Stops(batch) = 0
           ELSE Stops(batch) \in 1 .. Len(batch)
<1>1. PICK s : s = [i \in DOMAIN batch |-> i]
  OBVIOUS
<1>2. Len(batch) \in Nat /\ DOMAIN batch = 1 .. Len(batch) /\ Len(s) = Len(batch)
  <2>1. Len(batch) \in Nat /\ DOMAIN batch = 1 .. Len(batch)
    BY SeqIs
  <2>2. DOMAIN s = 1 .. Len(batch) /\ s = [i \in 1 .. Len(batch) |-> s[i]]
    BY <1>1, <2>1
  <2>3. QED
    BY <2>1, <2>2, SeqIs
<1>3. PICK I : I = {i \in 1 .. Len(batch) : Unregistered(batch, i) \/ Undocumented(batch, i)}
  OBVIOUS
<1>4. {i \in 1 .. Len(s) : Unregistered(batch, s[i]) \/ Undocumented(batch, s[i])} = I
  BY <1>1, <1>2, <1>3
<1>5. Stops(batch) = IF I # {} THEN Min(I) ELSE 0
  BY <1>1, <1>4 DEF Stops, SelectInSeq
<1>6. I # {} => Min(I) \in I
  <2>1. I \in SUBSET Nat
    BY <1>2, <1>3
  <2>2. QED
    BY <2>1, LeastNat
<1>7. QED
  BY <1>3, <1>5, <1>6

\* A batch that is registered to its end.
LEMMA ItemsAre ==
  ASSUME NEW batch, IsSeq(batch), Stops(batch) = 0
  PROVE  /\ \A i \in 1 .. Len(batch) : ~Unregistered(batch, i) /\ ~Undocumented(batch, i)
         /\ IsSeq(Items(batch)) /\ Len(Items(batch)) = Len(batch)
         /\ \A i \in 1 .. Len(batch) : Items(batch)[i] = Item(batch[i])
<1>1. Len(batch) \in Nat
  BY SeqIs
<1>2. \A i \in 1 .. Len(batch) : ~Unregistered(batch, i) /\ ~Undocumented(batch, i)
  <2>1. 0 \notin 1 .. Len(batch)
    BY <1>1
  <2>2. QED
    BY <2>1, StopsIs
<1>3. PICK registered : registered = Items(batch)
  OBVIOUS
<1>4. registered = [i \in 1 .. Len(batch) |-> Item(batch[i])]
  BY <1>3 DEF Items
<1>5. IsSeq(registered) /\ Len(registered) = Len(batch)
  BY <1>1, <1>4, SeqIs
<1>6. QED
  BY <1>2, <1>3, <1>4, <1>5

\* A registered route is one of the batch or one that serves a document.
LEMMA ItemIs ==
  ASSUME NEW batch, BuiltOf(batch), NEW i \in DOMAIN items
  PROVE  \/ /\ i \in 1 .. Len(batch) /\ items[i] = Item(batch[i])
            /\ items[i].route = batch[i].route /\ batch[i].route \in DOMAIN Decoration
            /\ batch[i] \in ToSet(batch)
         \/ /\ i \notin 1 .. Len(batch) /\ items[i].route \notin DOMAIN Decoration
            /\ Routes[items[i].route].api = 0 /\ Routes[items[i].route].args = <<>>
            /\ items[i].hooks = NoHooks
<1>1. PICK registered, docs : registered = Items(batch) /\ docs = Items(Docs)
  OBVIOUS
<1>2. Len(Prefix) \in Nat /\ 2 * Len(Prefix) \in Nat
  BY RoutesAre
<1>3. /\ DOMAIN Docs = 1 .. 2 * Len(Prefix)
      /\ Docs = [k \in 1 .. 2 * Len(Prefix) |-> Docs[k]]
  BY DEF Docs
<1>4. IsSeq(Docs) /\ Len(Docs) = 2 * Len(Prefix)
  BY <1>2, <1>3, SeqIs
<1>5. IsSeq(batch) /\ Stops(batch) = 0 /\ Stops(Docs) = 0
  BY DEF BuiltOf
<1>6. /\ IsSeq(registered) /\ Len(registered) = Len(batch)
      /\ \A k \in 1 .. Len(batch) : registered[k] = Item(batch[k])
  BY <1>1, <1>5, ItemsAre
<1>7. /\ IsSeq(docs) /\ Len(docs) = 2 * Len(Prefix)
      /\ \A k \in 1 .. 2 * Len(Prefix) : docs[k] = Item(Docs[k])
  BY <1>1, <1>4, <1>5, ItemsAre
<1>8. items = registered \o docs
  BY <1>1 DEF BuiltOf
<1>9. /\ IsSeq(items) /\ Len(items) = Len(batch) + 2 * Len(Prefix)
      /\ \A k \in 1 .. Len(batch) : items[k] = Item(batch[k])
      /\ \A k \in 1 .. 2 * Len(Prefix) : items[Len(batch) + k] = Item(Docs[k])
  <2>1. IsSeq(registered) /\ IsSeq(docs)
    BY <1>6, <1>7
  <2>2. IsSeq(items) /\ Len(items) = Len(registered) + Len(docs)
    BY <1>8, <2>1, ConcatIs
  <2>3. \A k \in 1 .. Len(registered) : items[k] = registered[k]
    BY <1>8, <2>1, ConcatIs
  <2>4. \A k \in 1 .. Len(docs) : items[Len(registered) + k] = docs[k]
    BY <1>8, <2>1, ConcatIs
  <2>5. QED
    BY <1>6, <1>7, <2>2, <2>3, <2>4
<1>10. Len(batch) \in Nat /\ DOMAIN batch = 1 .. Len(batch) /\ DOMAIN items = 1 .. Len(items)
  BY <1>5, <1>9, SeqIs
<1>11. CASE i \in 1 .. Len(batch)
  <2>1. items[i] = Item(batch[i]) /\ batch[i] \in ToSet(batch)
    BY <1>9, <1>10, <1>11 DEF ToSet
  <2>2. items[i].route = batch[i].route /\ batch[i].route \in DOMAIN Decoration
    BY <2>1 DEF Item, BuiltOf
  <2>3. QED
    BY <1>11, <2>1, <2>2
<1>12. CASE i \notin 1 .. Len(batch)
  <2>1. PICK k \in 1 .. 2 * Len(Prefix) : i = Len(batch) + k
    <3>1. i - Len(batch) \in 1 .. 2 * Len(Prefix) /\ i = Len(batch) + (i - Len(batch))
      BY <1>2, <1>9, <1>10, <1>12
    <3>2. QED
      BY <3>1
  <2>2. items[i].route = Len(Decoration) + k
    <3>1. items[i] = Item(Docs[k])
      BY <1>9, <2>1
    <3>2. Docs[k] = Entry(Len(Decoration) + k)
      BY <2>1 DEF Docs
    <3>3. QED
      BY <3>1, <3>2 DEF Item, Entry
  <2>3. Len(Decoration) + k \notin DOMAIN Decoration
    BY <1>2, <2>1, RoutesAre
  <2>4. Routes[Len(Decoration) + k].api = 0 /\ Routes[Len(Decoration) + k].args = <<>>
    BY RoutesAre
  <2>5. items[i].hooks = NoHooks
    <3>1. items[i] = Item(Docs[k])
      BY <1>9, <2>1
    <3>2. Docs[k].route = items[i].route
      BY <3>1 DEF Item
    <3>3. QED
      BY <2>2, <2>4, <3>1, <3>2 DEF Item
  <2>6. QED
    BY <1>12, <2>2, <2>3, <2>4, <2>5
<1>13. QED
  BY <1>11, <1>12

\* Each entry of the batch is registered at its own place.
LEMMA Registered ==
  ASSUME NEW batch, BuiltOf(batch)
  PROVE  \A i \in 1 .. Len(batch) : i \in DOMAIN items
<1>1. PICK registered, docs : registered = Items(batch) /\ docs = Items(Docs)
  OBVIOUS
<1>2. /\ DOMAIN Docs = 1 .. 2 * Len(Prefix)
      /\ Docs = [k \in 1 .. 2 * Len(Prefix) |-> Docs[k]] /\ 2 * Len(Prefix) \in Nat
  BY RoutesAre DEF Docs
<1>3. IsSeq(Docs)
  BY <1>2, SeqIs
<1>4. IsSeq(batch) /\ Stops(batch) = 0 /\ Stops(Docs) = 0 /\ items = registered \o docs
  BY <1>1 DEF BuiltOf
<1>5. /\ IsSeq(registered) /\ Len(registered) = Len(batch)
      /\ IsSeq(docs)
  BY <1>1, <1>3, <1>4, ItemsAre
<1>6. IsSeq(items) /\ Len(items) = Len(batch) + Len(docs)
  BY <1>4, <1>5, ConcatIs
<1>7. DOMAIN items = 1 .. Len(items) /\ Len(batch) \in Nat /\ Len(docs) \in Nat
  BY <1>4, <1>5, <1>6, SeqIs
<1>8. QED
  BY <1>6, <1>7

\* What is built of a batch serves the routes of it.
LEMMA ServedOnce ==
  ASSUME NEW batch, BuiltOf(batch), ~Late, built, ~failed
  PROVE  RoutesServed
<1>1. PICK own : own = {i \in DOMAIN items : items[i].route \in DOMAIN Decoration}
  OBVIOUS
<1>2. /\ IsSeq(batch) /\ Stops(batch) = 0 /\ pending = <<>>
      /\ {e.route : e \in ToSet(batch)} = decorated
      /\ \A e \in ToSet(batch) : Bound(e) /\ e.route \in DOMAIN Decoration
  BY DEF BuiltOf
<1>3. Len(batch) \in Nat /\ DOMAIN batch = 1 .. Len(batch)
  BY <1>2, SeqIs
<1>4. \A i \in own : i \in 1 .. Len(batch)
  BY <1>1, ItemIs
<1>5. \A i \in 1 .. Len(batch) : /\ i \in DOMAIN items /\ items[i] = Item(batch[i])
                                /\ items[i].route = batch[i].route /\ batch[i] \in ToSet(batch)
                                /\ batch[i].route \in DOMAIN Decoration
  <2>1. SUFFICES ASSUME NEW i \in 1 .. Len(batch)
                 PROVE  /\ i \in DOMAIN items /\ items[i] = Item(batch[i])
                        /\ items[i].route = batch[i].route /\ batch[i] \in ToSet(batch)
                        /\ batch[i].route \in DOMAIN Decoration
    OBVIOUS
  <2>2. i \in DOMAIN items
    BY Registered
  <2>3. QED
    BY <2>1, <2>2, ItemIs
<1>6. own = 1 .. Len(batch)
  BY <1>1, <1>4, <1>5
<1>7. {items[i].route : i \in own} = decorated
  <2>1. {items[i].route : i \in own} = {batch[i].route : i \in 1 .. Len(batch)}
    BY <1>5, <1>6
  <2>2. {e.route : e \in ToSet(batch)} = {batch[i].route : i \in 1 .. Len(batch)}
    BY <1>3 DEF ToSet
  <2>3. QED
    BY <1>2, <2>1, <2>2
<1>8. \A i \in 1 .. Len(batch) : ~Unregistered(batch, i)
  BY <1>2, ItemsAre
<1>9. ASSUME NEW i \in own, NEW j \in own, i < j
      PROVE  Routes[items[i].route].key # Routes[items[j].route].key
  <2>1. i \in 1 .. (j - 1) /\ j \in 1 .. Len(batch)
    BY <1>3, <1>6, <1>9
  <2>2. Routes[batch[i].route].key # Routes[batch[j].route].key
    BY <1>8, <2>1 DEF Unregistered
  <2>3. QED
    BY <1>5, <1>6, <2>2
<1>10. \A i, j \in own : i # j => Routes[items[i].route].key # Routes[items[j].route].key
  <2>1. SUFFICES ASSUME NEW i \in own, NEW j \in own, i # j
                 PROVE  Routes[items[i].route].key # Routes[items[j].route].key
    OBVIOUS
  <2>2. i < j \/ j < i
    BY <1>3, <1>6, <2>1
  <2>3. QED
    BY <1>9, <2>2
<1>11. ASSUME NEW i \in own
       PROVE  IF Routes[items[i].route].class = Free THEN items[i].self = Free
              ELSE items[i].self \in Object /\ ClassOf[items[i].self] = Routes[items[i].route].class
  <2>1. /\ items[i] = Item(batch[i]) /\ Bound(batch[i]) /\ batch[i].self # Unbound
        /\ items[i].route = batch[i].route
    BY <1>2, <1>5, <1>6, <1>8 DEF Unregistered
  <2>2. items[i].self = batch[i].self
    BY <2>1 DEF Item
  <2>3. QED
    BY <2>1, <2>2 DEF Bound
<1>12. QED
  BY <1>1, <1>2, <1>7, <1>10, <1>11 DEF RoutesServed

\* RoutesServed: unless routes are decorated after build(), what build() registered are the routes
\* that were decorated, each once, bound to an instance of its class, and no two with one key.
THEOREM RoutesAllServed ==
  ASSUME ~Late
  PROVE  Spec => []RoutesServed
<1>1. ASSUME RouterInv
      PROVE  RoutesServed
  <2>1. CASE built /\ ~failed
    <3>1. PICK batch : BuiltOf(batch)
      BY <1>1, <2>1 DEF RouterInv
    <3>2. QED
      BY <2>1, <3>1, ServedOnce
  <2>2. CASE ~(built /\ ~failed)
    BY <2>2 DEF RoutesServed
  <2>3. QED
    BY <2>1, <2>2
<1>2. QED
  BY <1>1, RouterStays, PTL

-----------------------------------------------------------------------------
(* Answers.                                                                *)

\* The arguments of a registered route are Annotated, and validated where those of all are.
LEMMA ArgumentsOf ==
  ASSUME RouterInv, built, ~failed, NEW i \in DOMAIN items
  PROVE  LET args == Routes[items[i].route].args
         IN /\ args \in Seq(Arguments)
            /\ \A k \in DOMAIN args : args[k].source # "bare"
            /\ args = <<>> \/ Routes[items[i].route] \in ToSet(Decoration)
            /\ items[i].hooks = NoHooks \/ items[i].hooks \in [error : Hook, result : Hook]
<1>1. PICK args : args = Routes[items[i].route].args
  OBVIOUS
<1>2. PICK batch : BuiltOf(batch)
  BY DEF RouterInv
<1>3. CASE /\ i \in 1 .. Len(batch) /\ items[i] = Item(batch[i])
           /\ items[i].route = batch[i].route /\ batch[i].route \in DOMAIN Decoration
  <2>1. Routes[items[i].route] \in ToSet(Decoration)
    BY <1>3, RoutesAre
  <2>2. args \in Seq(Arguments) /\ Routes[items[i].route].api \in Api \cup {0}
    BY <1>1, <2>1, RouterConstants
  <2>3. ~Unregistered(batch, i)
    BY <1>2, <1>3, ItemsAre DEF BuiltOf
  <2>4. \A k \in DOMAIN args : args[k].source # "bare"
    BY <1>1, <1>3, <2>3 DEF Unregistered, ToSet
  <2>5. items[i].hooks = IF Routes[items[i].route].api = 0 THEN NoHooks ELSE hooks[Routes[items[i].route].api]
    BY <1>3 DEF Item
  <2>6. hooks \in [Api -> [error : Hook, result : Hook]]
    BY DEF RouterInv, Setup
  <2>7. QED
    BY <1>1, <2>1, <2>2, <2>4, <2>5, <2>6
<1>4. CASE args = <<>> /\ items[i].hooks = NoHooks
  <2>1. args \in Seq(Arguments) /\ DOMAIN args = {}
    BY <1>4
  <2>2. QED
    BY <1>1, <1>4, <2>1
<1>5. QED
  BY <1>1, <1>2, <1>3, <1>4, ItemIs

\* One request, answered by what gather_args() made of it.
LEMMA AnswerIs ==
  ASSUME NEW it, NEW request, NEW did, NEW gathered,
         LET r == Routes[it.route]
         IN /\ gathered = GatherArgs(r.args, request)
            /\ r.args \in Seq(Arguments) /\ request \in Requests(r)
            /\ \A k \in DOMAIN r.args : r.args[k].source # "bare" /\ Validated(r.args[k])
            /\ it.hooks.error \in Hook
            /\ answer = [served |-> TRUE, item |-> it, request |-> request, ran |-> gathered.kind = "args",
                         did |-> did, response |-> IF gathered.kind = "args" THEN HandlerEnded(it, did)
                                                   ELSE ArgumentsFailed(it, gathered)],
         did \in IF gathered.kind = "args" THEN {"result", "opaque", "response", "http", "raised"} ELSE {"nothing"}
  PROVE  AnswerFits
<1>1. PICK r, args : r = Routes[it.route] /\ args = r.args
  OBVIOUS
<1>2. PICK wrong, broken : wrong = WrongIn(args, request) /\ broken = BrokenIn(args, request)
  OBVIOUS
<1>3. \A k \in DOMAIN args : Covers(request, args[k])
  <2>1. PICK used : used = UNION {Places(args[k]) : k \in DOMAIN args}
    OBVIOUS
  <2>2. request \in [used -> Raw]
    BY <1>1, <2>1 DEF Requests
  <2>3. QED
    BY <2>1, <2>2 DEF Covers
<1>4. /\ gathered.kind \in {"args", "validation", "http", "error"}
      /\ gathered.kind = "args" <=> wrong = {} /\ broken = {}
      /\ broken = {} /\ wrong # {} => gathered.kind = "validation" /\ gathered.problems = wrong
  <2>1. \A k \in DOMAIN args : args[k].source # "bare" /\ Validated(args[k])
    BY <1>1
  <2>2. gathered = GatherArgs(args, request) /\ args \in Seq(Arguments)
    BY <1>1
  <2>3. broken = {} /\ wrong # {} => gathered = [kind |-> "validation", problems |-> wrong]
    BY <1>2, <1>3, <2>1, <2>2, GatherIs
  <2>4. QED
    BY <1>2, <1>3, <2>1, <2>2, <2>3, GatherIs
<1>5. /\ answer.item = it /\ answer.request = request /\ answer.ran = (gathered.kind = "args") /\ answer.did = did
      /\ answer.response = IF gathered.kind = "args" THEN HandlerEnded(it, did) ELSE ArgumentsFailed(it, gathered)
  OBVIOUS
<1>6. broken = {} /\ wrong # {} => /\ answer.response.status = 400
                                   /\ r.api # 0 => answer.response.problems = wrong
  <2>1. SUFFICES ASSUME broken = {}, wrong # {}
                 PROVE  answer.response.status = 400 /\ (r.api # 0 => answer.response.problems = wrong)
    OBVIOUS
  <2>2. answer.response = ArgumentsFailed(it, gathered) /\ gathered.kind = "validation" /\ gathered.problems = wrong
    BY <1>4, <1>5, <2>1
  <2>3. CASE r.api = 0
    <3>1. answer.response = Response(400, "text")
      BY <1>1, <2>2, <2>3 DEF ArgumentsFailed
    <3>2. QED
      BY <2>3, <3>1 DEF Response
  <2>4. CASE r.api # 0
    <3>1. answer.response = [Response(400, "errors") EXCEPT !.problems = wrong]
      BY <1>1, <2>2, <2>4 DEF ArgumentsFailed
    <3>2. QED
      BY <3>1 DEF Response
  <2>5. QED
    BY <2>3, <2>4
<1>7. r.api # 0 /\ did # "opaque" /\ "raises" \notin {it.hooks.error, it.hooks.result} => answer.response # Escapes
  <2>1. SUFFICES ASSUME r.api # 0, did # "opaque", it.hooks.error # "raises", it.hooks.result # "raises"
                 PROVE  answer.response # Escapes
    OBVIOUS
  <2>2. \A code, body : Response(code, body).status = code /\ Response(code, body).body = body
    BY DEF Response
  <2>3. Escapes.status = 500 /\ Escapes.body = "aiohttp"
    BY DEF Escapes, Response
  <2>4. UnexpectedError(it) # Escapes
    <3>1. it.hooks.error \in {"none", "given"}
      BY <2>1 DEF Hook
    <3>2. PICK text : text = "Internal Server Error"
      OBVIOUS
    <3>3. text # "aiohttp"
      BY <3>2, Zenon
    <3>4. UnexpectedError(it) = Response(500, "envelope") \/ UnexpectedError(it) = Response(500, text)
      BY <1>1, <2>1, <3>1, <3>2 DEF UnexpectedError
    <3>5. Response(500, "envelope") # Escapes /\ Response(500, text) # Escapes
      BY <2>2, <2>3, <3>3
    <3>6. QED
      BY <3>4, <3>5
  <2>5. CASE gathered.kind = "args"
    <3>1. answer.response = HandlerEnded(it, did) /\ did \in {"result", "response", "http", "raised"}
      BY <1>5, <2>1, <2>5
    <3>2. CASE did = "http"
      <4>1. answer.response = Response(404, "http")
        BY <3>1, <3>2 DEF HandlerEnded
      <4>2. QED
        BY <2>2, <2>3, <4>1
    <3>3. CASE did = "raised"
      <4>1. answer.response = UnexpectedError(it)
        BY <3>1, <3>3 DEF HandlerEnded
      <4>2. QED
        BY <2>4, <4>1
    <3>4. CASE did \in {"result", "response"}
      <4>1. answer.response = EncodeResponse(it, did)
        BY <2>1, <3>1, <3>4 DEF HandlerEnded
      <4>2. answer.response.status \in {200, 206}
        <5>1. EncodeResponse(it, did) = Response(206, "result")
              \/ EncodeResponse(it, did) = Response(200, IF it.hooks.result = "given" THEN "enveloped" ELSE "result")
          BY <3>4 DEF EncodeResponse
        <5>2. QED
          BY <2>2, <4>1, <5>1
      <4>3. QED
        BY <2>3, <4>2
    <3>5. QED
      BY <3>1, <3>2, <3>3, <3>4
  <2>6. CASE gathered.kind = "error"
    <3>1. answer.response = UnexpectedError(it)
      BY <1>5, <2>6 DEF ArgumentsFailed
    <3>2. QED
      BY <2>4, <3>1
  <2>7. CASE gathered.kind = "http"
    <3>1. answer.response = Response(401, "http")
      BY <1>1, <1>5, <2>1, <2>7 DEF ArgumentsFailed
    <3>2. QED
      BY <2>2, <2>3, <3>1
  <2>8. CASE gathered.kind = "validation"
    <3>1. answer.response = [Response(400, "errors") EXCEPT !.problems = gathered.problems]
      BY <1>1, <1>5, <2>1, <2>8 DEF ArgumentsFailed
    <3>2. answer.response.status = 400
      BY <3>1 DEF Response
    <3>3. QED
      BY <2>3, <3>2
  <2>9. QED
    BY <1>4, <2>5, <2>6, <2>7, <2>8
<1>8. /\ wrong = {k \in DOMAIN args : args[k].source # "inject" /\ Wrong(args[k], request)}
      /\ broken = {k \in DOMAIN args : args[k].source = "inject" /\ FirstValue(args[k], request) # "good"}
  BY <1>2 DEF WrongIn, BrokenIn
<1>9. /\ answer.ran <=> wrong = {} /\ broken = {}
      /\ r = Routes[answer.item.route]
      /\ wrong = {k \in DOMAIN r.args : r.args[k].source # "inject" /\ Wrong(r.args[k], answer.request)}
      /\ broken = {k \in DOMAIN r.args : r.args[k].source = "inject" /\ FirstValue(r.args[k], answer.request) # "good"}
  BY <1>1, <1>4, <1>5, <1>8
<1>10. r.api # 0 /\ answer.did # "opaque" /\ "raises" \notin {answer.item.hooks.error, answer.item.hooks.result}
         => answer.response # Escapes
  BY <1>5, <1>7
<1>11. QED
  BY <1>6, <1>9, <1>10 DEF AnswerFits

\* All arguments are validated before the type of an argument is called with them.
AllValidated == \A d \in ToSet(Decoration) : \A k \in DOMAIN d.args : d.args[k].source = "bare" \/ Validated(d.args[k])

\* The answer of every state.
LEMMA AnswerHolds ==
  ASSUME AllValidated, RouterInv
  PROVE  AnswerFits
<1>1. CASE answer = NoAnswer
  BY <1>1 DEF NoAnswer, AnswerFits
<1>2. CASE answer # NoAnswer
  <2>1. PICK i \in DOMAIN items : \E request \in Requests(Routes[items[i].route]) : \E did : Answered(i, request, did)
    BY <1>2 DEF RouterInv
  <2>2. PICK request \in Requests(Routes[items[i].route]) : \E did : Answered(i, request, did)
    BY <2>1
  <2>3. PICK did : Answered(i, request, did)
    BY <2>2
  <2>4. built /\ ~failed
    BY <1>2 DEF RouterInv
  <2>5. PICK args : args = Routes[items[i].route].args
    OBVIOUS
  <2>6. /\ args \in Seq(Arguments)
        /\ \A k \in DOMAIN args : args[k].source # "bare"
        /\ args = <<>> \/ Routes[items[i].route] \in ToSet(Decoration)
        /\ items[i].hooks = NoHooks \/ items[i].hooks \in [error : Hook, result : Hook]
    BY <2>4, <2>5, ArgumentsOf
  <2>7. \A k \in DOMAIN args : Validated(args[k])
    <3>1. args = <<>> => DOMAIN args = {}
      OBVIOUS
    <3>2. QED
      BY <2>5, <2>6, <3>1 DEF AllValidated
  <2>8. items[i].hooks.error \in Hook
    BY <2>6 DEF NoHooks, Hook
  <2>9. PICK gathered : gathered = GatherArgs(args, request)
    OBVIOUS
  <2>10. /\ did \in IF gathered.kind = "args" THEN {"result", "opaque", "response", "http", "raised"} ELSE {"nothing"}
         /\ answer = [served |-> TRUE, item |-> items[i], request |-> request, ran |-> gathered.kind = "args",
                      did |-> did, response |-> IF gathered.kind = "args" THEN HandlerEnded(items[i], did)
                                                ELSE ArgumentsFailed(items[i], gathered)]
    BY <2>3, <2>5, <2>9 DEF Answered
  <2>11. QED
    BY <2>2, <2>5, <2>6, <2>7, <2>8, <2>9, <2>10, AnswerIs
<1>3. QED
  BY <1>1, <1>2

\* AnswerFits: where arguments are validated, the handler runs with all its arguments or a client
\* is told all that are wrong, and no exception gets out as it is.
THEOREM AnswersFit ==
  ASSUME AllValidated
  PROVE  Spec => []AnswerFits
<1>1. RouterInv => AnswerFits
  BY AnswerHolds
<1>2. QED
  BY <1>1, RouterStays, PTL

-----------------------------------------------------------------------------
(* Documents.                                                              *)

\* What types refer to, one of them refers to.
LEMMA ReachableOf ==
  ASSUME NEW F, NEW t \in Reachable(UNION F)
  PROVE  \E types \in F : t \in Reachable(types)
<1>1. PICK own : own = (UNION F) \cap DOMAIN Struct
  OBVIOUS
<1>2. t \in own \/ \E u \in own : t \in RefersTo[u]
  BY <1>1 DEF Reachable
<1>3. PICK u \in own : t = u \/ t \in RefersTo[u]
  BY <1>2
<1>4. PICK types \in F : u \in types
  BY <1>1, <1>3
<1>5. t \in Reachable(types)
  BY <1>1, <1>3, <1>4 DEF Reachable
<1>6. QED
  BY <1>4, <1>5

\* More types refer to more.
LEMMA ReachableMore ==
  ASSUME NEW S, NEW T, S \subseteq T
  PROVE  Reachable(S) \subseteq Reachable(T)
BY DEF Reachable

\* The types of one of the first entries of a batch are among those of that part of it.
LEMMA TypesOfEntry ==
  ASSUME NEW batch, IsSeq(batch), NEW k \in 1 .. Len(batch), NEW i \in 1 .. k
  PROVE  LET r == Routes[batch[i].route].api
         IN TypesOf(Routes[batch[i].route], batch[i].responses) \subseteq TypesIn(SubSeq(batch, 1, k), r)
<1>1. PICK r, part : r = Routes[batch[i].route].api /\ part = SubSeq(batch, 1, k)
  OBVIOUS
<1>2. Len(batch) \in Nat /\ DOMAIN batch = 1 .. Len(batch) /\ batch \in Seq(ToSet(batch))
  BY SeqIs DEF IsSeq
<1>3. k \in Nat /\ 1 .. k \subseteq 1 .. Len(batch) /\ i \in Nat
  BY <1>2
<1>4. i \in DOMAIN part /\ part[i] = batch[i]
  <2>1. part = [m \in 1 .. k |-> batch[m]]
    BY <1>1, <1>2, <1>3
  <2>2. QED
    BY <2>1
<1>5. batch[i] \in Entries(part, r)
  BY <1>1, <1>4 DEF Entries, ToSet
<1>6. QED
  BY <1>1, <1>5 DEF TypesIn

\* The document of an ApiRouter, and the operation and the schemas it has for each of its routes.
LEMMA DocumentIs ==
  ASSUME NEW batch, BuiltOf(batch), NEW i \in 1 .. Len(batch), Routes[batch[i].route].api # 0
  PROVE  LET r == Routes[batch[i].route].api
             key == Routes[batch[i].route].key
         IN /\ r \in Api /\ key \in DOMAIN documents[r].paths
            /\ documents[r].paths[key] = Operation(Routes[batch[i].route], batch[i].tag, batch[i].responses, auth[r])
            /\ \A t \in Reachable(TypesOf(Routes[batch[i].route], batch[i].responses)) :
                 documents[r].schemas[Struct[t].name] = Component(t)
<1>1. PICK r, key : r = Routes[batch[i].route].api /\ key = Routes[batch[i].route].key
  OBVIOUS
<1>2. /\ IsSeq(batch) /\ Stops(batch) = 0
      /\ documents = [a \in Api |-> Document(batch, a)]
      /\ \A e \in ToSet(batch) : e.route \in DOMAIN Decoration
  BY DEF BuiltOf
<1>3. Len(batch) \in Nat /\ DOMAIN batch = 1 .. Len(batch)
  BY <1>2, SeqIs
<1>4. batch[i] \in Entries(batch, r)
  BY <1>1, <1>3 DEF Entries, ToSet
<1>5. r \in Api /\ r # 0
  <2>1. batch[i].route \in DOMAIN Decoration
    BY <1>2, <1>3 DEF ToSet
  <2>2. Routes[batch[i].route] \in ToSet(Decoration)
    BY <2>1, RoutesAre
  <2>3. QED
    BY <1>1, <2>2, RouterConstants
<1>6. \A k \in 1 .. Len(batch) : ~Unregistered(batch, k) /\ ~Undocumented(batch, k)
  BY <1>2, ItemsAre
<1>7. ASSUME NEW e \in Entries(batch, r), Routes[e.route].key = key
      PROVE  e = batch[i]
  <2>1. PICK j \in 1 .. Len(batch) : e = batch[j]
    BY <1>3 DEF Entries, ToSet
  <2>2. CASE i < j
    <3>1. i \in 1 .. (j - 1)
      BY <1>3, <2>2
    <3>2. QED
      BY <1>1, <1>6, <1>7, <2>1, <3>1 DEF Unregistered
  <2>3. CASE j < i
    <3>1. j \in 1 .. (i - 1)
      BY <1>3, <2>3
    <3>2. QED
      BY <1>1, <1>6, <1>7, <2>1, <3>1 DEF Unregistered
  <2>4. QED
    BY <1>3, <2>1, <2>2, <2>3
<1>8. PICK paths : paths = [name \in {Routes[entry.route].key : entry \in Entries(batch, r)} |->
                             LET entry == CHOOSE entry \in Entries(batch, r) : Routes[entry.route].key = name
                             IN Operation(Routes[entry.route], entry.tag, entry.responses, auth[r])]
  OBVIOUS
<1>9. documents[r].paths = paths /\ documents[r].schemas = Schemas(TypesIn(batch, r))
  <2>1. documents[r] = Document(batch, r)
    BY <1>2, <1>5
  <2>2. QED
    BY <1>8, <2>1 DEF Document
<1>10. key \in DOMAIN paths
  BY <1>1, <1>4, <1>8
<1>11. (CHOOSE entry \in Entries(batch, r) : Routes[entry.route].key = key) = batch[i]
  BY <1>1, <1>4, <1>7
<1>12. paths[key] = Operation(Routes[batch[i].route], batch[i].tag, batch[i].responses, auth[r])
  BY <1>8, <1>10, <1>11
<1>13. ASSUME NEW t \in Reachable(TypesOf(Routes[batch[i].route], batch[i].responses))
       PROVE  documents[r].schemas[Struct[t].name] = Component(t)
  <2>1. PICK types : types = TypesIn(batch, r)
    OBVIOUS
  <2>2. types = UNION {TypesOf(Routes[e.route], e.responses) : e \in Entries(batch, r)}
    BY <2>1 DEF TypesIn
  <2>3. TypesOf(Routes[batch[i].route], batch[i].responses) \subseteq types
    BY <1>4, <2>2
  <2>4. t \in Reachable(types)
    BY <2>3, ReachableMore
  <2>5. PICK u \in Reachable(types) : /\ u = CHOOSE w \in Reachable(types) : Struct[w].name = Struct[t].name
                                      /\ Struct[u].name = Struct[t].name
    BY <2>4
  <2>6. Schemas(types)[Struct[t].name] = Component(u)
    BY <2>4, <2>5 DEF Schemas
  <2>7. PICK some \in {TypesOf(Routes[e.route], e.responses) : e \in Entries(batch, r)} : u \in Reachable(some)
    BY <2>2, <2>5, ReachableOf
  <2>8. PICK e \in Entries(batch, r) : u \in Reachable(TypesOf(Routes[e.route], e.responses))
    BY <2>7
  <2>9. PICK j \in 1 .. Len(batch) : e = batch[j] /\ Routes[batch[j].route].api = r
    BY <1>3 DEF Entries, ToSet
  <2>10. PICK k \in 1 .. Len(batch) : k = IF i < j THEN j ELSE i
    OBVIOUS
  <2>11. i \in 1 .. k /\ j \in 1 .. k
    BY <1>3, <2>10
  <2>12. PICK part : part = TypesIn(SubSeq(batch, 1, k), r)
    OBVIOUS
  <2>13. /\ TypesOf(Routes[batch[i].route], batch[i].responses) \subseteq part
         /\ TypesOf(Routes[batch[j].route], batch[j].responses) \subseteq part
    BY <1>1, <1>2, <2>9, <2>11, <2>12, TypesOfEntry
  <2>14. t \in Reachable(part) /\ u \in Reachable(part)
    BY <2>8, <2>9, <2>13, ReachableMore
  <2>15. ~Collides(part)
    <3>1. Routes[batch[k].route].api = r
      BY <1>1, <2>9, <2>10
    <3>2. QED
      BY <1>5, <1>6, <2>12, <3>1 DEF Undocumented, Undocumentable
  <2>16. Component(u) = Component(t)
    BY <2>5, <2>14, <2>15 DEF Collides
  <2>17. QED
    BY <1>9, <2>1, <2>6, <2>16
<1>14. QED
  BY <1>1, <1>5, <1>9, <1>10, <1>12, <1>13

\* RefsResolve: every schema a document refers to by name is that of the type that was meant.
THEOREM RefsAllResolve == Spec => []RefsResolve
<1>1. ASSUME RouterInv
      PROVE  RefsResolve
  <2>1. SUFFICES ASSUME built, ~failed, NEW i \in DOMAIN items, Routes[items[i].route].api # 0
                 PROVE  /\ Routes[items[i].route].key \in DOMAIN documents[Routes[items[i].route].api].paths
                        /\ \A t \in Reachable(TypesOf(Routes[items[i].route], items[i].responses)) :
                             documents[Routes[items[i].route].api].schemas[Struct[t].name] = Component(t)
    BY DEF RefsResolve
  <2>2. PICK batch : BuiltOf(batch)
    BY <1>1, <2>1 DEF RouterInv
  <2>3. i \in 1 .. Len(batch) /\ items[i] = Item(batch[i]) /\ items[i].route = batch[i].route
    BY <2>1, <2>2, ItemIs
  <2>4. items[i].responses = batch[i].responses
    BY <2>3 DEF Item
  <2>5. QED
    BY <2>1, <2>2, <2>3, <2>4, DocumentIs
<1>2. QED
  BY <1>1, RouterStays, PTL

\* A route of which openapi.json can tell a client what to send: an argument is looked up by its
\* name; a whole path or query is not Optional, needs a field, and has all its fields if it is a
\* path; a body is taken as a whole or by its fields.
Describable(d) ==
  /\ \A k \in DOMAIN d.args :
       LET a == d.args[k]
       IN /\ a.key = a.name
          /\ a.source \in Itemized => ~a.optional /\ Struct[a.type].required # {}
          /\ a.source = "path_items" => Struct[a.type].optional \subseteq d.names
  /\ \A k, m \in DOMAIN d.args : d.args[k].source = "body" => d.args[m].source # "body_key"

AllDescribable == \A d \in ToSet(Decoration) : d.api # 0 => Describable(d)

\* What a request holds at the places of an argument.
LEMMA RequestIs ==
  ASSUME NEW r, NEW request \in Requests(r), NEW k \in DOMAIN r.args, NEW p \in Places(r.args[k])
  PROVE  /\ p \in DOMAIN request /\ request[p] \in Raw
         /\ p[1] = "path" => request[p] \in IF p[2] \in r.names THEN {"good", "bad"} ELSE {"absent"}
<1>1. PICK used : used = UNION {Places(r.args[n]) : n \in DOMAIN r.args}
  OBVIOUS
<1>2. p \in used
  BY <1>1
<1>3. request \in [used -> Raw]
  BY <1>1 DEF Requests
<1>4. p[1] = "path" => request[p] \in IF p[2] \in r.names THEN {"good", "bad"} ELSE {"absent"}
  BY <1>1, <1>2 DEF Requests
<1>5. QED
  BY <1>2, <1>3, <1>4

\* A single value: whether one is required where it is documented, and is there.
Single == {"any", "path", "query", "header", "cookie"}
Where(a, names) == IF a.source # "any" THEN a.source ELSE IF a.name \in names THEN "path" ELSE "query"

\* The places of a single value are where it is documented, and one more without a marker.
LEMMA SinglePlaces ==
  ASSUME NEW a \in Arguments, a.key = a.name, a.source \in Single, NEW names
  PROVE  /\ <<Where(a, names), a.name>> \in Places(a)
         /\ ToSet(SourcesFor(a)) = Places(a)
         /\ a.source # "any" => Places(a) = {<<Where(a, names), a.name>>}
         /\ a.source = "any" => Places(a) = {<<"path", a.name>>, <<"query", a.name>>}
<1>1. ToSet(SourcesFor(a)) = Places(a)
  BY DEF Places, Single, Itemized
<1>2. CASE a.source = "any"
  <2>1. PICK s : s = <<<<"path", a.key>>, <<"query", a.key>>>>
    OBVIOUS
  <2>2. ToSet(s) = {<<"path", a.key>>, <<"query", a.key>>}
    <3>1. DOMAIN s = {1, 2} /\ s[1] = <<"path", a.key>> /\ s[2] = <<"query", a.key>>
      BY <2>1
    <3>2. QED
      BY <3>1 DEF ToSet
  <2>3. SourcesFor(a) = s
    BY <1>2, <2>1 DEF SourcesFor
  <2>4. QED
    BY <1>1, <1>2, <2>2, <2>3 DEF Where
<1>3. CASE a.source # "any"
  <2>1. PICK s : s = <<<<a.source, a.key>>>>
    OBVIOUS
  <2>2. ToSet(s) = {<<a.source, a.key>>}
    <3>1. DOMAIN s = {1} /\ s[1] = <<a.source, a.key>>
      BY <2>1
    <3>2. QED
      BY <3>1 DEF ToSet
  <2>3. SourcesFor(a) = s
    BY <1>3, <2>1 DEF SourcesFor, Single
  <2>4. QED
    BY <1>1, <1>3, <2>2, <2>3 DEF Where
<1>4. QED
  BY <1>2, <1>3

\* It is wrong if nothing is where it is documented and required, and it is right if something good
\* is there.
LEMMA SingleFits ==
  ASSUME NEW r, NEW request \in Requests(r), NEW k \in DOMAIN r.args, NEW a \in Arguments, a = r.args[k],
         a.key = a.name, a.source \in Single, NEW place, place = <<Where(a, r.names), a.name>>
  PROVE  /\ place \in DOMAIN request
         /\ Required(a) /\ request[place] = "absent" => Wrong(a, request)
         /\ (Required(a) => request[place] # "absent") /\ (\A p \in DOMAIN request : request[p] \in {"absent", "good"})
              => ~Wrong(a, request)
<1>1. /\ place \in Places(a) /\ ToSet(SourcesFor(a)) = Places(a)
      /\ a.source # "any" => Places(a) = {place}
      /\ a.source = "any" => Places(a) = {<<"path", a.name>>, <<"query", a.name>>}
  BY SinglePlaces
<1>2. \A p \in Places(a) : p \in DOMAIN request /\ request[p] \in Raw
  BY RequestIs
<1>3. PICK v : v = FirstValue(a, request)
  OBVIOUS
<1>4. Wrong(a, request) <=> \/ v = "bad" /\ (a.meta \/ a.type # "str")
                            \/ (v = "absent" \/ (v = "empty" /\ a.type # "str")) /\ ~a.optional /\ ~a.default
  BY <1>3 DEF Wrong, Single, Itemized
<1>5. \/ v = "absent" /\ \A p \in Places(a) : request[p] = "absent"
      \/ \E p \in Places(a) : request[p] # "absent" /\ v = request[p]
  BY <1>1, <1>3, FirstIs
<1>6. request[place] = "absent" => \A p \in Places(a) : request[p] = "absent"
  <2>1. SUFFICES ASSUME request[place] = "absent", a.source = "any"
                 PROVE  \A p \in Places(a) : request[p] = "absent"
    BY <1>1
  <2>2. PICK path, query : path = <<"path", a.name>> /\ query = <<"query", a.name>>
    OBVIOUS
  <2>3. Places(a) = {path, query} /\ path[1] = "path" /\ path[2] = a.name
    BY <1>1, <2>1, <2>2
  <2>4. place = IF a.name \in r.names THEN path ELSE query
    BY <2>1, <2>2 DEF Where
  <2>5. request[path] \in IF a.name \in r.names THEN {"good", "bad"} ELSE {"absent"}
    <3>1. path \in Places(r.args[k])
      BY <2>3
    <3>2. path[1] = "path" => request[path] \in IF path[2] \in r.names THEN {"good", "bad"} ELSE {"absent"}
      BY <3>1, RequestIs
    <3>3. QED
      BY <2>3, <3>2
  <2>6. a.name \notin r.names
    BY <2>1, <2>4, <2>5
  <2>7. QED
    BY <2>1, <2>3, <2>4, <2>5, <2>6
<1>7. Required(a) <=> ~a.optional /\ ~a.default
  BY DEF Required
<1>8. ASSUME Required(a), request[place] = "absent" PROVE Wrong(a, request)
  BY <1>4, <1>5, <1>6, <1>7, <1>8
<1>9. ASSUME Required(a) => request[place] # "absent", \A p \in DOMAIN request : request[p] \in {"absent", "good"}
      PROVE  ~Wrong(a, request)
  <2>1. v \in {"absent", "good"}
    <3>1. CASE v = "absent"
      BY <3>1
    <3>2. ASSUME NEW p \in Places(a), v = request[p]
          PROVE  v \in {"absent", "good"}
      <4>1. p \in DOMAIN request
        BY <1>2
      <4>2. QED
        BY <1>9, <3>2, <4>1
    <3>3. QED
      BY <1>5, <3>1, <3>2
  <2>2. v = "absent" => ~Required(a)
    BY <1>1, <1>5, <1>9
  <2>3. QED
    BY <1>4, <1>7, <2>1, <2>2
<1>10. place \in DOMAIN request
  BY <1>1, <1>2
<1>11. QED
  BY <1>8, <1>9, <1>10

\* A field of the body.
LEMMA FieldFits ==
  ASSUME NEW r, NEW request \in Requests(r), NEW k \in DOMAIN r.args, NEW a \in Arguments, a = r.args[k],
         a.key = a.name, a.source = "body_key", NEW place, place = <<"body_key", a.name>>
  PROVE  /\ place \in DOMAIN request
         /\ Required(a) /\ request[place] = "absent" => Wrong(a, request)
         /\ (Required(a) => request[place] # "absent") /\ (\A p \in DOMAIN request : request[p] \in {"absent", "good"})
              => ~Wrong(a, request)
<1>1. Places(a) = {Body, place}
  BY DEF Places, Itemized
<1>2. Body \in DOMAIN request /\ place \in DOMAIN request
  BY <1>1, RequestIs
<1>3. ToSet(SourcesFor(a)) = {place}
  <2>1. PICK s : s = <<place>>
    OBVIOUS
  <2>2. DOMAIN s = {1} /\ s[1] = place
    BY <2>1
  <2>3. SourcesFor(a) = s
    BY <2>1 DEF SourcesFor
  <2>4. QED
    BY <2>2, <2>3 DEF ToSet
<1>4. PICK v : v = FirstValue(a, request)
  OBVIOUS
<1>5. v = request[place]
  BY <1>3, <1>4, FirstIs
<1>6. Wrong(a, request) <=> \/ request[Body] = "bad"
                            \/ v = "bad" /\ (a.meta \/ a.type # "str")
                            \/ (v = "absent" \/ (v = "empty" /\ a.type # "str")) /\ ~a.optional /\ ~a.default
  BY <1>4 DEF Wrong, Itemized
<1>7. QED
  BY <1>2, <1>5, <1>6 DEF Required

\* A whole path or query.
LEMMA WholeFits ==
  ASSUME NEW r, NEW request \in Requests(r), NEW k \in DOMAIN r.args, NEW a \in Arguments, a = r.args[k],
         a.source \in Itemized, ~a.optional, Struct[a.type].required # {},
         a.source = "path_items" => Struct[a.type].optional \subseteq r.names
  PROVE  /\ \A f \in Fields(a.type) : <<PartOf(a.source), f>> \in DOMAIN request
         /\ (\E f \in Fields(a.type) : /\ a.source = "path_items" \/ f \in Struct[a.type].required
                                       /\ request[<<PartOf(a.source), f>>] = "absent") => Wrong(a, request)
         /\ /\ \A f \in Struct[a.type].required : request[<<PartOf(a.source), f>>] # "absent"
            /\ \A p \in DOMAIN request : request[p] \in {"absent", "good"}
            => ~Wrong(a, request)
<1>1. PICK part, required, optional : /\ part = PartOf(a.source) /\ required = Struct[a.type].required
                                      /\ optional = Struct[a.type].optional
  OBVIOUS
<1>2. Fields(a.type) = required \cup optional
  BY <1>1 DEF Fields
<1>3. \A f \in Fields(a.type) : <<part, f>> \in Places(a)
  BY <1>1 DEF Places, Itemized
<1>4. ASSUME NEW f \in Fields(a.type)
      PROVE  /\ <<part, f>> \in DOMAIN request
             /\ part = "path" /\ f \in r.names => request[<<part, f>>] # "absent"
  <2>1. PICK p : p = <<part, f>>
    OBVIOUS
  <2>2. p[1] = part /\ p[2] = f
    BY <2>1
  <2>3. p \in Places(r.args[k])
    BY <1>3, <2>1
  <2>4. p \in DOMAIN request /\ (p[1] = "path" => request[p] \in IF p[2] \in r.names THEN {"good", "bad"} ELSE {"absent"})
    BY <2>3, RequestIs
  <2>5. part = "path" /\ f \in r.names => request[p] \in {"good", "bad"}
    BY <2>2, <2>4
  <2>6. QED
    BY <2>1, <2>4, <2>5
<1>5. PICK there : there = {f \in Fields(a.type) : request[<<part, f>>] # "absent"}
  OBVIOUS
<1>6. Wrong(a, request) <=> ~(required \subseteq there) \/ \E f \in there : request[<<part, f>>] # "good"
  <2>1. there = {f \in Fields(a.type) : request[<<PartOf(a.source), f>>] # "absent"}
    BY <1>1, <1>5
  <2>2. Wrong(a, request) <=> IF there = {} THEN ~a.optional
                              ELSE \/ ~(Struct[a.type].required \subseteq there)
                                   \/ \E f \in there : request[<<PartOf(a.source), f>>] # "good"
    BY <2>1 DEF Wrong, Itemized
  <2>3. QED
    BY <1>1, <2>2
<1>7. ASSUME NEW f \in Fields(a.type), a.source = "path_items" \/ f \in required, request[<<part, f>>] = "absent"
      PROVE  Wrong(a, request)
  <2>1. CASE f \in required
    BY <1>5, <1>6, <1>7, <2>1
  <2>2. CASE f \notin required
    <3>1. a.source = "path_items" /\ f \in r.names
      BY <1>1, <1>2, <1>7, <2>2
    <3>2. part = "path"
      BY <1>1, <3>1 DEF PartOf
    <3>3. request[<<part, f>>] # "absent"
      BY <1>4, <3>1, <3>2
    <3>4. QED
      BY <1>7, <3>3
  <2>3. QED
    BY <2>1, <2>2
<1>8. ASSUME \A f \in required : request[<<part, f>>] # "absent",
             \A p \in DOMAIN request : request[p] \in {"absent", "good"}
      PROVE  ~Wrong(a, request)
  <2>1. required \subseteq there /\ there # {}
    BY <1>1, <1>2, <1>5, <1>8
  <2>2. ASSUME NEW f \in there PROVE request[<<part, f>>] = "good"
    <3>1. <<part, f>> \in DOMAIN request /\ request[<<part, f>>] # "absent"
      BY <1>4, <1>5
    <3>2. QED
      BY <1>8, <3>1
  <2>3. QED
    BY <1>6, <2>1, <2>2
<1>9. \A f \in Fields(a.type) : <<PartOf(a.source), f>> \in DOMAIN request
  BY <1>1, <1>4
<1>10. (\E f \in Fields(a.type) : /\ a.source = "path_items" \/ f \in Struct[a.type].required
                                  /\ request[<<PartOf(a.source), f>>] = "absent") => Wrong(a, request)
  BY <1>1, <1>7
<1>11. /\ \A f \in Struct[a.type].required : request[<<PartOf(a.source), f>>] # "absent"
       /\ \A p \in DOMAIN request : request[p] \in {"absent", "good"}
       => ~Wrong(a, request)
  BY <1>1, <1>8
<1>12. QED
  BY <1>9, <1>10, <1>11

\* Numbers up to a bound have a greatest one.
LEMMA GreatestNat ==
  ASSUME NEW n \in Nat, NEW I \in SUBSET (1 .. n), I # {}
  PROVE  Max(I) \in I /\ \A y \in I : Max(I) >= y
<1>1. PICK J : J = {n - i : i \in I}
  OBVIOUS
<1>2. J \in SUBSET Nat /\ J # {}
  <2>1. \A i \in I : n - i \in Nat
    OBVIOUS
  <2>2. QED
    BY <1>1, <2>1
<1>3. Min(J) \in J /\ \A y \in J : Min(J) <= y
  BY <1>2, LeastNat
<1>4. PICK m \in I : Min(J) = n - m
  BY <1>1, <1>3
<1>5. \A i \in I : n - m <= n - i
  BY <1>1, <1>3, <1>4
<1>6. \A i \in I : m >= i
  <2>1. SUFFICES ASSUME NEW i \in I PROVE m >= i
    OBVIOUS
  <2>2. m \in Nat /\ i \in Nat /\ n - m <= n - i
    BY <1>5
  <2>3. QED
    BY <2>2
<1>7. QED
  BY <1>6 DEF Max

\* The body of an operation.
LEMMA RequestBodyIs ==
  ASSUME NEW args \in Seq(Arguments)
  PROVE  LET body == RequestBody(args)
         IN /\ body.kind = "whole" <=> \E k \in DOMAIN args : args[k].source = "body"
            /\ body.kind = "fields" =>
                 body.required = {a.name : a \in {a \in ToSet(args) : a.source = "body_key" /\ Required(a)}}
            /\ body.kind \notin {"whole", "fields"} => \A k \in DOMAIN args : args[k].source # "body_key"
<1>1. PICK whole, fields : /\ whole = SelectLastInSeq(args, LAMBDA a : a.source = "body")
                           /\ fields = {a \in Documented(args) : a.source = "body_key"}
  OBVIOUS
<1>2. PICK body : body = RequestBody(args)
  OBVIOUS
<1>3. Len(args) \in Nat /\ DOMAIN args = 1 .. Len(args)
  OBVIOUS
<1>4. PICK I : I = {i \in 1 .. Len(args) : args[i].source = "body"}
  OBVIOUS
<1>5. whole = IF I # {} THEN Max(I) ELSE 0
  BY <1>1, <1>4 DEF SelectLastInSeq
<1>6. I # {} => Max(I) \in 1 .. Len(args)
  BY <1>3, <1>4, GreatestNat
<1>7. whole # 0 <=> \E k \in DOMAIN args : args[k].source = "body"
  BY <1>3, <1>4, <1>5, <1>6
<1>8. fields = {a \in ToSet(args) : a.source = "body_key"}
  BY <1>1 DEF Documented
<1>9. CASE whole # 0
  <2>1. body = [kind |-> "whole", type |-> args[whole].type]
    BY <1>1, <1>2, <1>9 DEF RequestBody
  <2>2. body.kind = "whole"
    BY <2>1
  <2>3. QED
    BY <1>2, <1>7, <1>9, <2>2
<1>10. CASE whole = 0 /\ fields # {}
  <2>1. body = [kind |-> "fields", properties |-> {a.name : a \in fields},
                required |-> {a.name : a \in {a \in fields : Required(a)}}]
    BY <1>1, <1>2, <1>10 DEF RequestBody
  <2>2. body.kind = "fields" /\ body.required = {a.name : a \in {a \in fields : Required(a)}}
    BY <2>1
  <2>3. {a \in fields : Required(a)} = {a \in ToSet(args) : a.source = "body_key" /\ Required(a)}
    BY <1>8
  <2>4. QED
    BY <1>2, <1>7, <1>10, <2>2, <2>3
<1>11. CASE whole = 0 /\ fields = {}
  <2>1. body = [kind |-> "none"]
    BY <1>1, <1>2, <1>11 DEF RequestBody
  <2>2. body.kind = "none"
    BY <2>1
  <2>3. \A k \in DOMAIN args : args[k].source # "body_key"
    BY <1>8, <1>11 DEF ToSet
  <2>4. QED
    BY <1>2, <1>7, <1>11, <2>2, <2>3
<1>12. QED
  BY <1>9, <1>10, <1>11

\* The places of the parameters an operation requires.
RequiredIn(args, names) == {<<p.in, p.name>> : p \in {p \in Parameters(args, names) : p.required}}

LEMMA RequiredAre ==
  ASSUME NEW args \in Seq(Arguments), NEW names
  PROVE  RequiredIn(args, names) =
           {<<Where(a, names), a.name>> : a \in {a \in ToSet(args) : a.source \in Single /\ Required(a)}}
           \cup UNION {{<<PartOf(a.source), f>> :
                        f \in {f \in Fields(a.type) : a.source = "path_items" \/ f \in Struct[a.type].required}} :
                       a \in {a \in ToSet(args) : a.source \in Itemized}}
<1>1. PICK single, whole : /\ single = {a \in ToSet(args) : a.source \in Single}
                           /\ whole = {a \in ToSet(args) : a.source \in Itemized}
  OBVIOUS
<1>2. /\ {a \in Documented(args) : a.source \in {"any", "path", "query", "header", "cookie"}} = single
      /\ {a \in Documented(args) : a.source \in Itemized} = whole
  BY <1>1 DEF Documented, Single, Itemized
<1>3. PICK parameters : parameters = Parameters(args, names)
  OBVIOUS
<1>4. PICK ones : ones = {[name |-> a.name, in |-> Where(a, names), required |-> Required(a)] : a \in single}
  OBVIOUS
<1>5. PICK parts : parts = UNION {{[name |-> f, in |-> PartOf(a.source),
                                   required |-> a.source = "path_items" \/ f \in Struct[a.type].required] :
                                  f \in Fields(a.type)} : a \in whole}
  OBVIOUS
<1>6. parameters = ones \cup parts
  BY <1>2, <1>3, <1>4, <1>5 DEF Parameters, Where
<1>7. {<<p.in, p.name>> : p \in {p \in ones : p.required}}
      = {<<Where(a, names), a.name>> : a \in {a \in single : Required(a)}}
  <2>1. ASSUME NEW p \in ones, p.required
        PROVE  \E a \in {a \in single : Required(a)} : <<p.in, p.name>> = <<Where(a, names), a.name>>
    BY <1>4, <2>1
  <2>2. ASSUME NEW a \in single, Required(a)
        PROVE  \E p \in {p \in ones : p.required} : <<p.in, p.name>> = <<Where(a, names), a.name>>
    <3>1. PICK p : p = [name |-> a.name, in |-> Where(a, names), required |-> Required(a)]
      OBVIOUS
    <3>2. p \in ones
      BY <1>4, <3>1
    <3>3. p.required /\ p.in = Where(a, names) /\ p.name = a.name
      BY <2>2, <3>1
    <3>4. QED
      BY <3>2, <3>3
  <2>3. QED
    BY <2>1, <2>2
<1>8. PICK fields : fields = UNION {{<<PartOf(a.source), f>> :
                       f \in {f \in Fields(a.type) : a.source = "path_items" \/ f \in Struct[a.type].required}} :
                      a \in whole}
  OBVIOUS
<1>9. {<<p.in, p.name>> : p \in {p \in parts : p.required}} = fields
  <2>1. ASSUME NEW p \in parts, p.required PROVE <<p.in, p.name>> \in fields
    <3>1. PICK a \in whole : p \in {[name |-> f, in |-> PartOf(a.source),
                                    required |-> a.source = "path_items" \/ f \in Struct[a.type].required] :
                                   f \in Fields(a.type)}
      BY <1>5
    <3>2. PICK f \in Fields(a.type) : p = [name |-> f, in |-> PartOf(a.source),
                                          required |-> a.source = "path_items" \/ f \in Struct[a.type].required]
      BY <3>1
    <3>3. p.in = PartOf(a.source) /\ p.name = f /\ (a.source = "path_items" \/ f \in Struct[a.type].required)
      BY <2>1, <3>2
    <3>4. QED
      BY <1>8, <3>3
  <2>2. ASSUME NEW a \in whole, NEW f \in Fields(a.type), a.source = "path_items" \/ f \in Struct[a.type].required
        PROVE  \E p \in {p \in parts : p.required} : <<p.in, p.name>> = <<PartOf(a.source), f>>
    <3>1. PICK p : p = [name |-> f, in |-> PartOf(a.source),
                       required |-> a.source = "path_items" \/ f \in Struct[a.type].required]
      OBVIOUS
    <3>2. p \in parts
      <4>1. PICK inner : inner = {[name |-> g, in |-> PartOf(a.source),
                                  required |-> a.source = "path_items" \/ g \in Struct[a.type].required] :
                                 g \in Fields(a.type)}
        OBVIOUS
      <4>2. p \in inner
        BY <3>1, <4>1
      <4>3. inner \subseteq parts
        BY <1>5, <4>1
      <4>4. QED
        BY <4>2, <4>3
    <3>3. p.required /\ p.in = PartOf(a.source) /\ p.name = f
      BY <2>2, <3>1
    <3>4. QED
      BY <3>2, <3>3
  <2>3. \A place \in fields : place \in {<<p.in, p.name>> : p \in {p \in parts : p.required}}
    BY <1>8, <2>2
  <2>4. QED
    BY <2>1, <2>3
<1>10. RequiredIn(args, names) = {<<p.in, p.name>> : p \in {p \in ones : p.required}}
                                 \cup {<<p.in, p.name>> : p \in {p \in parts : p.required}}
  BY <1>3, <1>6 DEF RequiredIn
<1>11. QED
  BY <1>1, <1>7, <1>8, <1>9, <1>10

\* What openapi.json tells of the route served last.
LEMMA ToldIs ==
  ASSUME RouterInv, built, ~failed, NEW i \in DOMAIN items, answer.item = items[i],
         Routes[items[i].route].api # 0
  PROVE  LET r == Routes[items[i].route]
         IN /\ r \in ToSet(Decoration)
            /\ Told.parameters = Parameters(r.args, r.names)
            /\ Told.body = RequestBody(r.args)
            /\ {200, 400, 500} \subseteq DOMAIN Told.responses
<1>1. PICK r, api : r = Routes[items[i].route] /\ api = r.api
  OBVIOUS
<1>2. PICK batch : BuiltOf(batch)
  BY DEF RouterInv
<1>3. /\ i \in 1 .. Len(batch) /\ items[i] = Item(batch[i]) /\ items[i].route = batch[i].route
      /\ batch[i].route \in DOMAIN Decoration
  BY <1>2, ItemIs
<1>4. r \in ToSet(Decoration)
  BY <1>1, <1>3, RoutesAre
<1>5. PICK tag, responses : tag = batch[i].tag /\ responses = batch[i].responses
  OBVIOUS
<1>6. Told = Operation(r, tag, responses, auth[api])
  <2>1. documents[api].paths[r.key] = Operation(r, tag, responses, auth[api])
    BY <1>1, <1>2, <1>3, <1>5, DocumentIs
  <2>2. Told = documents[api].paths[r.key]
    BY <1>1 DEF Told
  <2>3. QED
    BY <2>1, <2>2
<1>7. /\ Told.parameters = Parameters(r.args, r.names) /\ Told.body = RequestBody(r.args)
      /\ Told.responses = Responses(r, responses)
  <2>1. PICK operation : operation = Operation(r, tag, responses, auth[api])
    OBVIOUS
  <2>2. /\ operation.parameters = Parameters(r.args, r.names) /\ operation.body = RequestBody(r.args)
        /\ operation.responses = Responses(r, responses)
    BY <2>1 DEF Operation
  <2>3. QED
    BY <1>6, <2>1, <2>2
<1>8. {200, 400, 500} \subseteq DOMAIN Responses(r, responses)
  <2>1. PICK own, errors : own = [code \in {200} |-> r.result] /\ errors = Over(ErrorTypes, own)
    OBVIOUS
  <2>2. DOMAIN ErrorTypes = {400, 500} /\ DOMAIN own = {200}
    BY <2>1 DEF ErrorTypes
  <2>3. DOMAIN errors = {400, 500} \cup {200}
    BY <2>1, <2>2 DEF Over
  <2>4. Responses(r, responses) = Over(responses, errors)
    BY <2>1 DEF Responses
  <2>5. DOMAIN Responses(r, responses) = DOMAIN responses \cup DOMAIN errors
    BY <2>4 DEF Over
  <2>6. QED
    BY <2>3, <2>5
<1>9. QED
  BY <1>1, <1>4, <1>7, <1>8

\* The places openapi.json requires, and the arguments that are there for them.
DocumentedPlaces(r) ==
  RequiredIn(r.args, r.names)
  \cup (IF RequestBody(r.args).kind = "fields" THEN {"body_key"} \X RequestBody(r.args).required ELSE {})

LEMMA RequestFits ==
  ASSUME NEW r, Describable(r), r.args \in Seq(Arguments), NEW request \in Requests(r),
         \A k \in DOMAIN r.args : r.args[k].source # "bare"
  PROVE  /\ \A p \in DocumentedPlaces(r) : p \in DOMAIN request
         /\ (\E p \in DocumentedPlaces(r) : request[p] = "absent") => WrongIn(r.args, request) # {}
         /\ /\ \A p \in DocumentedPlaces(r) : request[p] # "absent"
            /\ RequestBody(r.args).kind = "whole" => Body \in DOMAIN request /\ request[Body] # "absent"
            /\ \A p \in DOMAIN request : request[p] \in {"absent", "good"}
            => WrongIn(r.args, request) = {}
<1>1. PICK args, names : args = r.args /\ names = r.names
  OBVIOUS
<1>2. PICK body : body = RequestBody(r.args)
  OBVIOUS
<1>3. PICK places : /\ places = DocumentedPlaces(r)
                    /\ places = RequiredIn(r.args, r.names)
                                \cup (IF body.kind = "fields" THEN {"body_key"} \X body.required ELSE {})
  BY <1>2 DEF DocumentedPlaces
<1>4. \A k \in DOMAIN args : args[k] \in Arguments /\ args[k] \in ToSet(args)
  BY <1>1 DEF ToSet
<1>5. \A a \in ToSet(args) : \E k \in DOMAIN args : a = args[k]
  BY DEF ToSet
<1>6. ASSUME NEW k \in DOMAIN args, args[k].source \in Single
      PROVE  LET a == args[k]
                 p == <<Where(a, names), a.name>>
             IN /\ p \in DOMAIN request
                /\ Required(a) /\ request[p] = "absent" => Wrong(a, request)
                /\ (Required(a) => request[p] # "absent") /\ (\A q \in DOMAIN request : request[q] \in {"absent", "good"})
                     => ~Wrong(a, request)
                /\ Required(a) => p \in places
  <2>1. PICK a : a = args[k]
    OBVIOUS
  <2>2. PICK p : p = <<Where(a, names), a.name>>
    OBVIOUS
  <2>3. a \in Arguments /\ a \in ToSet(args) /\ a.source \in Single /\ a.key = a.name
    BY <1>1, <1>4, <1>6, <2>1 DEF Describable
  <2>4. Required(a) => p \in places
    <3>1. Required(a) => p \in {<<Where(b, names), b.name>> : b \in {b \in ToSet(args) : b.source \in Single /\ Required(b)}}
      BY <2>2, <2>3
    <3>2. QED
      BY <1>1, <1>2, <1>3, <3>1, RequiredAre
  <2>5. QED
    BY <1>1, <2>1, <2>2, <2>3, <2>4, SingleFits
<1>7. ASSUME NEW k \in DOMAIN args, args[k].source \in Itemized
      PROVE  LET a == args[k]
             IN /\ \A f \in Fields(a.type) : <<PartOf(a.source), f>> \in DOMAIN request
                /\ (\E f \in Fields(a.type) : /\ a.source = "path_items" \/ f \in Struct[a.type].required
                                              /\ request[<<PartOf(a.source), f>>] = "absent") => Wrong(a, request)
                /\ /\ \A f \in Struct[a.type].required : request[<<PartOf(a.source), f>>] # "absent"
                   /\ \A p \in DOMAIN request : request[p] \in {"absent", "good"}
                   => ~Wrong(a, request)
                /\ \A f \in Struct[a.type].required : <<PartOf(a.source), f>> \in places
  <2>1. PICK a : a = args[k]
    OBVIOUS
  <2>2. /\ a \in Arguments /\ a \in ToSet(args) /\ a.source \in Itemized /\ ~a.optional
        /\ Struct[a.type].required # {} /\ (a.source = "path_items" => Struct[a.type].optional \subseteq names)
    BY <1>1, <1>4, <1>7, <2>1 DEF Describable
  <2>3. ASSUME NEW f \in Struct[a.type].required PROVE <<PartOf(a.source), f>> \in places
    <3>1. f \in {g \in Fields(a.type) : a.source = "path_items" \/ g \in Struct[a.type].required}
      BY DEF Fields
    <3>2. PICK inner : inner = {<<PartOf(a.source), g>> :
                               g \in {g \in Fields(a.type) : a.source = "path_items" \/ g \in Struct[a.type].required}}
      OBVIOUS
    <3>3. <<PartOf(a.source), f>> \in inner
      BY <3>1, <3>2
    <3>4. inner \in {{<<PartOf(b.source), g>> :
                       g \in {g \in Fields(b.type) : b.source = "path_items" \/ g \in Struct[b.type].required}} :
                      b \in {b \in ToSet(args) : b.source \in Itemized}}
      BY <2>2, <3>2
    <3>5. inner \subseteq RequiredIn(args, names)
      BY <1>1, <3>4, RequiredAre
    <3>6. QED
      BY <1>1, <1>2, <1>3, <3>3, <3>5
  <2>4. /\ k \in DOMAIN r.args /\ a \in Arguments /\ a = r.args[k] /\ a.source \in Itemized /\ ~a.optional
        /\ Struct[a.type].required # {} /\ (a.source = "path_items" => Struct[a.type].optional \subseteq r.names)
    BY <1>1, <2>1, <2>2
  <2>5. \A f \in Fields(a.type) : <<PartOf(a.source), f>> \in DOMAIN request
    BY <2>4, WholeFits
  <2>6. (\E f \in Fields(a.type) : /\ a.source = "path_items" \/ f \in Struct[a.type].required
                                  /\ request[<<PartOf(a.source), f>>] = "absent") => Wrong(a, request)
    BY <2>4, WholeFits
  <2>7. /\ \A f \in Struct[a.type].required : request[<<PartOf(a.source), f>>] # "absent"
        /\ \A p \in DOMAIN request : request[p] \in {"absent", "good"}
        => ~Wrong(a, request)
    <3>1. SUFFICES ASSUME \A f \in Struct[a.type].required : request[<<PartOf(a.source), f>>] # "absent",
                          \A p \in DOMAIN request : request[p] \in {"absent", "good"}
                   PROVE  ~Wrong(a, request)
      OBVIOUS
    <3>2. QED
      BY <2>4, <3>1, WholeFits
  <2>8. QED
    BY <2>1, <2>3, <2>5, <2>6, <2>7
<1>8. ASSUME NEW k \in DOMAIN args, args[k].source = "body_key"
      PROVE  LET a == args[k]
                 p == <<"body_key", a.name>>
             IN /\ p \in DOMAIN request
                /\ Required(a) /\ request[p] = "absent" => Wrong(a, request)
                /\ (Required(a) => request[p] # "absent") /\ (\A q \in DOMAIN request : request[q] \in {"absent", "good"})
                     => ~Wrong(a, request)
                /\ Required(a) => p \in places
  <2>1. PICK a : a = args[k]
    OBVIOUS
  <2>2. PICK p : p = <<"body_key", a.name>>
    OBVIOUS
  <2>3. a \in Arguments /\ a \in ToSet(args) /\ a.source = "body_key" /\ a.key = a.name
    BY <1>1, <1>4, <1>8, <2>1 DEF Describable
  <2>4. Required(a) => p \in places
    <3>1. body.kind # "whole"
      BY <1>1, <1>2, <1>3, <1>8, RequestBodyIs DEF Describable
    <3>2. body.kind = "fields"
      BY <1>1, <1>2, <1>3, <1>8, <3>1, RequestBodyIs
    <3>3. Required(a) => a.name \in body.required
      BY <1>1, <1>2, <1>3, <2>3, <3>2, RequestBodyIs
    <3>4. QED
      BY <1>3, <2>2, <3>2, <3>3
  <2>5. QED
    BY <1>1, <2>1, <2>2, <2>3, <2>4, FieldFits
<1>9. ASSUME NEW p \in places
      PROVE  p \in DOMAIN request /\ (request[p] = "absent" => WrongIn(args, request) # {})
  <2>1. \A k \in DOMAIN args : args[k].source # "inject" /\ Wrong(args[k], request) => k \in WrongIn(args, request)
    BY DEF WrongIn
  <2>2. CASE p \in {<<Where(a, names), a.name>> : a \in {a \in ToSet(args) : a.source \in Single /\ Required(a)}}
    <3>1. PICK a \in ToSet(args) : a.source \in Single /\ Required(a) /\ p = <<Where(a, names), a.name>>
      BY <2>2
    <3>2. PICK k \in DOMAIN args : a = args[k]
      BY <1>5
    <3>3. a.source # "inject"
      BY <3>1 DEF Single
    <3>4. QED
      BY <1>6, <2>1, <3>1, <3>2, <3>3
  <2>3. CASE p \in UNION {{<<PartOf(a.source), f>> :
                           f \in {f \in Fields(a.type) : a.source = "path_items" \/ f \in Struct[a.type].required}} :
                          a \in {a \in ToSet(args) : a.source \in Itemized}}
    <3>1. PICK a \in {a \in ToSet(args) : a.source \in Itemized} :
                 p \in {<<PartOf(a.source), f>> :
                        f \in {f \in Fields(a.type) : a.source = "path_items" \/ f \in Struct[a.type].required}}
      BY <2>3
    <3>2. PICK f \in Fields(a.type) : /\ a.source = "path_items" \/ f \in Struct[a.type].required
                                      /\ p = <<PartOf(a.source), f>>
      BY <3>1
    <3>3. PICK k \in DOMAIN args : a = args[k]
      BY <1>5, <3>1
    <3>4. a.source # "inject" /\ a.source \in Itemized
      BY <3>1 DEF Itemized
    <3>5. QED
      BY <1>7, <2>1, <3>2, <3>3, <3>4
  <2>4. CASE body.kind = "fields" /\ p \in {"body_key"} \X body.required
    <3>1. PICK name \in body.required : p = <<"body_key", name>>
      BY <2>4
    <3>2. PICK a \in ToSet(args) : a.source = "body_key" /\ Required(a) /\ a.name = name
      BY <1>1, <1>2, <1>3, <2>4, <3>1, RequestBodyIs
    <3>3. PICK k \in DOMAIN args : a = args[k]
      BY <1>5
    <3>4. QED
      BY <1>8, <2>1, <3>1, <3>2, <3>3
  <2>5. p \in RequiredIn(args, names) \/ (body.kind = "fields" /\ p \in {"body_key"} \X body.required)
    BY <1>1, <1>2, <1>3
  <2>6. QED
    BY <1>1, <2>2, <2>3, <2>4, <2>5, RequiredAre
<1>10. ASSUME \A p \in places : request[p] # "absent",
             body.kind = "whole" => Body \in DOMAIN request /\ request[Body] # "absent",
             \A p \in DOMAIN request : request[p] \in {"absent", "good"},
             NEW k \in DOMAIN args, args[k].source # "inject"
      PROVE  ~Wrong(args[k], request)
  <2>1. PICK a : a = args[k]
    OBVIOUS
  <2>2. CASE a.source \in Single
    BY <1>6, <1>10, <2>1, <2>2
  <2>3. CASE a.source \in Itemized
    BY <1>7, <1>10, <2>1, <2>3
  <2>4. CASE a.source = "body_key"
    BY <1>8, <1>10, <2>1, <2>4
  <2>5. CASE a.source = "body"
    <3>1. body.kind = "whole"
      BY <1>1, <1>2, <1>3, <2>1, <2>5, RequestBodyIs
    <3>2. request[Body] = "good"
      BY <1>10, <3>1
    <3>3. Wrong(a, request) <=> a.type # "bytes" /\ (request[Body] = "bad" \/ (request[Body] # "good" /\ ~a.optional))
      BY <2>5 DEF Wrong, Itemized
    <3>4. QED
      BY <2>1, <3>2, <3>3
  <2>6. a.source \in Sources /\ a.source \notin {"bare", "inject"}
    BY <1>1, <1>4, <1>10, <2>1 DEF Arguments
  <2>7. QED
    BY <2>1, <2>2, <2>3, <2>4, <2>5, <2>6 DEF Sources, Single, Itemized
<1>11. QED
  BY <1>1, <1>2, <1>3, <1>9, <1>10 DEF WrongIn

\* What a request that an API route answers holds: its services are there.
LEMMA NoneBroken ==
  ASSUME NEW r, r.args \in Seq(Arguments), NEW request \in Requests(r),
         \A p \in DOMAIN request : p[1] = "inject" => request[p] = "good"
  PROVE  BrokenIn(r.args, request) = {}
<1>1. SUFFICES ASSUME NEW k \in DOMAIN r.args, r.args[k].source = "inject"
               PROVE  FirstValue(r.args[k], request) = "good"
  BY DEF BrokenIn
<1>2. PICK a, place : a = r.args[k] /\ place = <<"inject", a.key>>
  OBVIOUS
<1>3. ToSet(SourcesFor(a)) = {place} /\ Places(a) = {place}
  <2>1. PICK s : s = <<place>>
    OBVIOUS
  <2>2. DOMAIN s = {1} /\ s[1] = place
    BY <2>1
  <2>3. SourcesFor(a) = s
    BY <1>1, <1>2, <2>1 DEF SourcesFor
  <2>4. ToSet(SourcesFor(a)) = {place}
    BY <2>2, <2>3 DEF ToSet
  <2>5. QED
    BY <1>1, <1>2, <2>4 DEF Places, Itemized
<1>4. place \in DOMAIN request
  BY <1>2, <1>3, RequestIs
<1>5. place[1] = "inject"
  BY <1>2
<1>6. request[place] = "good"
  BY <1>4, <1>5
<1>7. QED
  BY <1>2, <1>3, <1>6, FirstIs

\* The status of what a handler of an API route returned or raised.
LEMMA StatusIs ==
  ASSUME NEW it, it.hooks.error \in Hook, Routes[it.route].api # 0, NEW did \in {"result", "opaque", "raised"}
  PROVE  HandlerEnded(it, did).status \in {200, 500}
<1>1. PICK text : text = "Internal Server Error"
  OBVIOUS
<1>2. Response(500, "envelope").status = 500 /\ Response(500, text).status = 500 /\ Escapes.status = 500
  BY DEF Response, Escapes
<1>3. CASE did = "raised"
  <2>1. UnexpectedError(it) = Response(500, "envelope") \/ UnexpectedError(it) = Escapes
        \/ UnexpectedError(it) = Response(500, text)
    BY <1>1 DEF UnexpectedError, Hook
  <2>2. HandlerEnded(it, did) = UnexpectedError(it)
    BY <1>3 DEF HandlerEnded
  <2>3. QED
    BY <1>2, <2>1, <2>2
<1>4. CASE did \in {"result", "opaque"}
  <2>1. HandlerEnded(it, did) = Escapes \/ HandlerEnded(it, did) = EncodeResponse(it, did)
    BY <1>4 DEF HandlerEnded
  <2>2. \/ EncodeResponse(it, did) = Escapes
        \/ EncodeResponse(it, did) = Response(200, "enveloped")
        \/ EncodeResponse(it, did) = Response(200, "result")
    BY <1>4 DEF EncodeResponse
  <2>3. Response(200, "enveloped").status = 200 /\ Response(200, "result").status = 200
    BY DEF Response
  <2>4. QED
    BY <1>2, <2>1, <2>2, <2>3
<1>5. QED
  BY <1>3, <1>4

\* The document and the answer of every state.
LEMMA DocumentHolds ==
  ASSUME AllValidated, AllDescribable, RouterInv
  PROVE  DocumentFits
<1>1. SUFFICES ASSUME answer.served, Routes[answer.item.route].api # 0, ServiceThere
      PROVE  /\ (\E p \in RequiredPlaces : ~Sent(p)) => answer.response.status = 400
             /\ /\ \A p \in RequiredPlaces \cup (IF Told.body.kind = "whole" THEN {Body} ELSE {}) : Sent(p)
                /\ \A p \in DOMAIN answer.request : answer.request[p] \in {"absent", "good"}
                => answer.ran
             /\ answer.did \notin {"http", "response"} => answer.response.status \in DOMAIN Told.responses
  BY DEF DocumentFits
<1>2. answer # NoAnswer
  BY <1>1 DEF NoAnswer
<1>3. PICK i \in DOMAIN items : \E request \in Requests(Routes[items[i].route]) : \E did : Answered(i, request, did)
  BY <1>2 DEF RouterInv
<1>4. PICK request \in Requests(Routes[items[i].route]) : \E did : Answered(i, request, did)
  BY <1>3
<1>5. PICK did : Answered(i, request, did)
  BY <1>4
<1>6. built /\ ~failed
  BY <1>2 DEF RouterInv
<1>7. PICK r : r = Routes[items[i].route]
  OBVIOUS
<1>8. PICK gathered : gathered = GatherArgs(r.args, request)
  OBVIOUS
<1>9. /\ answer.item = items[i] /\ answer.request = request /\ answer.did = did
      /\ answer.ran = (gathered.kind = "args")
      /\ gathered.kind = "args" => answer.response = HandlerEnded(items[i], did)
      /\ did \in IF gathered.kind = "args" THEN {"result", "opaque", "response", "http", "raised"} ELSE {"nothing"}
  <2>1. answer = [served |-> TRUE, item |-> items[i], request |-> request, ran |-> gathered.kind = "args",
                  did |-> did, response |-> IF gathered.kind = "args" THEN HandlerEnded(items[i], did)
                                            ELSE ArgumentsFailed(items[i], gathered)]
    BY <1>5, <1>7, <1>8 DEF Answered
  <2>2. did \in IF gathered.kind = "args" THEN {"result", "opaque", "response", "http", "raised"} ELSE {"nothing"}
    BY <1>5, <1>7, <1>8 DEF Answered
  <2>3. QED
    BY <2>1, <2>2
<1>10. r.api # 0
  BY <1>1, <1>7, <1>9
<1>11. /\ r \in ToSet(Decoration) /\ Told.parameters = Parameters(r.args, r.names)
       /\ Told.body = RequestBody(r.args) /\ {200, 400, 500} \subseteq DOMAIN Told.responses
  BY <1>6, <1>7, <1>9, <1>10, ToldIs
<1>12. /\ r.args \in Seq(Arguments) /\ \A k \in DOMAIN r.args : r.args[k].source # "bare"
       /\ items[i].hooks = NoHooks \/ items[i].hooks \in [error : Hook, result : Hook]
  BY <1>6, <1>7, ArgumentsOf
<1>13. Describable(r)
  BY <1>10, <1>11 DEF AllDescribable
<1>14. PICK wrong, broken : wrong = WrongIn(r.args, request) /\ broken = BrokenIn(r.args, request)
  OBVIOUS
<1>15. broken = {}
  BY <1>1, <1>4, <1>7, <1>9, <1>12, <1>14, NoneBroken DEF ServiceThere
<1>16. /\ answer.ran <=> wrong = {}
       /\ wrong # {} => answer.response.status = 400
  BY <1>1, <1>7, <1>9, <1>14, <1>15, AnswerHolds DEF AnswerFits, WrongIn, BrokenIn
<1>17. PICK body, places : body = RequestBody(r.args) /\ places = DocumentedPlaces(r)
  OBVIOUS
<1>18. RequiredPlaces = places /\ Told.body = body
  BY <1>11, <1>17 DEF RequiredPlaces, RequiredIn, DocumentedPlaces
<1>19. /\ \A p \in places : p \in DOMAIN request
       /\ (\E p \in places : request[p] = "absent") => wrong # {}
       /\ /\ \A p \in places : request[p] # "absent"
          /\ body.kind = "whole" => Body \in DOMAIN request /\ request[Body] # "absent"
          /\ \A p \in DOMAIN request : request[p] \in {"absent", "good"}
          => wrong = {}
  <2>1. request \in Requests(r)
    BY <1>4, <1>7
  <2>2. r.args \in Seq(Arguments) /\ \A k \in DOMAIN r.args : r.args[k].source # "bare"
    BY <1>12
  <2>3. /\ \A p \in DocumentedPlaces(r) : p \in DOMAIN request
        /\ (\E p \in DocumentedPlaces(r) : request[p] = "absent") => WrongIn(r.args, request) # {}
        /\ /\ \A p \in DocumentedPlaces(r) : request[p] # "absent"
           /\ RequestBody(r.args).kind = "whole" => Body \in DOMAIN request /\ request[Body] # "absent"
           /\ \A p \in DOMAIN request : request[p] \in {"absent", "good"}
           => WrongIn(r.args, request) = {}
    BY <1>13, <2>1, <2>2, RequestFits
  <2>4. QED
    BY <1>14, <1>17, <2>3
<1>20. \A p : Sent(p) <=> p \in DOMAIN request /\ request[p] # "absent"
  BY <1>9 DEF Sent
<1>21. (\E p \in RequiredPlaces : ~Sent(p)) => answer.response.status = 400
  BY <1>16, <1>18, <1>19, <1>20
<1>22. ASSUME \A p \in RequiredPlaces \cup (IF Told.body.kind = "whole" THEN {Body} ELSE {}) : Sent(p),
              \A p \in DOMAIN answer.request : answer.request[p] \in {"absent", "good"}
       PROVE  answer.ran
  <2>1. \A p \in places : request[p] # "absent"
    BY <1>18, <1>20, <1>22
  <2>2. body.kind = "whole" => Body \in DOMAIN request /\ request[Body] # "absent"
    BY <1>18, <1>20, <1>22
  <2>3. QED
    BY <1>9, <1>16, <1>19, <1>22, <2>1, <2>2
<1>23. ASSUME did \notin {"http", "response"} PROVE answer.response.status \in DOMAIN Told.responses
  <2>1. CASE gathered.kind = "args"
    <3>1. did \in {"result", "opaque", "raised"} /\ answer.response = HandlerEnded(items[i], did)
      BY <1>9, <1>23, <2>1
    <3>2. items[i].hooks.error \in Hook
      BY <1>12 DEF NoHooks, Hook
    <3>3. QED
      BY <1>7, <1>10, <1>11, <3>1, <3>2, StatusIs
  <2>2. CASE gathered.kind # "args"
    <3>1. answer.response.status = 400
      BY <1>9, <1>16, <2>2
    <3>2. QED
      BY <1>11, <3>1
  <2>3. QED
    BY <2>1, <2>2
<1>24. QED
  BY <1>9, <1>21, <1>22, <1>23

\* DocumentFits: where arguments are validated and can be described, openapi.json tells what a
\* request needs and how it is answered.
THEOREM DocumentsFit ==
  ASSUME AllValidated, AllDescribable
  PROVE  Spec => []DocumentFits
<1>1. RouterInv => DocumentFits
  BY DocumentHolds
<1>2. QED
  BY <1>1, RouterStays, PTL
=============================================================================
