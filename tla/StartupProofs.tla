---------------------------- MODULE StartupProofs ----------------------------
(* Theorems about Startup, and Logging and Tracing below it, for all values of their constants. *)
EXTENDS Startup, SequenceTheorems, NaturalsInduction, WellFoundedInduction, TLAPS

(***************************************************************************)
(* The inductive invariant of tracing.  A task that is in blocks found a   *)
(* current span when it entered each, and it is from these that it gets    *)
(* its old one back: what block j found is what the last block with a span *)
(* before it set, or what the blocks before it found.  A span that has not *)
(* ended belongs to start_span() or to one block of one task.              *)
(***************************************************************************)
Frame == [path : {"off", "span", "lazy"}, call : TracedCall, span : Nat, outer : Nat]
         \cup [path : {"suppress"}, call : SuppressCall, span : Nat, outer : Nat]
Span == [parent : Nat, error : BOOLEAN, ended : BOOLEAN,
         call : TracedCall \cup StartCall \cup SuppressCall, outer : Nat]

TracingTyped ==
  /\ state \in [Task -> {"new", "run", "done"}]
  /\ stack \in [Task -> Seq(Frame)] /\ current \in [Task -> Nat]
  /\ spans \in Seq(Span) /\ manual \subseteq DOMAIN spans

\* Blocks are those of a task that runs; the first task was never created.
Idle == /\ state[Main] # "new"
        /\ \A t \in Task : state[t] # "run" => stack[t] = <<>>

\* What task t had for a span when it entered block j, or has now; whether no block of i .. j - 1
\* set one.
Before(t, j) == IF j = Len(stack[t]) + 1 THEN current[t] ELSE stack[t][j].outer
NoSpan(t, i, j) == \A k \in i .. j - 1 : stack[t][k].path # "span"

Links(t, j) ==
  /\ \A i \in 1 .. j - 1 :
       /\ NoSpan(t, i, j) => Before(t, j) = stack[t][i].outer
       /\ stack[t][i].path = "span" /\ NoSpan(t, i + 1, j) => Before(t, j) = stack[t][i].span
  /\ t = Main /\ NoSpan(t, 1, j) => Before(t, j) = None

ChainOf(t) == \A j \in 1 .. Len(stack[t]) + 1 : Links(t, j)
Chain == \A t \in Task : state[t] = "run" => ChainOf(t)

\* Every span has one owner.
Owns(t, s) == \E i \in Open(t) : stack[t][i].span = s
OneOwner ==
  /\ \A t, u \in Task : \A i \in Open(t), j \in Open(u) : stack[t][i].span = stack[u][j].span => t = u /\ i = j
  /\ \A t \in Task : \A i \in Open(t) : stack[t][i].span \in DOMAIN spans \ manual
OpenIsOwned == \A s \in DOMAIN spans : ~spans[s].ended <=> s \in manual \/ \E t \in Task : Owns(t, s)

\* The parent of span s is the one it was asked to have.
ParentRight(s) == IF s.call.context = "none" /\ s.call.traceparent = "none" THEN s.parent = s.outer
                  ELSE s.parent \in {None, Remote} /\ (s.call.context = "remote" => s.parent = Remote)
Parents == \A s \in DOMAIN spans : ParentRight(spans[s])

TInv == TracingTyped /\ Idle /\ Chain /\ OneOwner /\ OpenIsOwned /\ Parents

-----------------------------------------------------------------------------
(* The stack of a task.                                                    *)

\* A block is entered: it is the innermost one.
LEMMA Pushed ==
  ASSUME TracingTyped, NEW t \in Task, NEW f \in Frame,
         stack' = [stack EXCEPT ![t] = Append(@, f)]
  PROVE  /\ stack' \in [Task -> Seq(Frame)] /\ Len(stack[t]) \in Nat
         /\ \A u \in Task : u # t => stack'[u] = stack[u]
         /\ Len(stack'[t]) = Len(stack[t]) + 1 /\ stack'[t][Len(stack[t]) + 1] = f
         /\ \A i \in 1 .. Len(stack[t]) : stack'[t][i] = stack[t][i]
         /\ Open(t)' = Open(t) \cup (IF f.path = "span" THEN {Len(stack[t]) + 1} ELSE {})
         /\ \A u \in Task : u # t => Open(u)' = Open(u)
<1>1. stack[t] \in Seq(Frame) /\ stack \in [Task -> Seq(Frame)]
  BY DEF TracingTyped
<1>2. /\ Append(stack[t], f) \in Seq(Frame) /\ Len(Append(stack[t], f)) = Len(stack[t]) + 1
      /\ \A i \in 1 .. Len(stack[t]) : Append(stack[t], f)[i] = stack[t][i]
      /\ Append(stack[t], f)[Len(stack[t]) + 1] = f
  BY <1>1, AppendProperties
<1>3. /\ stack'[t] = Append(stack[t], f) /\ \A u \in Task : u # t => stack'[u] = stack[u]
      /\ stack' \in [Task -> Seq(Frame)] /\ Len(stack[t]) \in Nat
  BY <1>1, <1>2
<1>4. DOMAIN stack[t] = 1 .. Len(stack[t]) /\ DOMAIN stack'[t] = 1 .. Len(stack[t]) + 1
  BY <1>1, <1>2, <1>3
<1>5. Open(t)' = Open(t) \cup (IF f.path = "span" THEN {Len(stack[t]) + 1} ELSE {})
  BY <1>2, <1>3, <1>4 DEF Open
<1>6. \A u \in Task : u # t => Open(u)' = Open(u)
  BY <1>3 DEF Open
<1>7. QED
  BY <1>2, <1>3, <1>5, <1>6

\* The innermost block is left.
LEMMA Popped ==
  ASSUME TracingTyped, NEW t \in Task, stack[t] # <<>>, stack' = [stack EXCEPT ![t] = Front(@)]
  PROVE  /\ stack' \in [Task -> Seq(Frame)] /\ Len(stack[t]) \in Nat \ {0}
         /\ Last(stack[t]) = stack[t][Len(stack[t])] /\ Last(stack[t]) \in Frame
         /\ \A u \in Task : u # t => stack'[u] = stack[u]
         /\ Len(stack'[t]) = Len(stack[t]) - 1
         /\ \A i \in 1 .. Len(stack[t]) - 1 : stack'[t][i] = stack[t][i]
         /\ Open(t)' = Open(t) \ {Len(stack[t])}
         /\ Len(stack[t]) \in Open(t) <=> Last(stack[t]).path = "span"
         /\ \A u \in Task : u # t => Open(u)' = Open(u)
<1>1. stack[t] \in Seq(Frame) /\ stack \in [Task -> Seq(Frame)]
  BY DEF TracingTyped
<1>2. Len(stack[t]) \in Nat \ {0} /\ DOMAIN stack[t] = 1 .. Len(stack[t])
  BY <1>1, EmptySeq
<1>3. /\ Front(stack[t]) \in Seq(Frame) /\ Len(Front(stack[t])) = Len(stack[t]) - 1
      /\ \A i \in 1 .. Len(stack[t]) - 1 : Front(stack[t])[i] = stack[t][i]
  <2>1. \A i \in 1 .. Len(stack[t]) - 1 : stack[t][i] \in Frame
    BY <1>1, <1>2
  <2>2. 1 \in Int /\ Len(stack[t]) - 1 \in Int
    BY <1>2
  <2>3. QED
    BY <1>2, <2>1, <2>2, SubSeqProperties DEF Front
<1>4. Last(stack[t]) = stack[t][Len(stack[t])] /\ Last(stack[t]) \in Frame
  BY <1>1, <1>2 DEF Last
<1>5. /\ stack'[t] = Front(stack[t]) /\ \A u \in Task : u # t => stack'[u] = stack[u]
      /\ stack' \in [Task -> Seq(Frame)]
  BY <1>1, <1>3
<1>6. DOMAIN stack'[t] = 1 .. Len(stack[t]) - 1
  BY <1>2, <1>3, <1>5
<1>7. Open(t)' = Open(t) \ {Len(stack[t])}
  BY <1>2, <1>3, <1>5, <1>6 DEF Open
<1>8. Len(stack[t]) \in Open(t) <=> Last(stack[t]).path = "span"
  BY <1>2, <1>4 DEF Open
<1>9. \A u \in Task : u # t => Open(u)' = Open(u)
  BY <1>5 DEF Open
<1>10. QED
  BY <1>2, <1>3, <1>4, <1>5, <1>7, <1>8, <1>9

\* Entering a block sets the span of the block; what the others found stays.
LEMMA PushChain ==
  ASSUME TracingTyped, Chain, NEW t \in Task, state[t] = "run", state' = state,
         NEW f \in Frame, f.outer = current[t],
         stack' = [stack EXCEPT ![t] = Append(@, f)],
         current' = [current EXCEPT ![t] = IF f.path = "span" THEN f.span ELSE @]
  PROVE  Chain'
<1>0. PICK n \in Nat : n = Len(stack[t])
  BY DEF TracingTyped
<1>1. /\ n \in Nat /\ Len(stack'[t]) = n + 1 /\ stack'[t][n + 1] = f
      /\ \A i \in 1 .. n : stack'[t][i] = stack[t][i]
      /\ \A u \in Task : u # t => stack'[u] = stack[u]
  BY <1>0, Pushed
<1>2. current'[t] = (IF f.path = "span" THEN f.span ELSE current[t]) /\ \A u \in Task : u # t => current'[u] = current[u]
  BY DEF TracingTyped
<1>3. ChainOf(t)
  BY DEF Chain
<1>4. ChainOf(t)'
  <2>1. \A j \in 1 .. n + 1 : Before(t, j)' = Before(t, j)
    BY <1>1, <1>0 DEF Before
  <2>2. Before(t, n + 2)' = current'[t] /\ Before(t, n + 1) = current[t]
    BY <1>1, <1>0 DEF Before
  <2>3. ASSUME NEW i \in Nat, NEW j \in 1 .. n + 1, i >= 1 PROVE NoSpan(t, i, j)' <=> NoSpan(t, i, j)
    <3>1. \A k \in i .. j - 1 : stack'[t][k] = stack[t][k]
      BY <1>1, <2>3
    <3>2. QED
      BY <3>1 DEF NoSpan
  <2>4. \A i \in 1 .. n + 1 : NoSpan(t, i, n + 2)' <=> NoSpan(t, i, n + 1) /\ f.path # "span"
    BY <1>1, <1>0 DEF NoSpan
  <2>5. ASSUME NEW j \in 1 .. n + 1 PROVE Links(t, j)'
    <3>1. Links(t, j)
      BY <1>0, <1>3 DEF ChainOf
    <3>2. \A i \in 1 .. j - 1 : stack'[t][i] = stack[t][i] /\ i \in Nat /\ i >= 1 /\ i + 1 \in Nat /\ i + 1 >= 1
      BY <1>1
    <3>3. \A i \in 1 .. j - 1 : (NoSpan(t, i, j)' <=> NoSpan(t, i, j)) /\ (NoSpan(t, i + 1, j)' <=> NoSpan(t, i + 1, j))
      BY <2>3, <3>2
    <3>4. (NoSpan(t, 1, j)' <=> NoSpan(t, 1, j)) /\ Before(t, j)' = Before(t, j)
      BY <2>1, <2>3
    <3>5. QED
      BY <3>1, <3>2, <3>3, <3>4 DEF Links
  <2>6. /\ \A i \in 1 .. n + 1 :
             /\ NoSpan(t, i, n + 2)' => Before(t, n + 2)' = stack'[t][i].outer
             /\ stack'[t][i].path = "span" /\ NoSpan(t, i + 1, n + 2)' => Before(t, n + 2)' = stack'[t][i].span
        /\ t = Main /\ NoSpan(t, 1, n + 2)' => Before(t, n + 2)' = None
    <3>1. NoSpan(t, n + 2, n + 2)'
      BY <1>1 DEF NoSpan
    <3>2. /\ \A i \in 1 .. n :
               /\ NoSpan(t, i, n + 1) => current[t] = stack[t][i].outer
               /\ stack[t][i].path = "span" /\ NoSpan(t, i + 1, n + 1) => current[t] = stack[t][i].span
          /\ t = Main /\ NoSpan(t, 1, n + 1) => current[t] = None
      BY <1>1, <1>3, <1>0, <2>2 DEF ChainOf, Links
    <3>3. ASSUME NEW i \in 1 .. n
          PROVE  /\ NoSpan(t, i, n + 2)' => Before(t, n + 2)' = stack'[t][i].outer
                 /\ stack'[t][i].path = "span" /\ NoSpan(t, i + 1, n + 2)' => Before(t, n + 2)' = stack'[t][i].span
      BY <1>1, <1>2, <2>2, <2>4, <3>2
    <3>4. /\ NoSpan(t, n + 1, n + 2)' => Before(t, n + 2)' = stack'[t][n + 1].outer
          /\ stack'[t][n + 1].path = "span" => Before(t, n + 2)' = stack'[t][n + 1].span
      BY <1>1, <1>2, <2>2, <2>4
    <3>5. t = Main /\ NoSpan(t, 1, n + 2)' => Before(t, n + 2)' = None
      BY <1>1, <1>2, <2>2, <2>4, <3>2
    <3>6. QED
      BY <1>1, <3>3, <3>4, <3>5
  <2>7. Links(t, n + 2)'
    <3>1. (n + 2) - 1 = n + 1
      BY <1>1
    <3>2. QED
      BY <2>6, <3>1 DEF Links
  <2>8. \A j \in 1 .. Len(stack'[t]) + 1 : j \in 1 .. n + 1 \/ j = n + 2
    BY <1>1
  <2>9. QED
    BY <2>5, <2>7, <2>8 DEF ChainOf
<1>5. ASSUME NEW u \in Task, u # t, ChainOf(u) PROVE ChainOf(u)'
  BY <1>1, <1>2, <1>5 DEF ChainOf, Links, Before, NoSpan
<1>6. QED
  BY <1>4, <1>5 DEF Chain

\* Leaving it gives back what it found.
LEMMA PopChain ==
  ASSUME TracingTyped, Chain, NEW t \in Task, state[t] = "run", state' = state, stack[t] # <<>>,
         stack' = [stack EXCEPT ![t] = Front(@)],
         current' = [current EXCEPT ![t] = IF Last(stack[t]).path = "span" THEN Last(stack[t]).outer ELSE @]
  PROVE  Chain' /\ current'[t] = Last(stack[t]).outer
<1>0. PICK n \in Nat : n = Len(stack[t])
  BY DEF TracingTyped
<1>1. /\ n \in Nat \ {0} /\ Len(stack'[t]) = n - 1 /\ Last(stack[t]) = stack[t][n]
      /\ \A i \in 1 .. n - 1 : stack'[t][i] = stack[t][i]
      /\ \A u \in Task : u # t => stack'[u] = stack[u]
  BY <1>0, Popped
<1>2. /\ current'[t] = (IF stack[t][n].path = "span" THEN stack[t][n].outer ELSE current[t])
      /\ \A u \in Task : u # t => current'[u] = current[u]
  BY <1>1 DEF TracingTyped
<1>3. ChainOf(t)
  BY DEF Chain
<1>4. current'[t] = stack[t][n].outer
  <2>1. stack[t][n].path # "span" => NoSpan(t, n, n + 1)
    BY <1>1 DEF NoSpan
  <2>2. n + 1 \in 1 .. Len(stack[t]) + 1 /\ n \in 1 .. (n + 1) - 1 /\ Before(t, n + 1) = current[t]
    BY <1>0, <1>1 DEF Before
  <2>3. stack[t][n].path # "span" => current[t] = stack[t][n].outer
    BY <1>3, <2>1, <2>2 DEF ChainOf, Links
  <2>4. QED
    BY <1>2, <2>3
<1>5. ChainOf(t)'
  <2>1. \A j \in 1 .. n : Before(t, j)' = Before(t, j)
    BY <1>0, <1>1, <1>4 DEF Before
  <2>2. ASSUME NEW i \in Nat, NEW j \in 1 .. n, i >= 1 PROVE NoSpan(t, i, j)' <=> NoSpan(t, i, j)
    <3>1. \A k \in i .. j - 1 : stack'[t][k] = stack[t][k]
      BY <1>1, <2>2
    <3>2. QED
      BY <3>1 DEF NoSpan
  <2>3. ASSUME NEW j \in 1 .. n PROVE Links(t, j)'
    <3>1. Links(t, j)
      BY <1>0, <1>3 DEF ChainOf
    <3>2. \A i \in 1 .. j - 1 : stack'[t][i] = stack[t][i] /\ i \in Nat /\ i >= 1 /\ i + 1 \in Nat /\ i + 1 >= 1
      BY <1>1
    <3>3. \A i \in 1 .. j - 1 : (NoSpan(t, i, j)' <=> NoSpan(t, i, j)) /\ (NoSpan(t, i + 1, j)' <=> NoSpan(t, i + 1, j))
      BY <2>2, <3>2
    <3>4. (NoSpan(t, 1, j)' <=> NoSpan(t, 1, j)) /\ Before(t, j)' = Before(t, j)
      BY <2>1, <2>2
    <3>5. QED
      BY <3>1, <3>2, <3>3, <3>4 DEF Links
  <2>4. QED
    BY <1>1, <2>3 DEF ChainOf
<1>6. ASSUME NEW u \in Task, u # t, ChainOf(u) PROVE ChainOf(u)'
  BY <1>1, <1>2, <1>6 DEF ChainOf, Links, Before, NoSpan
<1>7. QED
  BY <1>1, <1>4, <1>5, <1>6 DEF Chain
-----------------------------------------------------------------------------
(* Spans.                                                                  *)

\* A span that is made has the parent it was asked to have.
LEMMA NewSpanRight ==
  ASSUME NEW t \in Task, current[t] \in Nat, NEW call \in TracedCall \cup StartCall \cup SuppressCall,
         NEW r, r = NewSpan(call, t, current[t])
  PROVE  r \in Span /\ ParentRight(r) /\ r.ended = FALSE
<1>1. Parent(call, current[t]) \in Nat
  BY TracingConstants DEF Parent, None, Remote
<1>2. r \in Span
  BY <1>1 DEF NewSpan, Span
<1>3. r.parent = Parent(call, current[t]) /\ r.call = call /\ r.outer = current[t] /\ r.ended = FALSE
  BY DEF NewSpan
<1>4. ParentRight(r)
  BY <1>3 DEF ParentRight, Parent
<1>5. QED
  BY <1>2, <1>3, <1>4

LEMMA SpanAdded ==
  ASSUME TracingTyped, Parents, NEW r \in Span, ParentRight(r), spans' = Append(spans, r)
  PROVE  /\ spans' \in Seq(Span) /\ Parents' /\ Len(spans) \in Nat /\ DOMAIN spans = 1 .. Len(spans)
         /\ DOMAIN spans' = 1 .. Len(spans) + 1 /\ spans'[Len(spans) + 1] = r
         /\ \A s \in DOMAIN spans : spans'[s] = spans[s]
<1>1. spans \in Seq(Span) /\ Len(spans) \in Nat /\ DOMAIN spans = 1 .. Len(spans)
  BY DEF TracingTyped
<1>2. /\ spans' \in Seq(Span) /\ Len(spans') = Len(spans) + 1
      /\ \A s \in 1 .. Len(spans) : spans'[s] = spans[s]
      /\ spans'[Len(spans) + 1] = r
  BY <1>1, AppendProperties
<1>3. DOMAIN spans' = 1 .. Len(spans) + 1
  BY <1>1, <1>2
<1>4. Parents'
  BY <1>1, <1>2, <1>3 DEF Parents, ParentRight
<1>5. QED
  BY <1>1, <1>2, <1>3, <1>4

LEMMA SpanEnded ==
  ASSUME TracingTyped, Parents, NEW k \in DOMAIN spans, NEW e \in BOOLEAN,
         NEW r, r = [spans[k] EXCEPT !.ended = TRUE, !.error = e], spans' = [spans EXCEPT ![k] = r]
  PROVE  /\ spans' \in Seq(Span) /\ Parents' /\ DOMAIN spans' = DOMAIN spans
         /\ \A s \in DOMAIN spans : spans'[s].ended <=> s = k \/ spans[s].ended
<1>1. spans \in Seq(Span) /\ Len(spans) \in Nat /\ DOMAIN spans = 1 .. Len(spans)
  BY DEF TracingTyped
<1>2. spans[k] \in Span
  BY <1>1
<1>3. r = [spans[k] EXCEPT !.ended = TRUE, !.error = e]
  OBVIOUS
<1>4. /\ r \in Span /\ r.ended = TRUE
      /\ r.parent = spans[k].parent /\ r.call = spans[k].call /\ r.outer = spans[k].outer
  BY <1>2, <1>3 DEF Span
<1>5. spans' \in Seq(Span) /\ DOMAIN spans' = DOMAIN spans
  BY <1>1, <1>3, <1>4
<1>6. \A s \in DOMAIN spans : spans'[s] = IF s = k THEN r ELSE spans[s]
  BY <1>3
<1>7. Parents'
  BY <1>4, <1>5, <1>6 DEF Parents, ParentRight
<1>8. \A s \in DOMAIN spans : spans'[s].ended <=> s = k \/ spans[s].ended
  BY <1>4, <1>6
<1>9. QED
  BY <1>5, <1>7, <1>8

\* Blocks keep their spans, and the only one that may be new has a span that was nobody's.
LEMMA OwnersKept ==
  ASSUME OneOwner, DOMAIN spans \subseteq DOMAIN spans', manual' = manual, NEW t \in Task, NEW n \in Nat,
         \A u \in Task : \A i \in Open(u)' :
           \/ i \in Open(u) /\ stack'[u][i].span = stack[u][i].span
           \/ u = t /\ i = n /\ stack'[u][i].span \in DOMAIN spans' \ (DOMAIN spans \cup manual)
  PROVE  OneOwner'
<1>1. ASSUME NEW u \in Task, NEW i \in Open(u)' PROVE stack'[u][i].span \in DOMAIN spans' \ manual'
  BY <1>1 DEF OneOwner
<1>2. ASSUME NEW u \in Task, NEW v \in Task, NEW i \in Open(u)', NEW j \in Open(v)', stack'[u][i].span = stack'[v][j].span
      PROVE  u = v /\ i = j
  BY <1>2 DEF OneOwner
<1>3. QED
  BY <1>1, <1>2 DEF OneOwner

\* Entering a block makes its task the owner of the span of the block, if it has one.
LEMMA PushOwns ==
  ASSUME TracingTyped, NEW t \in Task, NEW f \in Frame, stack' = [stack EXCEPT ![t] = Append(@, f)],
         OneOwner, DOMAIN spans \subseteq DOMAIN spans', manual' = manual,
         f.path = "span" => f.span \in DOMAIN spans' \ (DOMAIN spans \cup manual)
  PROVE  /\ OneOwner'
         /\ \A u \in Task, s \in Nat : Owns(u, s)' <=> Owns(u, s) \/ (u = t /\ f.path = "span" /\ f.span = s)
<1>0. PICK n \in Nat : n = Len(stack[t])
  BY DEF TracingTyped
<1>1. /\ \A u \in Task : u # t => stack'[u] = stack[u] /\ Open(u)' = Open(u)
      /\ stack'[t][n + 1] = f /\ \A i \in 1 .. n : stack'[t][i] = stack[t][i]
      /\ Open(t)' = Open(t) \cup (IF f.path = "span" THEN {n + 1} ELSE {})
  BY <1>0, Pushed
<1>2. Open(t) \subseteq 1 .. n
  BY <1>0 DEF Open, TracingTyped
<1>3. \A u \in Task : \A i \in Open(u) : stack'[u][i] = stack[u][i]
  BY <1>1, <1>2
<1>4. \A u \in Task : \A i \in Open(u)' : i \in Open(u) \/ (u = t /\ i = n + 1 /\ f.path = "span" /\ stack'[u][i].span = f.span)
  BY <1>1
<1>5. OneOwner'
  <2>1. \A u \in Task : \A i \in Open(u)' :
          \/ i \in Open(u) /\ stack'[u][i].span = stack[u][i].span
          \/ u = t /\ i = n + 1 /\ stack'[u][i].span \in DOMAIN spans' \ (DOMAIN spans \cup manual)
    BY <1>3, <1>4
  <2>2. PICK m \in Nat : m = n + 1
    OBVIOUS
  <2>3. \A u \in Task : \A i \in Open(u)' :
          \/ i \in Open(u) /\ stack'[u][i].span = stack[u][i].span
          \/ u = t /\ i = m /\ stack'[u][i].span \in DOMAIN spans' \ (DOMAIN spans \cup manual)
    BY <2>1, <2>2
  <2>4. QED
    BY <2>3, OwnersKept, Zenon
<1>6. ASSUME NEW u \in Task, NEW s \in Nat
      PROVE  Owns(u, s)' <=> Owns(u, s) \/ (u = t /\ f.path = "span" /\ f.span = s)
  <2>1. Open(u) \subseteq Open(u)' /\ (u = t /\ f.path = "span" => n + 1 \in Open(u)' /\ stack'[u][n + 1].span = f.span)
    BY <1>1
  <2>2. QED
    BY <1>3, <1>4, <2>1 DEF Owns
<1>7. QED
  BY <1>5, <1>6

\* Leaving it takes that span, and no other, away.
LEMMA PopOwns ==
  ASSUME TracingTyped, NEW t \in Task, stack[t] # <<>>, stack' = [stack EXCEPT ![t] = Front(@)],
         OneOwner, DOMAIN spans \subseteq DOMAIN spans', manual' = manual
  PROVE  /\ OneOwner'
         /\ \A u \in Task, s \in Nat :
              Owns(u, s)' <=> Owns(u, s) /\ ~(u = t /\ Last(stack[t]).path = "span" /\ Last(stack[t]).span = s)
<1>0. PICK n \in Nat : n = Len(stack[t])
  <2>1. stack[t] \in Seq(Frame)
    BY DEF TracingTyped
  <2>2. QED
    BY <2>1
<1>1. /\ \A u \in Task : u # t => stack'[u] = stack[u] /\ Open(u)' = Open(u)
      /\ \A i \in 1 .. n - 1 : stack'[t][i] = stack[t][i]
      /\ Open(t)' = Open(t) \ {n} /\ (n \in Open(t) <=> Last(stack[t]).path = "span")
      /\ Last(stack[t]) = stack[t][n]
  BY <1>0, Popped
<1>2. Open(t) \subseteq 1 .. n
  BY <1>0 DEF Open, TracingTyped
<1>3. \A u \in Task : \A i \in Open(u)' : i \in Open(u) /\ stack'[u][i] = stack[u][i] /\ ~(u = t /\ i = n)
  BY <1>1, <1>2
<1>4. OneOwner'
  BY <1>3 DEF OneOwner
<1>5. ASSUME NEW u \in Task, NEW s \in Nat
      PROVE  Owns(u, s)' <=> Owns(u, s) /\ ~(u = t /\ Last(stack[t]).path = "span" /\ Last(stack[t]).span = s)
  <2>1. ASSUME Owns(u, s)' PROVE Owns(u, s) /\ ~(u = t /\ Last(stack[t]).path = "span" /\ Last(stack[t]).span = s)
    <3>1. PICK i \in Open(u)' : stack'[u][i].span = s
      BY <2>1 DEF Owns
    <3>2. i \in Open(u) /\ stack[u][i].span = s /\ ~(u = t /\ i = n)
      BY <1>3, <3>1
    <3>3. QED
      BY <1>1, <3>2 DEF Owns, OneOwner
  <2>2. ASSUME Owns(u, s), ~(u = t /\ Last(stack[t]).path = "span" /\ Last(stack[t]).span = s) PROVE Owns(u, s)'
    <3>1. PICK i \in Open(u) : stack[u][i].span = s
      BY <2>2 DEF Owns
    <3>2. i \in Open(u)'
      BY <1>1, <2>2, <3>1
    <3>3. QED
      BY <1>3, <3>1, <3>2 DEF Owns
  <2>3. QED
    BY <2>1, <2>2
<1>6. QED
  BY <1>4, <1>5

-----------------------------------------------------------------------------
(* Every action keeps the invariant.                                       *)

LEMMA SameSpans ==
  ASSUME TInv, UNCHANGED <<state, stack, current, spans, manual>>
  PROVE  TInv'
<1>1. TracingTyped' /\ Idle' /\ Parents'
  BY DEF TInv, TracingTyped, Idle, Parents
<1>2. Chain'
  <2>1. \A t \in Task : ChainOf(t) => ChainOf(t)'
    BY DEF ChainOf, Links, Before, NoSpan
  <2>2. Chain
    BY DEF TInv
  <2>3. QED
    BY <2>1, <2>2 DEF Chain
<1>3. OneOwner' /\ OpenIsOwned'
  BY DEF TInv, OneOwner, OpenIsOwned, Owns, Open
<1>4. QED
  BY <1>1, <1>2, <1>3 DEF TInv

\* A block is entered, and the span that is made is that of the block.
LEMMA Entered ==
  ASSUME TInv, NEW t \in Task, state[t] = "run", state' = state, manual' = manual,
         NEW f \in Frame, f.outer = current[t],
         stack' = [stack EXCEPT ![t] = Append(@, f)],
         current' = [current EXCEPT ![t] = IF f.path = "span" THEN f.span ELSE @],
         NEW r, f.path = "span" => /\ f.span = Len(spans) + 1 /\ spans' = Append(spans, r)
                                   /\ r \in Span /\ ParentRight(r) /\ ~r.ended,
         f.path # "span" => spans' = spans
  PROVE  TInv'
<1>1. TracingTyped /\ Idle /\ Chain /\ OneOwner /\ OpenIsOwned /\ Parents
  BY DEF TInv
<1>2. /\ stack' \in [Task -> Seq(Frame)] /\ Len(stack'[t]) = Len(stack[t]) + 1 /\ Len(stack[t]) \in Nat
      /\ \A u \in Task : u # t => stack'[u] = stack[u]
  BY <1>1, Pushed
<1>3. Chain'
  BY <1>1, PushChain
<1>4. /\ spans' \in Seq(Span) /\ Parents' /\ DOMAIN spans \subseteq DOMAIN spans' /\ DOMAIN spans \subseteq Nat
      /\ manual \subseteq DOMAIN spans /\ \A s \in DOMAIN spans : spans'[s] = spans[s]
      /\ f.path = "span" => /\ f.span \in DOMAIN spans' \ DOMAIN spans /\ DOMAIN spans' = DOMAIN spans \cup {f.span}
                            /\ ~spans'[f.span].ended
      /\ f.path # "span" => DOMAIN spans' = DOMAIN spans
  <2>1. spans \in Seq(Span) /\ DOMAIN spans \subseteq Nat /\ manual \subseteq DOMAIN spans
    BY <1>1 DEF TracingTyped
  <2>2. CASE f.path = "span"
    <3>1. /\ spans' \in Seq(Span) /\ Parents' /\ Len(spans) \in Nat /\ DOMAIN spans = 1 .. Len(spans)
          /\ DOMAIN spans' = 1 .. Len(spans) + 1 /\ spans'[Len(spans) + 1] = r
          /\ \A s \in DOMAIN spans : spans'[s] = spans[s]
      BY <1>1, <2>2, SpanAdded
    <3>2. f.span = Len(spans) + 1 /\ ~r.ended
      BY <2>2
    <3>3. DOMAIN spans' = DOMAIN spans \cup {f.span} /\ f.span \notin DOMAIN spans
      BY <3>1, <3>2
    <3>4. ~spans'[f.span].ended
      BY <3>1, <3>2
    <3>5. QED
      BY <2>1, <2>2, <3>1, <3>3, <3>4
  <2>3. CASE f.path # "span"
    BY <1>1, <2>1, <2>3 DEF Parents
  <2>4. QED
    BY <2>2, <2>3
<1>5. /\ OneOwner'
      /\ \A u \in Task, s \in Nat : Owns(u, s)' <=> Owns(u, s) \/ (u = t /\ f.path = "span" /\ f.span = s)
  <2>1. f.path = "span" => f.span \in DOMAIN spans' \ (DOMAIN spans \cup manual)
    BY <1>4
  <2>2. QED
    BY <1>1, <1>4, <2>1, PushOwns
<1>6. OpenIsOwned'
  <2>1. \A s \in DOMAIN spans : (\E u \in Task : Owns(u, s)') <=> \E u \in Task : Owns(u, s)
    BY <1>4, <1>5
  <2>2. \A s \in DOMAIN spans : ~spans'[s].ended <=> s \in manual' \/ \E u \in Task : Owns(u, s)'
    BY <1>1, <1>4, <2>1 DEF OpenIsOwned
  <2>3. f.path = "span" => Owns(t, f.span)' /\ ~spans'[f.span].ended
    BY <1>4, <1>5 DEF Frame
  <2>4. QED
    BY <1>4, <2>2, <2>3 DEF OpenIsOwned
<1>7. TracingTyped'
  <2>1. current' \in [Task -> Nat]
    BY <1>1 DEF TracingTyped, Frame
  <2>2. QED
    BY <1>1, <1>2, <1>4, <2>1 DEF TracingTyped
<1>8. Idle'
  BY <1>1, <1>2 DEF Idle
<1>9. QED
  BY <1>3, <1>4, <1>5, <1>6, <1>7, <1>8 DEF TInv

\* The innermost block is left: its span ends, and one made now has ended.
LEMMA Left ==
  ASSUME TInv, NEW t \in Task, state[t] = "run", stack[t] # <<>>, state' = state, manual' = manual,
         NEW f, f = Last(stack[t]), stack' = [stack EXCEPT ![t] = Front(@)],
         current' = [current EXCEPT ![t] = IF f.path = "span" THEN f.outer ELSE @],
         NEW e \in BOOLEAN, f.path = "span" => spans' = [spans EXCEPT ![f.span] = [spans[f.span] EXCEPT !.ended = TRUE, !.error = e]],
         NEW r, f.path # "span" => \/ spans' = spans
                                   \/ r \in Span /\ ParentRight(r) /\ r.ended /\ spans' = Append(spans, r)
  PROVE  TInv'
<1>1. TracingTyped /\ Idle /\ Chain /\ OneOwner /\ OpenIsOwned /\ Parents
  BY DEF TInv
<1>2. /\ stack' \in [Task -> Seq(Frame)] /\ f \in Frame /\ f = stack[t][Len(stack[t])]
      /\ \A u \in Task : u # t => stack'[u] = stack[u]
      /\ f.path = "span" => Len(stack[t]) \in Open(t)
  BY <1>1, Popped
<1>3. Chain'
  BY <1>1, PopChain
<1>4. spans \in Seq(Span) /\ DOMAIN spans \subseteq Nat /\ manual \subseteq DOMAIN spans
  BY <1>1 DEF TracingTyped
<1>5. f.path = "span" => f.span \in DOMAIN spans \ manual
  BY <1>1, <1>2 DEF OneOwner
<1>6. /\ spans' \in Seq(Span) /\ Parents' /\ DOMAIN spans \subseteq DOMAIN spans'
      /\ \A s \in DOMAIN spans : spans'[s].ended <=> spans[s].ended \/ (f.path = "span" /\ s = f.span)
      /\ \A s \in DOMAIN spans' \ DOMAIN spans : spans'[s].ended
      /\ DOMAIN spans' \subseteq Nat
  <2>1. CASE f.path = "span"
    <3>1. PICK q : q = [spans[f.span] EXCEPT !.ended = TRUE, !.error = e]
      OBVIOUS
    <3>2. /\ spans' \in Seq(Span) /\ Parents' /\ DOMAIN spans' = DOMAIN spans
          /\ \A s \in DOMAIN spans : spans'[s].ended <=> s = f.span \/ spans[s].ended
      <4>1. spans' = [spans EXCEPT ![f.span] = q]
        BY <2>1, <3>1
      <4>2. f.span \in DOMAIN spans
        BY <1>5, <2>1
      <4>3. QED
        BY <1>1, <3>1, <4>1, <4>2, SpanEnded
    <3>3. QED
      BY <1>4, <2>1, <3>2
  <2>2. CASE f.path # "span" /\ spans' = spans
    BY <1>1, <1>4, <2>2 DEF Parents
  <2>3. CASE f.path # "span" /\ r \in Span /\ ParentRight(r) /\ r.ended /\ spans' = Append(spans, r)
    <3>1. /\ spans' \in Seq(Span) /\ Parents' /\ Len(spans) \in Nat /\ DOMAIN spans = 1 .. Len(spans)
          /\ DOMAIN spans' = 1 .. Len(spans) + 1 /\ spans'[Len(spans) + 1] = r
          /\ \A s \in DOMAIN spans : spans'[s] = spans[s]
      BY <1>1, <2>3, SpanAdded
    <3>2. DOMAIN spans' = DOMAIN spans \cup {Len(spans) + 1} /\ DOMAIN spans' \subseteq Nat
      <4>1. PICK n \in Nat : n = Len(spans)
        BY <3>1
      <4>2. 1 .. n + 1 = 1 .. n \cup {n + 1} /\ 1 .. n + 1 \subseteq Nat
        OBVIOUS
      <4>3. QED
        BY <3>1, <4>1, <4>2
    <3>3. r.ended /\ f.path # "span"
      BY <2>3
    <3>4. \A s \in DOMAIN spans' \ DOMAIN spans : spans'[s].ended
      BY <3>1, <3>2, <3>3
    <3>5. QED
      BY <3>1, <3>2, <3>3, <3>4
  <2>4. QED
    BY <2>1, <2>2, <2>3
<1>7. /\ OneOwner'
      /\ \A u \in Task, s \in Nat : Owns(u, s)' <=> Owns(u, s) /\ ~(u = t /\ f.path = "span" /\ f.span = s)
  BY <1>1, <1>6, PopOwns
<1>8. OpenIsOwned'
  <2>1. f.path = "span" => Owns(t, f.span) /\ \A u \in Task : Owns(u, f.span) => u = t
    BY <1>1, <1>2 DEF Owns, OneOwner
  <2>2. ASSUME NEW s \in DOMAIN spans
        PROVE  ~spans'[s].ended <=> s \in manual' \/ \E u \in Task : Owns(u, s)'
    <3>1. CASE f.path = "span" /\ s = f.span
      BY <1>5, <1>6, <1>7, <1>4, <2>1, <3>1
    <3>2. CASE ~(f.path = "span" /\ s = f.span)
      <4>1. (\E u \in Task : Owns(u, s)') <=> \E u \in Task : Owns(u, s)
        BY <1>4, <1>7, <3>2
      <4>2. QED
        BY <1>1, <1>6, <3>2, <4>1 DEF OpenIsOwned
    <3>3. QED
      BY <3>1, <3>2
  <2>3. ASSUME NEW s \in DOMAIN spans' \ DOMAIN spans
        PROVE  ~(s \in manual') /\ ~\E u \in Task : Owns(u, s)'
    <3>1. \A u \in Task : ~Owns(u, s)
      BY <1>1, <2>3 DEF Owns, OneOwner
    <3>2. QED
      BY <1>4, <1>6, <1>7, <3>1
  <2>4. QED
    BY <1>6, <2>2, <2>3 DEF OpenIsOwned
<1>9. TracingTyped'
  <2>1. current' \in [Task -> Nat]
    BY <1>1, <1>2 DEF TracingTyped, Frame
  <2>2. QED
    BY <1>1, <1>2, <1>4, <1>6, <2>1 DEF TracingTyped
<1>10. Idle'
  BY <1>1, <1>2 DEF Idle
<1>11. QED
  BY <1>3, <1>6, <1>7, <1>8, <1>9, <1>10 DEF TInv

-----------------------------------------------------------------------------
(* The actions.                                                            *)

LEMMA Newest ==
  ASSUME TracingTyped
  PROVE  Len(spans) + 1 \in Nat
BY DEF TracingTyped

LEMMA EnterTracedKeeps ==
  ASSUME TInv, NEW t \in Task, NEW call \in TracedCall, EnterTraced(t, call)
  PROVE  TInv'
<1>1. PICK path \in {"off", "lazy", "span"} :
        path = CASE ~tracer -> "off" [] tracer /\ call.errorsOnly -> "lazy" [] OTHER -> "span"
  OBVIOUS
<1>2. PICK span \in Nat : span = IF path = "span" THEN Len(spans) + 1 ELSE None
  BY Newest DEF TInv, None
<1>3. PICK f : f = [path |-> path, call |-> call, span |-> span, outer |-> current[t]]
  OBVIOUS
<1>4. current[t] \in Nat
  BY DEF TInv, TracingTyped
<1>5. f \in Frame /\ f.path = path /\ f.span = span /\ f.outer = current[t]
  BY <1>3, <1>4 DEF Frame
<1>6. PICK r : r = NewSpan(call, t, current[t])
  OBVIOUS
<1>7. r \in Span /\ ParentRight(r) /\ r.ended = FALSE
  BY <1>4, <1>6, NewSpanRight
<1>8. /\ state[t] = "run" /\ state' = state /\ manual' = manual
      /\ stack' = [stack EXCEPT ![t] = Append(@, f)]
      /\ spans' = IF path = "span" THEN Append(spans, r) ELSE spans
      /\ current' = [current EXCEPT ![t] = IF path = "span" THEN span ELSE @]
  BY <1>1, <1>2, <1>3, <1>6 DEF EnterTraced, Push, Runs
<1>9. current' = [current EXCEPT ![t] = IF f.path = "span" THEN f.span ELSE @]
  BY <1>5, <1>8
<1>10. /\ f.path = "span" => /\ f.span = Len(spans) + 1 /\ spans' = Append(spans, r)
                             /\ r \in Span /\ ParentRight(r) /\ ~r.ended
       /\ f.path # "span" => spans' = spans
  BY <1>2, <1>5, <1>7, <1>8
<1>11. QED
  BY <1>5, <1>8, <1>9, <1>10, Entered

LEMMA EnterSuppressKeeps ==
  ASSUME TInv, NEW t \in Task, NEW call \in SuppressCall, EnterSuppress(t, call)
  PROVE  TInv'
<1>1. PICK f : f = [path |-> "suppress", call |-> call, span |-> None, outer |-> current[t]]
  OBVIOUS
<1>2. current \in [Task -> Nat]
  BY DEF TInv, TracingTyped
<1>3. f \in Frame /\ f.path = "suppress" /\ f.outer = current[t]
  BY <1>1, <1>2 DEF Frame, None
<1>4. /\ state[t] = "run" /\ state' = state /\ manual' = manual /\ spans' = spans /\ current' = current
      /\ stack' = [stack EXCEPT ![t] = Append(@, f)]
  BY <1>1 DEF EnterSuppress, Push, Runs
<1>5. current' = [current EXCEPT ![t] = IF f.path = "span" THEN f.span ELSE @]
  BY <1>2, <1>3, <1>4
<1>6. QED
  BY <1>3, <1>4, <1>5, Entered

\* Ending the span of a block.
LEMMA EndedAs ==
  ASSUME TracingTyped, NEW k \in DOMAIN spans
  PROVE  /\ spans[k].error \in BOOLEAN
         /\ [spans EXCEPT ![k].ended = TRUE] = [spans EXCEPT ![k] = [spans[k] EXCEPT !.ended = TRUE, !.error = spans[k].error]]
         /\ \A e : [spans EXCEPT ![k].ended = TRUE, ![k].error = e] = [spans EXCEPT ![k] = [spans[k] EXCEPT !.ended = TRUE, !.error = e]]
<1>1. spans \in Seq(Span) /\ spans[k] \in Span
  BY DEF TracingTyped
<1>2. [spans[k] EXCEPT !.ended = TRUE] = [spans[k] EXCEPT !.ended = TRUE, !.error = spans[k].error]
  BY <1>1 DEF Span
<1>3. QED
  BY <1>1, <1>2 DEF Span

LEMMA InnermostSpan ==
  ASSUME TInv, NEW t \in Task, stack[t] # <<>>, Last(stack[t]).path = "span"
  PROVE  Last(stack[t]).span \in DOMAIN spans
<1>1. stack[t] \in Seq(Frame) /\ OneOwner
  BY DEF TInv, TracingTyped
<1>2. Len(stack[t]) \in DOMAIN stack[t] /\ Last(stack[t]) = stack[t][Len(stack[t])]
  BY <1>1, EmptySeq DEF Last
<1>3. Len(stack[t]) \in Open(t)
  BY <1>2 DEF Open
<1>4. QED
  BY <1>1, <1>2, <1>3 DEF OneOwner

LEMMA LeaveKeeps ==
  ASSUME TInv, NEW t \in Task, Leave(t)
  PROVE  TInv'
<1>1. PICK f : f = Last(stack[t])
  OBVIOUS
<1>2. TracingTyped
  BY DEF TInv
<1>3. /\ state[t] = "run" /\ stack[t] # <<>> /\ state' = state /\ manual' = manual
      /\ stack' = [stack EXCEPT ![t] = Front(@)]
      /\ spans' = IF f.path = "span" THEN [spans EXCEPT ![f.span].ended = TRUE] ELSE spans
      /\ current' = [current EXCEPT ![t] = IF f.path = "span" THEN f.outer ELSE @]
  BY <1>1 DEF Leave, Runs
<1>4. PICK e \in BOOLEAN : f.path = "span" => spans' = [spans EXCEPT ![f.span] = [spans[f.span] EXCEPT !.ended = TRUE, !.error = e]]
  <2>1. CASE f.path = "span"
    <3>1. f.span \in DOMAIN spans
      BY <1>1, <1>3, <2>1, InnermostSpan
    <3>2. /\ spans[f.span].error \in BOOLEAN
          /\ spans' = [spans EXCEPT ![f.span] = [spans[f.span] EXCEPT !.ended = TRUE, !.error = spans[f.span].error]]
      BY <1>2, <1>3, <2>1, <3>1, EndedAs
    <3>3. QED
      BY <3>2
  <2>2. CASE f.path # "span"
    BY <2>2
  <2>3. QED
    BY <2>1, <2>2
<1>5. f.path # "span" => spans' = spans
  BY <1>3
<1>6. QED
  BY <1>1, <1>3, <1>4, <1>5, Left

LEMMA SpanUnwindKeeps ==
  ASSUME TInv, NEW t \in Task, UnwindSpan(t)
  PROVE  TInv'
<1>1. PICK f : f = Last(stack[t])
  OBVIOUS
<1>2. TracingTyped
  BY DEF TInv
<1>3. PICK e \in BOOLEAN : e = (flying[t] \in Error)
  <2>1. (flying[t] \in Error) \in BOOLEAN
    OBVIOUS
  <2>2. QED
    BY <2>1, Zenon
<1>4. /\ state[t] = "run" /\ stack[t] # <<>> /\ state' = state /\ manual' = manual /\ f.path = "span"
      /\ stack' = [stack EXCEPT ![t] = Front(@)]
      /\ spans' = [spans EXCEPT ![f.span].ended = TRUE, ![f.span].error = e]
      /\ current' = [current EXCEPT ![t] = f.outer]
  BY <1>1, <1>3 DEF UnwindSpan, Unwinds
<1>5. f.span \in DOMAIN spans
  BY <1>1, <1>4, InnermostSpan
<1>6. spans' = [spans EXCEPT ![f.span] = [spans[f.span] EXCEPT !.ended = TRUE, !.error = e]]
  BY <1>2, <1>4, <1>5, EndedAs
<1>7. current' = [current EXCEPT ![t] = IF f.path = "span" THEN f.outer ELSE @]
  BY <1>4
<1>8. QED
  BY <1>1, <1>4, <1>6, <1>7, Left

\* The span made for an exception on its way out has for parent what its block found.
LEMMA LazyUnwindKeeps ==
  ASSUME TInv, NEW t \in Task, UnwindLazy(t)
  PROVE  TInv'
<1>1. PICK f : f = Last(stack[t])
  OBVIOUS
<1>2. TracingTyped /\ Chain
  BY DEF TInv
<1>3. /\ state[t] = "run" /\ stack[t] # <<>> /\ state' = state /\ manual' = manual /\ f.path = "lazy"
      /\ stack' = [stack EXCEPT ![t] = Front(@)] /\ current' = current
      /\ spans' = IF flying[t] \in Error
                  THEN Append(spans, [NewSpan(f.call, t, f.outer) EXCEPT !.error = TRUE, !.ended = TRUE])
                  ELSE spans
  BY <1>1 DEF UnwindLazy, Unwinds
<1>4. current \in [Task -> Nat] /\ f \in Frame
  BY <1>1, <1>2, <1>3, Popped DEF TracingTyped
<1>5. current' = [current EXCEPT ![t] = IF f.path = "span" THEN f.outer ELSE @]
  BY <1>3, <1>4
<1>6. current[t] = f.outer
  BY <1>1, <1>2, <1>3, <1>5, PopChain
<1>7. PICK q : q = NewSpan(f.call, t, current[t])
  OBVIOUS
<1>8. q \in Span /\ ParentRight(q)
  BY <1>4, <1>7, NewSpanRight DEF Frame
<1>9. PICK r : r = [q EXCEPT !.error = TRUE, !.ended = TRUE]
  OBVIOUS
<1>10. r \in Span /\ r.ended /\ r.parent = q.parent /\ r.call = q.call /\ r.outer = q.outer
  BY <1>8, <1>9 DEF Span
<1>11. ParentRight(r)
  BY <1>8, <1>10 DEF ParentRight
<1>12. spans' = spans \/ spans' = Append(spans, r)
  BY <1>3, <1>6, <1>7, <1>9
<1>13. QED
  BY <1>1, <1>3, <1>5, <1>10, <1>11, <1>12, Left

\* The other blocks have no span, and make none.
LEMMA UnwindKeeps ==
  ASSUME TInv, NEW t \in Task, UnwindOff(t) \/ UnwindSuppress(t)
  PROVE  TInv'
<1>1. PICK f : f = Last(stack[t])
  OBVIOUS
<1>2. /\ state[t] = "run" /\ stack[t] # <<>> /\ state' = state /\ manual' = manual /\ f.path # "span"
      /\ stack' = [stack EXCEPT ![t] = Front(@)] /\ current' = current /\ spans' = spans
  BY <1>1 DEF UnwindOff, UnwindSuppress, Unwinds
<1>3. current' = [current EXCEPT ![t] = IF f.path = "span" THEN f.outer ELSE @]
  BY <1>2 DEF TInv, TracingTyped
<1>4. QED
  BY <1>1, <1>2, <1>3, Left

LEMMA StartSpanKeeps ==
  ASSUME TInv, NEW t \in Task, NEW call \in StartCall, StartSpan(t, call)
  PROVE  TInv'
<1>1. PICK r : r = NewSpan(call, t, current[t])
  OBVIOUS
<1>2. TracingTyped /\ Idle /\ Chain /\ OneOwner /\ OpenIsOwned /\ Parents
  BY DEF TInv
<1>3. r \in Span /\ ParentRight(r) /\ r.ended = FALSE
  BY <1>1, <1>2, NewSpanRight DEF TracingTyped
<1>4. /\ spans' = Append(spans, r) /\ manual' = manual \cup {Len(spans) + 1}
      /\ state' = state /\ stack' = stack /\ current' = current
  BY <1>1 DEF StartSpan
<1>5. /\ spans' \in Seq(Span) /\ Parents' /\ Len(spans) \in Nat /\ DOMAIN spans = 1 .. Len(spans)
      /\ DOMAIN spans' = 1 .. Len(spans) + 1 /\ spans'[Len(spans) + 1] = r
      /\ \A s \in DOMAIN spans : spans'[s] = spans[s]
  BY <1>2, <1>3, <1>4, SpanAdded
<1>6. PICK k \in Nat : k = Len(spans) + 1
  BY <1>5
<1>7. DOMAIN spans' = DOMAIN spans \cup {k} /\ k \notin DOMAIN spans /\ manual' = manual \cup {k} /\ ~spans'[k].ended
  BY <1>3, <1>4, <1>5, <1>6
<1>8. \A u \in Task : Open(u)' = Open(u)
  BY <1>4 DEF Open
<1>9. \A u \in Task, s \in DOMAIN spans' : Owns(u, s)' <=> Owns(u, s)
  BY <1>4, <1>8 DEF Owns
<1>10. TracingTyped' /\ Idle'
  BY <1>2, <1>4, <1>5, <1>7 DEF TracingTyped, Idle
<1>11. Chain'
  <2>1. \A v \in Task : ChainOf(v) => ChainOf(v)'
    BY <1>4 DEF ChainOf, Links, Before, NoSpan
  <2>2. QED
    BY <1>2, <1>4, <2>1 DEF Chain
<1>12. OneOwner'
  BY <1>2, <1>4, <1>7, <1>8 DEF OneOwner
<1>13. OpenIsOwned'
  BY <1>2, <1>5, <1>7, <1>9 DEF OpenIsOwned
<1>14. QED
  BY <1>5, <1>10, <1>11, <1>12, <1>13 DEF TInv

LEMMA EndSpanKeeps ==
  ASSUME TInv, NEW t \in Task, NEW k \in manual, EndSpan(t, k)
  PROVE  TInv'
<1>1. TracingTyped /\ Idle /\ Chain /\ OneOwner /\ OpenIsOwned /\ Parents
  BY DEF TInv
<1>2. k \in DOMAIN spans
  BY <1>1 DEF TracingTyped
<1>3. PICK r : r = [spans[k] EXCEPT !.ended = TRUE, !.error = spans[k].error]
  OBVIOUS
<1>4. /\ spans' = [spans EXCEPT ![k].ended = TRUE] /\ manual' = manual \ {k}
      /\ state' = state /\ stack' = stack /\ current' = current
  BY DEF EndSpan
<1>5. spans' = [spans EXCEPT ![k] = r] /\ spans[k].error \in BOOLEAN
  BY <1>1, <1>2, <1>3, <1>4, EndedAs
<1>6. PICK e \in BOOLEAN : e = spans[k].error
  BY <1>5
<1>7. /\ spans' \in Seq(Span) /\ Parents' /\ DOMAIN spans' = DOMAIN spans
      /\ \A s \in DOMAIN spans : spans'[s].ended <=> s = k \/ spans[s].ended
  BY <1>1, <1>2, <1>3, <1>5, <1>6, SpanEnded
<1>8. \A u \in Task : Open(u)' = Open(u)
  BY <1>4 DEF Open
<1>9. \A u \in Task, s \in DOMAIN spans : Owns(u, s)' <=> Owns(u, s)
  BY <1>4, <1>8 DEF Owns
<1>10. \A u \in Task : ~Owns(u, k)
  BY <1>1 DEF Owns, OneOwner
<1>11. TracingTyped' /\ Idle'
  BY <1>1, <1>4, <1>7 DEF TracingTyped, Idle
<1>12. Chain'
  <2>1. \A v \in Task : ChainOf(v) => ChainOf(v)'
    BY <1>4 DEF ChainOf, Links, Before, NoSpan
  <2>2. QED
    BY <1>1, <1>4, <2>1 DEF Chain
<1>13. OneOwner'
  BY <1>1, <1>4, <1>7, <1>8 DEF OneOwner
<1>14. OpenIsOwned'
  BY <1>1, <1>4, <1>7, <1>9, <1>10 DEF OpenIsOwned
<1>15. QED
  BY <1>7, <1>11, <1>12, <1>13, <1>14 DEF TInv

\* A task starts without blocks and is not the first one: it may have a span from the start.
LEMMA CreateTaskKeeps ==
  ASSUME TInv, NEW t \in Task, NEW u \in Task, CreateTask(t, u)
  PROVE  TInv'
<1>1. TracingTyped /\ Idle /\ Chain /\ OneOwner /\ OpenIsOwned /\ Parents
  BY DEF TInv
<1>2. /\ state[u] = "new" /\ state' = [state EXCEPT ![u] = "run"]
      /\ current' = [current EXCEPT ![u] = current[t]]
      /\ spans' = spans /\ stack' = stack /\ manual' = manual
  BY DEF CreateTask
<1>3. state \in [Task -> {"new", "run", "done"}] /\ current \in [Task -> Nat]
  BY <1>1 DEF TracingTyped
<1>4. /\ u # Main /\ stack[u] = <<>> /\ state'[u] = "run"
      /\ \A v \in Task : v # u => state'[v] = state[v] /\ current'[v] = current[v]
  BY <1>1, <1>2, <1>3 DEF Idle
<1>5. TracingTyped'
  BY <1>1, <1>2, <1>3 DEF TracingTyped
<1>6. Idle'
  BY <1>1, <1>2, <1>4, TracingConstants DEF Idle
<1>7. ChainOf(u)'
  <2>1. Len(stack'[u]) = 0
    BY <1>2, <1>4
  <2>2. QED
    BY <1>4, <2>1 DEF ChainOf, Links
<1>8. \A v \in Task : v # u /\ ChainOf(v) => ChainOf(v)'
  BY <1>2, <1>4 DEF ChainOf, Links, Before, NoSpan
<1>9. Chain'
  BY <1>1, <1>4, <1>7, <1>8 DEF Chain
<1>10. OneOwner' /\ OpenIsOwned' /\ Parents'
  BY <1>1, <1>2 DEF OneOwner, OpenIsOwned, Owns, Open, Parents
<1>11. QED
  BY <1>5, <1>6, <1>9, <1>10 DEF TInv

LEMMA FinishKeeps ==
  ASSUME TInv, NEW t \in Task, Finish(t)
  PROVE  TInv'
<1>1. TracingTyped /\ Idle /\ Chain /\ OneOwner /\ OpenIsOwned /\ Parents
  BY DEF TInv
<1>2. /\ state[t] = "run" /\ stack[t] = <<>> /\ state' = [state EXCEPT ![t] = "done"]
      /\ current' = [current EXCEPT ![t] = None]
      /\ spans' = spans /\ stack' = stack /\ manual' = manual
  BY DEF Finish
<1>3. state \in [Task -> {"new", "run", "done"}] /\ current \in [Task -> Nat]
  BY <1>1 DEF TracingTyped
<1>4. /\ state'[t] = "done"
      /\ \A v \in Task : v # t => state'[v] = state[v] /\ current'[v] = current[v]
  BY <1>2, <1>3
<1>5. TracingTyped'
  BY <1>1, <1>2, <1>3 DEF TracingTyped, None
<1>6. Idle'
  BY <1>1, <1>2, <1>4, TracingConstants DEF Idle
<1>7. \A v \in Task : v # t /\ ChainOf(v) => ChainOf(v)'
  BY <1>2, <1>4 DEF ChainOf, Links, Before, NoSpan
<1>8. Chain'
  BY <1>1, <1>4, <1>7 DEF Chain
<1>9. OneOwner' /\ OpenIsOwned' /\ Parents'
  BY <1>1, <1>2 DEF OneOwner, OpenIsOwned, Owns, Open, Parents
<1>10. QED
  BY <1>5, <1>6, <1>8, <1>9 DEF TInv

LEMMA TracingKeeps ==
  ASSUME TInv, TracingNext
  PROVE  TInv'
<1>1. PICK t \in Task :
        \/ \E call \in TracedCall : EnterTraced(t, call)
        \/ \E call \in StartCall : StartSpan(t, call)
        \/ \E call \in SuppressCall : EnterSuppress(t, call)
        \/ \E e \in Exception : Raise(t, e)
        \/ Leave(t)
        \/ UnwindOff(t) \/ UnwindSpan(t) \/ UnwindLazy(t) \/ UnwindSuppress(t)
        \/ \E s \in manual : EndSpan(t, s)
        \/ \E u \in Task : CreateTask(t, u)
        \/ Finish(t)
  BY DEF TracingNext
<1>2. CASE \E call \in TracedCall : EnterTraced(t, call)
  BY <1>2, EnterTracedKeeps
<1>3. CASE \E call \in StartCall : StartSpan(t, call)
  BY <1>3, StartSpanKeeps
<1>4. CASE \E call \in SuppressCall : EnterSuppress(t, call)
  BY <1>4, EnterSuppressKeeps
<1>5. CASE \E e \in Exception : Raise(t, e)
  BY <1>5, SameSpans DEF Raise
<1>6. CASE Leave(t)
  BY <1>6, LeaveKeeps
<1>7. CASE UnwindOff(t) \/ UnwindSuppress(t)
  BY <1>7, UnwindKeeps
<1>8. CASE UnwindSpan(t)
  BY <1>8, SpanUnwindKeeps
<1>9. CASE UnwindLazy(t)
  BY <1>9, LazyUnwindKeeps
<1>10. CASE \E s \in manual : EndSpan(t, s)
  BY <1>10, EndSpanKeeps
<1>11. CASE \E u \in Task : CreateTask(t, u)
  BY <1>11, CreateTaskKeeps
<1>12. CASE Finish(t)
  BY <1>12, FinishKeeps
<1>13. QED
  BY <1>1, <1>2, <1>3, <1>4, <1>5, <1>6, <1>7, <1>8, <1>9, <1>10, <1>11, <1>12

LEMMA StartupKeeps ==
  ASSUME TInv, [Next]_vars
  PROVE  TInv'
<1>1. CASE LoadConfig
  BY <1>1, SameSpans DEF LoadConfig, traceVars
<1>2. ASSUME NEW installed \in BOOLEAN, NEW up \in BOOLEAN,
             StartLogging(installed, up) \/ LoggingRefused(installed, up)
      PROVE  TInv'
  BY <1>2, SameSpans DEF StartLogging, LoggingRefused, traceVars
<1>3. ASSUME NEW installed \in BOOLEAN, NEW up \in BOOLEAN, StartTracing(installed, up)
      PROVE  TInv'
  BY <1>3, SameSpans DEF StartTracing, SetupTracing
<1>4. CASE NoEndpoint
  BY <1>4, SameSpans DEF NoEndpoint, traceVars
<1>5. CASE Run
  BY <1>5, TracingKeeps DEF Run
<1>6. CASE UNCHANGED vars
  BY <1>6, SameSpans DEF vars, traceVars
<1>7. QED
  BY <1>1, <1>2, <1>3, <1>4, <1>5, <1>6 DEF Next

LEMMA TInvInit ==
  ASSUME Init
  PROVE  TInv
<1>1. /\ spans = <<>> /\ manual = {}
      /\ state = [t \in Task |-> IF t = Main THEN "run" ELSE "new"]
      /\ stack = [t \in Task |-> <<>>] /\ current = [t \in Task |-> None]
  BY DEF Init, TracingInit
<1>2. Main \in Task
  BY TracingConstants
<1>3. TracingTyped /\ Idle
  BY <1>1, <1>2 DEF TracingTyped, Idle, None
<1>4. \A t \in Task : Len(stack[t]) = 0 /\ current[t] = None
  BY <1>1
<1>5. Chain
  BY <1>4 DEF Chain, ChainOf, Links, Before
<1>6. \A t \in Task : Open(t) = {}
  BY <1>1 DEF Open
<1>7. OneOwner /\ OpenIsOwned /\ Parents
  BY <1>1, <1>6 DEF OneOwner, OpenIsOwned, Parents
<1>8. QED
  BY <1>3, <1>5, <1>7 DEF TInv

\* What the invariant says of the last block with a span is what SpansRight asks.
LEMMA TInvRight ==
  ASSUME TInv
  PROVE  SpansRight
<1>1. TracingTyped /\ Idle /\ Chain /\ OneOwner /\ OpenIsOwned /\ Parents
  BY DEF TInv
<1>2. \A t \in Task : /\ stack[t] \in Seq(Frame) /\ Len(stack[t]) \in Nat /\ DOMAIN stack[t] = 1 .. Len(stack[t])
                      /\ Before(t, Len(stack[t]) + 1) = current[t]
  BY <1>1 DEF TracingTyped, Before
<1>3. ASSUME NEW t \in Task, NEW i \in Open(t), state[t] = "run", \A j \in Open(t) : j <= i
      PROVE  current[t] = stack[t][i].span
  <2>1. PICK n \in Nat : n = Len(stack[t])
    BY <1>2
  <2>2. i \in 1 .. n /\ stack[t][i].path = "span"
    BY <1>2, <2>1 DEF Open
  <2>3. NoSpan(t, i + 1, n + 1)
    <3>1. ASSUME NEW k \in i + 1 .. n, stack[t][k].path = "span" PROVE FALSE
      <4>1. k \in Open(t) /\ ~(k <= i)
        BY <1>2, <2>1, <2>2, <3>1 DEF Open
      <4>2. QED
        BY <1>3, <4>1
    <3>2. QED
      BY <2>2, <3>1 DEF NoSpan
  <2>4. ChainOf(t)
    BY <1>1, <1>3 DEF Chain
  <2>5. QED
    BY <1>2, <2>1, <2>2, <2>3, <2>4 DEF ChainOf, Links
<1>4. ASSUME state[Main] = "run", Open(Main) = {} PROVE current[Main] = None
  <2>1. Main \in Task
    BY TracingConstants
  <2>2. PICK n \in Nat : n = Len(stack[Main])
    BY <1>2, <2>1
  <2>3. NoSpan(Main, 1, n + 1)
    BY <1>2, <1>4, <2>1, <2>2 DEF Open, NoSpan
  <2>4. ChainOf(Main)
    BY <1>1, <1>4, <2>1 DEF Chain
  <2>5. n + 1 \in 1 .. n + 1
    OBVIOUS
  <2>6. QED
    BY <1>2, <2>1, <2>2, <2>3, <2>4, <2>5 DEF ChainOf, Links
<1>5. {s \in DOMAIN spans : ~spans[s].ended} = manual \cup UNION {{stack[t][i].span : i \in Open(t)} : t \in Task}
  <2>1. manual \subseteq DOMAIN spans /\ \A t \in Task : \A i \in Open(t) : stack[t][i].span \in DOMAIN spans
    BY <1>1 DEF TracingTyped, OneOwner
  <2>2. \A s : s \in UNION {{stack[t][i].span : i \in Open(t)} : t \in Task} <=> \E t \in Task : Owns(t, s)
    BY DEF Owns
  <2>3. \A t \in Task : \A s : Owns(t, s) => s \in DOMAIN spans
    BY <2>1 DEF Owns
  <2>4. QED
    BY <1>1, <2>1, <2>2, <2>3 DEF OpenIsOwned
<1>6. \A s \in DOMAIN spans :
        LET call == spans[s].call
        IN IF call.context = "none" /\ call.traceparent = "none" THEN spans[s].parent = spans[s].outer
           ELSE spans[s].parent \in {None, Remote} /\ (call.context = "remote" => spans[s].parent = Remote)
  BY <1>1 DEF Parents, ParentRight
<1>7. QED
  BY <1>3, <1>4, <1>5, <1>6 DEF SpansRight

\* Whatever exceptions leave the blocks of whatever tasks, each task has for its current span
\* that of its innermost traced() block, the open spans are those of open blocks and of
\* start_span(), and each has the parent that was asked for (traced(), start_span() and the
\* tokens of attach() and detach() in aiobp/tracing.py).
THEOREM SpansStayRight == Spec => []SpansRight
<1>1. Init => TInv
  BY TInvInit
<1>2. TInv /\ [Next]_vars => TInv'
  BY StartupKeeps
<1>3. TInv => SpansRight
  BY TInvRight
<1>4. QED
  BY <1>1, <1>2, <1>3, PTL DEF Spec

-----------------------------------------------------------------------------
(* Blocks, step by step: what the frames of a task keep.                   *)

KeptBy(frames) == [i \in DOMAIN frames |-> Keeps(frames[i])]
Kept == [t \in Task |-> [i \in DOMAIN stack[t] |-> Keeps(stack[t][i])]]

LEMMA KeepsExceptions ==
  ASSUME NEW f \in Frame
  PROVE  Keeps(f) \in SUBSET Exception
BY TracingConstants DEF Keeps, Frame

LEMMA KeptSeq ==
  ASSUME NEW s \in Seq(Frame)
  PROVE  /\ KeptBy(s) \in Seq(SUBSET Exception) /\ Len(KeptBy(s)) = Len(s) /\ Len(s) \in Nat
         /\ DOMAIN KeptBy(s) = 1 .. Len(s) /\ \A i \in 1 .. Len(s) : KeptBy(s)[i] = Keeps(s[i])
         /\ KeptBy(s) = <<>> <=> s = <<>>
<1>1. Len(s) \in Nat /\ DOMAIN s = 1 .. Len(s) /\ \A i \in 1 .. Len(s) : s[i] \in Frame
  OBVIOUS
<1>2. DOMAIN KeptBy(s) = 1 .. Len(s) /\ \A i \in 1 .. Len(s) : KeptBy(s)[i] = Keeps(s[i])
  BY <1>1 DEF KeptBy
<1>3. KeptBy(s) \in Seq(SUBSET Exception)
  <2>1. KeptBy(s) = [i \in 1 .. Len(s) |-> Keeps(s[i])]
    BY <1>1 DEF KeptBy
  <2>2. \A i \in 1 .. Len(s) : Keeps(s[i]) \in SUBSET Exception
    BY <1>1, KeepsExceptions
  <2>3. QED
    BY <1>1, <2>1, <2>2
<1>4. Len(KeptBy(s)) = Len(s)
  BY <1>1, <1>2, <1>3
<1>5. KeptBy(s) = <<>> <=> s = <<>>
  BY <1>3, <1>4, EmptySeq
<1>6. QED
  BY <1>1, <1>2, <1>3, <1>4, <1>5

LEMMA KeptAppend ==
  ASSUME NEW s \in Seq(Frame), NEW f \in Frame
  PROVE  KeptBy(Append(s, f)) = Append(KeptBy(s), Keeps(f))
<1>1. PICK n \in Nat : n = Len(s)
  OBVIOUS
<1>2. /\ Append(s, f) \in Seq(Frame) /\ Len(Append(s, f)) = n + 1 /\ Append(s, f)[n + 1] = f
      /\ \A i \in 1 .. n : Append(s, f)[i] = s[i]
  BY <1>1, AppendProperties
<1>3. KeptBy(s) \in Seq(SUBSET Exception) /\ Len(KeptBy(s)) = n /\ \A i \in 1 .. n : KeptBy(s)[i] = Keeps(s[i])
  BY <1>1, KeptSeq
<1>4. /\ KeptBy(Append(s, f)) \in Seq(SUBSET Exception) /\ Len(KeptBy(Append(s, f))) = n + 1
      /\ \A i \in 1 .. n + 1 : KeptBy(Append(s, f))[i] = Keeps(Append(s, f)[i])
  BY <1>2, KeptSeq
<1>5. /\ Append(KeptBy(s), Keeps(f)) \in Seq(SUBSET Exception) /\ Len(Append(KeptBy(s), Keeps(f))) = n + 1
      /\ \A i \in 1 .. n : Append(KeptBy(s), Keeps(f))[i] = KeptBy(s)[i]
      /\ Append(KeptBy(s), Keeps(f))[n + 1] = Keeps(f)
  BY <1>3, KeepsExceptions, AppendProperties
<1>6. \A i \in 1 .. n + 1 : KeptBy(Append(s, f))[i] = Append(KeptBy(s), Keeps(f))[i]
  BY <1>2, <1>3, <1>4, <1>5
<1>7. QED
  BY <1>4, <1>5, <1>6, SeqEqual

LEMMA KeptFront ==
  ASSUME NEW s \in Seq(Frame), s # <<>>
  PROVE  KeptBy(Front(s)) = Front(KeptBy(s)) /\ Last(KeptBy(s)) = Keeps(Last(s)) /\ KeptBy(s) # <<>>
<1>1. PICK n \in Nat : n = Len(s)
  OBVIOUS
<1>2. n # 0 /\ \A i \in 1 .. n : s[i] \in Frame
  BY <1>1, EmptySeq
<1>3. /\ KeptBy(s) \in Seq(SUBSET Exception) /\ Len(KeptBy(s)) = n /\ KeptBy(s) # <<>>
      /\ \A i \in 1 .. n : KeptBy(s)[i] = Keeps(s[i])
  BY <1>1, KeptSeq
<1>4. \A i \in 1 .. n : KeptBy(s)[i] \in SUBSET Exception
  BY <1>3
<1>5. /\ Front(s) \in Seq(Frame) /\ Len(Front(s)) = n - 1
      /\ \A i \in 1 .. n - 1 : Front(s)[i] = s[i]
  BY <1>1, <1>2, SubSeqProperties DEF Front
<1>6. /\ Front(KeptBy(s)) \in Seq(SUBSET Exception) /\ Len(Front(KeptBy(s))) = n - 1
      /\ \A i \in 1 .. n - 1 : Front(KeptBy(s))[i] = KeptBy(s)[i]
  BY <1>2, <1>3, <1>4, SubSeqProperties DEF Front
<1>7. /\ KeptBy(Front(s)) \in Seq(SUBSET Exception) /\ Len(KeptBy(Front(s))) = n - 1
      /\ \A i \in 1 .. n - 1 : KeptBy(Front(s))[i] = Keeps(Front(s)[i])
  BY <1>5, KeptSeq
<1>8. \A i \in 1 .. n - 1 : KeptBy(Front(s))[i] = Front(KeptBy(s))[i]
  BY <1>3, <1>5, <1>6, <1>7
<1>9. KeptBy(Front(s)) = Front(KeptBy(s))
  BY <1>6, <1>7, <1>8, SeqEqual
<1>10. Last(KeptBy(s)) = Keeps(Last(s))
  BY <1>1, <1>2, <1>3 DEF Last
<1>11. QED
  BY <1>3, <1>9, <1>10

LEMMA BlockEntered ==
  ASSUME TracingTyped, NEW t \in Task, NEW f \in Frame, stack' = [stack EXCEPT ![t] = Append(@, f)]
  PROVE  Kept' = [Kept EXCEPT ![t] = Append(@, Keeps(f))]
<1>1. stack \in [Task -> Seq(Frame)]
  BY DEF TracingTyped
<1>2. \A u \in Task : stack'[u] = IF u = t THEN Append(stack[t], f) ELSE stack[u]
  BY <1>1
<1>3. Kept = [u \in Task |-> KeptBy(stack[u])] /\ Kept' = [u \in Task |-> KeptBy(stack'[u])]
  BY DEF Kept, KeptBy
<1>4. KeptBy(Append(stack[t], f)) = Append(KeptBy(stack[t]), Keeps(f))
  BY <1>1, KeptAppend
<1>5. \A u \in Task : Kept'[u] = IF u = t THEN Append(Kept[t], Keeps(f)) ELSE Kept[u]
  <2>1. \A u \in Task : Kept[u] = KeptBy(stack[u]) /\ Kept'[u] = KeptBy(stack'[u])
    BY <1>3
  <2>2. Kept'[t] = Append(Kept[t], Keeps(f))
    BY <1>2, <1>4, <2>1, Zenon
  <2>3. \A u \in Task : u # t => Kept'[u] = Kept[u]
    BY <1>2, <2>1
  <2>4. QED
    BY <2>2, <2>3
<1>6. Kept' = [u \in Task |-> IF u = t THEN Append(Kept[t], Keeps(f)) ELSE Kept[u]]
  BY <1>3, <1>5
<1>7. QED
  BY <1>3, <1>6

LEMMA BlockLeft ==
  ASSUME TracingTyped, NEW t \in Task, stack[t] # <<>>, stack' = [stack EXCEPT ![t] = Front(@)]
  PROVE  /\ Kept' = [Kept EXCEPT ![t] = Front(@)]
         /\ Kept[t] # <<>> /\ Last(Kept[t]) = Keeps(Last(stack[t]))
<1>1. stack \in [Task -> Seq(Frame)]
  BY DEF TracingTyped
<1>2. \A u \in Task : stack'[u] = IF u = t THEN Front(stack[t]) ELSE stack[u]
  BY <1>1
<1>3. Kept = [u \in Task |-> KeptBy(stack[u])] /\ Kept' = [u \in Task |-> KeptBy(stack'[u])]
  BY DEF Kept, KeptBy
<1>4. KeptBy(Front(stack[t])) = Front(KeptBy(stack[t])) /\ KeptBy(stack[t]) # <<>> /\ Last(KeptBy(stack[t])) = Keeps(Last(stack[t]))
  BY <1>1, KeptFront
<1>5. Kept[t] = KeptBy(stack[t])
  BY <1>3
<1>6. Kept' = [Kept EXCEPT ![t] = Front(@)]
  <2>1. \A u \in Task : Kept'[u] = IF u = t THEN Front(Kept[t]) ELSE Kept[u]
    BY <1>2, <1>3, <1>4
  <2>2. Kept' = [u \in Task |-> IF u = t THEN Front(Kept[t]) ELSE Kept[u]]
    BY <1>3, <2>1
  <2>3. QED
    BY <1>3, <2>2
<1>7. QED
  BY <1>4, <1>5, <1>6

\* With errors_only the code of no block uses the span, which is None there.
NoneUnused == \A call \in TracedCall : ~(call.errorsOnly /\ call.uses)

\* traced() is asked to suppress only what is derived from Exception.
ErrorsSuppressed == \A call \in TracedCall : call.suppress \subseteq Error

Flying == flying \in [Task -> Exception \cup {Quiet}]

LEMMA SameBlocks ==
  ASSUME UNCHANGED <<state, stack, flying>>
  PROVE  UNCHANGED B!vars
BY DEF B!vars

LEMMA InitBlocks ==
  ASSUME Init
  PROVE  B!Init /\ Flying
<1>1. /\ state = [t \in Task |-> IF t = Main THEN "run" ELSE "new"]
      /\ stack = [t \in Task |-> <<>>] /\ flying = [t \in Task |-> Quiet]
  BY DEF Init, TracingInit
<1>2. [t \in Task |-> [i \in DOMAIN stack[t] |-> Keeps(stack[t][i])]] = [t \in Task |-> <<>>]
  <2>1. KeptBy(<<>>) = <<>>
    BY KeptSeq, EmptySeq
  <2>2. \A t \in Task : KeptBy(stack[t]) = <<>>
    BY <1>1, <2>1
  <2>3. QED
    BY <2>2 DEF KeptBy
<1>3. QED
  BY <1>1, <1>2 DEF B!Init, Flying

LEMMA EnterBlocks ==
  ASSUME NoneUnused, TInv, Flying, NEW t \in Task,
         \/ \E call \in TracedCall : EnterTraced(t, call)
         \/ \E call \in SuppressCall : EnterSuppress(t, call)
  PROVE  B!Enter(t) /\ Flying'
<1>1. PICK f \in Frame : stack' = [stack EXCEPT ![t] = Append(@, f)]
  <2>1. CASE \E call \in TracedCall : EnterTraced(t, call)
    <3>1. PICK call \in TracedCall : EnterTraced(t, call)
      BY <2>1
    <3>2. PICK path \in {"off", "lazy", "span"} :
            path = CASE ~tracer -> "off" [] tracer /\ call.errorsOnly -> "lazy" [] OTHER -> "span"
      OBVIOUS
    <3>3. PICK span \in Nat : span = IF path = "span" THEN Len(spans) + 1 ELSE None
      BY Newest DEF TInv, None
    <3>4. stack' = [stack EXCEPT ![t] = Append(@, [path |-> path, call |-> call, span |-> span, outer |-> current[t]])]
      BY <3>1, <3>2, <3>3 DEF EnterTraced, Push
    <3>5. [path |-> path, call |-> call, span |-> span, outer |-> current[t]] \in Frame
      BY DEF Frame, TInv, TracingTyped
    <3>6. QED
      BY <3>4, <3>5
  <2>2. CASE \E call \in SuppressCall : EnterSuppress(t, call)
    <3>1. PICK call \in SuppressCall : EnterSuppress(t, call)
      BY <2>2
    <3>2. stack' = [stack EXCEPT ![t] = Append(@, [path |-> "suppress", call |-> call, span |-> None, outer |-> current[t]])]
      BY <3>1 DEF EnterSuppress, Push
    <3>3. [path |-> "suppress", call |-> call, span |-> None, outer |-> current[t]] \in Frame
      BY DEF Frame, TInv, TracingTyped, None
    <3>4. QED
      BY <3>2, <3>3
  <2>3. QED
    BY <2>1, <2>2
<1>2. state[t] = "run" /\ flying[t] = Quiet /\ state' = state
  BY DEF EnterTraced, EnterSuppress, Runs
<1>3. flying' = flying
  BY DEF EnterTraced, EnterSuppress, NoneUnused, Flying
<1>4. Kept' = [Kept EXCEPT ![t] = Append(@, Keeps(f))] /\ Keeps(f) \in SUBSET Exception
  BY <1>1, BlockEntered, KeepsExceptions DEF TInv
<1>5. QED
  BY <1>2, <1>3, <1>4 DEF B!Enter, Kept, Flying

\* A block that keeps an exception in one is one whose set holds it in the other.
LEMMA LeaveBlocks ==
  ASSUME ErrorsSuppressed, TInv, Flying, NEW t \in Task,
         Leave(t) \/ UnwindOff(t) \/ UnwindSpan(t) \/ UnwindLazy(t) \/ UnwindSuppress(t)
  PROVE  B!Leave(t) /\ Flying'
<1>1. PICK f : f = Last(stack[t])
  OBVIOUS
<1>2. stack[t] # <<>> /\ stack' = [stack EXCEPT ![t] = Front(@)] /\ state' = state
  BY DEF Leave, UnwindOff, UnwindSpan, UnwindLazy, UnwindSuppress, Unwinds
<1>3. f \in Frame
  BY <1>1, <1>2, Popped DEF TInv
<1>4. Kept' = [Kept EXCEPT ![t] = Front(@)] /\ Kept[t] # <<>> /\ Last(Kept[t]) = Keeps(f)
  BY <1>1, <1>2, BlockLeft DEF TInv
<1>5. flying' = [flying EXCEPT ![t] = IF @ \in Keeps(f) THEN Quiet ELSE @]
  <2>1. CASE Leave(t)
    BY <2>1 DEF Leave, Runs, Flying
  <2>2. CASE UnwindOff(t) \/ UnwindSpan(t) \/ UnwindLazy(t)
    <3>1. f.path # "suppress" /\ flying' = [flying EXCEPT ![t] = IF flying[t] \in Error /\ flying[t] \in f.call.suppress THEN Quiet ELSE @]
      BY <1>1, <2>2 DEF UnwindOff, UnwindSpan, UnwindLazy, Unwinds
    <3>2. f.call \in TracedCall
      BY <1>3, <3>1 DEF Frame
    <3>3. f.call.suppress \subseteq Error
      BY <3>2 DEF ErrorsSuppressed
    <3>4. QED
      BY <3>1, <3>3 DEF Keeps
  <2>3. CASE UnwindSuppress(t)
    <3>1. f.path = "suppress" /\ flying' = [flying EXCEPT ![t] = IF flying[t] \in f.call.suppress THEN Quiet ELSE @]
      BY <1>1, <2>3 DEF UnwindSuppress, Unwinds
    <3>2. QED
      BY <3>1 DEF Keeps
  <2>4. QED
    BY <2>1, <2>2, <2>3
<1>6. Flying'
  BY <1>5 DEF Flying
<1>7. flying' = [flying EXCEPT ![t] = IF @ \in Last(Kept[t]) THEN Quiet ELSE @]
  BY <1>4, <1>5
<1>8. B!Leave(t)
  <2>1. UNCHANGED state
    BY <1>2
  <2>2. QED
    BY <1>4, <1>7, <2>1 DEF B!Leave, Kept, B!Front, B!Last, Front, Last
<1>9. QED
  BY <1>6, <1>8

LEMMA RunBlocks ==
  ASSUME NoneUnused, ErrorsSuppressed, TInv, Flying, TracingNext
  PROVE  [B!Next]_(B!vars) /\ Flying'
<1>1. PICK t \in Task :
        \/ \E call \in TracedCall : EnterTraced(t, call)
        \/ \E call \in StartCall : StartSpan(t, call)
        \/ \E call \in SuppressCall : EnterSuppress(t, call)
        \/ \E e \in Exception : Raise(t, e)
        \/ Leave(t)
        \/ UnwindOff(t) \/ UnwindSpan(t) \/ UnwindLazy(t) \/ UnwindSuppress(t)
        \/ \E s \in manual : EndSpan(t, s)
        \/ \E u \in Task : CreateTask(t, u)
        \/ Finish(t)
  BY DEF TracingNext
<1>2. CASE (\E call \in TracedCall : EnterTraced(t, call)) \/ (\E call \in SuppressCall : EnterSuppress(t, call))
  BY <1>2, EnterBlocks DEF B!Next
<1>3. CASE (\E call \in StartCall : StartSpan(t, call)) \/ (\E s \in manual : EndSpan(t, s))
  BY <1>3, SameBlocks DEF StartSpan, EndSpan, Flying
<1>4. CASE \E e \in Exception : Raise(t, e)
  <2>1. PICK e \in Exception : Raise(t, e)
    BY <1>4
  <2>2. B!Raise(t)
    BY <2>1 DEF Raise, Runs, B!Raise
  <2>3. Flying'
    BY <2>1 DEF Raise, Flying
  <2>4. QED
    BY <2>2, <2>3 DEF B!Next
<1>5. CASE Leave(t) \/ UnwindOff(t) \/ UnwindSpan(t) \/ UnwindLazy(t) \/ UnwindSuppress(t)
  BY <1>5, LeaveBlocks DEF B!Next
<1>6. CASE \E u \in Task : CreateTask(t, u)
  <2>1. PICK u \in Task : CreateTask(t, u)
    BY <1>6
  <2>2. B!Spawn(t, u)
    BY <2>1 DEF CreateTask, Runs, B!Spawn
  <2>3. Flying'
    BY <2>1 DEF CreateTask, Flying
  <2>4. QED
    BY <2>2, <2>3 DEF B!Next
<1>7. CASE Finish(t)
  <2>1. /\ state[t] = "run" /\ stack[t] = <<>> /\ state' = [state EXCEPT ![t] = "done"]
        /\ flying' = [flying EXCEPT ![t] = Quiet] /\ stack' = stack
    BY <1>7 DEF Finish
  <2>2. Kept[t] = <<>> /\ Kept' = Kept
    <3>1. KeptBy(<<>>) = <<>>
      BY KeptSeq, EmptySeq
    <3>2. QED
      BY <2>1, <3>1 DEF Kept, KeptBy
  <2>3. B!Finish(t)
    BY <2>1, <2>2 DEF B!Finish, Kept
  <2>4. Flying'
    BY <2>1 DEF Flying
  <2>5. QED
    BY <2>3, <2>4 DEF B!Next
<1>8. QED
  BY <1>1, <1>2, <1>3, <1>4, <1>5, <1>6, <1>7

LEMMA NextBlocks ==
  ASSUME NoneUnused, ErrorsSuppressed, TInv, Flying, [Next]_vars
  PROVE  [B!Next]_(B!vars) /\ Flying'
<1>1. CASE Run
  BY <1>1, RunBlocks DEF Run
<1>2. CASE UNCHANGED <<state, stack, flying>>
  BY <1>2, SameBlocks DEF Flying
<1>3. LoadConfig \/ NoEndpoint \/ UNCHANGED vars => UNCHANGED <<state, stack, flying>>
  BY DEF LoadConfig, NoEndpoint, vars, traceVars
<1>4. \A installed, up \in BOOLEAN :
        StartLogging(installed, up) \/ LoggingRefused(installed, up) \/ StartTracing(installed, up)
          => UNCHANGED <<state, stack, flying>>
  BY DEF StartLogging, LoggingRefused, StartTracing, SetupTracing, traceVars
<1>5. QED
  BY <1>1, <1>2, <1>3, <1>4 DEF Next

\* The blocks of a service keep the same exceptions, and let the same go on, whether tracing is
\* on, off, or set up while they are open ("works unchanged whether tracing is on or off",
\* README.md), if no code uses the None it has for a span with errors_only, and traced() is asked
\* to suppress nothing but what is derived from Exception, for it suppresses nothing else.
THEOREM TracedOrNot == ASSUME NoneUnused, ErrorsSuppressed PROVE Spec => SameOutcome
<1>1. Init => TInv /\ B!Init /\ Flying
  BY TInvInit, InitBlocks
<1>2. TInv /\ Flying /\ [Next]_vars => TInv' /\ Flying' /\ [B!Next]_(B!vars)
  BY StartupKeeps, NextBlocks
<1>3. QED
  BY <1>1, <1>2, PTL DEF Spec, SameOutcome, B!Spec

-----------------------------------------------------------------------------
(***************************************************************************)
(* Records.  Before setup_logging() the root logger has no handlers, if no *)
(* code of the service ran that logs; after it, those of the               *)
(* configuration, with a level that is none above theirs.                  *)
(***************************************************************************)
Targets(c, otel) == {to \in {"console", "file", "otel"} : (to = "file" => c.filename # "None") /\ (to = "otel" => otel)}
Wanted(c, to) == Level[IF to = "console" THEN c.console ELSE c.level]

LogInv == IF logging.set
          THEN /\ handlers = {[to |-> to, level |-> Wanted(logging.c, to)] : to \in Targets(logging.c, logging.otel)}
               /\ \A to \in Targets(logging.c, logging.otel) : level <= Wanted(logging.c, to) /\ Wanted(logging.c, to) \in Nat
               /\ level \in Nat
          ELSE handlers = {} /\ hook = "python"

LEMMA SomeHandler ==
  ASSUME LogInv, logging.set
  PROVE  handlers # {}
<1>1. "console" \in Targets(logging.c, logging.otel)
  BY DEF Targets
<1>2. QED
  BY <1>1 DEF LogInv

\* basicConfig() leaves a configured root logger alone, and so does whatever is logged.
LEMMA LogFunctionKeeps ==
  ASSUME LogInv, logging.set, logging' = logging, LogFunction \/ UNCHANGED logVars
  PROVE  LogInv'
<1>1. handlers' = handlers /\ level' = level
  BY SomeHandler DEF LogFunction, BasicConfig, logVars
<1>2. QED
  BY <1>1 DEF LogInv

LEMMA LeastOfTwo ==
  ASSUME NEW a \in Nat, NEW b \in Nat
  PROVE  /\ Min({a}) = a
         /\ Min({a, b}) \in Nat /\ Min({a, b}) <= a /\ Min({a, b}) <= b
<1>1. Min({a}) = a
  BY DEF Min
<1>2. \E x \in {a, b} : \A y \in {a, b} : x <= y
  OBVIOUS
<1>3. Min({a, b}) \in {a, b} /\ \A y \in {a, b} : Min({a, b}) <= y
  BY <1>2 DEF Min
<1>4. QED
  BY <1>1, <1>3

LEMMA LevelIsNat ==
  ASSUME NEW name, Known(name)
  PROVE  Level[name] \in Nat
BY DEF Known, Level

LEMMA StartLoggingKeeps ==
  ASSUME LogInv, NEW installed \in BOOLEAN, NEW up \in BOOLEAN, StartLogging(installed, up)
  PROVE  LogInv'
<1>1. PICK c : c = LogConfig
  OBVIOUS
<1>2. PICK otel \in BOOLEAN : otel = OtelHandler(c, installed, up)
  <2>1. OtelHandler(c, installed, up) \in BOOLEAN
    BY DEF OtelHandler
  <2>2. QED
    BY <2>1, Zenon
<1>3. PICK named : named = Handlers(c, installed, up)
  OBVIOUS
<1>4. /\ DOMAIN named = Targets(c, otel)
      /\ \A to \in Targets(c, otel) : named[to] = IF to = "console" THEN c.console ELSE c.level
  BY <1>2, <1>3 DEF Handlers, Targets
<1>5. /\ \A to \in DOMAIN named : Known(named[to])
      /\ handlers' = {[to |-> to, level |-> Level[named[to]]] : to \in DOMAIN named}
      /\ level' = Min({Level[named[to]] : to \in DOMAIN named})
      /\ logging' = [set |-> TRUE, c |-> c, otel |-> otel]
  BY <1>1, <1>2, <1>3 DEF StartLogging, SetupLogging, BasicConfig, RootLevel, LogInv
<1>6. \A to \in Targets(c, otel) : Level[named[to]] = Wanted(c, to) /\ Wanted(c, to) \in Nat
  BY <1>4, <1>5, LevelIsNat DEF Wanted
<1>7. "console" \in Targets(c, otel) /\ \A to \in Targets(c, otel) : to # "console" => Wanted(c, to) = Level[c.level]
  BY DEF Targets, Wanted
<1>8. level' \in Nat /\ \A to \in Targets(c, otel) : level' <= Wanted(c, to)
  <2>1. PICK lowest : lowest = {Wanted(c, to) : to \in Targets(c, otel)}
    OBVIOUS
  <2>2. level' = Min(lowest)
    <3>1. {Level[named[to]] : to \in DOMAIN named} = lowest
      BY <1>4, <1>6, <2>1
    <3>2. QED
      BY <1>5, <3>1
  <2>3. CASE \E to \in Targets(c, otel) : to # "console"
    <3>1. lowest = {Wanted(c, "console"), Level[c.level]} /\ Level[c.level] \in Nat
      BY <1>6, <1>7, <2>1, <2>3
    <3>2. QED
      BY <1>6, <1>7, <2>2, <3>1, LeastOfTwo
  <2>4. CASE \A to \in Targets(c, otel) : to = "console"
    <3>1. lowest = {Wanted(c, "console")}
      BY <1>7, <2>1, <2>4
    <3>2. QED
      BY <1>6, <1>7, <2>2, <2>4, <3>1, LeastOfTwo
  <2>5. QED
    BY <2>3, <2>4
<1>9. handlers' = {[to |-> to, level |-> Wanted(c, to)] : to \in Targets(c, otel)}
  BY <1>4, <1>5, <1>6
<1>10. logging'.set /\ logging'.c = c /\ logging'.otel = otel
  BY <1>5
<1>11. QED
  BY <1>6, <1>8, <1>9, <1>10 DEF LogInv

LEMMA LogInvKeeps ==
  ASSUME ~Early, LogInv, [Next]_vars
  PROVE  LogInv'
<1>1. CASE LoadConfig \/ UNCHANGED vars
  BY <1>1 DEF LoadConfig, vars, startVars, logVars, LogInv
<1>2. ASSUME NEW installed \in BOOLEAN, NEW up \in BOOLEAN, StartLogging(installed, up)
      PROVE  LogInv'
  BY <1>2, StartLoggingKeeps
<1>3. ASSUME NEW installed \in BOOLEAN, NEW up \in BOOLEAN, LoggingRefused(installed, up) \/ StartTracing(installed, up)
      PROVE  LogInv'
  BY <1>3 DEF LoggingRefused, LoggingFails, StartTracing, SetupTracing, logVars, LogInv
<1>4. CASE NoEndpoint
  <2>1. CASE logging.set
    BY <1>4, <2>1, LogFunctionKeeps DEF NoEndpoint, Uncaught
  <2>2. CASE ~logging.set
    BY <1>4, <2>2 DEF NoEndpoint, Uncaught, logVars, LogInv
  <2>3. QED
    BY <2>1, <2>2
<1>5. CASE Run
  <2>1. logging.set /\ logging' = logging
    BY <1>5 DEF Run, startVars
  <2>2. LogFunction \/ UNCHANGED logVars
    BY <1>5 DEF Run, TracingNext, EnterTraced, EnterSuppress, StartSpan, EndSpan, Raise, Leave, UnwindOff,
                UnwindSpan, UnwindLazy, UnwindSuppress, CreateTask, Finish, Uncaught
  <2>3. QED
    BY <2>1, <2>2, LogFunctionKeeps
<1>6. QED
  BY <1>1, <1>2, <1>3, <1>4, <1>5 DEF Next

LEMMA LogInvReach ==
  ASSUME LogInv
  PROVE  RecordsReach
<1>1. SUFFICES ASSUME logging.set, NEW n \in Range(Level)
               PROVE  Reached(n) = {to \in {"console", "file", "otel"} :
                        CASE to = "console" -> n >= Level[logging.c.console]
                          [] to = "file" -> logging.c.filename # "None" /\ n >= Level[logging.c.level]
                          [] to = "otel" -> logging.otel /\ n >= Level[logging.c.level]}
  BY DEF RecordsReach
<1>2. n \in Nat
  BY DEF Range, Level
<1>3. PICK there : there = Targets(logging.c, logging.otel)
  OBVIOUS
<1>4. \A to \in there : level <= Wanted(logging.c, to) /\ Wanted(logging.c, to) \in Nat /\ level \in Nat
  BY <1>1, <1>3 DEF LogInv
<1>5. Reached(n) = {h.to : h \in {h \in handlers : n >= level /\ n >= h.level}}
  BY <1>1, SomeHandler DEF Reached
<1>6. handlers = {[to |-> to, level |-> Wanted(logging.c, to)] : to \in there}
  BY <1>1, <1>3 DEF LogInv
<1>7. Reached(n) = {to \in there : n >= Wanted(logging.c, to)}
  <2>1. \A to \in there : n >= Wanted(logging.c, to) => n >= level
    BY <1>2, <1>4
  <2>2. \A to \in there : LET h == [to |-> to, level |-> Wanted(logging.c, to)]
                         IN h \in handlers /\ h.to = to /\ h.level = Wanted(logging.c, to)
    BY <1>6
  <2>3. \A h \in handlers : h.to \in there /\ h.level = Wanted(logging.c, h.to)
    BY <1>6
  <2>4. \A x \in Reached(n) : x \in there /\ n >= Wanted(logging.c, x)
    BY <1>5, <2>3
  <2>5. \A x \in there : n >= Wanted(logging.c, x) => x \in Reached(n)
    BY <1>5, <2>1, <2>2
  <2>6. QED
    BY <2>4, <2>5
<1>8. QED
  BY <1>3, <1>7 DEF Targets, Wanted

\* A record reaches just those handlers whose level it has, whatever the levels of a
\* configuration and whatever was logged since: the root logger passes what the most verbose
\* one needs and no handler is lost (setup_logging() in aiobp/logging/custom.py), if no code of
\* the service ran before.
THEOREM RecordsAlwaysReach == ASSUME ~Early PROVE Spec => []RecordsReach
<1>1. Init => LogInv
  BY DEF Init, LoggingInit, LogInv
<1>2. LogInv /\ [Next]_vars => LogInv'
  BY LogInvKeeps
<1>3. LogInv => RecordsReach
  BY LogInvReach
<1>4. QED
  BY <1>1, <1>2, <1>3, PTL DEF Spec

-----------------------------------------------------------------------------
(***************************************************************************)
(* Configurations.  A section is in what fill_sections() makes of a        *)
(* document just when every section down to it is there or is required.    *)
(***************************************************************************)

LEMMA Prefix ==
  ASSUME NEW p \in Seq(STRING), NEW n \in 0 .. Len(p)
  PROVE  /\ SubSeq(p, 1, n) \in Seq(STRING) /\ Len(SubSeq(p, 1, n)) = n
         /\ \A i \in 1 .. n : SubSeq(p, 1, n)[i] = p[i]
<1>1. Len(p) \in Nat /\ n \in Int /\ n <= Len(p) /\ \A i \in 1 .. n : p[i] \in STRING
  OBVIOUS
<1>2. /\ SubSeq(p, 1, n) \in Seq(STRING)
      /\ Len(SubSeq(p, 1, n)) = (IF 1 <= n THEN n - 1 + 1 ELSE 0)
      /\ \A i \in 1 .. n - 1 + 1 : SubSeq(p, 1, n)[i] = p[1 + i - 1]
  BY <1>1, SubSeqProperties
<1>3. QED
  BY <1>1, <1>2

LEMMA PrefixOfPrefix ==
  ASSUME NEW p \in Seq(STRING), NEW n \in 0 .. Len(p), NEW m \in 0 .. n
  PROVE  SubSeq(SubSeq(p, 1, n), 1, m) = SubSeq(p, 1, m)
<1>1. SubSeq(p, 1, n) \in Seq(STRING) /\ Len(SubSeq(p, 1, n)) = n /\ \A i \in 1 .. n : SubSeq(p, 1, n)[i] = p[i]
  BY Prefix
<1>2. PICK q \in Seq(STRING) : q = SubSeq(p, 1, n)
  BY <1>1
<1>3. m \in 0 .. Len(q) /\ m \in 0 .. Len(p) /\ \A i \in 1 .. m : q[i] = p[i]
  BY <1>1, <1>2
<1>4. SubSeq(q, 1, m) \in Seq(STRING) /\ Len(SubSeq(q, 1, m)) = m /\ \A i \in 1 .. m : SubSeq(q, 1, m)[i] = q[i]
  BY <1>3, Prefix
<1>5. SubSeq(p, 1, m) \in Seq(STRING) /\ Len(SubSeq(p, 1, m)) = m /\ \A i \in 1 .. m : SubSeq(p, 1, m)[i] = p[i]
  BY <1>3, Prefix
<1>6. \A i \in 1 .. m : SubSeq(q, 1, m)[i] = SubSeq(p, 1, m)[i]
  BY <1>3, <1>4, <1>5
<1>7. SubSeq(q, 1, m) = SubSeq(p, 1, m)
  BY <1>4, <1>5, <1>6, SeqEqual
<1>8. QED
  BY <1>2, <1>7

LEMMA PathIs ==
  ASSUME NEW p \in DOMAIN Class
  PROVE  /\ p \in Seq(STRING) /\ Len(p) \in Nat \ {0}
         /\ Front(p) = SubSeq(p, 1, Len(p) - 1)
         /\ Len(p) = 1 \/ Front(p) \in Sections
BY ClassTyped, EmptySeq DEF Front

\* What is above a field is a section: else there is a shortest distance at which it is none.
LEMMA AboveSections ==
  ASSUME NEW p \in DOMAIN Class
  PROVE  Above(p) \subseteq Sections
<1>1. p \in Seq(STRING) /\ Len(p) \in Nat \ {0}
  BY PathIs
<1>2. PICK far : far = {k \in Nat : k \in 1 .. Len(p) - 1 /\ SubSeq(p, 1, Len(p) - k) \notin Sections}
  OBVIOUS
<1>3. far = {}
  <2>1. SUFFICES ASSUME far # {} PROVE FALSE
    OBVIOUS
  <2>2. PICK x \in far : \A y \in far : <<y, x>> \notin OpToRel(<, Nat)
    <3>1. far \in SUBSET Nat
      BY <1>2
    <3>2. QED
      BY <2>1, <3>1, NatLessThanWellFounded, WFMin
  <2>3. x \in 1 .. Len(p) - 1 /\ SubSeq(p, 1, Len(p) - x) \notin Sections
    BY <1>2
  <2>4. PICK q : q = SubSeq(p, 1, Len(p) - (x - 1))
    OBVIOUS
  <2>5. q \in DOMAIN Class
    <3>1. CASE x = 1
      <4>1. \A i \in 1 .. Len(p) : p[i] = q[i] /\ q \in Seq(STRING) /\ Len(q) = Len(p)
        BY <1>1, <2>4, <3>1, Prefix
      <4>2. q = p
        BY <1>1, <4>1, SeqEqual
      <4>3. QED
        BY <4>2
    <3>2. CASE x # 1
      <4>1. x - 1 \in 1 .. Len(p) - 1 /\ x - 1 \in Nat /\ x - 1 < x /\ x \in Nat
        BY <1>1, <2>3, <3>2
      <4>2. x - 1 \notin far
        <5>1. OpToRel(<, Nat) = {r \in Nat \X Nat : r[1] < r[2]}
          BY DEF OpToRel
        <5>2. <<x - 1, x>> \in OpToRel(<, Nat)
          BY <4>1, <5>1
        <5>3. QED
          BY <2>2, <5>2
      <4>3. q \in Sections
        BY <1>2, <2>4, <4>1, <4>2
      <4>4. QED
        BY <4>3 DEF Sections
    <3>3. QED
      BY <3>1, <3>2
  <2>6. Len(p) - (x - 1) \in 0 .. Len(p) /\ Len(p) - x \in 0 .. Len(p) - (x - 1) /\ Len(p) - (x - 1) >= 2
    BY <1>1, <2>3
  <2>7. Len(q) = Len(p) - (x - 1) /\ SubSeq(q, 1, Len(p) - x) = SubSeq(p, 1, Len(p) - x)
    BY <1>1, <2>4, <2>6, Prefix, PrefixOfPrefix
  <2>8. Front(q) = SubSeq(p, 1, Len(p) - x)
    <3>1. Len(q) - 1 = Len(p) - x
      BY <1>1, <2>3, <2>7
    <3>2. QED
      BY <2>5, <2>7, <3>1, PathIs
  <2>9. Len(q) # 1
    BY <1>1, <2>3, <2>7
  <2>10. QED
    BY <2>3, <2>5, <2>8, <2>9, PathIs
<1>4. ASSUME NEW n \in 1 .. Len(p) - 1
      PROVE  SubSeq(p, 1, n) \in Sections
  <2>1. Len(p) - n \in Nat /\ Len(p) - n \in 1 .. Len(p) - 1 /\ Len(p) - (Len(p) - n) = n
    BY <1>1
  <2>2. QED
    BY <1>2, <1>3, <2>1
<1>5. QED
  BY <1>4 DEF Above

\* What is above a field that is in a section is the section and what is above that.
LEMMA AboveIs ==
  ASSUME NEW p \in DOMAIN Class, Len(p) # 1
  PROVE  Above(p) = Above(Front(p)) \cup {Front(p)}
<1>1. p \in Seq(STRING) /\ Len(p) \in Nat \ {0} /\ Front(p) = SubSeq(p, 1, Len(p) - 1)
  BY PathIs
<1>2. Len(p) - 1 \in 0 .. Len(p)
  BY <1>1
<1>3. Len(Front(p)) = Len(p) - 1 /\ \A n \in 0 .. Len(p) - 1 : SubSeq(Front(p), 1, n) = SubSeq(p, 1, n)
  <2>1. PICK k \in 0 .. Len(p) : k = Len(p) - 1
    BY <1>2
  <2>2. Len(SubSeq(p, 1, k)) = k /\ \A n \in 0 .. k : SubSeq(SubSeq(p, 1, k), 1, n) = SubSeq(p, 1, n)
    BY <1>1, Prefix, PrefixOfPrefix
  <2>3. QED
    BY <1>1, <2>1, <2>2
<1>4. PICK l \in Nat : l = Len(p) - 1
  BY <1>1
<1>5. l >= 1 /\ 1 .. l = 1 .. l - 1 \cup {l} /\ \A n \in 1 .. l : n \in 0 .. l
  BY <1>1, <1>4
<1>6. Above(p) = {SubSeq(p, 1, n) : n \in 1 .. l} /\ Above(Front(p)) = {SubSeq(Front(p), 1, n) : n \in 1 .. l - 1}
  BY <1>3, <1>4 DEF Above
<1>7. Above(Front(p)) = {SubSeq(p, 1, n) : n \in 1 .. l - 1}
  BY <1>3, <1>4, <1>5, <1>6
<1>8. QED
  BY <1>1, <1>4, <1>5, <1>6, <1>7

LEMMA TopAbove ==
  ASSUME NEW p, Len(p) = 1
  PROVE  Above(p) = {}
BY DEF Above

\* A section that is above a field has above it only what is above the field.
LEMMA AboveAbove ==
  ASSUME NEW p \in DOMAIN Class, NEW q \in Above(p)
  PROVE  Above(q) \subseteq Above(p)
<1>1. p \in Seq(STRING) /\ Len(p) \in Nat \ {0}
  BY PathIs
<1>2. PICK n \in 1 .. Len(p) - 1 : q = SubSeq(p, 1, n)
  BY DEF Above
<1>3. n \in 0 .. Len(p)
  BY <1>1
<1>4. Len(q) = n /\ \A m \in 0 .. n : SubSeq(q, 1, m) = SubSeq(p, 1, m)
  BY <1>1, <1>2, <1>3, Prefix, PrefixOfPrefix
<1>5. ASSUME NEW m \in 1 .. n - 1 PROVE SubSeq(q, 1, m) \in Above(p)
  <2>1. m \in 0 .. n /\ m \in 1 .. Len(p) - 1
    BY <1>1
  <2>2. QED
    BY <1>4, <2>1 DEF Above
<1>6. QED
  BY <1>4, <1>5 DEF Above

\* Settings that every format says the same way: fields, no nulls, and for a bool no spelling
\* that only one of the formats knows.
PlainSettings == \A s \in Setting : \A p \in DOMAIN s :
                   /\ p \in Leaves /\ s[p] \notin {"null", "True"}
                   /\ Class[p].type = "bool" => s[p] \in {"true", "false"}

\* The paths of settings s and the sections above them; whether every section above p is in a
\* document of s or is added to it; whether p is.
Said(s) == DOMAIN s \cup UNION {Above(p) : p \in DOMAIN s}
InSections(s, p) == \A q \in Above(p) : q \in Said(s) \/ Class[q].required
Present(s, p) == p \in Said(s) \/ (Class[p].required /\ InSections(s, p))

LEMMA SaidIs ==
  ASSUME PlainSettings, NEW s \in Setting
  PROVE  /\ Said(s) \subseteq DOMAIN Class /\ Said(s) \cap Leaves = DOMAIN s
         /\ \A p \in Said(s) : Above(p) \subseteq Said(s)
<1>1. \A p \in DOMAIN s : p \in Leaves /\ p \in DOMAIN Class /\ p \notin Sections
  BY DEF PlainSettings, Leaves
<1>2. \A p \in DOMAIN s : Above(p) \subseteq Sections
  BY <1>1, AboveSections
<1>3. \A p \in Said(s) : p \in DOMAIN s \/ \E q \in DOMAIN s : p \in Above(q)
  BY DEF Said
<1>4. \A p \in Said(s) \ DOMAIN s : p \in Sections
  BY <1>2, <1>3
<1>5. Sections \subseteq DOMAIN Class
  BY DEF Sections
<1>6. \A p \in Said(s) : Above(p) \subseteq Said(s)
  <2>1. \A p \in DOMAIN s : Above(p) \subseteq Said(s)
    BY DEF Said
  <2>2. \A p \in DOMAIN s : \A q \in Above(p) : Above(q) \subseteq Above(p)
    BY <1>1, AboveAbove
  <2>3. QED
    BY <1>3, <2>1, <2>2
<1>7. DOMAIN s \subseteq Said(s)
  BY DEF Said
<1>8. Said(s) \cap Leaves = DOMAIN s
  BY <1>1, <1>4, <1>7 DEF Leaves
<1>9. QED
  BY <1>1, <1>4, <1>5, <1>6, <1>8

\* A document of settings: tables where sections are, texts that fit where fields are.
Documents(doc, s) ==
  /\ DOMAIN doc = Said(s)
  /\ \A p \in DOMAIN doc \cap Sections : doc[p] = Table
  /\ \A p \in DOMAIN doc \cap Leaves :
       /\ doc[p].text = s[p]
       /\ doc[p].type \in {Class[p].type} \cup (IF Class[p].type = "str or None" THEN {"str", "null"} ELSE {})
            <=> ~(Class[p].type = "int" /\ s[p] \notin Number)

LEMMA FilledIs ==
  ASSUME PlainSettings, NEW s \in Setting, NEW doc, Documents(doc, s)
  PROVE  /\ DOMAIN FillSections(doc) = Said(s) \cup {p \in Sections : Present(s, p)}
         /\ \A p \in DOMAIN FillSections(doc) : FillSections(doc)[p] = IF p \in Said(s) THEN doc[p] ELSE Table
<1>1. PICK added : added = {p \in Sections \ DOMAIN doc : \A q \in Above(p) \cup {p} :
                              IF q \in DOMAIN doc THEN doc[q] = Table ELSE Class[q].required}
  OBVIOUS
<1>2. FillSections(doc) = [p \in DOMAIN doc \cup added |-> IF p \in DOMAIN doc THEN doc[p] ELSE Table]
  BY <1>1 DEF FillSections
<1>3. DOMAIN doc = Said(s) /\ \A p \in DOMAIN doc \cap Sections : doc[p] = Table
  BY DEF Documents
<1>4. \A p \in Sections : p \in DOMAIN Class /\ Above(p) \subseteq Sections
  BY AboveSections DEF Sections
<1>5. \A p \in Sections \ Said(s) : p \in added <=> Present(s, p)
  BY <1>1, <1>3, <1>4 DEF Present, InSections
<1>6. \A p \in added : p \in Sections \ Said(s)
  BY <1>1, <1>3
<1>7. DOMAIN doc \cup added = Said(s) \cup {p \in Sections : Present(s, p)}
  BY <1>3, <1>5, <1>6 DEF Present
<1>8. QED
  BY <1>2, <1>3, <1>7

\* A section is present if the one it is in is, and it is said or required.
LEMMA LookedAt ==
  ASSUME PlainSettings, NEW s \in Setting, NEW p \in DOMAIN Class
  PROVE  Len(p) = 1 \/ Present(s, Front(p)) <=> InSections(s, p)
<1>1. CASE Len(p) = 1
  BY <1>1, TopAbove DEF InSections
<1>2. CASE Len(p) # 1
  <2>1. Above(p) = Above(Front(p)) \cup {Front(p)} /\ Front(p) \in DOMAIN Class
    BY <1>2, AboveIs, PathIs DEF Sections
  <2>2. Front(p) \in Said(s) => InSections(s, Front(p))
    BY SaidIs DEF InSections
  <2>3. QED
    BY <1>2, <2>1, <2>2 DEF InSections, Present
<1>3. QED
  BY <1>1, <1>2

Means(s) ==
  LET there == DOMAIN s \cup UNION {Above(p) : p \in DOMAIN s}
      omitted(p) == \E q \in Above(p) : q \notin there /\ ~Class[q].required
      wrong == {p \in DOMAIN s \cap Leaves : Class[p].type = "int" /\ s[p] \notin Number}
      lacking == {p \in Leaves \ there : Class[p].required /\ ~omitted(p)}
  IN IF wrong \cup lacking # {} THEN Refused
     ELSE Loaded([p \in Leaves |-> CASE p \in there -> s[p]
                                     [] p \notin there /\ omitted(p) -> Class[p].factory
                                     [] OTHER -> Class[p].default])

LEMMA ConvertMeans ==
  ASSUME PlainSettings, NEW s \in Setting, NEW doc, Documents(doc, s)
  PROVE  Convert(FillSections(doc)) = Means(s)
<1>1. PICK full : full = FillSections(doc)
  OBVIOUS
<1>2. /\ DOMAIN full = Said(s) \cup {p \in Sections : Present(s, p)}
      /\ \A p \in DOMAIN full : full[p] = IF p \in Said(s) THEN doc[p] ELSE Table
  BY <1>1, FilledIs
<1>3. /\ Said(s) \subseteq DOMAIN Class /\ Said(s) \cap Leaves = DOMAIN s /\ Sections \subseteq DOMAIN Class
      /\ Leaves = DOMAIN Class \ Sections
  BY SaidIs DEF Sections, Leaves
<1>4. \A p \in DOMAIN Class : Len(p) # 1 => Front(p) \in Sections /\ Front(p) \in DOMAIN Class
  BY PathIs DEF Sections
<1>5. PICK looked : looked = {p \in DOMAIN Class : Len(p) = 1 \/ Front(p) \in DOMAIN full}
  OBVIOUS
<1>6. looked = {p \in DOMAIN Class : InSections(s, p)}
  <2>1. \A p \in Sections : p \in DOMAIN full <=> Present(s, p)
    BY <1>2 DEF Present
  <2>2. \A p \in DOMAIN Class : (Len(p) = 1 \/ Front(p) \in DOMAIN full) <=> InSections(s, p)
    BY <1>4, <2>1, LookedAt
  <2>3. QED
    BY <1>5, <2>2
<1>7. \A p \in Said(s) : InSections(s, p)
  BY SaidIs DEF InSections
<1>8. \A p \in Leaves : p \in DOMAIN full <=> p \in DOMAIN s
  BY <1>2, <1>3
<1>9. PICK wrong : wrong = {p \in DOMAIN s \cap Leaves : Class[p].type = "int" /\ s[p] \notin Number}
  OBVIOUS
<1>10. PICK lacking : lacking = {p \in Leaves \ Said(s) : Class[p].required /\ InSections(s, p)}
  OBVIOUS
<1>11. PICK refused : refused = {p \in looked : IF p \in DOMAIN full
                          THEN ~(full[p].type \in {Class[p].type} \cup (IF Class[p].type = "str or None" THEN {"str", "null"} ELSE {}))
                          ELSE Class[p].required}
  OBVIOUS
<1>12. refused = wrong \cup lacking
  <2>1. \A p \in Sections : p \notin refused
    <3>1. Table.type = "section" /\ \A p \in Sections : Class[p].type = "section"
      BY DEF Table, Typed, Sections
    <3>2. \A p \in Sections \cap DOMAIN full : full[p] = Table
      BY <1>2 DEF Documents
    <3>3. \A p \in Sections \cap DOMAIN full : full[p].type = Class[p].type
      BY <3>1, <3>2
    <3>4. \A p \in (Sections \cap looked) \ DOMAIN full : ~Class[p].required
      BY <1>2, <1>6 DEF Present
    <3>5. QED
      BY <1>11, <3>3, <3>4
  <2>2. \A p \in Leaves \cap DOMAIN full : p \in refused <=> p \in wrong
    <3>1. \A p \in Leaves \cap DOMAIN full : p \in looked /\ p \in DOMAIN s /\ full[p] = doc[p] /\ p \in DOMAIN doc
      BY <1>2, <1>3, <1>6, <1>7, <1>8 DEF Documents
    <3>2. QED
      BY <1>9, <1>11, <3>1 DEF Documents
  <2>3. \A p \in Leaves \ DOMAIN full : p \in refused <=> p \in lacking
    BY <1>2, <1>3, <1>6, <1>10, <1>11
  <2>4. refused \subseteq DOMAIN Class /\ wrong \subseteq Leaves \cap DOMAIN full /\ lacking \subseteq Leaves \ DOMAIN full
    BY <1>3, <1>5, <1>8, <1>9, <1>10, <1>11
  <2>5. QED
    BY <1>3, <2>1, <2>2, <2>3, <2>4
<1>13. PICK at : at = [p \in Leaves |-> CASE p \in DOMAIN full -> full[p].text
                                           [] p \in looked \ DOMAIN full -> Class[p].default
                                           [] OTHER -> Class[p].factory]
  OBVIOUS
<1>14. Convert(full) = IF refused = {} THEN Loaded(at) ELSE Refused
  BY <1>5, <1>11, <1>13 DEF Convert
<1>15. PICK meant : meant = [p \in Leaves |-> CASE p \in Said(s) -> s[p]
                                                [] p \notin Said(s) /\ ~InSections(s, p) -> Class[p].factory
                                                [] OTHER -> Class[p].default]
  OBVIOUS
<1>16. at = meant
  <2>1. \A p \in Leaves : at[p] = meant[p]
    <3>1. ASSUME NEW p \in Leaves, p \in DOMAIN full PROVE at[p] = meant[p]
      <4>1. p \in DOMAIN s /\ p \in Said(s) /\ full[p].text = s[p]
        BY <1>2, <1>3, <1>8, <3>1 DEF Documents
      <4>2. QED
        BY <1>13, <1>15, <3>1, <4>1
    <3>2. ASSUME NEW p \in Leaves, p \notin DOMAIN full PROVE at[p] = meant[p]
      <4>1. p \notin Said(s) /\ (p \in looked <=> InSections(s, p))
        BY <1>2, <1>3, <1>6, <3>2
      <4>2. QED
        BY <1>13, <1>15, <3>2, <4>1
    <3>3. QED
      BY <3>1, <3>2
  <2>2. QED
    BY <1>13, <1>15, <2>1
<1>17. Means(s) = IF wrong \cup lacking # {} THEN Refused ELSE Loaded(meant)
  <2>1. \A p : (\E q \in Above(p) : q \notin Said(s) /\ ~Class[q].required) <=> ~InSections(s, p)
    BY DEF InSections
  <2>2. DOMAIN s \cup UNION {Above(p) : p \in DOMAIN s} = Said(s)
    BY DEF Said
  <2>3. QED
    BY <1>9, <1>10, <1>15, <2>1, <2>2 DEF Means
<1>18. QED
  BY <1>1, <1>12, <1>14, <1>16, <1>17

\* What a JSON or YAML file says, as it is decoded, is a document of its settings.
LEMMA DecodedDocuments ==
  ASSUME PlainSettings, NEW s \in Setting, NEW f \in {"json", "yaml"}
  PROVE  Documents(Decoded(f, s), s)
<1>1. PICK doc : doc = Decoded(f, s)
  OBVIOUS
<1>2. Said(s) \subseteq DOMAIN Class /\ Said(s) \cap Leaves = DOMAIN s /\ Leaves = DOMAIN Class \ Sections
  BY SaidIs DEF Leaves
<1>3. DOMAIN doc = Said(s)
  BY <1>1 DEF Decoded, Said
<1>4. ASSUME NEW p \in DOMAIN doc \cap Sections
      PROVE  doc[p] = Table
  <2>1. p \in Said(s) /\ p \notin Leaves /\ p \notin DOMAIN s
    BY <1>2, <1>3
  <2>2. QED
    BY <1>1, <2>1 DEF Decoded, Said
<1>5. ASSUME NEW p \in DOMAIN doc \cap Leaves
      PROVE  doc[p] = Typed(IF Class[p].type = "int" /\ s[p] \notin Number THEN "str" ELSE Class[p].type, s[p])
  <2>1. p \in Said(s) /\ p \in DOMAIN s /\ p \notin Sections
    BY <1>2, <1>3
  <2>2. s[p] \notin {"null", "True"}
    BY <2>1 DEF PlainSettings
  <2>3. QED
    BY <1>1, <2>1, <2>2 DEF Decoded, Said
<1>6. ASSUME NEW p \in DOMAIN doc \cap Leaves
      PROVE  /\ doc[p].text = s[p]
             /\ doc[p].type \in {Class[p].type} \cup (IF Class[p].type = "str or None" THEN {"str", "null"} ELSE {})
                  <=> ~(Class[p].type = "int" /\ s[p] \notin Number)
  <2>1. doc[p].text = s[p] /\ doc[p].type = IF Class[p].type = "int" /\ s[p] \notin Number THEN "str" ELSE Class[p].type
    BY <1>5 DEF Typed
  <2>2. QED
    BY <2>1
<1>7. QED
  BY <1>1, <1>3, <1>4, <1>6 DEF Documents

\* An INI file has texts only, which the loader gives the types of their fields.
LEMMA RetypedDocuments ==
  ASSUME PlainSettings, NEW s \in Setting, NEW doc, doc = Decoded("ini", s)
  PROVE  Documents([p \in DOMAIN doc |-> IF p \in Leaves THEN Retype(Class[p].type, doc[p].text) ELSE doc[p]], s)
<1>1. PICK typed : typed = [p \in DOMAIN doc |-> IF p \in Leaves THEN Retype(Class[p].type, doc[p].text) ELSE doc[p]]
  OBVIOUS
<1>2. Said(s) \subseteq DOMAIN Class /\ Said(s) \cap Leaves = DOMAIN s /\ Leaves = DOMAIN Class \ Sections
  BY SaidIs DEF Leaves
<1>3. DOMAIN doc = Said(s) /\ DOMAIN typed = DOMAIN doc
  BY <1>1 DEF Decoded, Said
<1>4. ASSUME NEW p \in DOMAIN typed \cap Sections
      PROVE  typed[p] = Table
  <2>1. p \in Said(s) /\ p \notin Leaves /\ p \notin DOMAIN s
    BY <1>2, <1>3
  <2>2. doc[p] = Table
    BY <2>1 DEF Decoded, Said
  <2>3. QED
    BY <1>1, <1>3, <2>1, <2>2
<1>5. ASSUME NEW p \in DOMAIN typed \cap Leaves
      PROVE  /\ typed[p] = Retype(Class[p].type, s[p]) /\ p \in DOMAIN s
  <2>1. p \in Said(s) /\ p \in DOMAIN s /\ p \notin Sections
    BY <1>2, <1>3
  <2>2. doc[p] = Typed("str", s[p])
    BY <2>1 DEF Decoded, Said
  <2>3. QED
    BY <1>1, <1>3, <2>1, <2>2 DEF Typed
<1>6. ASSUME NEW p \in DOMAIN typed \cap Leaves
      PROVE  /\ typed[p].text = s[p]
             /\ typed[p].type \in {Class[p].type} \cup (IF Class[p].type = "str or None" THEN {"str", "null"} ELSE {})
                  <=> ~(Class[p].type = "int" /\ s[p] \notin Number)
  <2>1. Class[p].type \in {"str", "str or None", "int", "bool", "list"}
    BY ClassTyped DEF Leaves, Sections
  <2>2. Class[p].type = "bool" => s[p] \in {"true", "false"}
    BY <1>5, <1>6 DEF PlainSettings
  <2>3. CASE Class[p].type = "bool"
    <3>1. typed[p] = Typed("bool", s[p])
      BY <1>5, <2>2, <2>3 DEF Retype
    <3>2. QED
      BY <2>3, <3>1 DEF Typed
  <2>4. CASE Class[p].type = "int"
    <3>1. typed[p] = Typed(IF s[p] \in Number THEN "int" ELSE "error", s[p])
      BY <1>5, <2>4 DEF Retype
    <3>2. QED
      BY <2>4, <3>1 DEF Typed
  <2>5. CASE Class[p].type = "list"
    <3>1. typed[p] = Typed("list", s[p])
      BY <1>5, <2>5 DEF Retype
    <3>2. QED
      BY <2>5, <3>1 DEF Typed
  <2>6. CASE Class[p].type \in {"str", "str or None"}
    <3>1. typed[p] = Typed("str", s[p])
      BY <1>5, <2>6 DEF Retype
    <3>2. typed[p].type = "str" /\ typed[p].text = s[p]
      BY <3>1 DEF Typed
    <3>3. QED
      BY <2>6, <3>2
  <2>7. QED
    BY <2>1, <2>3, <2>4, <2>5, <2>6
<1>7. QED
  BY <1>1, <1>3, <1>4, <1>6 DEF Documents

\* No file, or one with nothing in it, is a document of no settings, for the loaders for INI
\* files too.
LEMMA NothingDocuments ==
  ASSUME PlainSettings, NEW s \in Setting, DOMAIN s = {}
  PROVE  /\ Documents(<<>>, s)
         /\ [p \in DOMAIN <<>> |-> IF p \in Leaves THEN Retype(Class[p].type, <<>>[p].text) ELSE <<>>[p]] = <<>>
<1>1. DOMAIN <<>> = {}
  OBVIOUS
<1>2. Said(s) = {}
  BY DEF Said
<1>3. Documents(<<>>, s)
  BY <1>1, <1>2 DEF Documents
<1>4. <<>> = [p \in {} |-> <<>>[p]]
  BY <1>1
<1>5. \A g, h : g = [p \in {} |-> g[p]] /\ h = [p \in {} |-> h[p]] => g = h
  OBVIOUS
<1>6. QED
  BY <1>1, <1>3, <1>4, <1>5

\* Files that are there if they have to be, and have something in them if they have to.
Sound(f, given) == (given = "missing" => f = "ini") /\ (given = "empty" => f # "json")

LEMMA LoadMeans ==
  ASSUME PlainSettings, NEW s \in Setting, NEW f \in {"ini", "json", "yaml"}, NEW given,
         given \in IF DOMAIN s = {} THEN {"none", "empty", "missing"} ELSE {"written"}, Sound(f, given)
  PROVE  Load(f, given, s) = Means(s)
<1>1. CASE given = "written"
  <2>1. CASE f = "ini"
    <3>1. PICK doc : doc = Decoded("ini", s)
      OBVIOUS
    <3>2. Load(f, given, s) = Convert(IniTyper(doc))
      BY <1>1, <2>1, <3>1 DEF Load, IniLoader, Document
    <3>3. QED
      BY <3>1, <3>2, RetypedDocuments, ConvertMeans DEF IniTyper
  <2>2. CASE f \in {"json", "yaml"}
    <3>1. Load(f, given, s) = Convert(FillSections(Decoded(f, s)))
      BY <1>1, <2>2 DEF Load, JsonLoader, YamlLoader, Document
    <3>2. QED
      BY <2>2, <3>1, DecodedDocuments, ConvertMeans
  <2>3. QED
    BY <2>1, <2>2
<1>2. CASE given # "written"
  <2>1. DOMAIN s = {} /\ Document(f, given, s) = <<>>
    BY <1>2 DEF Document
  <2>2. Load(f, given, s) = IF f = "ini" THEN Convert(IniTyper(<<>>)) ELSE Convert(FillSections(<<>>))
    BY <1>2 DEF Load, IniLoader, JsonLoader, YamlLoader, Document, Sound
  <2>3. IniTyper(<<>>) = FillSections(<<>>)
    BY <2>1, NothingDocuments DEF IniTyper
  <2>4. QED
    BY <2>1, <2>2, <2>3, NothingDocuments, ConvertMeans
<1>3. QED
  BY <1>1, <1>2

\* The configuration is what was loaded of the file, which is there if something is set in it.
ConfigInv ==
  /\ format \in {"ini", "json", "yaml"} /\ settings \in Setting
  /\ file \in IF DOMAIN settings = {} THEN {"none", "empty", "missing"} ELSE {"written"}
  /\ phase # "load" => config = Load(format, file, settings)

LEMMA ConfigInvStep ==
  ASSUME ConfigInv, [Next]_vars
  PROVE  ConfigInv'
<1>1. CASE LoadConfig
  BY <1>1 DEF ConfigInv, LoadConfig
<1>2. CASE \E installed, up \in BOOLEAN : \/ StartLogging(installed, up)
                                          \/ LoggingRefused(installed, up)
                                          \/ StartTracing(installed, up)
  <2>1. phase # "load" /\ UNCHANGED <<format, settings, file, config>>
    BY <1>2 DEF StartLogging, LoggingRefused, StartTracing
  <2>2. QED
    BY <2>1 DEF ConfigInv
<1>3. CASE NoEndpoint
  <2>1. phase # "load" /\ UNCHANGED <<format, settings, file, config>>
    BY <1>3 DEF NoEndpoint
  <2>2. QED
    BY <2>1 DEF ConfigInv
<1>4. CASE Run
  BY <1>4 DEF ConfigInv, Run, startVars
<1>5. CASE UNCHANGED vars
  BY <1>5 DEF ConfigInv, vars, startVars
<1>6. QED
  BY <1>1, <1>2, <1>3, <1>4, <1>5 DEF Next

\* LoadersAgree (Startup): whatever the class of a configuration, the three loaders make of
\* settings that all formats say the same way (PlainSettings) the configuration they mean, or
\* refuse them, required sections within sections and missing files included
\* (aiobp/config/__init__.py: fill_sections(), ini.py: __retype(), json.py, yaml.py).
THEOREM LoadersAlwaysAgree ==
  ASSUME PlainSettings
  PROVE  Spec => []LoadersAgree
<1>1. Init => ConfigInv
  BY DEF Init, ConfigInv
<1>2. ConfigInv /\ [Next]_vars => ConfigInv'
  BY ConfigInvStep
<1>3. ConfigInv => LoadersAgree
  <2>1. SUFFICES ASSUME ConfigInv, phase # "load", file = "missing" => format = "ini", file = "empty" => format # "json"
                 PROVE  config = Meaning
    BY DEF LoadersAgree
  <2>2. config = Means(settings)
    BY <2>1, LoadMeans DEF ConfigInv, Sound
  <2>3. Means(settings) = Meaning
    BY DEF Means, Meaning
  <2>4. QED
    BY <2>2, <2>3
<1>4. QED
  BY <1>1, <1>2, <1>3, PTL DEF Spec
=============================================================================
