--------------------------- MODULE ConsumerProofs ---------------------------
(* Theorems about Consumer, for all values of its constants. *)
EXTENDS Consumer, SequenceTheorems, FiniteSetTheorems, TLAPS

(***************************************************************************)
(* The inductive invariant.  What waits at the server or is out was asked  *)
(* for or delivered by the durable consumer there is; a message being      *)
(* processed is held by a worker; the workers of a consumer that was not   *)
(* started are not there yet, and those of one that is off are done.       *)
(***************************************************************************)
ServerHasConsumer == /\ requests # {} => durable # None
                     /\ \A m \in Msg : status[m] = "out" => durable # None

BegunIsHeld == \A c \in Con, m \in Msg : <<c, m>> \in begun => \E w \in Workers(c) : held[w] = m

AtRest == \A c \in Con : \A w \in Workers(c) :
            /\ phase[c] \in {"new", "deleting", "binding"} => pc[w] = "none"
            /\ phase[c] = "off" => pc[w] = "done"

IInv == TypeOK /\ ServerHasConsumer /\ SettledWasHandled /\ BegunIsHeld /\ AtRest

(***************************************************************************)
(* The inductive invariant of NoNeedlessRedelivery, for consumers of one   *)
(* worker each.  A message its worker is about to take from fetch() will   *)
(* be started once more.  Each start is paid for, by the first delivery or *)
(* by what failed, and so is the next one of a message that is due: one    *)
(* the server has to deliver, or waits for although nobody has it in hand. *)
(* Who has a message from a durable consumer that was deleted then has it  *)
(* in hand no more: the server does not listen to that answer.             *)
(***************************************************************************)
Only(c) == <<c, 1>>

\* Half of ack_wait, which the consumers have in common.
Period == Asked[CHOOSE c \in Con : TRUE].half

\* Consumers whose worker is about to receive message m.
Receiving(m) == {c \in Con : pc[Only(c)] = "fetch" /\ inbox[c] = <<m>>}
Unanswered(m) == {w \in Worker : held[w] = m /\ w[1] \in closed}

Balance(m) == 1 + failures[m] + remade + Cardinality(Unanswered(m))
              - starts[m] - Cardinality(Receiving(m))

\* The keepalive of c's worker acts before the server gives up.
KeptAlive(c) ==
  c \notin closed /\ keep[Only(c)] \in 0 .. Period /\ left[held[Only(c)]] >= keep[Only(c)] + Period

InHand(m) == \E c \in Con : /\ <<c, m>> \notin stale
                            /\ c \in Receiving(m) \/ (held[Only(c)] = m /\ KeptAlive(c))

Due(m) == status[m] = "stored" \/ (status[m] = "out" /\ ~InHand(m))

PaidFor(m) == Balance(m) >= 0 /\ (Due(m) => Balance(m) >= 1)

\* A worker has one pull request, and none while it has a message.
OnePullOf(c) ==
  /\ inbox[c] = <<>> \/ \E m \in Msg : inbox[c] = <<m>>
  /\ Only(c) \in requests => inbox[c] = <<>>
  /\ pc[Only(c)] \in {"none", "poll", "retry", "handle"} => Only(c) \notin requests /\ inbox[c] = <<>>
OnePull == \A c \in Con : OnePullOf(c)

\* What is at work was made for the consumers there are.
OneConfig ==
  \/ durable = None \/ durable.half = Period
  \/ /\ requests = {} /\ \A m \in Msg : status[m] # "out"
     /\ \A c \in Con : pc[Only(c)] \in {"none", "done"} /\ phase[c] \in {"new", "deleting", "crashed"}

\* No time passes while a message waits for a worker in fetch().
JustDelivered ==
  \A m \in Msg : status[m] = "out" /\ Receiving(m) # {} => left[m] = 2 * Period

Paid == \A m \in Msg : PaidFor(m)

OnceInv == OnePull /\ OneConfig /\ JustDelivered /\ Paid

-----------------------------------------------------------------------------
\* The halves of an ack_wait are ticks, that of the durable consumer there is too.
LEMMA HalfType ==
  /\ \A c \in Con : Asked[c].half \in Nat
  /\ \A d \in Config : d # None => d.half \in Nat
BY ConsumerConstants DEF Config

\* A worker is one of its own consumer's.
LEMMA WorkerOf ==
  /\ \A w \in Worker : w[1] \in Con /\ w \in Workers(w[1])
  /\ \A c \in Con : \A w \in Workers(c) : w \in Worker /\ w[1] = c
BY DEF Worker, Workers

\* Nothing runs and nothing was delivered at first.
LEMMA InitInv == Init => IInv
<1> SUFFICES ASSUME Init PROVE IInv
  OBVIOUS
<1>1. TypeOK
  BY ConsumerConstants DEF Init, TypeOK, Config, Dead
<1>2. QED
  BY <1>1, WorkerOf DEF IInv, Init, ServerHasConsumer, SettledWasHandled, BegunIsHeld, AtRest

-----------------------------------------------------------------------------
(* The server and the clock.                                               *)

LEMMA DeliverInv ==
  ASSUME IInv, NEW w \in Worker, NEW m \in Msg, Deliver(w, m)
  PROVE  IInv'
<1> USE DEF IInv
<1>1. durable # None /\ 2 * durable.half \in Nat
  BY HalfType DEF Deliver, ServerHasConsumer, TypeOK
<1>2. inbox' \in [Con -> Seq(Msg)]
  BY WorkerOf, AppendProperties DEF Deliver, TypeOK
<1>3. TypeOK'
  BY <1>1, <1>2 DEF Deliver, TypeOK, conVars, workVars, ghosts
<1>4. ServerHasConsumer' /\ SettledWasHandled' /\ BegunIsHeld' /\ AtRest'
  BY <1>1 DEF Deliver, ServerHasConsumer, SettledWasHandled, BegunIsHeld, AtRest, TypeOK,
              conVars, workVars, ghosts
<1>5. QED
  BY <1>3, <1>4

LEMMA RedeliverInv ==
  ASSUME IInv, NEW m \in Msg, Redeliver(m)
  PROVE  IInv'
<1> USE DEF IInv
<1>1. TypeOK'
  BY DEF Redeliver, TypeOK, conVars, workVars, psubVars, ghosts
<1>2. ServerHasConsumer' /\ SettledWasHandled' /\ BegunIsHeld' /\ AtRest'
  BY DEF Redeliver, ServerHasConsumer, SettledWasHandled, BegunIsHeld, AtRest, TypeOK,
         conVars, workVars, psubVars, ghosts
<1>3. QED
  BY <1>1, <1>2

LEMMA TickInv ==
  ASSUME IInv, Tick
  PROVE  IInv'
<1> USE DEF IInv
<1>1. left' \in [Msg -> Nat] /\ keep' \in [Worker -> Nat \cup {Dead}]
  BY DEF Tick, TypeOK, Dead
<1>2. TypeOK'
  BY <1>1 DEF Tick, TypeOK, conVars, psubVars, ghosts
<1>3. ServerHasConsumer' /\ SettledWasHandled' /\ BegunIsHeld' /\ AtRest'
  BY DEF Tick, ServerHasConsumer, SettledWasHandled, BegunIsHeld, AtRest,
         conVars, psubVars, ghosts
<1>4. QED
  BY <1>2, <1>3

-----------------------------------------------------------------------------
(* Workers.                                                                *)

\* An answer settles a message as it says, or not at all.
LEMMA AnsweredStatus ==
  ASSUME TypeOK, NEW c \in Con, NEW m \in Msg, NEW s \in {"acked", "termed"}, Answered(c, m, s) \/ AnswerLost
  PROVE  /\ status' \in [Msg -> {"stored", "out", "acked", "termed"}] /\ faults' \in 0 .. MaxFault
         /\ \A n \in Msg : status'[n] # status[n] => n = m /\ status'[n] = s
<1>1. MaxFault \in Nat /\ faults \in 0 .. MaxFault
  BY ConsumerConstants DEF TypeOK
<1>2. CASE AnswerLost
  BY <1>1, <1>2 DEF AnswerLost, Fault, TypeOK
<1>3. CASE Answered(c, m, s)
  BY <1>1, <1>3 DEF Answered, TypeOK
<1>4. QED
  BY <1>2, <1>3

\* The handler is called, or a message that is not JSON is terminated, by a worker that goes on.
LEMMA ReceiveInv ==
  ASSUME IInv, NEW w \in Worker, Receive(w), pc[w] \in {"poll", "fetch"},
         UNCHANGED <<conVars, requests, left>>, stale' = stale, waited' \subseteq Worker
  PROVE  IInv'
<1> DEFINE m == Head(inbox[w[1]])
<1>1. w[1] \in Con /\ w \in Workers(w[1])
  BY WorkerOf
<1>2. m \in Msg /\ inbox' \in [Con -> Seq(Msg)]
  BY <1>1, HeadTailProperties DEF Receive, IInv, TypeOK
<1>3. Process(w, m)
  BY DEF Receive
<1> HIDE DEF m
<1>4. held[w] = None /\ phase[w[1]] \notin {"new", "deleting", "binding", "off"}
  BY <1>1 DEF IInv, TypeOK, AtRest
<1>5. CASE m \in invalid
  <2>1. pc' = [pc EXCEPT ![w] = "poll"] /\ UNCHANGED <<held, keep, ghosts>>
    BY <1>3, <1>5 DEF Process
  <2>2. /\ status' \in [Msg -> {"stored", "out", "acked", "termed"}] /\ faults' \in 0 .. MaxFault
        /\ \A n \in Msg : status'[n] # status[n] => n = m /\ status'[n] = "termed"
    BY <1>1, <1>2, <1>3, <1>5, AnsweredStatus DEF Process, IInv
  <2>3. TypeOK'
    BY <1>2, <2>1, <2>2, <1>4 DEF IInv, TypeOK, conVars, ghosts
  <2>4. ServerHasConsumer' /\ SettledWasHandled'
    BY <2>1, <2>2, <1>5 DEF IInv, ServerHasConsumer, SettledWasHandled, conVars, ghosts
  <2>5. BegunIsHeld' /\ AtRest'
    BY <1>1, <1>4, <2>1, WorkerOf DEF IInv, BegunIsHeld, AtRest, TypeOK, conVars, ghosts
  <2>6. QED
    BY <2>3, <2>4, <2>5 DEF IInv
<1>6. CASE m \notin invalid
  <2>1. /\ pc' = [pc EXCEPT ![w] = "handle"] /\ held' = [held EXCEPT ![w] = m]
        /\ keep' = [keep EXCEPT ![w] = Asked[w[1]].half]
        /\ starts' = [starts EXCEPT ![m] = @ + 1]
        /\ begun' = begun \cup {<<w[1], m>>}
        /\ UNCHANGED <<status, faults, failures, succeeded>>
    BY <1>3, <1>6 DEF Process
  <2>2. TypeOK'
    <3>1. m # None
      BY <1>2, ConsumerConstants
    <3>2. Asked[w[1]].half \in Nat
      BY <1>1, HalfType
    <3>3. begun' \subseteq Con \X Msg
      BY <1>1, <1>2, <2>1 DEF IInv, TypeOK
    <3>4. keep' \in [Worker -> Nat \cup {Dead}] /\ starts' \in [Msg -> Nat]
      BY <1>2, <2>1, <3>2 DEF IInv, TypeOK
    <3>5. \A v \in Worker : (pc'[v] = "handle") = (held'[v] # None)
      BY <2>1, <3>1 DEF IInv, TypeOK
    <3>6. QED
      BY <1>2, <2>1, <3>3, <3>4, <3>5 DEF IInv, TypeOK, conVars
  <2>3. ServerHasConsumer' /\ SettledWasHandled'
    BY <2>1 DEF IInv, ServerHasConsumer, SettledWasHandled, conVars
  <2>4. BegunIsHeld'
    BY <1>1, <1>2, <1>4, <2>1, WorkerOf, ConsumerConstants DEF IInv, BegunIsHeld, TypeOK
  <2>5. AtRest'
    BY <1>1, <1>4, <2>1, WorkerOf DEF IInv, AtRest, TypeOK, conVars
  <2>6. QED
    BY <2>2, <2>3, <2>4, <2>5 DEF IInv
<1>7. QED
  BY <1>5, <1>6

\* A worker of a consumer that is not off goes on waiting, or ends, without a message.
LEMMA WaitsInv ==
  ASSUME IInv, NEW w \in Worker, pc[w] \notin {"none", "handle", "done"},
         NEW p \in {"poll", "fetch", "retry", "done"}, pc' = [pc EXCEPT ![w] = p],
         requests' \subseteq Worker, requests' # {} => requests # {} \/ durable # None,
         waited' \subseteq Worker, faults' \in 0 .. MaxFault,
         UNCHANGED <<conVars, held, keep, inbox, stale, serverVars, ghosts>>
  PROVE  IInv'
<1> USE DEF IInv, conVars, serverVars, ghosts
<1>1. w[1] \in Con /\ phase[w[1]] \notin {"new", "deleting", "binding", "off"}
  BY WorkerOf DEF AtRest
<1>2. TypeOK'
  BY DEF TypeOK
<1>3. ServerHasConsumer' /\ SettledWasHandled' /\ BegunIsHeld'
  BY DEF ServerHasConsumer, SettledWasHandled, BegunIsHeld
<1>4. AtRest'
  BY <1>1, WorkerOf DEF AtRest, TypeOK
<1>5. QED
  BY <1>2, <1>3, <1>4

LEMMA WorkerStepInv ==
  ASSUME IInv, NEW w \in Worker, WorkerStep(w)
  PROVE  IInv'
<1>0. requests \subseteq Worker /\ waited \subseteq Worker /\ faults \in 0 .. MaxFault /\ MaxFault \in Nat
  BY ConsumerConstants DEF IInv, TypeOK
<1>1. CASE Poll(w)
  <2>1. CASE Ends(w) /\ UNCHANGED <<held, keep, requests, inbox, status, faults, ghosts>>
    BY <1>0, <1>1, <2>1, WaitsInv DEF Poll, Ends, serverVars
  <2>2. CASE Receive(w) /\ UNCHANGED requests
    BY <1>0, <1>1, <2>2, ReceiveInv DEF Poll
  <2>3. CASE /\ pc' = [pc EXCEPT ![w] = "fetch"]
             /\ requests' = IF durable = None THEN requests ELSE requests \cup {w}
             /\ UNCHANGED <<held, keep, inbox, status, faults, ghosts>>
    BY <1>0, <1>1, <2>3, WaitsInv DEF Poll, serverVars
  <2>4. QED
    BY <1>1, <2>1, <2>2, <2>3 DEF Poll
<1>2. CASE Fetched(w)
  BY <1>0, <1>2, ReceiveInv DEF Fetched
<1>3. CASE FetchEnds(w)
  <2>1. PICK p \in {"poll", "retry", "done"} : pc' = [pc EXCEPT ![w] = p]
    BY <1>3 DEF FetchEnds, Ends
  <2>2. faults' \in 0 .. MaxFault
    BY <1>0, <1>3 DEF FetchEnds, Fault
  <2>3. QED
    BY <1>0, <1>3, <2>1, <2>2, WaitsInv DEF FetchEnds
<1>4. CASE RetryOver(w)
  BY <1>0, <1>4, WaitsInv DEF RetryOver, psubVars
<1>5. CASE Cancelled(w)
  BY <1>0, <1>5, WaitsInv DEF Cancelled, psubVars, workVars, Ends
<1>6. QED
  BY <1>1, <1>2, <1>3, <1>4, <1>5 DEF WorkerStep

LEMMA HandlerInv ==
  ASSUME IInv, NEW w \in Worker, NEW ok \in BOOLEAN, HandlerEnds(w, ok)
  PROVE  IInv'
<1> DEFINE c == w[1]
           m == held[w]
<1>1. /\ c \in Con /\ w \in Workers(c) /\ m \in Msg
      /\ phase[c] \notin {"new", "deleting", "binding", "off"}
  BY WorkerOf DEF HandlerEnds, IInv, TypeOK, AtRest
<1>2. /\ pc' = [pc EXCEPT ![w] = "poll"] /\ held' = [held EXCEPT ![w] = None]
      /\ keep' = [keep EXCEPT ![w] = Dead] /\ begun' = begun \ {<<c, m>>}
      /\ succeeded' = IF ok THEN succeeded \cup {m} ELSE succeeded
      /\ stale' = stale \ {<<c, m>>}
      /\ UNCHANGED <<conVars, waited, requests, inbox, left, starts>>
  BY DEF HandlerEnds
<1>3. /\ status' \in [Msg -> {"stored", "out", "acked", "termed"}] /\ faults' \in 0 .. MaxFault
      /\ failures' \in [Msg -> Nat]
      /\ \A n \in Msg : status'[n] # status[n] => /\ n = m
                                                  /\ (status'[n] = "acked" /\ ok) \/ status'[n] = "stored"
  <2>0. MaxFault \in Nat /\ failures' \in {failures, [failures EXCEPT ![m] = @ + 1]}
    BY ConsumerConstants DEF HandlerEnds
  <2>1. failures' \in [Msg -> Nat]
    <3>1. failures \in [Msg -> Nat]
      BY DEF IInv, TypeOK
    <3> HIDE DEF m
    <3>2. [failures EXCEPT ![m] = @ + 1] \in [Msg -> Nat]
      BY <1>1, <3>1
    <3>3. QED
      BY <2>0, <3>1, <3>2
  <2>2. CASE (ok /\ Answered(c, m, "acked")) \/ AnswerLost
    <3>1. \A n \in Msg : status'[n] # status[n] => n = m /\ status'[n] = "acked" /\ ok
      BY <1>1, <2>2, AnsweredStatus DEF IInv, AnswerLost
    <3>2. QED
      BY <1>1, <2>1, <2>2, <3>1, AnsweredStatus DEF IInv
  <2>3. CASE UNCHANGED <<status, faults>>
    BY <2>1, <2>3 DEF IInv, TypeOK
  <2>4. CASE ~ok /\ Fault /\ status' = [status EXCEPT ![m] = IF @ = "out" THEN "stored" ELSE @]
    BY <1>1, <2>0, <2>1, <2>4 DEF IInv, TypeOK, Fault
  <2>5. QED
    BY <2>2, <2>3, <2>4 DEF HandlerEnds
<1> HIDE DEF c, m
<1>4. TypeOK'
  BY <1>1, <1>2, <1>3 DEF IInv, TypeOK, conVars, Dead
<1>5. ServerHasConsumer' /\ SettledWasHandled'
  BY <1>1, <1>2, <1>3 DEF IInv, ServerHasConsumer, SettledWasHandled, conVars
<1>6. BegunIsHeld'
  <2> SUFFICES ASSUME NEW d \in Con, NEW n \in Msg, <<d, n>> \in begun'
               PROVE  \E v \in Workers(d) : held'[v] = n
    BY DEF BegunIsHeld, Workers
  <2>1. PICK v \in Workers(d) : held[v] = n
    BY <1>2 DEF IInv, BegunIsHeld
  <2>2. v # w
    BY <1>2, <2>1, WorkerOf DEF c, m
  <2>3. QED
    BY <1>2, <2>1, <2>2, WorkerOf DEF IInv, TypeOK
<1>7. AtRest'
  BY <1>1, <1>2, WorkerOf DEF IInv, AtRest, TypeOK, conVars, c
<1>8. QED
  BY <1>4, <1>5, <1>6, <1>7 DEF IInv

LEMMA KeepAliveInv ==
  ASSUME IInv, NEW w \in Worker, KeepAlive(w)
  PROVE  IInv'
<1> USE DEF IInv
<1>1. held[w] \in Msg /\ Asked[w[1]].half \in Nat
  BY WorkerOf, HalfType DEF KeepAlive, TypeOK
<1>2. keep' \in [Worker -> Nat \cup {Dead}]
  BY <1>1 DEF KeepAlive, TypeOK
<1>3. left' \in [Msg -> Nat]
  <2>1. left \in [Msg -> Nat]
    BY DEF TypeOK
  <2>2. status[held[w]] = "out" => 2 * durable.half \in Nat
    BY <1>1, HalfType DEF TypeOK, ServerHasConsumer
  <2>3. QED
    BY <1>1, <2>1, <2>2 DEF KeepAlive
<1>4. TypeOK'
  BY <1>2, <1>3 DEF KeepAlive, TypeOK, conVars, psubVars, ghosts
<1>5. ServerHasConsumer' /\ SettledWasHandled' /\ BegunIsHeld' /\ AtRest'
  BY DEF KeepAlive, ServerHasConsumer, SettledWasHandled, BegunIsHeld, AtRest,
         conVars, psubVars, ghosts
<1>6. QED
  BY <1>4, <1>5

-----------------------------------------------------------------------------
(* Nats.consume(), stop_consumer() and the environment.                    *)

LEMMA AskInfoInv ==
  ASSUME IInv, NEW c \in Con, AskInfo(c)
  PROVE  IInv'
<1> USE DEF IInv
<1>1. TypeOK'
  BY DEF AskInfo, TypeOK, workVars, psubVars, serverVars, ghosts
<1>2. ServerHasConsumer' /\ SettledWasHandled' /\ BegunIsHeld' /\ AtRest'
  BY DEF AskInfo, TypeOK, ServerHasConsumer, SettledWasHandled, BegunIsHeld, AtRest,
         workVars, psubVars, serverVars, ghosts
<1>3. QED
  BY <1>1, <1>2

LEMMA DeleteDurableInv ==
  ASSUME IInv, NEW c \in Con, DeleteDurable(c)
  PROVE  IInv'
<1> USE DEF IInv
<1>1. /\ phase' = [phase EXCEPT ![c] = "binding"]
      /\ UNCHANGED <<stopper, closed, invalid, workVars, left, faults, ghosts>>
      /\ phase[c] = "deleting"
  BY DEF DeleteDurable
<1>2. AtRest'
  BY <1>1, WorkerOf DEF TypeOK, AtRest, workVars
<1>3. CASE durable = None
  <2>1. UNCHANGED <<durable, remade, psubVars, status>>
    BY <1>3 DEF DeleteDurable
  <2>2. TypeOK'
    BY <1>1, <2>1 DEF TypeOK, workVars, psubVars, ghosts
  <2>3. ServerHasConsumer' /\ SettledWasHandled' /\ BegunIsHeld'
    BY <1>1, <2>1 DEF ServerHasConsumer, SettledWasHandled, BegunIsHeld, workVars, psubVars, ghosts
  <2>4. QED
    BY <1>2, <2>2, <2>3
<1>4. CASE durable # None
  <2>1. /\ durable' = None /\ remade' = remade + 1 /\ requests' = {} /\ stale' \subseteq Con \X Msg
        /\ status' = [m \in Msg |-> IF status[m] = "out" \/ Kept THEN "stored" ELSE status[m]]
        /\ UNCHANGED inbox
    BY <1>4 DEF DeleteDurable
  <2>2. TypeOK'
    BY <1>1, <2>1 DEF TypeOK, workVars, ghosts
  <2>3. ServerHasConsumer' /\ SettledWasHandled' /\ BegunIsHeld'
    BY <1>1, <2>1 DEF TypeOK, ServerHasConsumer, SettledWasHandled, BegunIsHeld, workVars, ghosts
  <2>4. QED
    BY <1>2, <2>2, <2>3
<1>5. QED
  BY <1>3, <1>4

\* pull_subscribe() leaves a durable consumer that is one of those that were asked for or there.
LEMMA BoundType ==
  ASSUME TypeOK, NEW c \in Con, Bound(c)
  PROVE  durable' \in Config \cup {None} /\ (durable # None => durable' # None)
BY DEF Bound, TypeOK, Config

LEMMA StartInv ==
  ASSUME IInv, NEW c \in Con, Start(c)
  PROVE  IInv'
<1> USE DEF IInv
<1>1. durable' \in Config \cup {None} /\ (durable # None => durable' # None)
  BY BoundType DEF Start
<1>2. \A w \in Workers(c) : pc[w] = "none"
  BY DEF Start, AtRest
<1>3. TypeOK'
  BY <1>1, <1>2, WorkerOf DEF Start, TypeOK, psubVars, serverVars, ghosts
<1>4. ServerHasConsumer' /\ SettledWasHandled' /\ BegunIsHeld'
  BY <1>1 DEF Start, ServerHasConsumer, SettledWasHandled, BegunIsHeld, psubVars, serverVars, ghosts
<1>5. AtRest'
  BY WorkerOf DEF Start, TypeOK, AtRest
<1>6. QED
  BY <1>3, <1>4, <1>5

LEMMA ConsumeFailsInv ==
  ASSUME IInv, NEW c \in Con, ConsumeFails(c)
  PROVE  IInv'
<1> USE DEF IInv
<1>1. durable' \in Config \cup {None} /\ (durable # None => durable' # None)
  BY BoundType DEF ConsumeFails, TypeOK
<1>2. faults' \in 0 .. MaxFault
  BY ConsumerConstants DEF ConsumeFails, Fault, TypeOK
<1>3. TypeOK'
  BY <1>1, <1>2 DEF ConsumeFails, TypeOK, workVars, psubVars, serverVars, ghosts
<1>4. ServerHasConsumer' /\ SettledWasHandled' /\ BegunIsHeld' /\ AtRest'
  BY <1>1 DEF ConsumeFails, TypeOK, ServerHasConsumer, SettledWasHandled, BegunIsHeld, AtRest,
              workVars, psubVars, serverVars, ghosts
<1>5. QED
  BY <1>3, <1>4

\* stop() cancels workers that wait, and no worker that holds a message.
LEMMA StopInv ==
  ASSUME IInv, NEW c \in Con, NEW by \in Workers(c) \cup {None}, Stop(c, by)
  PROVE  IInv'
<1> USE DEF IInv
<1>1. by \in Worker \cup {None}
  BY WorkerOf
<1>2. TypeOK'
  BY <1>1 DEF Stop, TypeOK, Waiting, psubVars, serverVars, ghosts
<1>3. ServerHasConsumer' /\ SettledWasHandled' /\ BegunIsHeld'
  BY DEF Stop, ServerHasConsumer, SettledWasHandled, BegunIsHeld, psubVars, serverVars, ghosts
<1>4. AtRest'
  BY WorkerOf DEF Stop, TypeOK, AtRest
<1>5. QED
  BY <1>2, <1>3, <1>4

LEMMA StopReturnsInv ==
  ASSUME IInv, NEW c \in Con, StopReturns(c)
  PROVE  IInv'
<1> USE DEF IInv
<1>1. inbox' \in [Con -> Seq(Msg)]
  BY EmptySeq DEF StopReturns, TypeOK
<1>2. TypeOK'
  BY <1>1 DEF StopReturns, TypeOK, workVars, serverVars, ghosts
<1>3. ServerHasConsumer' /\ SettledWasHandled' /\ BegunIsHeld' /\ AtRest'
  BY DEF StopReturns, TypeOK, ServerHasConsumer, SettledWasHandled, BegunIsHeld, AtRest,
         workVars, serverVars, ghosts
<1>4. QED
  BY <1>2, <1>3

LEMMA CrashInv ==
  ASSUME IInv, NEW c \in Con, Crash(c)
  PROVE  IInv'
<1> USE DEF IInv
<1>1. inbox' \in [Con -> Seq(Msg)] /\ failures' \in [Msg -> Nat]
  BY EmptySeq DEF Crash, TypeOK
<1>2. TypeOK'
  BY <1>1 DEF Crash, TypeOK, serverVars, Dead
<1>3. ServerHasConsumer' /\ SettledWasHandled'
  BY DEF Crash, ServerHasConsumer, SettledWasHandled, serverVars
<1>4. BegunIsHeld'
  <2> SUFFICES ASSUME NEW d \in Con, NEW n \in Msg, <<d, n>> \in begun'
               PROVE  \E w \in Workers(d) : held'[w] = n
    BY DEF BegunIsHeld, Workers
  <2>1. <<d, n>> \in begun /\ d # c
    BY DEF Crash
  <2>2. PICK w \in Workers(d) : held[w] = n
    BY <2>1 DEF BegunIsHeld
  <2>3. w \in Worker /\ w[1] # c
    BY <2>1, WorkerOf
  <2>4. QED
    BY <2>2, <2>3 DEF Crash
<1>5. AtRest'
  BY WorkerOf DEF Crash, TypeOK, AtRest
<1>6. QED
  BY <1>2, <1>3, <1>4, <1>5

LEMMA CloseConnectionInv ==
  ASSUME IInv, NEW c \in Con, CloseConnection(c)
  PROVE  IInv'
<1> USE DEF IInv
<1>1. TypeOK'
  BY DEF CloseConnection, TypeOK, workVars, serverVars, ghosts
<1>2. ServerHasConsumer' /\ SettledWasHandled' /\ BegunIsHeld' /\ AtRest'
  BY DEF CloseConnection, ServerHasConsumer, SettledWasHandled, BegunIsHeld, AtRest,
         workVars, serverVars, ghosts
<1>3. QED
  BY <1>1, <1>2

-----------------------------------------------------------------------------
(* Calls are paid for.                                                     *)

\* What NoNeedlessRedelivery takes: one worker each, handlers that leave the event loop to the
\* keepalive, a keepalive that reaches the server, and one ack_wait.
OneByOne ==
  /\ Concurrency = 1 /\ ~Plain /\ ~PingFails
  /\ \A c, d \in Con : Asked[c].half = Asked[d].half

\* With one worker each, a worker is its consumer's only one.
LEMMA OnlyWorker ==
  ASSUME Concurrency = 1
  PROVE  /\ \A w \in Worker : w[1] \in Con /\ w = Only(w[1])
         /\ \A c \in Con : /\ Only(c) \in Worker /\ Only(c)[1] = c
                           /\ \A w \in Workers(c) : w = Only(c)
         /\ \A c, d \in Con : Only(c) = Only(d) => c = d
<1>1. 1 .. Concurrency = {1}
  OBVIOUS
<1>2. QED
  BY <1>1 DEF Worker, Workers, Only

\* All consumers wait for the same time.
LEMMA PeriodType ==
  ASSUME OneByOne, NEW c \in Con
  PROVE  Period \in Nat \ {0} /\ \A d \in Con : Asked[d].half = Period
BY ConsumerConstants DEF OneByOne, Period

\* The sets counted are finite.
LEMMA Countable ==
  ASSUME NEW m
  PROVE  /\ IsFiniteSet(Receiving(m)) /\ Cardinality(Receiving(m)) \in Nat
         /\ IsFiniteSet(Receiving(m)') /\ Cardinality(Receiving(m)') \in Nat
         /\ IsFiniteSet(Unanswered(m)) /\ Cardinality(Unanswered(m)) \in Nat
         /\ IsFiniteSet(Unanswered(m)') /\ Cardinality(Unanswered(m)') \in Nat
<1>1. IsFiniteSet(Con)
  BY ConsumerConstants
<1>2. IsFiniteSet(Worker)
  <2>1. 1 \in Int /\ Concurrency \in Int
    BY ConsumerConstants
  <2>2. IsFiniteSet(1 .. Concurrency)
    BY <2>1, FS_Interval
  <2>3. QED
    BY <1>1, <2>2, FS_Product DEF Worker
<1>3. Receiving(m) \in SUBSET Con /\ Receiving(m)' \in SUBSET Con
  BY DEF Receiving
<1>4. Unanswered(m) \in SUBSET Worker /\ Unanswered(m)' \in SUBSET Worker
  BY DEF Unanswered
<1>5. IsFiniteSet(Receiving(m)) /\ IsFiniteSet(Receiving(m)')
  BY <1>1, <1>3, FS_Subset
<1>6. IsFiniteSet(Unanswered(m)) /\ IsFiniteSet(Unanswered(m)')
  BY <1>2, <1>4, FS_Subset
<1>7. QED
  BY <1>5, <1>6, FS_CardinalityType

\* An account only grows by what failed or went to a closed connection, and it is due anew only then.
LEMMA BalanceType ==
  ASSUME TypeOK, TypeOK', NEW m \in Msg
  PROVE  Balance(m) \in Int /\ Balance(m)' \in Int
<1>1. /\ starts[m] \in Int /\ failures[m] \in Int /\ remade \in Int
      /\ starts'[m] \in Int /\ failures'[m] \in Int /\ remade' \in Int
  BY DEF TypeOK
<1>2. /\ Cardinality(Receiving(m)) \in Int /\ Cardinality(Receiving(m)') \in Int
      /\ Cardinality(Unanswered(m)) \in Int /\ Cardinality(Unanswered(m)') \in Int
  BY Countable
<1>3. QED
  BY <1>1, <1>2 DEF Balance

LEMMA StillPaid ==
  ASSUME TypeOK, TypeOK', NEW m \in Msg, PaidFor(m),
         Balance(m)' >= Balance(m), Due(m)' => Due(m) \/ Balance(m)' > Balance(m)
  PROVE  PaidFor(m)'
<1>1. Balance(m) \in Int /\ Balance(m)' \in Int
  BY BalanceType
<1>2. Balance(m)' >= 0
  BY <1>1 DEF PaidFor
<1>3. Due(m)' => Balance(m)' >= 1
  BY <1>1 DEF PaidFor
<1>4. QED
  BY <1>2, <1>3 DEF PaidFor

\* Fewer to receive a message, more without an answer: its account grows.
LEMMA BalanceGrows ==
  ASSUME TypeOK, TypeOK', NEW m \in Msg, starts'[m] = starts[m],
         Receiving(m)' \subseteq Receiving(m), Unanswered(m) \subseteq Unanswered(m)',
         failures[m] <= failures'[m], remade <= remade'
  PROVE  /\ Balance(m)' >= Balance(m)
         /\ \/ Receiving(m)' # Receiving(m) \/ Unanswered(m)' # Unanswered(m)
            \/ failures[m] # failures'[m] \/ remade # remade'
            => Balance(m)' > Balance(m)
<1>1. /\ Cardinality(Receiving(m)') <= Cardinality(Receiving(m))
      /\ Cardinality(Receiving(m)') = Cardinality(Receiving(m)) => Receiving(m)' = Receiving(m)
  BY Countable, FS_Subset
<1>2. /\ Cardinality(Unanswered(m)) <= Cardinality(Unanswered(m)')
      /\ Cardinality(Unanswered(m)) = Cardinality(Unanswered(m)') => Unanswered(m)' = Unanswered(m)
  BY Countable, FS_Subset
<1>3. /\ starts[m] \in Nat /\ starts'[m] \in Nat /\ failures[m] \in Nat /\ failures'[m] \in Nat
      /\ remade \in Nat /\ remade' \in Nat
  BY DEF TypeOK
<1>4. QED
  BY <1>1, <1>2, <1>3, Countable DEF Balance

\* A pull request and a message come to a worker one at a time.
LEMMA WorkerPulls ==
  ASSUME Concurrency = 1, IInv, OnePull, NEW w \in Worker, WorkerStep(w)
  PROVE  OnePull'
<1> SUFFICES ASSUME NEW d \in Con PROVE OnePullOf(d)'
  BY DEF OnePull
<1> DEFINE c == w[1]
<1>1. /\ c \in Con /\ w = Only(c) /\ Only(d) \in Worker /\ (Only(c) = Only(d) => c = d)
      /\ OnePullOf(c) /\ OnePullOf(d)
  BY OnlyWorker DEF OnePull
<1>2. requests \subseteq Worker /\ pc \in [Worker -> {"none", "poll", "fetch", "retry", "handle", "cancelled", "done"}]
  BY DEF IInv, TypeOK
<1>3. inbox \in [Con -> Seq(Msg)]
  BY DEF IInv, TypeOK
<1> HIDE DEF c
<1>4. CASE Poll(w)
  <2>1. pc[w] = "poll" /\ inbox[c] = <<>> /\ w \notin requests
    BY <1>1, <1>4 DEF Poll, OnePullOf
  <2>2. ~Receive(w)
    BY <2>1 DEF Receive, c
  <2>3. inbox' = inbox /\ \E p \in {"done", "fetch"} : pc' = [pc EXCEPT ![w] = p] /\ requests' \subseteq requests \cup {w}
                          /\ (p = "done" => requests' = requests)
    BY <1>4, <2>2 DEF Poll, Ends
  <2>4. QED
    BY <1>1, <1>2, <2>1, <2>3 DEF OnePullOf
<1>5. CASE Fetched(w)
  <2>1. pc[w] = "fetch" /\ inbox[c] # <<>> /\ inbox' = [inbox EXCEPT ![c] = Tail(@)] /\ requests' = requests
    BY <1>5 DEF Fetched, Receive, c
  <2>2. inbox'[c] = <<>> /\ w \notin requests
    <3>1. PICK m \in Msg : inbox[c] = <<m>>
      BY <1>1, <2>1 DEF OnePullOf
    <3>2. Tail(<<m>>) = <<>>
      OBVIOUS
    <3>3. QED
      BY <1>1, <1>3, <2>1, <3>1, <3>2 DEF OnePullOf
  <2>3. \E p \in {"poll", "handle"} : pc' = [pc EXCEPT ![w] = p]
    BY <1>5 DEF Fetched, Receive, Process
  <2>4. QED
    BY <1>1, <1>2, <1>3, <2>1, <2>2, <2>3 DEF OnePullOf
<1>6. CASE FetchEnds(w)
  BY <1>1, <1>2, <1>6 DEF FetchEnds, Ends, OnePullOf, c
<1>7. CASE RetryOver(w)
  BY <1>1, <1>2, <1>7 DEF RetryOver, OnePullOf, psubVars
<1>8. CASE Cancelled(w)
  BY <1>1, <1>2, <1>8 DEF Cancelled, Ends, OnePullOf, psubVars
<1>9. QED
  BY <1>4, <1>5, <1>6, <1>7, <1>8 DEF WorkerStep

LEMMA OnePullKept ==
  ASSUME Concurrency = 1, IInv, OnePull, [Next]_vars
  PROVE  OnePull'
<1> SUFFICES ASSUME NEW d \in Con PROVE OnePullOf(d)'
  BY DEF OnePull
<1>1. OnePullOf(d) /\ Only(d) \in Worker
  BY OnlyWorker DEF OnePull
<1>2. /\ pc \in [Worker -> {"none", "poll", "fetch", "retry", "handle", "cancelled", "done"}]
      /\ inbox \in [Con -> Seq(Msg)]
  BY DEF IInv, TypeOK
<1>3. CASE \E w \in Worker : WorkerStep(w) \/ HandlerStep(w) \/ KeepAlive(w)
  <2>1. PICK w \in Worker : WorkerStep(w) \/ HandlerStep(w) \/ KeepAlive(w)
    BY <1>3
  <2>2. CASE WorkerStep(w)
    BY <2>2, WorkerPulls DEF OnePull
  <2>3. CASE HandlerStep(w)
    BY <1>1, <1>2, <2>3 DEF HandlerStep, HandlerEnds, OnePullOf
  <2>4. CASE KeepAlive(w)
    BY <1>1, <2>4 DEF KeepAlive, OnePullOf, psubVars
  <2>5. QED
    BY <2>1, <2>2, <2>3, <2>4
<1>4. CASE \E c \in Con : ConsumerStep(c) \/ Crash(c) \/ CloseConnection(c)
  <2>1. PICK c \in Con : ConsumerStep(c) \/ Crash(c) \/ CloseConnection(c)
    BY <1>4
  <2>2. Only(d) \in Worker /\ Only(d)[1] = d
    BY OnlyWorker
  <2>3. CASE AskInfo(c)
    BY <1>1, <2>3 DEF AskInfo, OnePullOf, psubVars, workVars
  <2>4. CASE DeleteDurable(c)
    BY <1>1, <2>4 DEF DeleteDurable, OnePullOf, psubVars, workVars
  <2>5. CASE Start(c)
    <3>1. d = c => pc[Only(d)] = "none"
      BY <2>5, OnlyWorker, WorkerOf DEF IInv, AtRest, Start, Workers, Only
    <3>2. d # c => pc'[Only(d)] = pc[Only(d)]
      BY <2>2, <2>5 DEF Start
    <3>3. QED
      BY <1>1, <2>5, <3>1, <3>2 DEF Start, OnePullOf, psubVars
  <2>6. CASE ConsumeFails(c)
    BY <1>1, <2>6 DEF ConsumeFails, OnePullOf, psubVars, workVars
  <2>7. CASE StopReturns(c)
    BY <1>1, <1>2, <2>7 DEF StopReturns, OnePullOf, workVars
  <2>8. CASE \E by \in Workers(c) \cup {None} : Stop(c, by)
    <3>1. /\ inbox' = inbox /\ requests' = requests
          /\ pc'[Only(d)] = IF Only(d)[1] = c /\ pc[Only(d)] \in Waiting THEN "cancelled" ELSE pc[Only(d)]
      BY <2>2, <2>8 DEF Stop, psubVars
    <3>2. QED
      BY <1>1, <3>1 DEF OnePullOf
  <2>9. CASE Crash(c)
    <3>1. /\ inbox' = [inbox EXCEPT ![c] = <<>>] /\ requests' \subseteq requests
          /\ pc'[Only(d)] = IF Only(d)[1] = c THEN "done" ELSE pc[Only(d)]
      BY <2>2, <2>9 DEF Crash
    <3>2. QED
      BY <1>1, <1>2, <3>1 DEF OnePullOf
  <2>10. CASE CloseConnection(c)
    BY <1>1, <2>10 DEF CloseConnection, OnePullOf, workVars
  <2>11. QED
    BY <2>1, <2>3, <2>4, <2>5, <2>6, <2>7, <2>8, <2>9, <2>10 DEF ConsumerStep, ConsumeStep
<1>5. CASE Server
  <2>1. CASE \E m \in Msg : Redeliver(m)
    BY <1>1, <2>1 DEF Redeliver, OnePullOf, psubVars, workVars
  <2>2. CASE \E w \in Worker, m \in Msg : Deliver(w, m)
    <3>1. PICK w \in Worker, m \in Msg : Deliver(w, m)
      BY <2>2
    <3>2. w[1] \in Con /\ w = Only(w[1]) /\ (Only(w[1]) = Only(d) => w[1] = d)
      BY OnlyWorker
    <3>3. inbox' = [inbox EXCEPT ![w[1]] = Append(@, m)] /\ requests' = requests \ {w} /\ w \in requests /\ pc' = pc
      BY <3>1 DEF Deliver, workVars
    <3>4. d = w[1] => inbox[d] = <<>> /\ pc[Only(d)] \notin {"none", "poll", "retry", "handle"}
      BY <1>1, <3>2, <3>3 DEF OnePullOf
    <3>5. Append(<<>>, m) = <<m>>
      OBVIOUS
    <3>6. QED
      BY <1>1, <1>2, <3>2, <3>3, <3>4, <3>5 DEF OnePullOf
  <2>3. QED
    BY <1>5, <2>1, <2>2 DEF Server
<1>6. CASE Tick
  BY <1>1, <1>6 DEF Tick, OnePullOf, psubVars
<1>7. CASE UNCHANGED vars
  BY <1>1, <1>7 DEF vars, OnePullOf
<1>8. QED
  BY <1>3, <1>4, <1>5, <1>6, <1>7 DEF Next

\* What a consumer has bound is the durable consumer of all of them, or none is left of it.
LEMMA BoundPeriod ==
  ASSUME OneByOne, NEW c \in Con, Bound(c), durable = None \/ durable.half = Period
  PROVE  durable' = None \/ durable'.half = Period
BY PeriodType DEF Bound

LEMMA OneConfigKept ==
  ASSUME OneByOne, IInv, OneConfig, [Next]_vars
  PROVE  OneConfig'
<1> DEFINE Idle == /\ requests = {} /\ \A m \in Msg : status[m] # "out"
                   /\ \A c \in Con : /\ pc[Only(c)] \in {"none", "done"}
                                     /\ phase[c] \in {"new", "deleting", "crashed"}
           Ours == durable = None \/ durable.half = Period
<1>0. Concurrency = 1 /\ (OneConfig <=> Ours \/ Idle) /\ (OneConfig' <=> Ours' \/ Idle')
  BY DEF OneByOne, OneConfig
<1>1. /\ pc \in [Worker -> {"none", "poll", "fetch", "retry", "handle", "cancelled", "done"}]
      /\ phase \in [Con -> {"new", "deleting", "binding", "on", "stopping", "off", "crashed"}]
  BY DEF IInv, TypeOK
<1>2. CASE \E w \in Worker : WorkerStep(w) \/ HandlerStep(w) \/ KeepAlive(w)
  <2>1. PICK w \in Worker : WorkerStep(w) \/ HandlerStep(w) \/ KeepAlive(w)
    BY <1>2
  <2>2. pc[w] \notin {"none", "done"} /\ durable' = durable
    BY <2>1 DEF WorkerStep, HandlerStep, HandlerEnds, KeepAlive, Poll, Fetched, FetchEnds, RetryOver,
                Cancelled, conVars
  <2>3. Ours
    BY <1>0, <2>2, OnlyWorker DEF OneConfig
  <2>4. QED
    BY <1>0, <2>2, <2>3
<1>3. CASE \E c \in Con : ConsumerStep(c) \/ Crash(c) \/ CloseConnection(c)
  <2>1. PICK c \in Con : ConsumerStep(c) \/ Crash(c) \/ CloseConnection(c)
    BY <1>3
  <2>2. CASE AskInfo(c)
    <3>1. CASE durable \in {None, Asked[c]}
      BY <1>0, <2>2, <3>1, PeriodType DEF AskInfo
    <3>2. CASE durable \notin {None, Asked[c]}
      <4>1. Idle => Idle'
        BY <1>1, <2>2, <3>2 DEF AskInfo, workVars, psubVars, serverVars
      <4>2. Ours => Ours'
        BY <2>2 DEF AskInfo
      <4>3. QED
        BY <1>0, <4>1, <4>2
    <3>3. QED
      BY <3>1, <3>2
  <2>3. CASE DeleteDurable(c)
    BY <1>0, <2>3 DEF DeleteDurable
  <2>4. CASE Start(c) \/ (ConsumeFails(c) /\ phase[c] = "binding")
    <3>1. Ours
      BY <1>0, <2>4 DEF Start
    <3>2. Bound(c) \/ durable' = durable
      BY <2>4 DEF Start, ConsumeFails
    <3>3. QED
      BY <1>0, <3>1, <3>2, BoundPeriod
  <2>5. CASE ConsumeFails(c) /\ phase[c] # "binding"
    <3>1. Idle => Idle'
      BY <1>1, <2>5 DEF ConsumeFails, workVars, psubVars, serverVars
    <3>2. Ours => Ours'
      BY <2>5 DEF ConsumeFails
    <3>3. QED
      BY <1>0, <3>1, <3>2
  <2>6. CASE StopReturns(c) \/ (\E by \in Workers(c) \cup {None} : Stop(c, by)) \/ CloseConnection(c)
    <3>1. Ours /\ durable' = durable
      BY <1>0, <2>6 DEF StopReturns, Stop, CloseConnection
    <3>2. QED
      BY <1>0, <3>1
  <2>7. CASE Crash(c)
    <3>1. Ours => Ours'
      BY <2>7 DEF Crash
    <3>2. /\ \A d \in Con : pc'[Only(d)] \in {pc[Only(d)], "done"} /\ phase'[d] \in {phase[d], "crashed"}
          /\ requests' \subseteq requests /\ status' = status
      BY <1>0, <1>1, <2>7, OnlyWorker DEF Crash, serverVars
    <3>3. Idle => Idle'
      BY <3>2
    <3>4. QED
      BY <1>0, <3>1, <3>3
  <2>8. QED
    BY <2>1, <2>2, <2>3, <2>4, <2>5, <2>6, <2>7 DEF ConsumerStep, ConsumeStep
<1>4. CASE Server
  <2>1. Ours => Ours'
    BY <1>4 DEF Server, Deliver, Redeliver, conVars
  <2>2. Idle => Idle'
    BY <1>4 DEF Server, Deliver, Redeliver, conVars, IInv, TypeOK
  <2>3. QED
    BY <1>0, <2>1, <2>2
<1>5. CASE Tick \/ UNCHANGED vars
  BY <1>5 DEF Tick, vars, OneConfig, conVars, psubVars
<1>6. QED
  BY <1>2, <1>3, <1>4, <1>5 DEF Next

\* A step that costs nobody a message leaves its account in order.
LEMMA Undisturbed ==
  ASSUME TypeOK, TypeOK', NEW m \in Msg, PaidFor(m), starts'[m] = starts[m],
         Receiving(m)' \subseteq Receiving(m), Unanswered(m) \subseteq Unanswered(m)',
         failures[m] <= failures'[m], remade <= remade',
         Due(m)' => \/ Due(m) \/ Receiving(m)' # Receiving(m) \/ Unanswered(m)' # Unanswered(m)
                    \/ failures[m] # failures'[m] \/ remade # remade'
  PROVE  PaidFor(m)'
BY BalanceGrows, StillPaid

Accounted == OneByOne /\ IInv /\ IInv' /\ OnceInv

\* A step in which no message changes hands.
LEMMA QuietStep ==
  ASSUME Accounted, UNCHANGED <<held, keep, closed, status, left, starts, failures, remade>>,
         stale' \subseteq stale,
         \A d \in Con : \/ inbox'[d] = inbox[d] /\ pc'[Only(d)] = pc[Only(d)]
                        \/ /\ inbox[d] = <<>> \/ pc[Only(d)] # "fetch"
                           /\ inbox'[d] = <<>> \/ pc'[Only(d)] # "fetch"
  PROVE  JustDelivered' /\ Paid'
<1>1. ASSUME NEW m \in Msg PROVE Receiving(m)' = Receiving(m) /\ Unanswered(m)' = Unanswered(m)
  BY DEF Receiving, Unanswered
<1>2. JustDelivered'
  BY <1>1 DEF Accounted, OnceInv, JustDelivered
<1>3. ASSUME NEW m \in Msg PROVE PaidFor(m)'
  <2>1. Due(m)' => Due(m)
    BY <1>1 DEF Due, InHand, KeptAlive
  <2>2. TypeOK /\ TypeOK' /\ PaidFor(m)
    BY DEF Accounted, IInv, OnceInv, Paid
  <2>3. failures[m] <= failures'[m] /\ remade <= remade'
    BY <2>2 DEF TypeOK
  <2>4. QED
    BY <1>1, <2>1, <2>2, <2>3, Undisturbed
<1>4. QED
  BY <1>2, <1>3 DEF Paid

\* The worker takes its message from fetch(): the start it was waiting for, from a message in hand.
LEMMA FetchedPaid ==
  ASSUME Accounted, NEW w \in Worker, Fetched(w)
  PROVE  JustDelivered' /\ Paid'
<1> DEFINE c == w[1]
<1>0. TypeOK /\ TypeOK' /\ Concurrency = 1 /\ JustDelivered /\ Paid /\ OnePull /\ ~Plain
  BY DEF Accounted, IInv, OnceInv, OneByOne
<1>1. /\ c \in Con /\ w = Only(c) /\ \A d \in Con : Only(d) \in Worker /\ (Only(c) = Only(d) => c = d)
  BY <1>0, OnlyWorker
<1>2. /\ pc[w] = "fetch" /\ inbox[c] # <<>> /\ inbox' = [inbox EXCEPT ![c] = Tail(@)]
      /\ Process(w, Head(inbox[c])) /\ UNCHANGED <<closed, remade, left, stale>>
  BY DEF Fetched, Receive, conVars
<1>3. PICK m \in Msg : inbox[c] = <<m>>
  BY <1>0, <1>1, <1>2 DEF OnePull, OnePullOf
<1>4. inbox'[c] = <<>> /\ Process(w, m)
  <2>1. Head(<<m>>) = m /\ Tail(<<m>>) = <<>>
    OBVIOUS
  <2>2. QED
    BY <1>0, <1>1, <1>2, <1>3, <2>1 DEF TypeOK
<1>5. held[w] = None /\ None \notin Msg
  BY <1>0, <1>2, ConsumerConstants DEF TypeOK
<1> HIDE DEF c
<1>6. ASSUME NEW n \in Msg
      PROVE  Receiving(n)' = IF n = m THEN Receiving(n) \ {c} ELSE Receiving(n)
  <2>1. \A d \in Con : d # c => pc'[Only(d)] = pc[Only(d)] /\ inbox'[d] = inbox[d]
    BY <1>0, <1>1, <1>2, <1>4 DEF Process, TypeOK
  <2>2. <<n>> # <<>> /\ (<<m>> = <<n>> => m = n)
    OBVIOUS
  <2>3. c \notin Receiving(n)' /\ (c \in Receiving(n) => m = n)
    BY <1>3, <1>4, <2>2 DEF Receiving
  <2>4. \A d \in Con : d # c => (d \in Receiving(n)' <=> d \in Receiving(n))
    BY <2>1 DEF Receiving
  <2>5. Receiving(n) \subseteq Con /\ Receiving(n)' \subseteq Con
    BY DEF Receiving
  <2>6. QED
    BY <2>3, <2>4, <2>5
<1>7. c \in Receiving(m)
  BY <1>1, <1>2, <1>3 DEF Receiving
<1>8. CASE m \in invalid
  <2>1. /\ UNCHANGED <<held, keep, starts, failures>>
        /\ Answered(c, m, "termed") \/ AnswerLost
    BY <1>4, <1>8 DEF Process, ghosts, c
  <2>2. \A n \in Msg : status'[n] # status[n] => n = m /\ status'[n] = "termed"
    BY <1>0, <1>1, <1>3, <2>1, AnsweredStatus
  <2>3. JustDelivered'
    BY <1>0, <1>2, <1>6, <2>2 DEF JustDelivered
  <2>4. ASSUME NEW n \in Msg PROVE PaidFor(n)'
    <3>1. Receiving(n)' \subseteq Receiving(n) /\ (n = m => Receiving(n)' # Receiving(n))
      BY <1>6, <1>7
    <3>2. Unanswered(n)' = Unanswered(n)
      BY <1>2, <2>1 DEF Unanswered
    <3>3. n # m => (Due(n)' => Due(n))
      BY <1>2, <1>6, <2>1, <2>2 DEF Due, InHand, KeptAlive
    <3>4. failures[n] <= failures'[n] /\ remade <= remade' /\ starts'[n] = starts[n]
      BY <1>0, <1>2, <2>1 DEF TypeOK
    <3>5. QED
      BY <1>0, <3>1, <3>2, <3>3, <3>4, Undisturbed DEF Paid
  <2>5. QED
    BY <2>3, <2>4 DEF Paid
<1>9. CASE m \notin invalid
  <2>1. /\ held' = [held EXCEPT ![w] = m] /\ keep' = [keep EXCEPT ![w] = Asked[c].half]
        /\ starts' = [starts EXCEPT ![m] = @ + 1]
        /\ UNCHANGED <<status, failures>>
    BY <1>4, <1>9 DEF Process, c
  <2>2. JustDelivered'
    BY <1>0, <1>2, <1>6, <2>1 DEF JustDelivered
  <2>3. ASSUME NEW n \in Msg, n # m PROVE PaidFor(n)'
    <3>1. Receiving(n)' = Receiving(n)
      BY <1>6, <2>3
    <3>2. Unanswered(n)' = Unanswered(n)
      BY <1>0, <1>2, <1>5, <2>1, <2>3 DEF Unanswered, TypeOK
    <3>3. \A d \in Con : held'[Only(d)] = n <=> held[Only(d)] = n
      BY <1>0, <1>1, <1>5, <2>1, <2>3 DEF TypeOK
    <3>4. \A d \in Con : held[Only(d)] = n => Only(d) # w
      BY <1>1, <1>5
    <3>5. \A d \in Con : held[Only(d)] = n => keep'[Only(d)] = keep[Only(d)] /\ held'[Only(d)] = n
      BY <1>0, <1>1, <2>1, <3>3, <3>4 DEF TypeOK
    <3>6. Due(n)' => Due(n)
      BY <1>2, <2>1, <3>1, <3>3, <3>5 DEF Due, InHand, KeptAlive
    <3>7. failures[n] <= failures'[n] /\ remade <= remade' /\ starts'[n] = starts[n]
      BY <1>0, <1>2, <2>1, <2>3 DEF TypeOK
    <3>8. QED
      BY <1>0, <3>1, <3>2, <3>6, <3>7, Undisturbed DEF Paid
  <2>4. PaidFor(m)'
    <3>1. Receiving(m)' = Receiving(m) \ {c}
      BY <1>3, <1>6
    <3>2. Cardinality(Receiving(m)') = Cardinality(Receiving(m)) - 1
      BY <1>7, <3>1, Countable, FS_RemoveElement
    <3>3. w \in Worker /\ held'[w] = m
      BY <1>0, <1>3, <2>1 DEF TypeOK
    <3>4. \A v \in Worker : v # w => held'[v] = held[v]
      BY <1>0, <2>1 DEF TypeOK
    <3>5. Unanswered(m)' = IF c \in closed THEN Unanswered(m) \cup {w} ELSE Unanswered(m)
      BY <1>2, <1>3, <1>5, <3>3, <3>4 DEF Unanswered, c
    <3>6. w \notin Unanswered(m)
      BY <1>3, <1>5 DEF Unanswered
    <3>7. Cardinality(Unanswered(m)') = Cardinality(Unanswered(m)) + IF c \in closed THEN 1 ELSE 0
      <4>1. Cardinality(Unanswered(m) \cup {w}) = Cardinality(Unanswered(m)) + 1
        BY <3>6, Countable, FS_AddElement
      <4>2. QED
        BY <3>5, <4>1, Countable
    <3>8. /\ starts[m] \in Nat /\ failures[m] \in Nat /\ remade \in Nat /\ starts'[m] = starts[m] + 1
          /\ failures'[m] = failures[m] /\ remade' = remade
      BY <1>0, <1>2, <1>3, <2>1 DEF TypeOK
    <3>9. Balance(m)' = Balance(m) + IF c \in closed THEN 1 ELSE 0
      BY <3>2, <3>7, <3>8, Countable DEF Balance
    <3>10. CASE c \in closed
      BY <1>0, <1>3, <3>9, <3>10, BalanceType, StillPaid DEF Paid
    <3>11. CASE c \notin closed
      <4>1. Due(m)' => Due(m)
        <5> SUFFICES ASSUME Due(m)', ~Due(m) PROVE FALSE
          OBVIOUS
        <5>1. status[m] = "out" /\ ~InHand(m)'
          BY <1>0, <1>3, <2>1 DEF Due, TypeOK
        <5>2. left'[m] = 2 * Period
          BY <1>0, <1>2, <1>3, <1>7, <5>1 DEF JustDelivered
        <5>3. Period \in Nat /\ keep'[w] = Period
          BY <1>0, <1>1, <2>1, PeriodType DEF Accounted, TypeOK
        <5>4. KeptAlive(c)'
          BY <1>1, <1>2, <3>3, <3>11, <5>2, <5>3 DEF KeptAlive
        <5>5. <<c, m>> \in stale
          BY <1>1, <1>2, <3>3, <5>1, <5>4 DEF InHand
        <5>6. PICK d \in Con : <<d, m>> \notin stale /\ (d \in Receiving(m) \/ (held[Only(d)] = m /\ KeptAlive(d)))
          BY <5>1 DEF Due, InHand
        <5>7. d # c
          BY <5>5, <5>6
        <5>8. d \in Receiving(m) => d \in Receiving(m)'
          BY <3>1, <5>7
        <5>9. held'[Only(d)] = held[Only(d)] /\ keep'[Only(d)] = keep[Only(d)]
          BY <1>0, <1>1, <2>1, <5>7 DEF TypeOK
        <5>10. KeptAlive(d) => KeptAlive(d)'
          BY <1>2, <5>9 DEF KeptAlive
        <5>11. InHand(m)'
          BY <1>2, <5>6, <5>8, <5>9, <5>10 DEF InHand
        <5>12. QED
          BY <5>1, <5>11
      <4>2. QED
        BY <1>0, <1>3, <3>9, <3>11, <4>1, BalanceType, StillPaid DEF Paid
    <3>12. QED
      BY <3>10, <3>11
  <2>5. QED
    BY <2>2, <2>3, <2>4 DEF Paid
<1>10. QED
  BY <1>8, <1>9

LEMMA WorkerPaid ==
  ASSUME Accounted, NEW w \in Worker, WorkerStep(w)
  PROVE  JustDelivered' /\ Paid'
<1>1. /\ Concurrency = 1 /\ ~Plain /\ OnePull
      /\ pc \in [Worker -> {"none", "poll", "fetch", "retry", "handle", "cancelled", "done"}]
  BY DEF Accounted, OneByOne, OnceInv, IInv, TypeOK
<1>2. w[1] \in Con /\ w = Only(w[1]) /\ \A d \in Con : Only(d) \in Worker /\ (Only(w[1]) = Only(d) => w[1] = d)
  BY <1>1, OnlyWorker
<1>3. CASE Fetched(w)
  BY <1>3, FetchedPaid
<1>4. CASE ~Fetched(w)
  <2>1. /\ UNCHANGED <<held, keep, closed, status, left, starts, failures, remade, stale, inbox>>
        /\ pc[w] # "fetch" \/ inbox[w[1]] = <<>>
        /\ \E p \in {"poll", "fetch", "retry", "done"} : pc' = [pc EXCEPT ![w] = p] /\ (p = "fetch" => inbox[w[1]] = <<>>)
    <3>1. CASE Poll(w)
      <4>1. inbox[w[1]] = <<>>
        BY <1>1, <1>2, <3>1 DEF Poll, OnePull, OnePullOf
      <4>2. ~Receive(w)
        BY <4>1 DEF Receive
      <4>3. QED
        BY <3>1, <4>1, <4>2 DEF Poll, Ends, conVars, ghosts
    <3>2. CASE FetchEnds(w)
      BY <3>2 DEF FetchEnds, Ends, conVars, serverVars, ghosts
    <3>3. CASE RetryOver(w)
      BY <3>3 DEF RetryOver, conVars, psubVars, serverVars, ghosts
    <3>4. CASE Cancelled(w)
      BY <3>4 DEF Cancelled, Ends, conVars, psubVars, serverVars, ghosts
    <3>5. QED
      BY <1>4, <3>1, <3>2, <3>3, <3>4 DEF WorkerStep
  <2>2. \A d \in Con : \/ inbox'[d] = inbox[d] /\ pc'[Only(d)] = pc[Only(d)]
                       \/ /\ inbox[d] = <<>> \/ pc[Only(d)] # "fetch"
                          /\ inbox'[d] = <<>> \/ pc'[Only(d)] # "fetch"
    BY <1>1, <1>2, <2>1
  <2>3. QED
    BY <2>1, <2>2, QuietStep
<1>5. QED
  BY <1>3, <1>4

\* The handler's end: the message is settled, or its account grows by the failed call.
LEMMA HandlerPaid ==
  ASSUME Accounted, NEW w \in Worker, NEW ok \in BOOLEAN, HandlerEnds(w, ok)
  PROVE  JustDelivered' /\ Paid'
<1> DEFINE c == w[1]
<1>0. TypeOK /\ TypeOK' /\ Concurrency = 1 /\ JustDelivered /\ Paid
  BY DEF Accounted, IInv, OnceInv, OneByOne
<1>1. /\ c \in Con /\ w = Only(c) /\ \A d \in Con : Only(d) \in Worker /\ (Only(c) = Only(d) => c = d)
  BY <1>0, OnlyWorker
<1>2. /\ pc[w] = "handle" /\ pc' = [pc EXCEPT ![w] = "poll"] /\ held' = [held EXCEPT ![w] = None]
      /\ keep' = [keep EXCEPT ![w] = Dead] /\ stale' = stale \ {<<c, held[w]>>}
      /\ UNCHANGED <<closed, remade, inbox, left, starts>>
  BY DEF HandlerEnds, conVars
<1>3. PICK m \in Msg : held[w] = m
  BY <1>0, <1>2 DEF TypeOK
<1>4. \/ c \notin closed /\ Answered(c, m, "acked") /\ UNCHANGED failures
      \/ UNCHANGED status /\ failures' = [failures EXCEPT ![m] = @ + 1]
      \/ /\ c \notin closed /\ failures' = [failures EXCEPT ![m] = @ + 1]
         /\ status' = [status EXCEPT ![m] = IF @ = "out" THEN "stored" ELSE @]
  BY <1>3 DEF HandlerEnds, AnswerLost
<1>5. \A n \in Msg : (status'[n] = status[n] \/ (n = m /\ status'[n] \in {"acked", "stored"})) /\ failures[n] <= failures'[n]
  <2>1. \A n \in Msg : failures[n] <= failures'[n]
    <3>1. failures' = failures \/ failures' = [failures EXCEPT ![m] = @ + 1]
      BY <1>4
    <3>2. failures \in [Msg -> Nat]
      BY <1>0 DEF TypeOK
    <3>3. QED
      BY <1>3, <3>1, <3>2
  <2>2. \A n \in Msg : status'[n] = status[n] \/ (n = m /\ status'[n] \in {"acked", "stored"})
    <3>1. CASE Answered(c, m, "acked")
      BY <1>0, <1>1, <1>3, <3>1, AnsweredStatus
    <3>2. CASE ~Answered(c, m, "acked")
      BY <1>0, <1>3, <1>4, <3>2 DEF TypeOK
    <3>3. QED
      BY <3>1, <3>2
  <2>3. QED
    BY <2>1, <2>2
<1> HIDE DEF c
<1>6. \A n \in Msg : Receiving(n)' = Receiving(n)
  BY <1>0, <1>1, <1>2 DEF Receiving, TypeOK
<1>7. JustDelivered'
  BY <1>0, <1>2, <1>5, <1>6 DEF JustDelivered
<1>8. \A d \in Con : d # c => /\ held'[Only(d)] = held[Only(d)] /\ keep'[Only(d)] = keep[Only(d)]
                              /\ \A n \in Msg : <<d, n>> \in stale' <=> <<d, n>> \in stale
  BY <1>0, <1>1, <1>2 DEF TypeOK
\* Who has it in hand goes on, unless it is the worker whose handler ended.
<1>9. ASSUME NEW n \in Msg, NEW d \in Con, d # c \/ n # m, <<d, n>> \notin stale,
             d \in Receiving(n) \/ (held[Only(d)] = n /\ KeptAlive(d))
      PROVE  InHand(n)'
  <2>1. <<d, n>> \notin stale'
    BY <1>2, <1>9
  <2>2. CASE d \in Receiving(n)
    BY <1>6, <2>1, <2>2 DEF InHand
  <2>3. CASE held[Only(d)] = n /\ KeptAlive(d)
    <3>1. d # c
      BY <1>1, <1>3, <1>9, <2>3
    <3>2. held'[Only(d)] = n /\ KeptAlive(d)'
      BY <1>2, <1>8, <2>3, <3>1 DEF KeptAlive
    <3>3. QED
      BY <2>1, <3>2 DEF InHand
  <2>4. QED
    BY <1>9, <2>2, <2>3
<1>10. ASSUME NEW n \in Msg, n # m PROVE PaidFor(n)'
  <2>1. Unanswered(n)' = Unanswered(n)
    BY <1>0, <1>2, <1>3, <1>10, ConsumerConstants DEF Unanswered, TypeOK
  <2>2. InHand(n) => InHand(n)'
    BY <1>9, <1>10 DEF InHand
  <2>3. Due(n)' => Due(n)
    BY <1>5, <1>10, <2>2 DEF Due
  <2>4. remade <= remade' /\ starts'[n] = starts[n]
    BY <1>0, <1>2 DEF TypeOK
  <2>5. QED
    BY <1>0, <1>5, <1>6, <2>1, <2>3, <2>4, Undisturbed DEF Paid
<1>11. PaidFor(m)'
  <2>1. remade <= remade' /\ starts'[m] = starts[m]
    BY <1>0, <1>2 DEF TypeOK
  <2>2. CASE c \notin closed
    <3>1. Unanswered(m)' = Unanswered(m)
      BY <1>0, <1>2, <1>3, <2>2, ConsumerConstants DEF Unanswered, TypeOK, c
    <3>2. CASE failures' = [failures EXCEPT ![m] = @ + 1]
      <4>1. failures[m] # failures'[m]
        BY <1>0, <1>3, <3>2 DEF TypeOK
      <4>2. QED
        BY <1>0, <1>5, <1>6, <2>1, <3>1, <4>1, Undisturbed DEF Paid
    <3>3. CASE Answered(c, m, "acked") /\ UNCHANGED failures
      <4>1. \/ status'[m] \in {"acked", "termed"}
            \/ <<c, m>> \in stale /\ UNCHANGED status
        BY <1>0, <1>3, <3>3 DEF Answered, TypeOK
      <4>2. Due(m)' => Due(m)
        <5>1. CASE status'[m] \in {"acked", "termed"}
          BY <5>1 DEF Due
        <5>2. CASE <<c, m>> \in stale /\ UNCHANGED status
          <6>1. InHand(m) => InHand(m)'
            BY <1>9, <5>2 DEF InHand
          <6>2. QED
            BY <5>2, <6>1 DEF Due
        <5>3. QED
          BY <4>1, <5>1, <5>2
      <4>3. QED
        BY <1>0, <1>5, <1>6, <2>1, <3>1, <4>2, Undisturbed DEF Paid
    <3>4. QED
      BY <1>4, <2>2, <3>2, <3>3
  <2>3. CASE c \in closed
    <3>1. UNCHANGED status /\ failures' = [failures EXCEPT ![m] = @ + 1]
      BY <1>4, <2>3
    <3>2. Unanswered(m)' = Unanswered(m) \ {w} /\ w \in Unanswered(m)
      BY <1>0, <1>2, <1>3, <2>3, ConsumerConstants DEF Unanswered, TypeOK, c
    <3>3. Cardinality(Unanswered(m)') = Cardinality(Unanswered(m)) - 1
      BY <3>2, Countable, FS_RemoveElement
    <3>4. /\ starts[m] \in Nat /\ failures[m] \in Nat /\ remade \in Nat
          /\ failures'[m] = failures[m] + 1 /\ remade' = remade
      BY <1>0, <1>2, <1>3, <3>1 DEF TypeOK
    <3>5. Balance(m)' = Balance(m)
      BY <1>6, <2>1, <3>3, <3>4, Countable DEF Balance
    <3>6. InHand(m) => InHand(m)'
      <4>1. c \notin Receiving(m) /\ ~KeptAlive(c)
        BY <1>1, <1>2, <2>3 DEF Receiving, KeptAlive
      <4>2. QED
        BY <1>9, <4>1 DEF InHand
    <3>7. Due(m)' => Due(m)
      BY <3>1, <3>6 DEF Due
    <3>8. QED
      BY <1>0, <1>3, <3>5, <3>7, BalanceType, StillPaid DEF Paid
  <2>4. QED
    BY <2>2, <2>3
<1>12. QED
  BY <1>7, <1>10, <1>11 DEF Paid

\* The keepalive starts the wait anew, for whoever has the message in hand.
LEMMA KeepAlivePaid ==
  ASSUME Accounted, NEW w \in Worker, KeepAlive(w)
  PROVE  JustDelivered' /\ Paid'
<1> DEFINE c == w[1]
<1>0. TypeOK /\ TypeOK' /\ Concurrency = 1 /\ JustDelivered /\ Paid /\ ~PingFails
  BY DEF Accounted, IInv, OnceInv, OneByOne
<1>1. /\ c \in Con /\ w = Only(c) /\ \A d \in Con : Only(d) \in Worker /\ (Only(c) = Only(d) => c = d)
  BY <1>0, OnlyWorker
<1>2. /\ pc[w] = "handle" /\ keep[w] = 0
      /\ UNCHANGED <<pc, held, closed, stale, inbox, status, starts, failures, remade>>
  BY DEF KeepAlive, conVars, psubVars, ghosts
<1>3. PICK m \in Msg : held[w] = m
  BY <1>0, <1>2 DEF TypeOK
<1>4. Period \in Nat /\ Asked[c].half = Period
  BY <1>1, PeriodType DEF Accounted
<1>5. \/ /\ c \notin closed /\ keep' = [keep EXCEPT ![w] = Period]
         /\ left' = [left EXCEPT ![m] = IF status[m] = "out" THEN 2 * durable.half ELSE @]
      \/ c \in closed /\ keep' = [keep EXCEPT ![w] = Dead] /\ left' = left
  BY <1>0, <1>3, <1>4 DEF KeepAlive
<1>6. status[m] = "out" => durable.half = Period
  BY <1>3 DEF Accounted, IInv, ServerHasConsumer, OnceInv, OneConfig
<1> HIDE DEF c
<1>7. ASSUME NEW n \in Msg PROVE Receiving(n)' = Receiving(n) /\ Unanswered(n)' = Unanswered(n)
  BY <1>2 DEF Receiving, Unanswered
<1>8. JustDelivered'
  <2> SUFFICES ASSUME NEW n \in Msg, status[n] = "out", Receiving(n) # {} PROVE left'[n] = 2 * Period
    BY <1>2, <1>7 DEF JustDelivered
  <2>1. left[n] = 2 * Period
    BY <1>0 DEF JustDelivered
  <2>2. QED
    BY <1>0, <1>3, <1>5, <1>6, <2>1 DEF TypeOK
<1>9. ASSUME NEW n \in Msg, status[n] = "out", InHand(n) PROVE InHand(n)'
  <2>1. PICK d \in Con : <<d, n>> \notin stale /\ (d \in Receiving(n) \/ (held[Only(d)] = n /\ KeptAlive(d)))
    BY <1>9 DEF InHand
  <2>2. CASE d \in Receiving(n)
    BY <1>2, <1>7, <2>1, <2>2 DEF InHand
  <2>3. CASE held[Only(d)] = n /\ KeptAlive(d)
    <3>1. d \notin closed /\ keep[Only(d)] \in 0 .. Period /\ left[n] >= keep[Only(d)] + Period
      BY <2>3 DEF KeptAlive
    <3>2. keep'[Only(d)] \in 0 .. Period /\ (keep'[Only(d)] = keep[Only(d)] \/ (d = c /\ n = m))
      <4>1. keep \in [Worker -> Nat \cup {Dead}]
        BY <1>0 DEF TypeOK
      <4>2. CASE d = c
        BY <1>1, <1>3, <1>4, <1>5, <2>3, <3>1, <4>1, <4>2
      <4>3. CASE d # c
        BY <1>1, <1>5, <3>1, <4>1, <4>3
      <4>4. QED
        BY <4>2, <4>3
    <3>3. left'[n] = left[n] \/ (n = m /\ left'[n] = 2 * Period)
      BY <1>0, <1>3, <1>5, <1>6, <1>9 DEF TypeOK
    <3>4. d = c => n = m /\ left'[n] = 2 * Period
      BY <1>0, <1>1, <1>3, <1>5, <1>6, <1>9, <2>3, <3>1 DEF TypeOK
    <3>5. left'[n] >= keep'[Only(d)] + Period
      BY <1>4, <3>1, <3>2, <3>3, <3>4
    <3>6. KeptAlive(d)' /\ held'[Only(d)] = n
      BY <1>2, <2>3, <3>1, <3>2, <3>5 DEF KeptAlive
    <3>7. QED
      BY <1>2, <2>1, <3>6 DEF InHand
  <2>4. QED
    BY <2>1, <2>2, <2>3
<1>10. ASSUME NEW n \in Msg PROVE PaidFor(n)'
  <2>1. Due(n)' => Due(n)
    BY <1>2, <1>9 DEF Due
  <2>2. failures[n] <= failures'[n] /\ remade <= remade' /\ starts'[n] = starts[n]
    BY <1>0, <1>2 DEF TypeOK
  <2>3. QED
    BY <1>0, <1>7, <2>1, <2>2, Undisturbed DEF Paid
<1>11. QED
  BY <1>8, <1>10 DEF Paid

\* The message that was due is in hand, or has nobody to receive it.
LEMMA DeliverPaid ==
  ASSUME Accounted, NEW w \in Worker, NEW m \in Msg, Deliver(w, m)
  PROVE  JustDelivered' /\ Paid'
<1> DEFINE c == w[1]
<1>0. TypeOK /\ TypeOK' /\ Concurrency = 1 /\ JustDelivered /\ Paid
  BY DEF Accounted, IInv, OnceInv, OneByOne
<1>1. /\ c \in Con /\ w = Only(c) /\ \A d \in Con : Only(d) \in Worker /\ (Only(c) = Only(d) => c = d)
  BY <1>0, OnlyWorker
<1>2. /\ status[m] = "stored" /\ w \in requests
      /\ status' = [status EXCEPT ![m] = "out"] /\ left' = [left EXCEPT ![m] = 2 * durable.half]
      /\ inbox' = [inbox EXCEPT ![c] = Append(@, m)] /\ stale' = stale \ {<<c, m>>}
      /\ UNCHANGED <<pc, held, keep, closed, remade, starts, failures>>
  BY DEF Deliver, conVars, workVars, ghosts
<1>3. inbox[c] = <<>> /\ pc[w] \notin {"poll", "retry", "handle"}
  BY <1>1, <1>2 DEF Accounted, OnceInv, OnePull, OnePullOf
<1>4. durable.half = Period
  BY <1>2 DEF Accounted, IInv, ServerHasConsumer, OnceInv, OneConfig
<1> HIDE DEF c
<1>5. inbox'[c] = <<m>>
  <2>1. Append(<<>>, m) = <<m>>
    OBVIOUS
  <2>2. QED
    BY <1>0, <1>1, <1>2, <1>3, <2>1 DEF TypeOK
<1>6. ASSUME NEW n \in Msg
      PROVE  /\ Unanswered(n)' = Unanswered(n)
             /\ Receiving(n)' = IF n = m /\ pc[w] = "fetch" THEN Receiving(n) \cup {c} ELSE Receiving(n)
             /\ c \notin Receiving(n)
  <2>1. \A d \in Con : d # c => inbox'[d] = inbox[d]
    BY <1>0, <1>1, <1>2 DEF TypeOK
  <2>2. <<n>> # <<>> /\ (<<m>> = <<n>> => m = n)
    OBVIOUS
  <2>3. c \notin Receiving(n) /\ (c \in Receiving(n)' <=> n = m /\ pc[w] = "fetch")
    BY <1>1, <1>2, <1>3, <1>5, <2>2 DEF Receiving
  <2>4. \A d \in Con : d # c => (d \in Receiving(n)' <=> d \in Receiving(n))
    BY <1>2, <2>1 DEF Receiving
  <2>5. Receiving(n) \subseteq Con /\ Receiving(n)' \subseteq Con
    BY DEF Receiving
  <2>6. Unanswered(n)' = Unanswered(n)
    BY <1>2 DEF Unanswered
  <2>7. QED
    BY <1>1, <2>3, <2>4, <2>5, <2>6
<1>7. JustDelivered'
  <2> SUFFICES ASSUME NEW n \in Msg, status'[n] = "out", Receiving(n)' # {} PROVE left'[n] = 2 * Period
    BY DEF JustDelivered
  <2>1. CASE n = m
    BY <1>0, <1>2, <1>4, <2>1 DEF TypeOK
  <2>2. CASE n # m
    BY <1>0, <1>2, <1>6, <2>2 DEF TypeOK, JustDelivered
  <2>3. QED
    BY <2>1, <2>2
<1>8. ASSUME NEW n \in Msg, n # m PROVE PaidFor(n)'
  <2>1. Receiving(n)' = Receiving(n) /\ Unanswered(n)' = Unanswered(n)
    BY <1>6, <1>8
  <2>2. status'[n] = status[n] /\ left'[n] = left[n]
    BY <1>0, <1>2, <1>8 DEF TypeOK
  <2>3. InHand(n) => InHand(n)'
    BY <1>2, <2>1, <2>2 DEF InHand, KeptAlive
  <2>4. Due(n)' => Due(n)
    BY <2>2, <2>3 DEF Due
  <2>5. failures[n] <= failures'[n] /\ remade <= remade' /\ starts'[n] = starts[n]
    BY <1>0, <1>2 DEF TypeOK
  <2>6. QED
    BY <1>0, <2>1, <2>4, <2>5, Undisturbed DEF Paid
<1>9. PaidFor(m)'
  <2>1. Due(m) /\ Balance(m) \in Int /\ Balance(m)' \in Int
    BY <1>0, <1>2, BalanceType DEF Due
  <2>2. CASE pc[w] # "fetch"
    <3>1. Balance(m)' = Balance(m)
      BY <1>2, <1>6, <2>2 DEF Balance
    <3>2. QED
      BY <1>0, <2>1, <3>1, StillPaid DEF Paid
  <2>3. CASE pc[w] = "fetch"
    <3>1. Cardinality(Receiving(m)') = Cardinality(Receiving(m)) + 1
      BY <1>6, <2>3, Countable, FS_AddElement
    <3>2. /\ starts[m] \in Int /\ failures[m] \in Int /\ remade \in Int
          /\ starts'[m] = starts[m] /\ failures'[m] = failures[m] /\ remade' = remade
      BY <1>0, <1>2 DEF TypeOK
    <3>3. Balance(m)' = Balance(m) - 1
      <4>1. Cardinality(Unanswered(m)') = Cardinality(Unanswered(m))
        BY <1>6
      <4>2. QED
        BY <3>1, <3>2, <4>1, Countable DEF Balance
    <3>4. c \in Receiving(m)' /\ <<c, m>> \notin stale'
      BY <1>2, <1>6, <2>3
    <3>5. ~Due(m)'
      <4>1. InHand(m)'
        BY <1>1, <3>4 DEF InHand
      <4>2. status'[m] = "out"
        BY <1>0, <1>2 DEF TypeOK
      <4>3. QED
        BY <4>1, <4>2 DEF Due
    <3>6. Balance(m) >= 1
      BY <1>0, <2>1 DEF Paid, PaidFor
    <3>7. QED
      BY <2>1, <3>3, <3>5, <3>6 DEF PaidFor
  <2>4. QED
    BY <2>2, <2>3
<1>10. QED
  BY <1>7, <1>8, <1>9 DEF Paid

\* What the server gives up nobody had in hand.
LEMMA RedeliverPaid ==
  ASSUME Accounted, NEW m \in Msg, Redeliver(m)
  PROVE  JustDelivered' /\ Paid'
<1>0. TypeOK /\ TypeOK' /\ Concurrency = 1 /\ JustDelivered /\ Paid
  BY DEF Accounted, IInv, OnceInv, OneByOne
<1>1. /\ status[m] = "out" /\ left[m] = 0 /\ status' = [status EXCEPT ![m] = "stored"]
      /\ UNCHANGED <<pc, held, keep, closed, stale, inbox, left, remade, starts, failures>>
  BY DEF Redeliver, conVars, workVars, psubVars, ghosts
<1>2. ASSUME NEW n \in Msg
      PROVE  Receiving(n)' = Receiving(n) /\ Unanswered(n)' = Unanswered(n) /\ InHand(n)' = InHand(n)
  BY <1>1 DEF Receiving, Unanswered, InHand, KeptAlive
<1>3. JustDelivered'
  BY <1>0, <1>1, <1>2 DEF JustDelivered, TypeOK
<1>4. Due(m)
  <2> SUFFICES ASSUME InHand(m) PROVE FALSE
    BY <1>1 DEF Due
  <2>1. PICK d \in Con : d \in Receiving(m) \/ (held[Only(d)] = m /\ KeptAlive(d))
    BY DEF InHand
  <2>2. Period \in Nat \ {0}
    BY <2>1, PeriodType DEF Accounted
  <2>3. CASE d \in Receiving(m)
    BY <1>0, <1>1, <2>2, <2>3 DEF JustDelivered
  <2>4. CASE held[Only(d)] = m /\ KeptAlive(d)
    BY <1>1, <2>2, <2>4 DEF KeptAlive
  <2>5. QED
    BY <2>1, <2>3, <2>4
<1>5. ASSUME NEW n \in Msg PROVE PaidFor(n)'
  <2>1. Due(n)' => Due(n)
    BY <1>0, <1>1, <1>2, <1>4 DEF Due, TypeOK
  <2>2. failures[n] <= failures'[n] /\ remade <= remade' /\ starts'[n] = starts[n]
    BY <1>0, <1>1 DEF TypeOK
  <2>3. QED
    BY <1>0, <1>2, <2>1, <2>2, Undisturbed DEF Paid
<1>6. QED
  BY <1>3, <1>5 DEF Paid

\* Time passes for the server and for a keepalive alike, and only when no worker has a message to
\* take.
LEMMA TickPaid ==
  ASSUME Accounted, Tick
  PROVE  JustDelivered' /\ Paid'
<1>0. TypeOK /\ TypeOK' /\ Concurrency = 1 /\ JustDelivered /\ Paid /\ ~Plain
  BY DEF Accounted, IInv, OnceInv, OneByOne
<1>1. /\ \A w \in Worker : ~Ready(w)
      /\ left' = [m \in Msg |-> IF status[m] = "out" /\ left[m] > 0 THEN left[m] - 1 ELSE left[m]]
      /\ keep' = [w \in Worker |-> IF keep[w] > 0 THEN keep[w] - 1 ELSE keep[w]]
      /\ UNCHANGED <<pc, held, closed, stale, inbox, status, remade, starts, failures>>
  BY DEF Tick, conVars, psubVars, ghosts
<1>2. ASSUME NEW n \in Msg
      PROVE  Receiving(n)' = Receiving(n) /\ Unanswered(n)' = Unanswered(n) /\ Receiving(n) = {}
  <2>1. Receiving(n)' = Receiving(n) /\ Unanswered(n)' = Unanswered(n)
    BY <1>1 DEF Receiving, Unanswered
  <2>2. ASSUME NEW d \in Receiving(n) PROVE FALSE
    <3>1. d \in Con /\ pc[Only(d)] = "fetch" /\ inbox[d] = <<n>>
      BY DEF Receiving
    <3>2. Only(d) \in Worker /\ Only(d)[1] = d
      BY <1>0, <3>1, OnlyWorker
    <3>3. <<n>> # <<>>
      OBVIOUS
    <3>4. Ready(Only(d))
      BY <1>0, <3>1, <3>2, <3>3 DEF Ready, LoopFree
    <3>5. QED
      BY <1>1, <3>2, <3>4
  <2>3. QED
    BY <2>1, <2>2
<1>3. JustDelivered'
  BY <1>2 DEF JustDelivered
<1>4. ASSUME NEW n \in Msg, status[n] = "out", InHand(n) PROVE InHand(n)'
  <2>1. PICK d \in Con : <<d, n>> \notin stale /\ held[Only(d)] = n /\ KeptAlive(d)
    BY <1>2, <1>4 DEF InHand
  <2>2. Only(d) \in Worker /\ Only(d)[1] = d
    BY <1>0, OnlyWorker
  <2>3. Period \in Nat \ {0}
    BY PeriodType DEF Accounted
  <2>4. pc[Only(d)] = "handle"
    BY <1>0, <2>1, <2>2, ConsumerConstants DEF TypeOK
  <2>5. keep[Only(d)] # 0
    BY <1>0, <1>1, <2>2, <2>4 DEF Ready, LoopFree
  <2>6. keep[Only(d)] \in 1 .. Period /\ left[n] >= keep[Only(d)] + Period /\ d \notin closed /\ left[n] \in Nat
    BY <1>0, <2>1, <2>3, <2>5 DEF KeptAlive, TypeOK
  <2>7. keep'[Only(d)] = keep[Only(d)] - 1 /\ left'[n] = left[n] - 1
    BY <1>1, <1>4, <2>2, <2>3, <2>6
  <2>8. KeptAlive(d)'
    BY <1>1, <2>1, <2>3, <2>6, <2>7 DEF KeptAlive
  <2>9. QED
    BY <1>1, <2>1, <2>8 DEF InHand
<1>5. ASSUME NEW n \in Msg PROVE PaidFor(n)'
  <2>1. Due(n)' => Due(n)
    BY <1>1, <1>4 DEF Due
  <2>2. failures[n] <= failures'[n] /\ remade <= remade' /\ starts'[n] = starts[n]
    BY <1>0, <1>1 DEF TypeOK
  <2>3. QED
    BY <1>0, <1>2, <2>1, <2>2, Undisturbed DEF Paid
<1>6. QED
  BY <1>3, <1>5 DEF Paid

\* A worker that is cancelled in fetch() is not to receive its message: its account grows.
LEMMA StopPaid ==
  ASSUME Accounted, NEW c \in Con, NEW by \in Workers(c) \cup {None}, Stop(c, by)
  PROVE  JustDelivered' /\ Paid'
<1>0. TypeOK /\ TypeOK' /\ Concurrency = 1 /\ JustDelivered /\ Paid
  BY DEF Accounted, IInv, OnceInv, OneByOne
<1>1. /\ pc' = [w \in Worker |-> IF w[1] = c /\ pc[w] \in Waiting THEN "cancelled" ELSE pc[w]]
      /\ UNCHANGED <<held, keep, closed, stale, inbox, status, left, remade, starts, failures>>
  BY DEF Stop, psubVars, serverVars, ghosts
<1>2. \A d \in Con : Only(d) \in Worker /\ Only(d)[1] = d
  BY <1>0, OnlyWorker
<1>3. ASSUME NEW n \in Msg PROVE Unanswered(n)' = Unanswered(n) /\ Receiving(n)' = Receiving(n) \ {c}
  BY <1>1, <1>2 DEF Unanswered, Receiving, Waiting
<1>4. JustDelivered'
  BY <1>0, <1>1, <1>3 DEF JustDelivered
<1>5. ASSUME NEW n \in Msg PROVE PaidFor(n)'
  <2>1. Receiving(n)' = Receiving(n) => (InHand(n)' <=> InHand(n))
    BY <1>1 DEF InHand, KeptAlive
  <2>2. Due(n)' => Due(n) \/ Receiving(n)' # Receiving(n)
    BY <1>1, <2>1 DEF Due
  <2>3. failures[n] <= failures'[n] /\ remade <= remade' /\ starts'[n] = starts[n]
    BY <1>0, <1>1 DEF TypeOK
  <2>4. QED
    BY <1>0, <1>3, <2>2, <2>3, Undisturbed DEF Paid
<1>6. QED
  BY <1>4, <1>5 DEF Paid

\* What a worker holds when its connection closes counts as without an answer.
LEMMA CloseConnectionPaid ==
  ASSUME Accounted, NEW c \in Con, CloseConnection(c)
  PROVE  JustDelivered' /\ Paid'
<1>0. TypeOK /\ TypeOK' /\ Concurrency = 1 /\ JustDelivered /\ Paid
  BY DEF Accounted, IInv, OnceInv, OneByOne
<1>1. /\ c \notin closed /\ closed' = closed \cup {c}
      /\ UNCHANGED <<pc, held, keep, stale, inbox, status, left, remade, starts, failures>>
  BY DEF CloseConnection, workVars, serverVars, ghosts
<1>2. \A d \in Con : Only(d) \in Worker /\ Only(d)[1] = d
  BY <1>0, OnlyWorker
<1>3. ASSUME NEW n \in Msg
      PROVE  /\ Receiving(n)' = Receiving(n) /\ Unanswered(n) \subseteq Unanswered(n)'
             /\ held[Only(c)] = n => Unanswered(n)' # Unanswered(n)
  <2>1. Receiving(n)' = Receiving(n) /\ Unanswered(n) \subseteq Unanswered(n)'
    BY <1>1 DEF Receiving, Unanswered
  <2>2. held[Only(c)] = n => Only(c) \in Unanswered(n)' /\ Only(c) \notin Unanswered(n)
    BY <1>1, <1>2 DEF Unanswered
  <2>3. QED
    BY <2>1, <2>2
<1>4. JustDelivered'
  BY <1>0, <1>1, <1>3 DEF JustDelivered
<1>5. ASSUME NEW n \in Msg PROVE PaidFor(n)'
  <2>1. CASE held[Only(c)] = n
    <3>1. failures[n] <= failures'[n] /\ remade <= remade' /\ starts'[n] = starts[n]
      BY <1>0, <1>1 DEF TypeOK
    <3>2. QED
      BY <1>0, <1>3, <2>1, <3>1, Undisturbed DEF Paid
  <2>2. CASE held[Only(c)] # n
    <3>1. InHand(n) => InHand(n)'
      BY <1>1, <1>3, <2>2 DEF InHand, KeptAlive
    <3>2. Due(n)' => Due(n)
      BY <1>1, <3>1 DEF Due
    <3>3. failures[n] <= failures'[n] /\ remade <= remade' /\ starts'[n] = starts[n]
      BY <1>0, <1>1 DEF TypeOK
    <3>4. QED
      BY <1>0, <1>3, <3>2, <3>3, Undisturbed DEF Paid
  <2>3. QED
    BY <2>1, <2>2
<1>6. QED
  BY <1>4, <1>5 DEF Paid

\* A crash costs the message that was held a failed call, and one that was to be received nothing.
LEMMA CrashPaid ==
  ASSUME Accounted, NEW c \in Con, Crash(c)
  PROVE  JustDelivered' /\ Paid'
<1> DEFINE w == Only(c)
<1>0. TypeOK /\ TypeOK' /\ Concurrency = 1 /\ JustDelivered /\ Paid
  BY DEF Accounted, IInv, OnceInv, OneByOne
<1>1. /\ \A d \in Con : Only(d) \in Worker /\ Only(d)[1] = d
      /\ \A v \in Worker : v[1] = c <=> v = w
      /\ Workers(c) = {w}
  <2>1. Workers(c) = {w}
    BY <1>0 DEF Workers, Only
  <2>2. QED
    BY <1>0, <2>1, OnlyWorker
<1>2. /\ pc' = [v \in Worker |-> IF v[1] = c THEN "done" ELSE pc[v]]
      /\ held' = [v \in Worker |-> IF v[1] = c THEN None ELSE held[v]]
      /\ keep' = [v \in Worker |-> IF v[1] = c THEN Dead ELSE keep[v]]
      /\ inbox' = [inbox EXCEPT ![c] = <<>>] /\ stale' = {b \in stale : b[1] # c}
      /\ UNCHANGED <<closed, status, left, remade, starts>>
  BY DEF Crash, serverVars
<1>3. /\ held[w] \in Msg => pc[w] = "handle"
      /\ \A n \in Msg : failures'[n] = IF held[w] = n THEN failures[n] + 1 ELSE failures[n]
  <2>1. held[w] # None <=> pc[w] = "handle"
    BY <1>0, <1>1 DEF TypeOK
  <2>2. QED
    BY <1>1, <2>1, ConsumerConstants DEF Crash
<1> HIDE DEF w
<1>4. ASSUME NEW n \in Msg
      PROVE  Receiving(n)' = Receiving(n) \ {c} /\ Unanswered(n)' = Unanswered(n) \ {w}
  <2>1. \A d \in Con : d # c => pc'[Only(d)] = pc[Only(d)] /\ inbox'[d] = inbox[d]
    BY <1>0, <1>1, <1>2 DEF TypeOK
  <2>2. pc'[Only(c)] # "fetch"
    BY <1>1, <1>2
  <2>3. Receiving(n)' = Receiving(n) \ {c}
    BY <2>1, <2>2 DEF Receiving
  <2>4. Unanswered(n)' = Unanswered(n) \ {w}
    BY <1>1, <1>2, ConsumerConstants DEF Unanswered
  <2>5. QED
    BY <2>3, <2>4
<1>5. JustDelivered'
  BY <1>0, <1>2, <1>4 DEF JustDelivered
<1>6. \A n \in Msg : /\ failures[n] \in Nat /\ failures'[n] \in Nat /\ starts[n] \in Nat /\ remade \in Nat
                     /\ starts'[n] = starts[n] /\ remade' = remade /\ remade <= remade' /\ failures[n] <= failures'[n]
  <2>1. starts \in [Msg -> Nat] /\ failures \in [Msg -> Nat] /\ remade \in Nat
    BY <1>0 DEF TypeOK
  <2>2. QED
    BY <1>2, <1>3, <2>1
\* Whoever else has a message in hand keeps it.
<1>7. ASSUME NEW n \in Msg, InHand(n), c \notin Receiving(n), ~(held[w] = n /\ KeptAlive(c)) PROVE InHand(n)'
  <2>1. PICK d \in Con : <<d, n>> \notin stale /\ (d \in Receiving(n) \/ (held[Only(d)] = n /\ KeptAlive(d)))
    BY <1>7 DEF InHand
  <2>2. d # c
    BY <1>7, <2>1 DEF w
  <2>3. held'[Only(d)] = held[Only(d)] /\ keep'[Only(d)] = keep[Only(d)] /\ <<d, n>> \notin stale'
    BY <1>1, <1>2, <2>1, <2>2
  <2>4. d \in Receiving(n) => d \in Receiving(n)'
    BY <1>4, <2>2
  <2>5. KeptAlive(d) => KeptAlive(d)'
    BY <1>2, <2>3 DEF KeptAlive
  <2>6. QED
    BY <2>1, <2>3, <2>4, <2>5 DEF InHand
<1>8. ASSUME NEW n \in Msg PROVE PaidFor(n)'
  <2>1. CASE w \in Unanswered(n)
    <3>1. held[w] = n /\ c \in closed /\ pc[w] = "handle"
      BY <1>1, <1>3, <2>1 DEF Unanswered, w
    <3>2. c \notin Receiving(n) /\ ~KeptAlive(c)
      BY <3>1 DEF Receiving, KeptAlive, w
    <3>3. Cardinality(Unanswered(n)') = Cardinality(Unanswered(n)) - 1
      BY <1>4, <2>1, Countable, FS_RemoveElement
    <3>4. Cardinality(Receiving(n)') = Cardinality(Receiving(n))
      <4>1. Receiving(n)' = Receiving(n)
        BY <1>4, <3>2
      <4>2. QED
        BY <4>1
    <3>5. failures'[n] = failures[n] + 1
      BY <1>3, <3>1
    <3>6. Balance(n)' = Balance(n)
      BY <1>6, <3>3, <3>4, <3>5, Countable DEF Balance
    <3>7. Due(n)' => Due(n)
      BY <1>2, <1>7, <3>2 DEF Due
    <3>8. QED
      BY <1>0, <3>6, <3>7, BalanceType, StillPaid DEF Paid
  <2>2. CASE w \notin Unanswered(n)
    <3>1. Unanswered(n)' = Unanswered(n) /\ Receiving(n)' \subseteq Receiving(n)
      BY <1>4, <2>2
    <3>2. CASE c \in Receiving(n) \/ held[w] = n
      <4>1. Receiving(n)' # Receiving(n) \/ failures[n] # failures'[n]
        BY <1>3, <1>4, <1>6, <3>2
      <4>2. QED
        BY <1>0, <1>6, <3>1, <4>1, Undisturbed DEF Paid
    <3>3. CASE ~(c \in Receiving(n) \/ held[w] = n)
      <4>1. Due(n)' => Due(n)
        BY <1>2, <1>7, <3>3 DEF Due
      <4>2. QED
        BY <1>0, <1>6, <3>1, <4>1, Undisturbed DEF Paid
    <3>4. QED
      BY <3>2, <3>3
  <2>3. QED
    BY <2>1, <2>2
<1>9. QED
  BY <1>5, <1>8 DEF Paid

\* Deleting the durable consumer pays for one more delivery of every message.
LEMMA DeleteDurablePaid ==
  ASSUME Accounted, NEW c \in Con, DeleteDurable(c)
  PROVE  JustDelivered' /\ Paid'
<1>0. TypeOK /\ TypeOK' /\ JustDelivered /\ Paid
  BY DEF Accounted, IInv, OnceInv
<1>1. UNCHANGED <<pc, held, keep, closed, inbox, left, starts, failures>>
  BY DEF DeleteDurable, psubVars, workVars, ghosts
<1>2. CASE durable = None
  <2>1. UNCHANGED <<status, stale, remade>>
    BY <1>2 DEF DeleteDurable, psubVars
  <2>2. QED
    BY <1>1, <2>1, QuietStep
<1>3. CASE durable # None
  <2>1. /\ remade' = remade + 1
        /\ status' = [m \in Msg |-> IF status[m] = "out" \/ Kept THEN "stored" ELSE status[m]]
    BY <1>3 DEF DeleteDurable
  <2>2. JustDelivered'
    BY <1>0, <2>1 DEF JustDelivered, TypeOK
  <2>3. ASSUME NEW n \in Msg PROVE PaidFor(n)'
    <3>1. Receiving(n)' = Receiving(n) /\ Unanswered(n)' = Unanswered(n)
      BY <1>1 DEF Receiving, Unanswered
    <3>2. failures[n] <= failures'[n] /\ remade <= remade' /\ remade # remade' /\ starts'[n] = starts[n]
      BY <1>0, <1>1, <2>1 DEF TypeOK
    <3>3. QED
      BY <1>0, <3>1, <3>2, Undisturbed DEF Paid
  <2>4. QED
    BY <2>2, <2>3 DEF Paid
<1>4. QED
  BY <1>2, <1>3

\* The rest of consume() and of stop() moves no message.
LEMMA ConsumerPaid ==
  ASSUME Accounted, NEW c \in Con, AskInfo(c) \/ Start(c) \/ ConsumeFails(c) \/ StopReturns(c)
  PROVE  JustDelivered' /\ Paid'
<1>1. /\ Concurrency = 1 /\ OnePull /\ stale \subseteq Con \X Msg
      /\ \A d \in Con : Only(d) \in Worker /\ Only(d)[1] = d
      /\ Workers(c) = {Only(c)}
  BY OnlyWorker DEF Accounted, OneByOne, OnceInv, IInv, TypeOK, Workers, Only
<1>2. UNCHANGED <<held, keep, closed, status, left, starts, failures, remade>> /\ stale' \subseteq stale
  BY DEF AskInfo, Start, ConsumeFails, StopReturns, workVars, psubVars, serverVars, ghosts
<1>3. ASSUME NEW d \in Con
      PROVE  \/ inbox'[d] = inbox[d] /\ pc'[Only(d)] = pc[Only(d)]
             \/ /\ inbox[d] = <<>> \/ pc[Only(d)] # "fetch"
                /\ inbox'[d] = <<>> \/ pc'[Only(d)] # "fetch"
  <2>1. CASE AskInfo(c) \/ ConsumeFails(c)
    BY <2>1 DEF AskInfo, ConsumeFails, workVars, psubVars
  <2>2. CASE Start(c)
    <3>1. pc[Only(c)] = "none"
      BY <1>1, <2>2 DEF Accounted, IInv, AtRest, Start
    <3>2. inbox' = inbox /\ pc'[Only(d)] = IF d = c THEN "poll" ELSE pc[Only(d)]
      BY <1>1, <2>2 DEF Start, psubVars
    <3>3. QED
      BY <3>1, <3>2
  <2>3. CASE StopReturns(c)
    <3>1. pc[Only(c)] = "done" /\ pc' = pc
      BY <1>1, <2>3 DEF StopReturns, workVars
    <3>2. d # c => inbox'[d] = inbox[d]
      BY <2>3 DEF StopReturns, Accounted, IInv, TypeOK
    <3>3. QED
      BY <3>1, <3>2
  <2>4. QED
    BY <2>1, <2>2, <2>3
<1>4. QED
  BY <1>2, <1>3, QuietStep

\* The account of every message stays in order, whatever the service, the server and the clock do.
LEMMA OncePaid ==
  ASSUME OneByOne, IInv, IInv', OnceInv, [Next]_vars
  PROVE  OnceInv'
<1>1. Concurrency = 1 /\ Accounted
  BY DEF OneByOne, Accounted
<1>2. OnePull' /\ OneConfig'
  BY <1>1, OnePullKept, OneConfigKept DEF OnceInv
<1>3. JustDelivered' /\ Paid'
  <2>1. CASE \E w \in Worker : WorkerStep(w) \/ HandlerStep(w) \/ KeepAlive(w)
    BY <1>1, <2>1, WorkerPaid, HandlerPaid, KeepAlivePaid DEF HandlerStep
  <2>2. CASE \E c \in Con : ConsumerStep(c) \/ Crash(c) \/ CloseConnection(c)
    BY <1>1, <2>2, ConsumerPaid, DeleteDurablePaid, StopPaid, CrashPaid, CloseConnectionPaid
       DEF ConsumerStep, ConsumeStep
  <2>3. CASE Server
    BY <1>1, <2>3, DeliverPaid, RedeliverPaid DEF Server
  <2>4. CASE Tick
    BY <1>1, <2>4, TickPaid
  <2>5. CASE UNCHANGED vars
    BY <1>1, <2>5, QuietStep DEF vars
  <2>6. QED
    BY <2>1, <2>2, <2>3, <2>4, <2>5 DEF Next
<1>4. QED
  BY <1>2, <1>3 DEF OnceInv

\* The first delivery of a message is paid for before anybody asks for it.
LEMMA OnceInit ==
  ASSUME OneByOne, Init
  PROVE  OnceInv
<1>1. \A c \in Con : Only(c) \in Worker
  BY OnlyWorker DEF OneByOne
<1>2. OnePull
  BY <1>1 DEF Init, OnePull, OnePullOf
<1>3. OneConfig
  BY <1>1 DEF Init, OneConfig
<1>4. \A m : Receiving(m) = {} /\ Unanswered(m) = {}
  BY <1>1 DEF Init, Receiving, Unanswered
<1>5. JustDelivered
  BY <1>4 DEF JustDelivered
<1>6. ASSUME NEW m \in Msg PROVE PaidFor(m)
  <2>1. Cardinality(Receiving(m)) = 0 /\ Cardinality(Unanswered(m)) = 0
    BY <1>4, FS_EmptySet
  <2>2. Balance(m) = 1
    BY <2>1 DEF Balance, Init
  <2>3. QED
    BY <2>2 DEF PaidFor
<1>7. QED
  BY <1>2, <1>3, <1>5, <1>6 DEF OnceInv, Paid

-----------------------------------------------------------------------------
(* What a service may rely on.                                             *)

\* Init establishes the inductive invariant, and every step of every action keeps it.
LEMMA Inductive == Spec => []IInv
<1>1. IInv /\ [Next]_vars => IInv'
  <2> SUFFICES ASSUME IInv, [Next]_vars PROVE IInv'
    OBVIOUS
  <2>1. CASE \E w \in Worker : WorkerStep(w) \/ HandlerStep(w) \/ KeepAlive(w)
    BY <2>1, WorkerStepInv, HandlerInv, KeepAliveInv DEF HandlerStep
  <2>2. CASE \E c \in Con : ConsumerStep(c) \/ Crash(c) \/ CloseConnection(c)
    BY <2>2, AskInfoInv, DeleteDurableInv, StartInv, ConsumeFailsInv, StopInv, StopReturnsInv,
       CrashInv, CloseConnectionInv DEF ConsumerStep, ConsumeStep
  <2>3. CASE Server
    BY <2>3, DeliverInv, RedeliverInv DEF Server
  <2>4. CASE Tick
    BY <2>4, TickInv
  <2>5. CASE UNCHANGED vars
    BY <2>5 DEF vars, IInv, TypeOK, ServerHasConsumer, SettledWasHandled, BegunIsHeld, AtRest
  <2>6. QED
    BY <2>1, <2>2, <2>3, <2>4, <2>5 DEF Next
<1>2. QED
  BY InitInv, <1>1, PTL DEF Spec

\* The variables of Consumer and of the server keep their types, and a worker is in process()
\* just while it holds a message.
THEOREM TypeCorrect == Spec => []TypeOK
<1>1. IInv => TypeOK
  BY DEF IInv
<1>2. QED
  BY <1>1, Inductive, PTL

\* At-least-once, for any number of consumers, workers and messages, and through crashes, lost
\* answers, stops and a durable consumer made anew: a message is acknowledged only after a
\* handler returned for it, and terminated only when it is not JSON.
THEOREM SettledAfterHandled == Spec => []SettledWasHandled
<1>1. IInv => SettledWasHandled
  BY DEF IInv
<1>2. QED
  BY <1>1, Inductive, PTL

\* When stop() has returned, no handler call of its consumer is left unfinished.
THEOREM StopWaitsForHandlers == Spec => []StopFinishesBegun
<1>1. IInv => StopFinishesBegun
  <2> SUFFICES ASSUME IInv, NEW c \in Con, phase[c] = "off", NEW m \in Msg, <<c, m>> \in begun
               PROVE  FALSE
    BY DEF StopFinishesBegun
  <2>1. PICK w \in Workers(c) : held[w] = m
    BY DEF IInv, BegunIsHeld
  <2>2. pc[w] = "done" /\ w \in Worker
    BY WorkerOf DEF IInv, AtRest
  <2>3. QED
    BY <2>1, <2>2, ConsumerConstants DEF IInv, TypeOK
<1>2. QED
  BY <1>1, Inductive, PTL

\* One handler call for each message, and one more for each call or answer of it that failed, for
\* each time the durable consumer was made anew and for each worker whose connection closed before
\* it answered: however long handlers take, however time and the event loops interleave, the
\* keepalive reaches the server before it gives up.  It takes consumers of one worker, as
\* consume() starts them unless it is asked for more.
THEOREM HandledOnce ==
  ASSUME Concurrency = 1, ~Plain, ~PingFails, \A c, d \in Con : Asked[c].half = Asked[d].half
  PROVE  Spec => []NoNeedlessRedelivery
<1>1. OneByOne
  BY DEF OneByOne
<1>2. Init => OnceInv
  BY <1>1, OnceInit
<1>3. IInv /\ IInv' /\ OnceInv /\ [Next]_vars => OnceInv'
  BY <1>1, OncePaid
<1>4. IInv /\ OnceInv => NoNeedlessRedelivery
  <2> SUFFICES ASSUME IInv, OnceInv, NEW m \in Msg
               PROVE  starts[m] <= 1 + failures[m] + remade + Cardinality(Unanswered(m))
    BY DEF NoNeedlessRedelivery, Unanswered
  <2>1. Balance(m) >= 0
    BY DEF OnceInv, Paid, PaidFor
  <2>2. starts[m] \in Int /\ failures[m] \in Int /\ remade \in Int
    BY DEF IInv, TypeOK
  <2>3. QED
    BY <2>1, <2>2, Countable DEF Balance
<1>5. QED
  BY <1>2, <1>3, <1>4, Inductive, PTL DEF Spec
=============================================================================
