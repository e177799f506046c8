------------------------------ MODULE Consumer ------------------------------
(***************************************************************************)
(* Consumers of a durable JetStream consumer: aiobp/nats/_consumer.py,     *)
(* started by Nats.consume() and stopped by Nats.stop_consumer().          *)
(*                                                                         *)
(* Every consumer object c lives in a process of its own (two instances of *)
(* the service, or an instance and its restart) and has Concurrency        *)
(* workers; all of them share one durable consumer of the server, which    *)
(* consume() makes, and makes anew if it is configured otherwise.  The     *)
(* server and nats-py's pull subscription are modelled as the code uses    *)
(* them: a worker's fetch() leaves a pull request with the server, the     *)
(* message that answers it goes to a queue all workers of c read, and a    *)
(* message that is neither acknowledged nor kept alive for ack_wait is     *)
(* delivered again.  Steps between two awaits are one action, and time     *)
(* passes only when no event loop has work to do.                          *)
(***************************************************************************)
EXTENDS Integers, Sequences, FiniteSets

CONSTANTS
  Con,         \* consumer objects
  Concurrency, \* workers of each, the argument of start()
  Msg,         \* messages of the stream
  Asked,       \* of each consumer: what it is to be, [half, subject], half of ack_wait in ticks
  Leftover,    \* what the durable consumer may be at first, None if there is none
  On,          \* the subject of each message
  Kept,        \* the stream keeps what was settled, for a consumer that is made anew
  Plain,       \* the handler is a plain function, it holds the event loop
  SelfStop,    \* the handler may stop the consumer that called it
  PingFails,   \* msg.in_progress() may raise
  MaxFault,    \* bound: handlers that raise, fetches that fail, lost answers
  MaxLost,     \* bound: processes that crash, or whose connection is closed under a consumer
  None         \* no message, no worker

ASSUME ConsumerConstants ==
  /\ IsFiniteSet(Con) /\ Concurrency \in Nat \ {0}
  /\ \A c \in Con : DOMAIN Asked[c] = {"half", "subject"} /\ Asked[c].half \in Nat \ {0}
  /\ \A d \in Leftover \ {None} : DOMAIN d = {"half", "subject"} /\ d.half \in Nat \ {0}
  /\ DOMAIN Asked = Con /\ DOMAIN On = Msg /\ Kept \in BOOLEAN
  /\ None \notin Msg
  /\ Plain \in BOOLEAN /\ SelfStop \in BOOLEAN /\ PingFails \in BOOLEAN
  /\ MaxFault \in Nat /\ MaxLost \in Nat

Worker == Con \X (1 .. Concurrency)
Config == {Asked[c] : c \in Con} \cup Leftover
Dead == -1  \* the timer of a keepalive that is not running

VARIABLES
  phase,     \* of each consumer: "new", "deleting" or "binding" in consume(), "on",
             \* "stopping", "off" or "crashed"
  stopper,   \* the worker whose handler called stop(), if any
  closed,    \* consumers whose connection is closed
  pc,        \* of each worker: "none", "poll", "fetch", "retry", "handle",
             \* "cancelled" or "done"
  held,      \* the message it processes
  waited,    \* workers that waited in fetch() when the clock last ticked
  keep,      \* ticks until the keepalive of that message acts
  requests,  \* workers whose pull request the server has yet to answer
  inbox,     \* messages its pull subscription received
  stale,     \* <<consumer, message>> delivered by a durable consumer that was deleted then
  durable,   \* the durable consumer, None if there is none
  remade,    \* history: how often it was deleted
  invalid,   \* messages that are not JSON
  status,    \* of each message at the server: "stored", "out", "acked", "termed"
  left,      \* ticks until an outstanding message is delivered again
  faults,    \* faults so far, of the kinds MaxFault bounds
  starts,    \* history: handler calls for each message
  failures,  \* history: those that failed, or whose answer was lost
  succeeded, \* history: messages a handler returned for
  begun      \* history: <<consumer, message>> being processed

conVars == <<phase, stopper, closed, durable, remade, invalid>>
workVars == <<pc, held, waited, keep>>
psubVars == <<requests, inbox, stale>>
serverVars == <<status, left>>
ghosts == <<starts, failures, succeeded, begun>>
vars == <<phase, stopper, closed, pc, held, waited, keep, requests, inbox, stale, durable, remade,
          invalid, status, left, faults, starts, failures, succeeded, begun>>

\* Workers waiting in fetch(), or to try it again: Consumer.idle.
Waiting == {"fetch", "retry"}

\* A plain function that runs keeps everything else of its process waiting.
LoopFree(c) == Plain => \A i \in 1 .. Concurrency : pc[<<c, i>>] # "handle"

\* Mutant of Stopping: workers do not look at `stopping'.
NeverStopping(c) == FALSE

\* The consumer's `stopping'.
Stopping(c) == phase[c] # "on"
Fault == faults < MaxFault /\ faults' = faults + 1

Init ==
  /\ phase = [c \in Con |-> "new"] /\ stopper = [c \in Con |-> None] /\ closed = {}
  /\ pc = [w \in Worker |-> "none"]
  /\ held = [w \in Worker |-> None] /\ waited = {} /\ keep = [w \in Worker |-> Dead]
  /\ requests = {} /\ inbox = [c \in Con |-> <<>>] /\ stale = {}
  /\ durable \in Leftover /\ remade = 0
  /\ invalid \in SUBSET Msg
  /\ status = [m \in Msg |-> "stored"] /\ left = [m \in Msg |-> 0]
  /\ faults = 0
  /\ starts = [m \in Msg |-> 0] /\ failures = [m \in Msg |-> 0]
  /\ succeeded = {} /\ begun = {}

-----------------------------------------------------------------------------
(* The server (external).                                                  *)

\* A stored message answers the pull request of w; it goes to the queue of the
\* subscription, for any worker of the consumer.
Deliver(w, m) ==
  /\ status[m] = "stored" /\ w \in requests /\ durable.subject = On[m]
  /\ status' = [status EXCEPT ![m] = "out"]
  /\ left' = [left EXCEPT ![m] = 2 * durable.half]
  /\ requests' = requests \ {w}
  /\ inbox' = [inbox EXCEPT ![w[1]] = Append(@, m)]
  /\ stale' = stale \ {<<w[1], m>>}
  /\ UNCHANGED <<conVars, workVars, faults, ghosts>>

\* Nobody answered for ack_wait: the message is to be delivered again.
Redeliver(m) ==
  /\ status[m] = "out" /\ left[m] = 0
  /\ status' = [status EXCEPT ![m] = "stored"]
  /\ UNCHANGED <<conVars, workVars, psubVars, left, faults, ghosts>>

\* The answer s of c reaches the server, or is lost on its way.  One to a delivery of a consumer
\* that was deleted may mean nothing to the one made after it.
Answered(c, m, s) ==
  /\ \/ durable # None /\ status' = [status EXCEPT ![m] = IF @ \in {"acked", "termed"} THEN @ ELSE s]
     \/ <<c, m>> \in stale /\ UNCHANGED status
  /\ UNCHANGED faults
AnswerLost == Fault /\ UNCHANGED status

-----------------------------------------------------------------------------
(* Workers.                                                                *)

\* A message was fetched, by a worker in state p: its handler is called, with
\* a keepalive beside it (the worker lets it start before the handler); one
\* that is not JSON is terminated.
Process(w, m) ==
  IF m \in invalid
  THEN /\ pc' = [pc EXCEPT ![w] = "poll"]
       /\ Answered(w[1], m, "termed") \/ AnswerLost
       /\ UNCHANGED <<held, keep, ghosts>>
  ELSE /\ pc' = [pc EXCEPT ![w] = "handle"]
       /\ held' = [held EXCEPT ![w] = m]
       /\ keep' = [keep EXCEPT ![w] = Asked[w[1]].half]
       /\ starts' = [starts EXCEPT ![m] = @ + 1]
       /\ begun' = begun \cup {<<w[1], m>>}
       /\ UNCHANGED <<status, faults, failures, succeeded>>

Receive(w) ==
  LET c == w[1] IN
  /\ inbox[c] # <<>>
  /\ inbox' = [inbox EXCEPT ![c] = Tail(@)]
  /\ Process(w, Head(inbox[c]))

Ends(w) == pc' = [pc EXCEPT ![w] = "done"]

\* The top of the worker's loop: fetch() returns a message the subscription
\* has already, or leaves a pull request, if there is a consumer to take it, and
\* waits.
Poll(w) ==
  LET c == w[1] IN
  /\ pc[w] = "poll" /\ LoopFree(c)
  /\ \/ /\ Stopping(c) \/ c \in closed
        /\ Ends(w)
        /\ UNCHANGED <<held, keep, requests, inbox, status, faults, ghosts>>
     \/ /\ ~Stopping(c) /\ c \notin closed
        /\ Receive(w)
        /\ UNCHANGED requests
     \/ /\ ~Stopping(c) /\ c \notin closed /\ inbox[c] = <<>>
        /\ pc' = [pc EXCEPT ![w] = "fetch"]
        /\ requests' = IF durable = None THEN requests ELSE requests \cup {w}
        /\ UNCHANGED <<held, keep, inbox, status, faults, ghosts>>
  /\ UNCHANGED <<conVars, waited, left, stale>>

Fetched(w) ==
  /\ pc[w] = "fetch" /\ LoopFree(w[1])
  /\ Receive(w)
  /\ waited' = waited \ {w}
  /\ UNCHANGED <<conVars, requests, left, stale>>

\* fetch() ends without a message: after its timeout, which its pull request
\* does not outlive, with an error, also when the server refused the request, or
\* because the connection was closed.
FetchEnds(w) ==
  LET c == w[1] IN
  /\ pc[w] = "fetch" /\ inbox[c] = <<>> /\ LoopFree(c)
  /\ requests' = requests \ {w}
  /\ \/ c \notin closed /\ w \in waited /\ pc' = [pc EXCEPT ![w] = "poll"] /\ UNCHANGED faults
     \/ c \notin closed /\ pc' = [pc EXCEPT ![w] = "retry"] /\ Fault
     \/ c \notin closed /\ w \notin requests /\ pc' = [pc EXCEPT ![w] = "retry"] /\ UNCHANGED faults
     \/ c \in closed /\ Ends(w) /\ UNCHANGED faults
  /\ waited' = waited \ {w}
  /\ UNCHANGED <<conVars, held, keep, inbox, stale, serverVars, ghosts>>

RetryOver(w) ==
  /\ pc[w] = "retry" /\ LoopFree(w[1])
  /\ pc' = [pc EXCEPT ![w] = "poll"]
  /\ UNCHANGED <<conVars, held, waited, keep, psubVars, serverVars, faults, ghosts>>

\* Mutant of HandlerEnds: the message is acknowledged whatever the handler did.
EndsAcked(w, ok) ==
  LET c == w[1]
      m == held[w]
  IN
  /\ pc[w] = "handle" /\ stopper[c] # w
  /\ pc' = [pc EXCEPT ![w] = "poll"]
  /\ held' = [held EXCEPT ![w] = None]
  /\ keep' = [keep EXCEPT ![w] = Dead]
  /\ begun' = begun \ {<<c, m>>}
  /\ Answered(c, m, "acked")
  /\ succeeded' = IF ok THEN succeeded \cup {m} ELSE succeeded
  /\ stale' = stale \ {<<c, m>>}
  /\ UNCHANGED <<conVars, waited, requests, inbox, left, starts, failures>>

\* The handler returns or raises, its keepalive is cancelled and the message is
\* acknowledged or handed back; a worker survives that failing.
HandlerEnds(w, ok) ==
  LET c == w[1]
      m == held[w]
      Failed == failures' = [failures EXCEPT ![m] = @ + 1]
  IN
  /\ pc[w] = "handle" /\ stopper[c] # w
  /\ pc' = [pc EXCEPT ![w] = "poll"]
  /\ held' = [held EXCEPT ![w] = None]
  /\ keep' = [keep EXCEPT ![w] = Dead]
  /\ begun' = begun \ {<<c, m>>}
  /\ \/ ok /\ c \notin closed /\ Answered(c, m, "acked") /\ UNCHANGED failures
     \/ AnswerLost /\ Failed
     \/ c \in closed /\ UNCHANGED <<status, faults>> /\ Failed
     \/ ~ok /\ c \notin closed /\ Fault /\ Failed
        /\ status' = [status EXCEPT ![m] = IF @ = "out" THEN "stored" ELSE @]
  /\ succeeded' = IF ok THEN succeeded \cup {m} ELSE succeeded
  /\ stale' = stale \ {<<c, m>>}
  /\ UNCHANGED <<conVars, waited, requests, inbox, left, starts>>

\* Mutant of KeepAlive: it tells the server once, not in a loop.
KeepAliveOnce(w) ==
  LET m == held[w] IN
  /\ pc[w] = "handle" /\ keep[w] = 0 /\ ~Plain
  /\ left' = [left EXCEPT ![m] = IF status[m] = "out" THEN 2 * durable.half ELSE @]
  /\ keep' = [keep EXCEPT ![w] = Dead]
  /\ UNCHANGED <<conVars, pc, held, waited, psubVars, status, faults, ghosts>>

\* The keepalive slept for ack_wait / 2: the server starts the wait anew.  It
\* ends when it cannot tell the server.
KeepAlive(w) ==
  LET m == held[w] IN
  /\ pc[w] = "handle" /\ keep[w] = 0 /\ ~Plain
  /\ \/ /\ w[1] \notin closed
        /\ left' = [left EXCEPT ![m] = IF status[m] = "out" THEN 2 * durable.half ELSE @]
        /\ keep' = [keep EXCEPT ![w] = Asked[w[1]].half]
     \/ /\ PingFails \/ w[1] \in closed
        /\ keep' = [keep EXCEPT ![w] = Dead]
        /\ UNCHANGED left
  /\ UNCHANGED <<conVars, pc, held, waited, psubVars, status, faults, ghosts>>

\* The CancelledError of stop() ends a worker that waits in fetch().
Cancelled(w) ==
  /\ pc[w] = "cancelled" /\ LoopFree(w[1])
  /\ Ends(w)
  /\ UNCHANGED <<conVars, held, waited, keep, psubVars, serverVars, faults, ghosts>>

-----------------------------------------------------------------------------
(* Nats.consume(), Consumer.start() and Consumer.stop().                   *)

Workers(c) == {c} \X (1 .. Concurrency)

\* Mutant of AskInfo: a consumer that exists is taken as it is.
TakeAny(c) ==
  /\ phase[c] = "new"
  /\ phase' = [phase EXCEPT ![c] = "binding"]
  /\ UNCHANGED <<stopper, closed, durable, remade, invalid, workVars, psubVars, serverVars, faults, ghosts>>

\* consume() asks for the durable consumer: one that is not as it should be will
\* be deleted.
AskInfo(c) ==
  /\ phase[c] = "new"
  /\ phase' = [phase EXCEPT ![c] = IF durable \in {None, Asked[c]} THEN "binding" ELSE "deleting"]
  /\ UNCHANGED <<stopper, closed, durable, remade, invalid, workVars, psubVars, serverVars, faults, ghosts>>

\* delete_consumer(), whatever the consumer is by now: what it had delivered is
\* nobody's any more, and a stream that keeps its messages has all of them to
\* deliver once more.
DeleteDurable(c) ==
  /\ phase[c] = "deleting"
  /\ phase' = [phase EXCEPT ![c] = "binding"]
  /\ IF durable = None THEN UNCHANGED <<durable, remade, psubVars, status>>
     ELSE /\ durable' = None /\ remade' = remade + 1 /\ requests' = {}
          /\ status' = [m \in Msg |-> IF status[m] = "out" \/ Kept THEN "stored" ELSE status[m]]
          /\ stale' = {b \in Con \X Msg : \/ \E i \in DOMAIN inbox[b[1]] : inbox[b[1]][i] = b[2]
                                         \/ \E w \in Workers(b[1]) : held[w] = b[2]}
          /\ UNCHANGED inbox
  /\ UNCHANGED <<stopper, closed, invalid, workVars, left, faults, ghosts>>

\* pull_subscribe() takes the consumer there is, or makes one.
Bound(c) == durable' = IF durable = None THEN Asked[c] ELSE durable

\* consume() has its consumer and starts the workers.
Start(c) ==
  /\ phase[c] = "binding" /\ Bound(c)
  /\ phase' = [phase EXCEPT ![c] = "on"]
  /\ pc' = [w \in Worker |-> IF w[1] = c THEN "poll" ELSE pc[w]]
  /\ UNCHANGED <<stopper, closed, remade, invalid, held, waited, keep, psubVars, serverVars, faults, ghosts>>

\* A request of consume() raises out of it, that of pull_subscribe() having been
\* served or not; it may be called again.
ConsumeFails(c) ==
  /\ phase[c] \in {"deleting", "binding"} /\ Fault
  /\ phase' = [phase EXCEPT ![c] = "new"]
  /\ \/ UNCHANGED durable
     \/ phase[c] = "binding" /\ Bound(c)
  /\ UNCHANGED <<stopper, closed, remade, invalid, workVars, psubVars, serverVars, ghosts>>

\* Mutant of Stop: every worker is cancelled, not only those in idle.
StopCancelsAll(c, by) ==
  /\ phase[c] = "on" /\ c \notin closed
  /\ IF by = None THEN LoopFree(c) ELSE SelfStop /\ ~Plain /\ pc[by] = "handle"
  /\ phase' = [phase EXCEPT ![c] = "stopping"]
  /\ stopper' = [stopper EXCEPT ![c] = by]
  /\ pc' = [w \in Worker |-> IF w[1] = c THEN "cancelled" ELSE pc[w]]
  /\ UNCHANGED <<closed, durable, remade, invalid, held, waited, keep, psubVars, serverVars, faults, ghosts>>

\* Cancel the workers that wait in fetch() and wait for the others.  It may be
\* a handler of c that calls this; not after the connection was closed.
Stop(c, by) ==
  /\ phase[c] = "on" /\ c \notin closed
  /\ IF by = None THEN LoopFree(c) ELSE SelfStop /\ ~Plain /\ pc[by] = "handle"
  /\ phase' = [phase EXCEPT ![c] = "stopping"]
  /\ stopper' = [stopper EXCEPT ![c] = by]
  /\ pc' = [w \in Worker |-> IF w[1] = c /\ pc[w] \in Waiting THEN "cancelled" ELSE pc[w]]
  /\ UNCHANGED <<closed, durable, remade, invalid, held, waited, keep, psubVars, serverVars, faults, ghosts>>

\* All workers are done: the pull subscription goes, with what it holds.
StopReturns(c) ==
  /\ phase[c] = "stopping"
  /\ \A w \in Workers(c) : pc[w] = "done"
  /\ phase' = [phase EXCEPT ![c] = "off"]
  /\ stopper' = [stopper EXCEPT ![c] = None]
  /\ requests' = {w \in requests : w[1] # c}
  /\ inbox' = [inbox EXCEPT ![c] = <<>>]
  /\ stale' = {b \in stale : b[1] # c}
  /\ UNCHANGED <<closed, durable, remade, invalid, workVars, serverVars, faults, ghosts>>

-----------------------------------------------------------------------------
(* The environment.                                                        *)

Lost == closed \cup {d \in Con : phase[d] = "crashed"}

Crash(c) ==
  LET lost == {m \in Msg : \E w \in Workers(c) : pc[w] = "handle" /\ held[w] = m} IN
  /\ phase[c] \in {"deleting", "binding", "on", "stopping"}
  /\ Cardinality(Lost \cup {c}) <= MaxLost
  /\ phase' = [phase EXCEPT ![c] = "crashed"]
  /\ stopper' = [stopper EXCEPT ![c] = None]
  /\ pc' = [w \in Worker |-> IF w[1] = c THEN "done" ELSE pc[w]]
  /\ held' = [w \in Worker |-> IF w[1] = c THEN None ELSE held[w]]
  /\ keep' = [w \in Worker |-> IF w[1] = c THEN Dead ELSE keep[w]]
  /\ requests' = {w \in requests : w[1] # c}
  /\ inbox' = [inbox EXCEPT ![c] = <<>>]
  /\ failures' = [m \in Msg |-> IF m \in lost THEN failures[m] + 1 ELSE failures[m]]
  /\ begun' = {b \in begun : b[1] # c}
  /\ stale' = {b \in stale : b[1] # c}
  /\ UNCHANGED <<closed, durable, remade, invalid, waited, serverVars, faults, starts, succeeded>>

\* The connection is closed while the consumer runs, e.g. through Nats.client.
CloseConnection(c) ==
  /\ phase[c] \in {"on", "stopping"} /\ c \notin closed
  /\ Cardinality(Lost \cup {c}) <= MaxLost
  /\ closed' = closed \cup {c}
  /\ requests' = {w \in requests : w[1] # c}
  /\ UNCHANGED <<phase, stopper, durable, remade, invalid, workVars, inbox, stale, serverVars, faults, ghosts>>

\* What an event loop does before it waits for the clock.  A tick is far longer
\* than the second a worker waits before it tries fetch() again.
Ready(w) ==
  /\ LoopFree(w[1])
  /\ \/ pc[w] \in {"poll", "retry", "cancelled"}
     \/ pc[w] = "fetch" /\ (inbox[w[1]] # <<>> \/ w[1] \in closed)
     \/ pc[w] = "handle" /\ keep[w] = 0

Tick ==
  /\ \A w \in Worker : ~Ready(w)
  /\ left' = [m \in Msg |-> IF status[m] = "out" /\ left[m] > 0 THEN left[m] - 1 ELSE left[m]]
  /\ keep' = [w \in Worker |-> IF keep[w] > 0 THEN keep[w] - 1 ELSE keep[w]]
  /\ waited' = {w \in Worker : pc[w] = "fetch"}
  /\ UNCHANGED <<conVars, pc, held, psubVars, status, faults, ghosts>>

-----------------------------------------------------------------------------
HandlerStep(w) == \E ok \in BOOLEAN : HandlerEnds(w, ok)

WorkerStep(w) ==
  \/ Poll(w) \/ Fetched(w) \/ FetchEnds(w) \/ RetryOver(w) \/ Cancelled(w)

ConsumeStep(c) == AskInfo(c) \/ DeleteDurable(c) \/ Start(c)

ConsumerStep(c) ==
  \/ ConsumeStep(c) \/ ConsumeFails(c) \/ StopReturns(c)
  \/ \E by \in Workers(c) \cup {None} : Stop(c, by)

Server == \/ \E w \in Worker, m \in Msg : Deliver(w, m)
          \/ \E m \in Msg : Redeliver(m)

Next ==
  \/ \E w \in Worker : WorkerStep(w) \/ HandlerStep(w) \/ KeepAlive(w)
  \/ \E c \in Con : ConsumerStep(c) \/ Crash(c) \/ CloseConnection(c)
  \/ Server
  \/ Tick

Spec == Init /\ [][Next]_vars

(* Handlers end, event loops run what is ready and the server does its work; a   *)
(* consume() that was called goes on, though nobody need ever call it.  A        *)
(* pull request is answered before it expires whenever there is a message: SF,   *)
(* for the request is withdrawn and made again while a worker waits.             *)
FairSpec ==
  /\ Spec
  /\ \A w \in Worker : WF_vars(WorkerStep(w)) /\ WF_vars(HandlerStep(w)) /\ WF_vars(KeepAlive(w))
  /\ \A c \in Con : WF_vars(StopReturns(c)) /\ WF_vars(DeleteDurable(c) \/ Start(c))
  /\ \A m \in Msg : SF_vars(\E w \in Worker : Deliver(w, m)) /\ WF_vars(Redeliver(m))
  /\ WF_vars(Tick)

-----------------------------------------------------------------------------
(* Properties.                                                             *)

\* The types of the variables; what is cancelled waits for nothing else, and the
\* timers stay within ack_wait.
TypeOK ==
  /\ phase \in [Con -> {"new", "deleting", "binding", "on", "stopping", "off", "crashed"}]
  /\ durable \in Config \cup {None} /\ remade \in Nat /\ stale \subseteq Con \X Msg
  /\ stopper \in [Con -> Worker \cup {None}] /\ closed \subseteq Con
  /\ pc \in [Worker -> {"none", "poll", "fetch", "retry", "handle", "cancelled", "done"}]
  /\ held \in [Worker -> Msg \cup {None}] /\ keep \in [Worker -> Nat \cup {Dead}]
  /\ waited \subseteq Worker
  /\ \A w \in Worker : (pc[w] = "handle") = (held[w] # None)
  /\ requests \subseteq Worker /\ inbox \in [Con -> Seq(Msg)]
  /\ invalid \subseteq Msg /\ status \in [Msg -> {"stored", "out", "acked", "termed"}]
  /\ left \in [Msg -> Nat] /\ faults \in 0 .. MaxFault
  /\ starts \in [Msg -> Nat] /\ failures \in [Msg -> Nat]
  /\ succeeded \subseteq Msg /\ begun \subseteq Con \X Msg

\* A message leaves the stream for good only after a handler returned for it, or
\* because it is not JSON: at-least-once, through crashes, lost answers and stops.
SettledWasHandled ==
  \A m \in Msg :
    /\ status[m] = "acked" => m \in succeeded
    /\ status[m] = "termed" => m \in invalid

\* A handler is called again for a message only when an earlier call of it
\* failed, or its answer did, once more at most for each time the durable consumer
\* was made anew: however long handlers take, the keepalive prevents a second
\* delivery.
NoNeedlessRedelivery ==
  \A m \in Msg :
    starts[m] <= 1 + failures[m] + remade
                 + Cardinality({w \in Worker : held[w] = m /\ w[1] \in closed})

\* stop() lets messages being processed finish and get answered: when it has
\* returned, no handler call it found running is left without an answer.
StopFinishesBegun ==
  \A c \in Con : phase[c] = "off" => \A m \in Msg : <<c, m>> \notin begun

\* When stop() returns, no message is left with this consumer for the server to
\* wait for: its idle workers are `safe to cancel'.
StopStrandsNothing ==
  [][\A c \in Con : StopReturns(c) =>
       \A i \in DOMAIN inbox[c] : status[inbox[c][i]] # "out"]_vars

\* stop() ends once handlers do.
StopEnds ==
  \A c \in Con : phase[c] = "stopping" ~> phase[c] # "stopping"

Up(c) == phase[c] = "on" /\ c \notin closed
Settled(m) == status[m] \in {"acked", "termed"}

\* As long as a consumer stays up, and the durable consumer does not stay away, every
\* message is settled in the end: no failed fetch, handler or answer costs the
\* last worker, and what consume() deletes under a consumer that runs comes back.
EventuallySettled ==
  <>[](\E c \in Con : Up(c)) /\ []<>(durable # None) => \A m \in Msg : <>[]Settled(m)

\* A consumer that stays up is enough.
SettledWhileUp == <>[](\E c \in Con : Up(c)) => \A m \in Msg : <>[]Settled(m)

\* docs/nats.md:259: the consumer is recreated when its configuration changes, that is,
\* one that is as all of them ask for is left alone.
RecreatedWhenChanged == [][(\A c \in Con : durable = Asked[c]) => durable' = durable]_vars

\* A handler gets messages of the subject it was given to consume() for.
OwnMessages == \A w \in Worker : held[w] # None => On[held[w]] = Asked[w[1]].subject
=============================================================================
