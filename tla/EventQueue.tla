----------------------------- MODULE EventQueue -----------------------------
(***************************************************************************)
(* Event subscriptions of aiobp/nats: EventQueue and EventSubscription     *)
(* (_events.py), subscribe(), unsubscribe() and the part of connect() and  *)
(* disconnect() that concerns events (_nats.py).                           *)
(*                                                                         *)
(* nats-py's read loop puts a message into the pending queue of its        *)
(* subscription, which EventQueue.add() replaces by one shared queue; one  *)
(* worker takes messages from it and calls the handlers one by one.  User  *)
(* tasks subscribe and unsubscribe meanwhile, serialised by a lock they    *)
(* hold across awaits.  Steps between two awaits are one action.           *)
(***************************************************************************)
EXTENDS Integers, Sequences, FiniteSets, SequencesExt

CONSTANTS
  Key,        \* (subject, queue group) pairs
  Handler,    \* event handlers
  RawHandler, \* those subscribed with raw=True
  User,       \* tasks that call subscribe() and unsubscribe()
  None,       \* no handler, no subscription, no task
  Invalid,    \* ids of the messages that are not JSON
  Suspends,   \* client.subscribe() may suspend before it returns
  Limit,      \* maxsize of the shared queue
  MaxMsg,     \* bound: messages that arrive
  MaxSid,     \* bound: subscriptions made with the server
  MaxConnect  \* bound: calls of connect()

ASSUME EventConstants ==
  /\ RawHandler \subseteq Handler
  /\ None \notin Handler \cup User
  /\ Suspends \in BOOLEAN
  /\ Limit \in Nat \ {0} /\ MaxMsg \in Nat /\ MaxSid \in Nat /\ MaxConnect \in Nat
  /\ Invalid \subseteq 1 .. MaxMsg

Sid == 1 .. MaxSid
Id == 1 .. MaxMsg
Msg == [id : Id, sid : Sid]

VARIABLES
  conn,          \* the connection: "down", "up" or "draining"
  connects,      \* calls of connect() so far
  joining,       \* subscriptions whose drain, which client.drain() waits for, goes on
  subscriptions, \* Nats._subscriptions: key to subscription, 0 if none
  handlers,      \* EventSubscription.handlers of every subscription, in order
  swapped,       \* subscriptions whose _pending_queue is the shared one
  routed,        \* EventQueue.handlers: subscriptions the worker knows
  active,        \* subscriptions of the client that may get messages
  sids,          \* subscriptions made so far
  own,           \* a subscription's own queue, before EventQueue.add()
  queue,         \* the shared queue
  unfinished,    \* its count of unfinished tasks, what join() waits for
  pending,       \* Subscription._pending_size, in messages
  current,       \* the message the worker handles, <<>> if none
  todo,          \* the handlers it has yet to call, the running one first
  user,          \* what every user task is doing
  lock,          \* who holds _subscribe_lock
  arrived,       \* messages arrived so far
  handled,       \* history: ids handed to handlers, in order
  calls,         \* history: handler calls <<id, handler>>, in order
  owed,          \* history: calls <<message, handler>> still to be made
  timedOut       \* history: a drain gave up waiting

connVars == <<conn, connects, joining, timedOut>>
subVars == <<subscriptions, handlers, swapped, routed, active, sids>>
queueVars == <<own, queue, unfinished, pending, arrived>>
workVars == <<current, todo, handled, calls>>
userVars == <<user, lock>>
vars == <<conn, connects, joining, timedOut, subscriptions, handlers, swapped, routed, active, sids,
          own, queue, unfinished, pending, arrived, current, todo, handled, calls,
          user, lock, owed>>

Idle == [op |-> "idle", key |-> None, handler |-> None, sid |-> 0]

Init ==
  /\ conn = "down" /\ connects = 0 /\ joining = {} /\ timedOut = FALSE
  /\ subscriptions = [k \in Key |-> 0]
  /\ handlers = [s \in Sid |-> <<>>]
  /\ swapped = {} /\ routed = {} /\ active = {} /\ sids = 0
  /\ own = [s \in Sid |-> <<>>] /\ queue = <<>> /\ unfinished = 0
  /\ pending = [s \in Sid |-> 0] /\ arrived = 0
  /\ current = <<>> /\ todo = <<>> /\ handled = <<>> /\ calls = <<>>
  /\ user = [u \in User |-> Idle] /\ lock = None
  /\ owed = {}

\* A message that is not JSON is passed to raw handlers only.
Wants(h, id) == id \notin Invalid \/ h \in RawHandler

-----------------------------------------------------------------------------
(* nats-py: the read loop.                                                 *)

\* A message arrives for subscription s; a full queue drops it ("slow consumer").
Arrive(s) ==
  /\ conn # "down" /\ s \in active /\ arrived < MaxMsg
  /\ arrived' = arrived + 1
  /\ LET m == [id |-> arrived + 1, sid |-> s]
         Kept == /\ pending' = [pending EXCEPT ![s] = @ + 1]
                 /\ owed' = owed \cup {<<m, h>> : h \in {x \in ToSet(handlers[s]) : Wants(x, m.id)}}
     IN  \/ /\ s \in swapped /\ Len(queue) < Limit /\ Kept
            /\ queue' = Append(queue, m) /\ unfinished' = unfinished + 1
            /\ UNCHANGED own
         \/ /\ s \notin swapped /\ Len(own[s]) < Limit /\ Kept
            /\ own' = [own EXCEPT ![s] = Append(@, m)]
            /\ UNCHANGED <<queue, unfinished>>
         \/ /\ s \in swapped /\ Len(queue) >= Limit
            /\ UNCHANGED <<own, queue, unfinished, pending, owed>>
  /\ UNCHANGED <<connVars, subVars, workVars, userVars>>

-----------------------------------------------------------------------------
(* EventQueue._work() and EventSubscription.on_message().                  *)

WorkerIdle == current = <<>>

\* Call the first of the handlers hs that wants message m, those before it are
\* skipped; with none left the message is finished.
CallNext(m, hs) ==
  LET i == SelectInSeq(hs, LAMBDA h : Wants(h, m.id)) IN
  IF i = 0
  THEN /\ current' = <<>> /\ todo' = <<>>
       /\ unfinished' = unfinished - 1
       /\ UNCHANGED <<calls, owed>>
  ELSE /\ current' = <<m>> /\ todo' = SubSeq(hs, i, Len(hs))
       /\ calls' = Append(calls, <<m.id, hs[i]>>)
       /\ owed' = owed \ {<<m, hs[i]>>}
       /\ UNCHANGED unfinished

\* Mutant of DropMessage: `continue' skips task_done().
DropUncounted ==
  /\ conn # "down" /\ WorkerIdle /\ queue # <<>>
  /\ Head(queue).sid \notin routed
  /\ queue' = Tail(queue)
  /\ UNCHANGED <<connVars, subVars, own, unfinished, pending, arrived, workVars,
                 userVars, owed>>

\* The worker takes a message whose subscription is gone and drops it.
DropMessage ==
  /\ conn # "down" /\ WorkerIdle /\ queue # <<>>
  /\ Head(queue).sid \notin routed
  /\ queue' = Tail(queue)
  /\ unfinished' = unfinished - 1
  /\ UNCHANGED <<connVars, subVars, own, pending, arrived, workVars, userVars, owed>>

\* Mutant of TakeMessage: on_message() is started as a task, not awaited.
TakeUnawaited ==
  /\ conn # "down" /\ queue # <<>>
  /\ LET m == Head(queue) IN
       /\ m.sid \in routed
       /\ pending' = [pending EXCEPT ![m.sid] = @ - 1]
       /\ handled' = Append(handled, m.id)
       /\ CallNext(m, handlers[m.sid])
  /\ queue' = Tail(queue)
  /\ UNCHANGED <<connVars, subVars, own, arrived, userVars>>

\* The worker takes a message and calls the first of the handlers that are
\* subscribed now.
TakeMessage ==
  /\ conn # "down" /\ WorkerIdle /\ queue # <<>>
  /\ LET m == Head(queue) IN
       /\ m.sid \in routed
       /\ pending' = [pending EXCEPT ![m.sid] = @ - 1]
       /\ handled' = Append(handled, m.id)
       /\ CallNext(m, handlers[m.sid])
  /\ queue' = Tail(queue)
  /\ UNCHANGED <<connVars, subVars, own, arrived, userVars>>

\* Mutant of HandlerEnds: an exception leaves the loop over the handlers.
HandlerEndsMessage ==
  /\ conn # "down" /\ ~WorkerIdle
  /\ CallNext(current[1], <<>>)
  /\ UNCHANGED <<connVars, subVars, own, queue, pending, arrived, handled, userVars>>

\* Mutant of HandlerEnds: on_message() walks the live list of handlers by index.
HandlerEndsLive ==
  /\ conn # "down" /\ ~WorkerIdle
  /\ LET live == handlers[current[1].sid]
         done == Cardinality({i \in DOMAIN calls : calls[i][1] = current[1].id})
     IN  CallNext(current[1], SubSeq(live, done + 1, Len(live)))
  /\ UNCHANGED <<connVars, subVars, own, queue, pending, arrived, handled, userVars>>

\* A handler returns or raises; the next one of the snapshot is called.
HandlerEnds ==
  /\ conn # "down" /\ ~WorkerIdle
  /\ CallNext(current[1], Tail(todo))
  /\ UNCHANGED <<connVars, subVars, own, queue, pending, arrived, handled, userVars>>

Worker == DropMessage \/ TakeMessage \/ HandlerEnds

-----------------------------------------------------------------------------
(* subscribe() and unsubscribe().                                          *)

Doing(u, op) == user[u].op = op
Step(u, op) == user' = [user EXCEPT ![u] = [@ EXCEPT !.op = op]]
Return(u) == user' = [user EXCEPT ![u] = Idle]
Raise(u) == Return(u)

\* subscribe() checks that the connection is there and waits for the lock.
Subscribe(u, k, h) ==
  /\ Doing(u, "idle") /\ conn # "down"
  /\ user' = [user EXCEPT ![u] =
                [op |-> "subscribe", key |-> k, handler |-> h, sid |-> 0]]
  /\ UNCHANGED <<connVars, subVars, queueVars, workVars, lock, owed>>

\* The lock is taken: nothing to wait for when the key has a subscription.
SubscribeToExisting(u) ==
  /\ Doing(u, "subscribe") /\ lock = None
  /\ LET s == subscriptions[user[u].key]
         h == user[u].handler
     IN  /\ s # 0
         /\ handlers' = IF h \in ToSet(handlers[s]) THEN handlers
                        ELSE [handlers EXCEPT ![s] = Append(@, h)]
  /\ Return(u)
  /\ UNCHANGED <<connVars, subscriptions, swapped, routed, active, sids, queueVars,
                 workVars, lock, owed>>

\* client.subscribe() raises when the connection drains or is closed.
SubscribeFails(u) ==
  /\ Doing(u, "subscribe") /\ lock = None
  /\ subscriptions[user[u].key] = 0
  /\ conn # "up"
  /\ Raise(u)
  /\ UNCHANGED <<connVars, subVars, queueVars, workVars, lock, owed>>

\* client.subscribe() has made subscription s, when it is the next one.
NewSubscription(u, s) ==
  /\ Doing(u, "subscribe") /\ lock = None /\ conn = "up"
  /\ subscriptions[user[u].key] = 0
  /\ s = sids + 1
  /\ sids' = s /\ active' = active \cup {s} /\ lock' = u

\* The shared queue has room for what subscription s received before it was swapped.
Fits(s) == Len(queue) + Len(own[s]) <= Limit

\* EventQueue.add() swaps the queue, moves what the old one holds and routes
\* the subscription; put_nowait() raises if the shared queue gets full, and the
\* entry and the rest of the old queue are nobody's then.
AddSubscription(u, s) ==
  /\ swapped' = swapped \cup {s}
  /\ LET moved == IF Fits(s) THEN own[s] ELSE SubSeq(own[s], 1, Limit - Len(queue)) IN
       /\ queue' = queue \o moved
       /\ unfinished' = unfinished + Len(moved)
  /\ own' = [own EXCEPT ![s] = <<>>]
  /\ IF Fits(s)
     THEN /\ handlers' = [handlers EXCEPT ![s] = <<user[u].handler>>]
          /\ routed' = routed \cup {s}
          /\ subscriptions' = [subscriptions EXCEPT ![user[u].key] = s]
          /\ owed' = owed \cup {<<m, user[u].handler>> :
                       m \in {x \in ToSet(queue') : x.sid = s /\ Wants(user[u].handler, x.id)}}
          /\ user' = [user EXCEPT ![u] = [@ EXCEPT !.op = "flush", !.sid = s]]
     ELSE /\ Raise(u)
          /\ UNCHANGED <<handlers, routed, subscriptions, owed>>

\* client.subscribe() returns without suspending.
SubscribeAtOnce(u, s) ==
  /\ NewSubscription(u, s) /\ AddSubscription(u, s)
  /\ UNCHANGED <<connVars, pending, arrived, workVars>>

\* client.subscribe() suspends after it made the subscription known.
SubscribeSuspends(u, s) ==
  /\ Suspends
  /\ NewSubscription(u, s)
  /\ user' = [user EXCEPT ![u] = [@ EXCEPT !.op = "subscribing", !.sid = s]]
  /\ UNCHANGED <<connVars, subscriptions, handlers, swapped, routed, queueVars,
                 workVars, owed>>

SubscribeResumes(u) ==
  /\ Doing(u, "subscribing")
  /\ AddSubscription(u, user[u].sid)
  /\ lock' = IF Fits(user[u].sid) THEN lock ELSE None
  /\ UNCHANGED <<connVars, active, sids, pending, arrived, workVars>>

\* The two flushes of _sync_subscriptions() end or raise; the lock is released.
Flushed(u) ==
  /\ Doing(u, "flush")
  /\ Return(u) /\ lock' = None
  /\ UNCHANGED <<connVars, subVars, queueVars, workVars, owed>>

\* unsubscribe() does nothing on a closed connection, else waits for the lock.
Unsubscribe(u, k, h) ==
  /\ Doing(u, "idle") /\ conn # "down"
  /\ user' = [user EXCEPT ![u] =
                [op |-> "unsubscribe", key |-> k, handler |-> h, sid |-> 0]]
  /\ UNCHANGED <<connVars, subVars, queueVars, workVars, lock, owed>>

\* h is among the handlers of subscription s, which there is.
Subscribed(s, h) == s \in Sid /\ h \in ToSet(handlers[s])

\* No call of h for subscription s is owed any more.
Forget(s, h) == owed' = {o \in owed : o[1].sid # s \/ o[2] # h}

\* subscription.unsubscribe() makes the client forget subscription s, before it
\* awaits anything; it raises when the connection drains or is closed.
RemoveSubscription(s) == active' = IF conn = "up" THEN active \ {s} ELSE active

\* Mutant of UnsubscribeHandler: `del self._subscriptions[key]' is missing.
UnsubscribeKeepsKey(u) ==
  /\ Doing(u, "unsubscribe") /\ lock = None
  /\ LET k == user[u].key
         h == user[u].handler
         s == subscriptions[k]
     IN  IF s = 0 \/ ~Subscribed(s, h)
         THEN Return(u) /\ UNCHANGED <<subVars, lock, owed>>
         ELSE /\ handlers' = [handlers EXCEPT ![s] = RemoveFirst(@, h)]
              /\ Forget(s, h)
              /\ UNCHANGED <<subscriptions, swapped, sids>>
              /\ IF handlers'[s] # <<>>
                 THEN Return(u) /\ UNCHANGED <<routed, active, lock>>
                 ELSE /\ routed' = routed \ {s} /\ RemoveSubscription(s)
                      /\ lock' = u
                      /\ user' = [user EXCEPT ![u] = [@ EXCEPT !.op = "unsubscribing", !.sid = s]]
  /\ UNCHANGED <<connVars, queueVars, workVars>>

\* The lock is taken: remove the handler; with the last one the subscription
\* goes too, and what the server has to be told of it is awaited.
UnsubscribeHandler(u) ==
  /\ Doing(u, "unsubscribe") /\ lock = None
  /\ LET k == user[u].key
         h == user[u].handler
         s == subscriptions[k]
     IN  IF s = 0 \/ ~Subscribed(s, h)
         THEN Return(u) /\ UNCHANGED <<subVars, lock, owed>>
         ELSE /\ handlers' = [handlers EXCEPT ![s] = RemoveFirst(@, h)]
              /\ Forget(s, h)
              /\ UNCHANGED <<swapped, sids>>
              /\ IF handlers'[s] # <<>>
                 THEN Return(u) /\ UNCHANGED <<subscriptions, routed, active, lock>>
                 ELSE /\ subscriptions' = [subscriptions EXCEPT ![k] = 0]
                      /\ routed' = routed \ {s} /\ RemoveSubscription(s)
                      /\ lock' = u
                      /\ user' = [user EXCEPT ![u] = [@ EXCEPT !.op = "unsubscribing", !.sid = s]]
  /\ UNCHANGED <<connVars, queueVars, workVars>>

\* subscription.unsubscribe() returns or raises; the lock is released.
Unsubscribed(u) ==
  /\ Doing(u, "unsubscribing")
  /\ Return(u) /\ lock' = None
  /\ UNCHANGED <<connVars, subVars, queueVars, workVars, owed>>

UserCalls(u) ==
  \E k \in Key, h \in Handler : Subscribe(u, k, h) \/ Unsubscribe(u, k, h)

UserResumes(u) ==
  \/ SubscribeToExisting(u) \/ SubscribeFails(u) \/ SubscribeResumes(u)
  \/ \E s \in Sid : SubscribeAtOnce(u, s) \/ SubscribeSuspends(u, s)
  \/ Flushed(u) \/ UnsubscribeHandler(u) \/ Unsubscribed(u)

-----------------------------------------------------------------------------
(* connect() and disconnect().                                             *)

\* connect() starts the worker; what a drain that gave up left in the queue
\* is still there.
Connect ==
  /\ conn = "down" /\ connects < MaxConnect
  /\ conn' = "up" /\ connects' = connects + 1 /\ timedOut' = FALSE
  /\ UNCHANGED <<joining, subVars, queueVars, workVars, userVars, owed>>

\* disconnect() forgets the subscriptions, which still get their messages, and
\* awaits client.drain(), which drains those the client has.
Disconnect ==
  /\ conn = "up"
  /\ conn' = "draining" /\ joining' = active
  /\ subscriptions' = [k \in Key |-> 0]
  /\ UNCHANGED <<connects, timedOut, handlers, swapped, routed, active, sids,
                 queueVars, workVars, userVars, owed>>

\* nats-py drains a subscription: the server sends it nothing any more.
SubscriptionDrained(s) ==
  /\ conn = "draining" /\ s \in active
  /\ active' = active \ {s}
  /\ UNCHANGED <<connVars, subscriptions, handlers, swapped, routed, sids,
                 queueVars, workVars, userVars, owed>>

\* The drain of a subscription is over when join() of its queue returns: of the
\* shared one, or of its own one when it suspended before EventQueue.add().
Joined(s) ==
  /\ conn = "draining" /\ s \in joining \ active
  /\ IF s \in swapped THEN unfinished = 0 ELSE own[s] = <<>>
  /\ joining' = joining \ {s}
  /\ UNCHANGED <<conn, connects, timedOut, subVars, queueVars, workVars, userVars, owed>>

\* Drain is over and EventQueue.stop() cancels the worker, whose `finally'
\* still counts the message it was handling.
Stop ==
  /\ conn' = "down" /\ joining' = {} /\ routed' = {} /\ active' = {}
  /\ current' = <<>> /\ todo' = <<>>
  /\ unfinished' = IF WorkerIdle THEN unfinished ELSE unfinished - 1
  /\ UNCHANGED <<connects, subscriptions, handlers, swapped, sids, own, queue,
                 pending, arrived, handled, calls, userVars>>

\* Mutant of Drained: EventQueue.stop() comes before the drain.
StoppedFirst ==
  /\ conn = "draining"
  /\ Stop
  /\ UNCHANGED <<timedOut, owed>>

\* client.drain() returns when the drain of every subscription it found is over;
\* with none left it found nothing to wait for, whatever the worker is at.
Drained ==
  /\ conn = "draining" /\ joining = {}
  /\ Stop
  /\ UNCHANGED <<timedOut, owed>>

\* client.drain() gives up on handlers that run too long; their calls are lost.
DrainTimesOut ==
  /\ conn = "draining" /\ joining # {}
  /\ Stop
  /\ timedOut' = TRUE /\ owed' = {}

Quiet ==
  /\ conn = "down" /\ connects = MaxConnect
  /\ \A u \in User : Doing(u, "idle")
  /\ UNCHANGED vars

Next ==
  \/ \E s \in Sid : Arrive(s) \/ SubscriptionDrained(s) \/ Joined(s)
  \/ Worker
  \/ \E u \in User : UserCalls(u) \/ UserResumes(u)
  \/ Connect \/ Disconnect \/ Drained \/ DrainTimesOut \/ Quiet

\* The loop runs what is ready, handlers end and the server answers; nobody
\* has to call anything, no message has to come.
Fairness ==
  /\ WF_vars(Worker)
  /\ \A u \in User : WF_vars(UserResumes(u))
  /\ WF_vars(\E s \in Sid : SubscriptionDrained(s) \/ Joined(s)) /\ WF_vars(Drained)

Spec == Init /\ [][Next]_vars
FairSpec == Spec /\ Fairness

-----------------------------------------------------------------------------
(* Properties.                                                             *)

\* Every variable has its type.
TypeOK ==
  /\ conn \in {"down", "up", "draining"} /\ timedOut \in BOOLEAN
  /\ connects \in 0 .. MaxConnect /\ sids \in 0 .. MaxSid /\ arrived \in 0 .. MaxMsg
  /\ subscriptions \in [Key -> 0 .. MaxSid]
  /\ handlers \in [Sid -> Seq(Handler)]
  /\ swapped \subseteq Sid /\ routed \subseteq Sid /\ active \subseteq Sid
  /\ joining \subseteq Sid
  /\ own \in [Sid -> Seq(Msg)] /\ queue \in Seq(Msg)
  /\ unfinished \in Nat /\ pending \in [Sid -> Nat]
  /\ current \in Seq(Msg) /\ Len(current) <= 1
  /\ todo \in Seq(Handler) /\ handled \in Seq(Id)
  /\ calls \in Seq(Id \X Handler) /\ owed \subseteq Msg \X Handler
  /\ user \in [User -> [op : {"idle", "subscribe", "subscribing", "flush",
                               "unsubscribe", "unsubscribing"},
                        key : Key \cup {None}, handler : Handler \cup {None},
                        sid : 0 .. MaxSid]]
  /\ lock \in User \cup {None}

\* The events of all subscriptions are handled one by one as they arrived.
Ordered == INSTANCE OrderedEvents WITH
  Ids <- Id,
  waiting <- [i \in 1 .. Len(queue) |-> queue[i].id],
  working <- ~WorkerIdle
HandledInOrder == Ordered!Spec

\* A handler that was subscribed when a message arrived, and still is, gets it:
\* the call it is owed waits in the queue or in the snapshot being worked off.
NothingLost ==
  \A o \in owed :
    \/ o[1] \in ToSet(queue)
    \/ ~WorkerIdle /\ o[1] = current[1] /\ o[2] \in ToSet(Tail(todo))

\* No handler is called twice with one message, however often it is
\* unsubscribed and subscribed again meanwhile.
CalledAtMostOnce == IsInjective(calls)

\* The two counts nats-py relies on are right across moved, dropped and handled
\* messages.  What Subscription.drain() waits for is what is left to do: join()
\* neither returns early nor waits for ever.  The count of a subscription's waiting
\* messages is theirs; when it drifts, the subscription is one day taken for a slow
\* consumer for ever.
CountsRight ==
  /\ unfinished = Len(queue) + Len(current)
  /\ \A s \in routed : pending[s] = Cardinality({i \in DOMAIN queue : queue[i].sid = s})

\* disconnect() that ends in time has made every call that was owed: a handler that is
\* subscribed gets all messages accepted before, and EventQueue.stop() cuts short only
\* the handling of a message whose handlers were all unsubscribed meanwhile.
NothingOwedWhenClosed ==
  [][conn = "draining" /\ conn' = "down" /\ ~timedOut' =>
       /\ owed = {}
       /\ WorkerIdle \/ handlers[current[1].sid] = <<>>]_vars

\* Said of disconnect(): it finishes what is in flight, so it cuts no handler short
\* unless it runs out of time.
HandlersFinish ==
  [][conn = "draining" /\ conn' = "down" /\ ~timedOut' => WorkerIdle]_vars

\* A subscription that subscribe() would join another handler to is alive: the
\* worker knows it and the server sends it messages.
EntryAlive ==
  \A k \in Key : conn = "up" /\ subscriptions[k] # 0 =>
    /\ subscriptions[k] \in routed \cap active
    /\ handlers[subscriptions[k]] # <<>>

\* disconnect() ends.
DrainEnds == conn = "draining" ~> conn = "down"

\* Said of EventQueue: events are handled in the order they arrived.
InOrder == \A i, j \in DOMAIN handled : i < j => handled[i] < handled[j]

=============================================================================
